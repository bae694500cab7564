------------------------------- MODULE Wallet -------------------------------
(***************************************************************************)
(* apps/api/src/server/modules/wallet/service.ts: the operations on        *)
(* points, run by concurrent request handlers as PostgreSQL READ COMMITTED *)
(* transactions.  One action is one statement (or a group of statements    *)
(* nothing can interleave with): look the idempotency key up, lock the     *)
(* account row, write, commit.  Writes are private until Commit; a         *)
(* transaction may fail before any of its steps and then leaves nothing.   *)
(***************************************************************************)
EXTENDS Integers, Sequences

CONSTANTS Users, Keys, Admins,
          Procs,        \* request handlers and background jobs
          Jobs,         \* the calls they may make
          NoProc, NoAdmin,
          MaxCalls      \* bound: calls one process makes

Kinds == {"credit", "consume", "refund", "adjust"}

(* A call: `of' is the key whose consumption a refund gives back (callers  *)
(* derive both keys from the same attempt), `by' the administrator and the *)
(* reason an adjustment names.                                             *)
JobType == [kind : Kinds, user : Users, key : Keys, of : Keys,
            amount : Int, by : Admins \cup {NoAdmin}]

ASSUME JobsAssumption ==
  /\ Jobs \subseteq JobType /\ Jobs # {}
  /\ \A j \in Jobs : IF j.kind = "adjust" THEN j.by \in Admins
                                          ELSE j.by = NoAdmin /\ j.amount > 0
\* Callers name a consumption and its refund after the same attempt and amount:
\* consume_<message>_<attempt> and refund_<message>_<attempt> (stream-runner).
ASSUME RefundsAssumption ==
  \A j \in Jobs : j.kind = "refund" =>
    /\ \A c \in Jobs : c.key = j.of => c.kind = "consume" /\ c.user = j.user /\ c.amount = j.amount
    /\ \A i \in Jobs : i.kind = "refund" => (i.of = j.of <=> i.key = j.key)
ASSUME NamesAssumption == NoProc \notin Procs /\ NoAdmin \notin Admins
ASSUME BoundAssumption == MaxCalls \in Nat

VARIABLES created,      \* which users have a wallet_accounts row
          balance, recharged, consumed,   \* its balance_points, total_*_points
          ledger,       \* committed wallet_transactions of each user, in order
          audit,        \* admin_audit_logs.result of each adjustment key
          rowLock,      \* holder of each account row (FOR UPDATE, or inserted)
          keyLock,      \* holder of each key's advisory lock (adjustments)
          pc, job,      \* the statement each process is about to run, its call
          seen,         \* the account row it read
          reply,        \* what its last call returned
          calls

account == <<created, balance, recharged, consumed, ledger>>
locks == <<rowLock, keyLock>>
vars == <<account, audit, locks, pc, job, seen, reply, calls>>

InTransaction == {"keylock", "check", "lock", "recheck", "write", "commit"}
NoReply == [status |-> "none", after |-> 0]
Ok(after) == [status |-> "ok", after |-> after]
Error == [status |-> "error", after |-> 0]

-----------------------------------------------------------------------------
\* What a call reads and what it writes.

Posted(k) == \E u \in Users : \E i \in DOMAIN ledger[u] : ledger[u][i].key = k

\* The stored row type: a refund is stored as an 'adjust' row with no admin.
\* (Mutant: a type for every kind of call, which the column does not have.)
RowTypeByKind(j) == j.kind
RowType(j) == CASE j.kind = "credit"  -> "recharge"
                [] j.kind = "consume" -> "consume"
                [] OTHER              -> "adjust"

Posting(j) == [user |-> j.user, type |-> RowType(j), key |-> j.key,
               amount |-> j.amount, by |-> j.by]

Delta(j) == IF j.kind = "consume" THEN -j.amount ELSE j.amount

NewRow(j, s) == [type |-> RowType(j), key |-> j.key, amount |-> j.amount,
                 by |-> j.by, after |-> s.balance + Delta(j)]

NewRecharged(j, s) == IF j.kind = "credit" THEN s.recharged + j.amount ELSE s.recharged

\* Mutant: a refund leaves total_consumed_points alone.
NewConsumedGrows(j, s) == IF j.kind = "consume" THEN s.consumed + j.amount ELSE s.consumed
NewConsumed(j, s) ==
  CASE j.kind = "consume" -> s.consumed + j.amount
    [] j.kind = "refund"  -> IF s.consumed > j.amount THEN s.consumed - j.amount ELSE 0
    [] OTHER              -> s.consumed

\* A credit or a positive adjustment creates the account; others need one.
Creates(j) == j.kind = "credit" \/ (j.kind = "adjust" /\ j.amount > 0)

\* Only a consumption and an adjustment compare with the balance.
\* (Mutant: nothing does.)
AlwaysAffordable(j, s) == TRUE
Affordable(j, s) == j.kind \in {"consume", "adjust"} => s.balance + Delta(j) >= 0

\* An adjustment replays only onto a row with the same user, amount and author.
SameAdjustment(j, u, row) == u = j.user /\ row.amount = j.amount /\ row.by = j.by

-----------------------------------------------------------------------------
Init == /\ created = [u \in Users |-> FALSE]
        /\ balance = [u \in Users |-> 0]
        /\ recharged = [u \in Users |-> 0]
        /\ consumed = [u \in Users |-> 0]
        /\ ledger = [u \in Users |-> <<>>]
        /\ audit = [k \in Keys |-> "none"]
        /\ rowLock = [u \in Users |-> NoProc]
        /\ keyLock = [k \in Keys |-> NoProc]
        /\ pc = [p \in Procs |-> "idle"]
        /\ job = [p \in Procs |-> CHOOSE j \in Jobs : TRUE]
        /\ seen = [p \in Procs |-> [balance |-> 0, recharged |-> 0, consumed |-> 0]]
        /\ reply = [p \in Procs |-> NoReply]
        /\ calls = [p \in Procs |-> 0]

\* Mutant: a session-level advisory lock outlives the transaction.
ReleaseRowLock(p) ==
  /\ rowLock' = [u \in Users |-> IF rowLock[u] = p THEN NoProc ELSE rowLock[u]]
  /\ UNCHANGED keyLock
ReleaseLocks(p) ==
  /\ rowLock' = [u \in Users |-> IF rowLock[u] = p THEN NoProc ELSE rowLock[u]]
  /\ keyLock' = [k \in Keys |-> IF keyLock[k] = p THEN NoProc ELSE keyLock[k]]

\* The transaction of p ends, answering r.
End(p, next, r) ==
  /\ ReleaseLocks(p)
  /\ pc' = [pc EXCEPT ![p] = next]
  /\ reply' = [reply EXCEPT ![p] = r]

Goto(p, next) == pc' = [pc EXCEPT ![p] = next] /\ UNCHANGED reply

\* Mutant: the intent is not written.
NoIntent(k) == UNCHANGED audit
\* recordIntent: insert on conflict do nothing.
AuditIntent(k) == audit' = [audit EXCEPT ![k] = IF @ = "none" THEN "audit_pending" ELSE @]

-----------------------------------------------------------------------------
(* A handler starts a call.  The chat code refunds a key only after the    *)
(* consumption it gives back committed (stream-runner and recovery).       *)
Begin(p, j) ==
  /\ pc[p] = "idle" /\ calls[p] < MaxCalls
  /\ j.kind = "refund" => Posted(j.of)
  /\ job' = [job EXCEPT ![p] = j]
  /\ calls' = [calls EXCEPT ![p] = @ + 1]
  /\ reply' = [reply EXCEPT ![p] = NoReply]
  /\ pc' = [pc EXCEPT ![p] = IF j.kind = "adjust" THEN "keylock" ELSE "check"]
  /\ UNCHANGED <<account, audit, locks, seen>>

\* getBalance reads through getOrCreateWallet, in a transaction of its own.
OpenWallet(u) ==
  /\ rowLock[u] = NoProc
  /\ created' = [created EXCEPT ![u] = TRUE]
  /\ UNCHANGED <<balance, recharged, consumed, ledger, audit, locks, pc, job, seen, reply, calls>>

KeyUnlocked(k) == keyLock[k] = NoProc

\* pg_advisory_xact_lock on the key of an adjustment.
LockKey(p) ==
  /\ pc[p] = "keylock" /\ KeyUnlocked(job[p].key)
  /\ keyLock' = [keyLock EXCEPT ![job[p].key] = p]
  /\ Goto(p, "check")
  /\ UNCHANGED <<account, audit, rowLock, job, seen, calls>>

\* No committed row has the key: go on (an adjustment looks twice).
KeyIsNew(p) ==
  /\ pc[p] \in {"check", "recheck"} /\ ~Posted(job[p].key)
  /\ Goto(p, IF pc[p] = "check" THEN "lock" ELSE "write")
  /\ UNCHANGED <<account, audit, locks, job, seen, calls>>

\* Mutant: a replay answers the balance of now.
AnswerBalance(u, row) == Ok(balance[u])
\* A replay answers what the first call answered.
Recorded(u, row) == Ok(row.after)

\* The key is there: answer its row; an adjustment first compares it.
Replay(p) ==
  /\ pc[p] \in {"check", "recheck"}
  /\ \E u \in Users : \E i \in DOMAIN ledger[u] :
       LET j == job[p]
           row == ledger[u][i]
       IN /\ row.key = j.key
          /\ \/ /\ j.kind # "adjust"
                /\ End(p, "idle", Recorded(u, row))
                /\ UNCHANGED audit
             \/ /\ j.kind = "adjust" /\ SameAdjustment(j, u, row)
                /\ End(p, "finalize", Recorded(u, row))
                /\ AuditIntent(j.key)
             \/ /\ j.kind = "adjust" /\ ~SameAdjustment(j, u, row)
                /\ End(p, "idle", Error)
                /\ UNCHANGED audit
  /\ UNCHANGED <<account, job, seen, calls>>

\* Mutant: select without FOR UPDATE.
NoRowLock(u) == TRUE
RowFree(u) == rowLock[u] = NoProc

(* Lock the account row and read it.  A reader does not see, nor wait for, *)
(* a row another transaction has inserted and not committed.               *)
LockAccount(p) ==
  LET j == job[p] IN
  /\ pc[p] = "lock"
  /\ created[j.user] \/ Creates(j)
  /\ RowFree(j.user)
  /\ rowLock' = [rowLock EXCEPT ![j.user] = p]
  /\ seen' = [seen EXCEPT ![p] = [balance |-> balance[j.user],
                                  recharged |-> recharged[j.user],
                                  consumed |-> consumed[j.user]]]
  /\ Goto(p, IF j.kind = "adjust" THEN "recheck" ELSE "write")
  /\ UNCHANGED <<account, audit, keyLock, job, calls>>

\* 'Wallet account not found'.
NoAccount(p) ==
  /\ pc[p] = "lock" /\ ~created[job[p].user] /\ ~Creates(job[p])
  /\ End(p, "idle", Error)
  /\ UNCHANGED <<account, audit, job, seen, calls>>

\* No committed row has the key, and the insert need not wait for another's.
KeyFree(k) == ~Posted(k) /\ \A q \in Procs : pc[q] = "commit" => job[q].key # k

\* Update the account and insert the row, in the transaction.
Write(p) ==
  /\ pc[p] = "write"
  /\ Affordable(job[p], seen[p])
  /\ KeyFree(job[p].key)
  /\ Goto(p, "commit")
  /\ UNCHANGED <<account, audit, locks, job, seen, calls>>

\* 'Insufficient balance', or the unique index on idempotency_key refuses.
Refuse(p) ==
  /\ pc[p] = "write"
  /\ ~Affordable(job[p], seen[p]) \/ Posted(job[p].key)
  /\ End(p, "idle", Error)
  /\ UNCHANGED <<account, audit, job, seen, calls>>

Commit(p) ==
  LET j == job[p]
      s == seen[p]
  IN
  /\ pc[p] = "commit"
  /\ created' = [created EXCEPT ![j.user] = TRUE]
  /\ balance' = [balance EXCEPT ![j.user] = s.balance + Delta(j)]
  /\ recharged' = [recharged EXCEPT ![j.user] = NewRecharged(j, s)]
  /\ consumed' = [consumed EXCEPT ![j.user] = NewConsumed(j, s)]
  /\ ledger' = [ledger EXCEPT ![j.user] = Append(@, NewRow(j, s))]
  /\ IF j.kind = "adjust" THEN AuditIntent(j.key) ELSE UNCHANGED audit
  /\ End(p, IF j.kind = "adjust" THEN "finalize" ELSE "idle", Ok(s.balance + Delta(j)))
  /\ UNCHANGED <<job, seen, calls>>

\* The connection or the process dies before the commit: rolled back.
Abort(p) ==
  /\ pc[p] \in InTransaction
  /\ End(p, "idle", Error)
  /\ UNCHANGED <<account, audit, job, seen, calls>>

\* The adjustment route marks the audit row committed, after the transaction.
FinalizeAudit(p) ==
  /\ pc[p] = "finalize"
  /\ audit' = [audit EXCEPT ![job[p].key] = "committed"]
  /\ Goto(p, "idle")
  /\ UNCHANGED <<account, locks, job, seen, calls>>

\* That update fails or the process dies: 503 admin_audit_pending.
LoseFinalize(p) ==
  /\ pc[p] = "finalize"
  /\ Goto(p, "idle")
  /\ UNCHANGED <<account, audit, locks, job, seen, calls>>

Step(p) ==
  \/ LockKey(p) \/ KeyIsNew(p) \/ Replay(p) \/ LockAccount(p) \/ NoAccount(p)
  \/ Write(p) \/ Refuse(p) \/ Commit(p) \/ FinalizeAudit(p)

Next ==
  \/ \E p \in Procs : \/ \E j \in Jobs : Begin(p, j)
                      \/ Step(p) \/ Abort(p) \/ LoseFinalize(p)
  \/ \E u \in Users : OpenWallet(u)

Spec == Init /\ [][Next]_vars

-----------------------------------------------------------------------------
\* Properties.

Totals == [balance : Int, recharged : Int, consumed : Int]
RowRecord == [type : {"recharge", "consume", "adjust"}, key : Keys, amount : Int,
              by : Admins \cup {NoAdmin}, after : Int]

\* Every variable holds a value of its column or local variable.
TypeOK ==
  /\ created \in [Users -> BOOLEAN]
  /\ balance \in [Users -> Int] /\ recharged \in [Users -> Int] /\ consumed \in [Users -> Int]
  /\ ledger \in [Users -> Seq(RowRecord)]
  /\ audit \in [Keys -> {"none", "audit_pending", "committed"}]
  /\ rowLock \in [Users -> Procs \cup {NoProc}]
  /\ keyLock \in [Keys -> Procs \cup {NoProc}]
  /\ pc \in [Procs -> {"idle", "finalize"} \cup InTransaction]
  /\ job \in [Procs -> Jobs]
  /\ seen \in [Procs -> Totals]
  /\ reply \in [Procs -> [status : {"none", "ok", "error"}, after : Int]]
  /\ calls \in [Procs -> 0..MaxCalls]

(* The rows of a user, in commit order, lead from 0 to the balance column  *)
(* one signed amount at a time: no update is lost between two handlers     *)
(* that read the account, and no row lies about the balance it left.       *)
Before(u, i) == IF i = 1 THEN 0 ELSE ledger[u][i - 1].after
Latest(u) == IF ledger[u] = <<>> THEN 0 ELSE ledger[u][Len(ledger[u])].after
SignedAmount(row) == IF row.type = "consume" THEN -row.amount ELSE row.amount

LedgerExplainsBalance ==
  \A u \in Users :
    /\ balance[u] = Latest(u)
    /\ \A i \in DOMAIN ledger[u] : ledger[u][i].after = Before(u, i) + SignedAmount(ledger[u][i])

\* However often and by whomever a key is retried, it moves points once.
KeyPostedOnce ==
  \A u, v \in Users : \A i \in DOMAIN ledger[u], k \in DOMAIN ledger[v] :
    ledger[u][i].key = ledger[v][k].key => u = v /\ i = k

(* The totals columns agree with the balance: points held are points       *)
(* recharged, minus points consumed net of refunds, plus the adjustments   *)
(* of administrators.  Clamping total_consumed_points at 0 would break it. *)
SumTo(a, n) ==
  LET sum[i \in 0..n] == IF i = 0 THEN 0 ELSE sum[i - 1] + a[i]
  IN sum[n]

Adjusted(row) == IF row.by = NoAdmin THEN 0 ELSE row.amount
AdjustedPoints(u) ==
  SumTo([i \in 1..Len(ledger[u]) |-> Adjusted(ledger[u][i])], Len(ledger[u]))

TotalsExplainBalance ==
  \A u \in Users : balance[u] = recharged[u] - consumed[u] + AdjustedPoints(u)

(* What a call answered is what the ledger records under its key, also for *)
(* a replay after others moved the balance on.                             *)
ReplyIsRecorded ==
  \A p \in Procs : reply[p].status = "ok" =>
    \E u \in Users : \E i \in DOMAIN ledger[u] :
      ledger[u][i].key = job[p].key /\ ledger[u][i].after = reply[p].after

(* An adjustment and the record of who made it commit together: no         *)
(* adjusted points without an audit row, no audit row for a rollback.      *)
AuditMatchesLedger ==
  \A k \in Keys :
    audit[k] # "none" <=>
      \E u \in Users : \E i \in DOMAIN ledger[u] :
        ledger[u][i].key = k /\ ledger[u][i].by # NoAdmin

\* The module behaves as a ledger whose postings are atomic.
Promise == INSTANCE Ledger WITH Postings <- {Posting(j) : j \in Jobs}, book <- ledger
PromiseSpec == Promise!Spec

\* The statements that wait: an adjustment for its key's lock, a call for the row
\* of its account, an insert for another transaction's row with its key.
Waits(p) ==
  LET j == job[p] IN
  \/ pc[p] = "keylock" /\ ~KeyUnlocked(j.key)
  \/ pc[p] = "lock" /\ (created[j.user] \/ Creates(j)) /\ ~RowFree(j.user)
  \/ pc[p] = "write" /\ Affordable(j, seen[p]) /\ ~Posted(j.key) /\ ~KeyFree(j.key)

\* Calls under way never all wait for each other: a lock is never left behind by a
\* transaction that ended, and no two calls take the locks in opposite orders.
SomeCallGoesOn ==
  LET underWay == {p \in Procs : pc[p] # "idle"}
  IN underWay # {} => \E p \in underWay : ~Waits(p)
=============================================================================
