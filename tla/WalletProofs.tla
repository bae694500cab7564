---------------------------- MODULE WalletProofs ----------------------------
(***************************************************************************)
(* Safety of Wallet for every set of users, keys, calls and processes.     *)
(***************************************************************************)
EXTENDS Wallet, WellFoundedInduction, TLAPS

Holding == {"recheck", "write", "commit"}

\* The process in the middle of a change holds the row it is changing.
HoldsRow == \A p \in Procs : pc[p] \in Holding => rowLock[job[p].user] = p

\* So what it read is still what is there.
SeenIsCurrent ==
  \A p \in Procs : pc[p] \in Holding =>
    seen[p] = [balance   |-> balance[job[p].user],
               recharged |-> recharged[job[p].user],
               consumed  |-> consumed[job[p].user]]

\* A written row may commit: it is affordable and its key is nobody else's.
MayCommit ==
  \A p \in Procs : pc[p] = "commit" =>
    /\ Affordable(job[p], seen[p])
    /\ ~Posted(job[p].key)
    /\ \A q \in Procs \ {p} : pc[q] = "commit" => job[q].key # job[p].key

NeverOverdrawn == \A u \in Users : balance[u] >= 0

HasAdjustment(k) ==
  \E u \in Users : \E i \in DOMAIN ledger[u] : ledger[u][i].key = k /\ ledger[u][i].by # NoAdmin

\* A finished adjustment left its row before its audit row is marked.
FinalizesAdjustment == \A p \in Procs : pc[p] = "finalize" => HasAdjustment(job[p].key)

LockInv == HoldsRow /\ SeenIsCurrent /\ MayCommit

-----------------------------------------------------------------------------
\* Every value stays in its type.

LEMMA JobFacts ==
  ASSUME NEW j \in Jobs
  PROVE  /\ j \in JobType
         /\ j.user \in Users /\ j.key \in Keys /\ j.amount \in Int /\ j.kind \in Kinds
         /\ j.by \in Admins \cup {NoAdmin}
         /\ j.kind = "adjust" => j.by \in Admins
         /\ j.kind # "adjust" => j.by = NoAdmin /\ j.amount > 0
BY JobsAssumption DEF JobType

LEMMA WriteFacts ==
  ASSUME NEW j \in Jobs, NEW s \in Totals
  PROVE  /\ Delta(j) \in Int
         /\ NewRow(j, s) \in RowRecord
         /\ NewRecharged(j, s) \in Int /\ NewConsumed(j, s) \in Int
<1>1. Delta(j) \in Int
  BY JobFacts DEF Delta
<1>2. RowType(j) \in {"recharge", "consume", "adjust"}
  BY DEF RowType
<1>3. s.balance \in Int /\ s.recharged \in Int /\ s.consumed \in Int
  BY DEF Totals
<1>4. NewRow(j, s) \in RowRecord
  BY <1>1, <1>2, <1>3, JobFacts DEF NewRow, RowRecord
<1>5. NewRecharged(j, s) \in Int
  BY <1>3, JobFacts DEF NewRecharged
<1>6. NewConsumed(j, s) \in Int
  BY <1>3, JobFacts DEF NewConsumed
<1> QED BY <1>1, <1>4, <1>5, <1>6

\* Type correctness of the wallet state.
THEOREM WalletTypeOK == Spec => []TypeOK
<1> USE DEF TypeOK, InTransaction, Totals
<1>1. Init => TypeOK
  <2> SUFFICES ASSUME Init PROVE TypeOK
    OBVIOUS
  <2>1. (CHOOSE j \in Jobs : TRUE) \in Jobs
    BY JobsAssumption
  <2> QED BY <2>1, BoundAssumption DEF Init, NoReply
<1>2. TypeOK /\ [Next]_vars => TypeOK'
  <2> SUFFICES ASSUME TypeOK, [Next]_vars PROVE TypeOK'
    OBVIOUS
  <2> USE DEF account, locks, Goto, End, ReleaseLocks, Ok, Error, NoReply, AuditIntent
  <2>1. ASSUME NEW p \in Procs, NEW j \in Jobs, Begin(p, j) PROVE TypeOK'
    BY <2>1, BoundAssumption DEF Begin
  <2>2. ASSUME NEW u \in Users, OpenWallet(u) PROVE TypeOK'
    BY <2>2 DEF OpenWallet
  <2>3. ASSUME NEW p \in Procs, LockKey(p) PROVE TypeOK'
    BY <2>3, JobFacts DEF LockKey
  <2>4. ASSUME NEW p \in Procs, KeyIsNew(p) PROVE TypeOK'
    BY <2>4 DEF KeyIsNew
  <2>5. ASSUME NEW p \in Procs, Replay(p) PROVE TypeOK'
    <3>1. PICK u \in Users : \E i \in DOMAIN ledger[u] :
             LET j == job[p]
                 row == ledger[u][i]
             IN /\ row.key = j.key
                /\ \/ End(p, "idle", Ok(row.after)) /\ UNCHANGED audit
                   \/ End(p, "finalize", Ok(row.after)) /\ AuditIntent(j.key)
                   \/ End(p, "idle", Error) /\ UNCHANGED audit
      BY <2>5 DEF Replay, Recorded
    <3>2. PICK i \in DOMAIN ledger[u] :
             LET row == ledger[u][i] IN
             \/ End(p, "idle", Ok(row.after)) /\ UNCHANGED audit
             \/ End(p, "finalize", Ok(row.after)) /\ AuditIntent(job[p].key)
             \/ End(p, "idle", Error) /\ UNCHANGED audit
      BY <3>1
    <3>3. ledger[u][i].after \in Int
      <4>1. ledger[u] \in Seq(RowRecord)
        OBVIOUS
      <4>2. ledger[u][i] \in RowRecord
        BY <4>1
      <4> QED BY <4>2 DEF RowRecord
    <3>4. UNCHANGED <<account, job, seen, calls>>
      BY <2>5 DEF Replay, Recorded
    <3>5. audit' \in [Keys -> {"none", "audit_pending", "committed"}]
      BY <3>2
    <3>6. /\ rowLock' \in [Users -> Procs \cup {NoProc}]
          /\ keyLock' \in [Keys -> Procs \cup {NoProc}]
      BY <3>2
    <3>7. pc' \in [Procs -> {"idle", "finalize"} \cup InTransaction]
      BY <3>2
    <3>8. reply' \in [Procs -> [status : {"none", "ok", "error"}, after : Int]]
      <4>1. /\ Ok(ledger[u][i].after) \in [status : {"none", "ok", "error"}, after : Int]
            /\ Error \in [status : {"none", "ok", "error"}, after : Int]
        BY <3>3
      <4>2. \/ reply' = [reply EXCEPT ![p] = Ok(ledger[u][i].after)]
            \/ reply' = [reply EXCEPT ![p] = Error]
        BY <3>2
      <4> QED BY <4>1, <4>2
    <3> QED BY <3>4, <3>5, <3>6, <3>7, <3>8
  <2>6. ASSUME NEW p \in Procs, LockAccount(p) PROVE TypeOK'
    BY <2>6, JobFacts DEF LockAccount
  <2>7. ASSUME NEW p \in Procs, NoAccount(p) PROVE TypeOK'
    BY <2>7 DEF NoAccount
  <2>8. ASSUME NEW p \in Procs, Write(p) PROVE TypeOK'
    BY <2>8 DEF Write
  <2>9. ASSUME NEW p \in Procs, Refuse(p) PROVE TypeOK'
    BY <2>9 DEF Refuse
  <2>10. ASSUME NEW p \in Procs, Commit(p) PROVE TypeOK'
    <3> DEFINE j == job[p]
               s == seen[p]
    <3>1. j \in Jobs /\ s \in Totals /\ j.user \in Users
      BY JobFacts
    <3>2. /\ Delta(j) \in Int /\ s.balance \in Int /\ NewRow(j, s) \in RowRecord
          /\ NewRecharged(j, s) \in Int /\ NewConsumed(j, s) \in Int
      BY <3>1, WriteFacts
    <3>3. /\ created' \in [Users -> BOOLEAN]
          /\ balance' \in [Users -> Int] /\ recharged' \in [Users -> Int]
          /\ consumed' \in [Users -> Int]
      BY <2>10, <3>1, <3>2 DEF Commit
    <3>4. ledger' \in [Users -> Seq(RowRecord)]
      BY <2>10, <3>1, <3>2 DEF Commit
    <3>5. audit' \in [Keys -> {"none", "audit_pending", "committed"}]
      <4>1. audit' = audit \/ AuditIntent(j.key)
        BY <2>10 DEF Commit
      <4> QED BY <4>1
    <3>6. /\ rowLock' \in [Users -> Procs \cup {NoProc}]
          /\ keyLock' \in [Keys -> Procs \cup {NoProc}]
      BY <2>10 DEF Commit
    <3>7. pc' \in [Procs -> {"idle", "finalize"} \cup InTransaction]
      BY <2>10 DEF Commit
    <3>8. reply' \in [Procs -> [status : {"none", "ok", "error"}, after : Int]]
      BY <2>10, <3>2 DEF Commit
    <3> QED BY <2>10, <3>3, <3>4, <3>5, <3>6, <3>7, <3>8 DEF Commit
  <2>11. ASSUME NEW p \in Procs, Abort(p) PROVE TypeOK'
    BY <2>11 DEF Abort
  <2>12. ASSUME NEW p \in Procs, FinalizeAudit(p) PROVE TypeOK'
    BY <2>12 DEF FinalizeAudit
  <2>13. ASSUME NEW p \in Procs, LoseFinalize(p) PROVE TypeOK'
    BY <2>13 DEF LoseFinalize
  <2>14. CASE UNCHANGED vars
    BY <2>14 DEF vars
  <2> QED BY <2>1, <2>2, <2>3, <2>4, <2>5, <2>6, <2>7, <2>8, <2>9, <2>10, <2>11, <2>12,
             <2>13, <2>14 DEF Next, Step
<1> QED BY <1>1, <1>2, PTL DEF Spec

-----------------------------------------------------------------------------
\* What appending a row does to the set of posted keys.

LEMMA AppendFacts ==
  ASSUME TypeOK, NEW u \in Users, NEW r \in RowRecord,
         ledger' = [ledger EXCEPT ![u] = Append(@, r)]
  PROVE  /\ \A v \in Users \ {u} : ledger'[v] = ledger[v]
         /\ Len(ledger[u]) \in Nat /\ DOMAIN ledger[u] = 1..Len(ledger[u])
         /\ Len(ledger'[u]) = Len(ledger[u]) + 1
         /\ DOMAIN ledger'[u] = 1..(Len(ledger[u]) + 1)
         /\ \A i \in DOMAIN ledger[u] : ledger'[u][i] = ledger[u][i]
         /\ ledger'[u][Len(ledger[u]) + 1] = r
<1>1. ledger[u] \in Seq(RowRecord) /\ ledger'[u] = Append(ledger[u], r)
  BY DEF TypeOK
<1>2. \A v \in Users \ {u} : ledger'[v] = ledger[v]
  BY DEF TypeOK
<1> QED BY <1>1, <1>2

LEMMA PostedAfterAppend ==
  ASSUME TypeOK, NEW u \in Users, NEW r \in RowRecord,
         ledger' = [ledger EXCEPT ![u] = Append(@, r)], NEW k
  PROVE  Posted(k)' <=> Posted(k) \/ k = r.key
<1> DEFINE n == Len(ledger[u]) + 1
<1>0. /\ \A v \in Users \ {u} : ledger'[v] = ledger[v]
      /\ n \in Nat /\ n > 0 /\ DOMAIN ledger[u] = 1..(n - 1) /\ DOMAIN ledger'[u] = 1..n
      /\ \A i \in DOMAIN ledger[u] : ledger'[u][i] = ledger[u][i]
      /\ ledger'[u][n] = r
  <2>1. /\ \A v \in Users \ {u} : ledger'[v] = ledger[v]
        /\ Len(ledger[u]) \in Nat /\ DOMAIN ledger[u] = 1..Len(ledger[u])
        /\ DOMAIN ledger'[u] = 1..(Len(ledger[u]) + 1)
        /\ \A i \in DOMAIN ledger[u] : ledger'[u][i] = ledger[u][i]
        /\ ledger'[u][Len(ledger[u]) + 1] = r
    BY AppendFacts
  <2>2. n - 1 = Len(ledger[u]) /\ n \in Nat /\ n > 0
    BY <2>1
  <2> QED BY <2>1, <2>2
<1> HIDE DEF n
<1>1. ASSUME Posted(k)' PROVE Posted(k) \/ k = r.key
  <2>1. PICK v \in Users : \E i \in DOMAIN ledger'[v] : ledger'[v][i].key = k
    BY <1>1 DEF Posted
  <2>2. CASE v # u
    BY <2>1, <2>2, <1>0 DEF Posted
  <2>3. CASE v = u
    <3>1. PICK i \in 1..n : ledger'[u][i].key = k
      BY <2>1, <2>3, <1>0
    <3>2. CASE i = n
      BY <3>1, <3>2, <1>0
    <3>3. CASE i # n
      <4>1. i \in DOMAIN ledger[u]
        BY <3>3, <1>0
      <4> QED BY <3>1, <4>1, <1>0 DEF Posted
    <3> QED BY <3>2, <3>3
  <2> QED BY <2>2, <2>3
<1>2. ASSUME Posted(k) PROVE Posted(k)'
  <2>1. PICK v \in Users : \E i \in DOMAIN ledger[v] : ledger[v][i].key = k
    BY <1>2 DEF Posted
  <2>2. PICK i \in DOMAIN ledger[v] : ledger[v][i].key = k
    BY <2>1
  <2>3. i \in DOMAIN ledger'[v] /\ ledger'[v][i] = ledger[v][i]
    BY <2>2, <1>0
  <2> QED BY <2>2, <2>3 DEF Posted
<1>3. ASSUME k = r.key PROVE Posted(k)'
  <2>1. n \in DOMAIN ledger'[u] /\ ledger'[u][n] = r
    BY <1>0
  <2> QED BY <1>3, <2>1 DEF Posted
<1> QED BY <1>1, <1>2, <1>3

LEMMA PostedSame ==
  ASSUME UNCHANGED ledger, NEW k
  PROVE  Posted(k)' <=> Posted(k)
BY DEF Posted

-----------------------------------------------------------------------------
\* A handler that reads under the row lock reads what it will overwrite.

\* A step that ends p's transaction without writing disturbs nobody.
LEMMA EndKeepsLockInv ==
  ASSUME TypeOK, LockInv, NEW p \in Procs, NEW next \in {"idle", "finalize"}, NEW r,
         End(p, next, r), UNCHANGED <<account, job, seen>>
  PROVE  LockInv'
<1> USE DEF LockInv, TypeOK, End, ReleaseLocks, account, Holding
<1>1. pc'[p] = next /\ \A q \in Procs \ {p} : pc'[q] = pc[q]
  OBVIOUS
<1>2. \A q \in Procs : pc'[q] \in Holding => q # p /\ pc[q] \in Holding
  BY <1>1
<1>3. HoldsRow'
  <2> SUFFICES ASSUME NEW q \in Procs, pc'[q] \in Holding PROVE rowLock'[job[q].user] = q
    BY DEF HoldsRow
  <2>1. q # p /\ rowLock[job[q].user] = q /\ job[q].user \in Users
    BY <1>2, JobFacts DEF HoldsRow
  <2> QED BY <2>1
<1>4. SeenIsCurrent'
  BY <1>2 DEF SeenIsCurrent
<1>5. MayCommit'
  BY <1>1, <1>2, PostedSame DEF MayCommit, Affordable, Delta
<1> QED BY <1>3, <1>4, <1>5

\* A step that moves p between statements, without locks or writes.
LEMMA MoveKeepsLockInv ==
  ASSUME TypeOK, LockInv, NEW p \in Procs, pc'[p] \notin Holding,
         \A q \in Procs \ {p} : pc'[q] = pc[q] /\ job'[q] = job[q],
         UNCHANGED <<balance, recharged, consumed, ledger, rowLock, seen>>
  PROVE  LockInv'
<1> USE DEF LockInv, TypeOK, Holding
<1>1. HoldsRow' /\ SeenIsCurrent'
  BY DEF HoldsRow, SeenIsCurrent
<1>2. MayCommit'
  BY PostedSame DEF MayCommit, Affordable, Delta
<1> QED BY <1>1, <1>2

LEMMA LockInvStep == TypeOK /\ LockInv /\ [Next]_vars => LockInv'
<1> SUFFICES ASSUME TypeOK, LockInv, [Next]_vars PROVE LockInv'
  OBVIOUS
<1> USE DEF InTransaction, account, locks
<1>1. ASSUME NEW p \in Procs, NEW j \in Jobs, Begin(p, j) PROVE LockInv'
  BY <1>1, MoveKeepsLockInv DEF Begin, TypeOK, Holding
<1>2. ASSUME NEW u \in Users, OpenWallet(u) PROVE LockInv'
  BY <1>2, PostedSame DEF OpenWallet, LockInv, HoldsRow, SeenIsCurrent, MayCommit
<1>3. ASSUME NEW p \in Procs, LockKey(p) PROVE LockInv'
  BY <1>3, MoveKeepsLockInv DEF LockKey, Goto, TypeOK, Holding
<1>4. ASSUME NEW p \in Procs, KeyIsNew(p) PROVE LockInv'
  <2>1. CASE pc[p] = "check"
    BY <1>4, <2>1, MoveKeepsLockInv DEF KeyIsNew, Goto, TypeOK, Holding
  <2>2. CASE pc[p] = "recheck"
    <3>1. pc' = [pc EXCEPT ![p] = "write"] /\ UNCHANGED <<account, rowLock, job, seen>>
      BY <1>4, <2>2 DEF KeyIsNew, Goto
    <3>2. \A q \in Procs : /\ pc'[q] \in Holding => pc[q] \in Holding
                           /\ pc'[q] = "commit" => pc[q] = "commit"
      BY <2>2, <3>1 DEF TypeOK, Holding
    <3>3. HoldsRow' /\ SeenIsCurrent'
      BY <3>1, <3>2 DEF LockInv, HoldsRow, SeenIsCurrent
    <3>4. MayCommit'
      BY <3>1, <3>2, PostedSame DEF LockInv, MayCommit
    <3> QED BY <3>3, <3>4 DEF LockInv
  <2> QED BY <1>4, <2>1, <2>2 DEF KeyIsNew
<1>5. ASSUME NEW p \in Procs, Replay(p) PROVE LockInv'
  <2>1. UNCHANGED <<account, job, seen>>
    BY <1>5 DEF Replay
  <2>2. PICK next \in {"idle", "finalize"} : \E r : End(p, next, r)
    BY <1>5 DEF Replay, Recorded
  <2>3. PICK r : End(p, next, r)
    BY <2>2
  <2> QED BY <2>1, <2>3, EndKeepsLockInv
<1>6. ASSUME NEW p \in Procs, LockAccount(p) PROVE LockInv'
  <2> DEFINE w == job[p].user
  <2>1. /\ rowLock[w] = NoProc /\ rowLock' = [rowLock EXCEPT ![w] = p]
        /\ seen' = [seen EXCEPT ![p] = [balance |-> balance[w], recharged |-> recharged[w],
                                        consumed |-> consumed[w]]]
        /\ UNCHANGED <<account, job>>
        /\ pc[p] = "lock"
    BY <1>6 DEF LockAccount, RowFree
  <2>2. pc'[p] \in {"recheck", "write"} /\ \A q \in Procs \ {p} : pc'[q] = pc[q]
    BY <1>6 DEF LockAccount, Goto, TypeOK
  <2>3. w \in Users
    BY JobFacts DEF TypeOK
  <2>4. HoldsRow'
    <3> SUFFICES ASSUME NEW q \in Procs, pc'[q] \in Holding PROVE rowLock'[job[q].user] = q
      BY <2>1 DEF HoldsRow
    <3>1. CASE q = p
      BY <2>1, <2>3, <3>1 DEF TypeOK
    <3>2. CASE q # p
      <4>1. rowLock[job[q].user] = q
        BY <2>2, <3>2 DEF LockInv, HoldsRow
      <4>2. job[q].user # w
        BY <2>1, <4>1, NamesAssumption
      <4> QED BY <2>1, <4>1, <4>2, JobFacts DEF TypeOK
    <3> QED BY <3>1, <3>2
  <2>5. SeenIsCurrent'
    BY <2>1, <2>2 DEF LockInv, SeenIsCurrent, TypeOK
  <2>6. MayCommit'
    BY <2>1, <2>2, PostedSame DEF LockInv, MayCommit, TypeOK
  <2> QED BY <2>4, <2>5, <2>6 DEF LockInv
<1>7. ASSUME NEW p \in Procs, NoAccount(p) PROVE LockInv'
  BY <1>7, EndKeepsLockInv DEF NoAccount
<1>8. ASSUME NEW p \in Procs, Write(p) PROVE LockInv'
  <2>1. /\ pc' = [pc EXCEPT ![p] = "commit"] /\ pc[p] = "write"
        /\ Affordable(job[p], seen[p]) /\ ~Posted(job[p].key)
        /\ \A q \in Procs : pc[q] = "commit" => job[q].key # job[p].key
        /\ UNCHANGED <<account, locks, job, seen>>
    BY <1>8 DEF Write, KeyFree, Goto
  <2>2. pc'[p] = "commit" /\ \A q \in Procs \ {p} : pc'[q] = pc[q]
    BY <2>1 DEF TypeOK
  <2>3. HoldsRow' /\ SeenIsCurrent'
    BY <2>1, <2>2 DEF LockInv, HoldsRow, SeenIsCurrent, Holding
  <2>4. MayCommit'
    BY <2>1, <2>2, PostedSame DEF LockInv, MayCommit
  <2> QED BY <2>3, <2>4 DEF LockInv
<1>9. ASSUME NEW p \in Procs, Refuse(p) PROVE LockInv'
  BY <1>9, EndKeepsLockInv DEF Refuse
<1>10. ASSUME NEW p \in Procs, Commit(p) PROVE LockInv'
  <2> DEFINE j == job[p]
             s == seen[p]
  <2>1. /\ pc[p] = "commit" /\ UNCHANGED <<job, seen>>
        /\ balance' = [balance EXCEPT ![j.user] = s.balance + Delta(j)]
        /\ recharged' = [recharged EXCEPT ![j.user] = NewRecharged(j, s)]
        /\ consumed' = [consumed EXCEPT ![j.user] = NewConsumed(j, s)]
        /\ ledger' = [ledger EXCEPT ![j.user] = Append(@, NewRow(j, s))]
    BY <1>10 DEF Commit
  <2>2. /\ ReleaseLocks(p)
        /\ pc'[p] \in {"idle", "finalize"} /\ \A q \in Procs \ {p} : pc'[q] = pc[q]
    BY <1>10 DEF Commit, End, TypeOK
  <2>3. j \in Jobs /\ s \in Totals /\ j.user \in Users /\ NewRow(j, s) \in RowRecord
    BY JobFacts, WriteFacts DEF TypeOK
  <2>4. ASSUME NEW q \in Procs, pc'[q] \in Holding
        PROVE  /\ q # p /\ pc[q] \in Holding /\ job[q].user # j.user
               /\ job[q].user \in Users /\ rowLock[job[q].user] = q
    <3>1. q # p /\ pc[q] \in Holding
      BY <2>2, <2>4 DEF Holding
    <3>2. rowLock[job[q].user] = q /\ rowLock[j.user] = p
      BY <2>1, <3>1 DEF LockInv, HoldsRow, Holding
    <3> QED BY <3>1, <3>2, JobFacts DEF TypeOK
  <2>5. HoldsRow'
    BY <2>1, <2>2, <2>4 DEF HoldsRow, ReleaseLocks
  <2>6. SeenIsCurrent'
    BY <2>1, <2>4 DEF LockInv, SeenIsCurrent, TypeOK
  <2>7. MayCommit'
    <3> SUFFICES ASSUME NEW q \in Procs, pc'[q] = "commit"
                 PROVE  /\ Affordable(job[q], seen[q]) /\ ~Posted(job[q].key)'
                        /\ \A x \in Procs \ {q} : pc'[x] = "commit" => job[x].key # job[q].key
      BY <2>1 DEF MayCommit
    <3>1. q # p /\ pc[q] = "commit"
      BY <2>2
    <3>2. /\ Affordable(job[q], seen[q]) /\ ~Posted(job[q].key)
          /\ job[q].key # j.key
          /\ \A x \in Procs \ {q} : pc[x] = "commit" => job[x].key # job[q].key
      BY <2>1, <3>1 DEF LockInv, MayCommit
    <3>3. NewRow(j, s).key = j.key
      BY DEF NewRow
    <3>4. ~Posted(job[q].key)'
      BY <2>1, <2>3, <3>2, <3>3, PostedAfterAppend
    <3> QED BY <2>2, <3>2, <3>4
  <2> QED BY <2>5, <2>6, <2>7 DEF LockInv
<1>11. ASSUME NEW p \in Procs, Abort(p) PROVE LockInv'
  BY <1>11, EndKeepsLockInv DEF Abort
<1>12. ASSUME NEW p \in Procs, FinalizeAudit(p) PROVE LockInv'
  BY <1>12, MoveKeepsLockInv DEF FinalizeAudit, Goto, TypeOK, Holding
<1>13. ASSUME NEW p \in Procs, LoseFinalize(p) PROVE LockInv'
  BY <1>13, MoveKeepsLockInv DEF LoseFinalize, Goto, TypeOK, Holding
<1>14. CASE UNCHANGED vars
  BY <1>14, PostedSame DEF vars, LockInv, HoldsRow, SeenIsCurrent, MayCommit
<1> QED BY <1>1, <1>2, <1>3, <1>4, <1>5, <1>6, <1>7, <1>8, <1>9, <1>10, <1>11, <1>12,
           <1>13, <1>14 DEF Next, Step

LEMMA LockInvHolds == Spec => []LockInv
<1>1. Init => LockInv
  BY DEF Init, LockInv, HoldsRow, SeenIsCurrent, MayCommit, Holding
<1> QED BY <1>1, LockInvStep, WalletTypeOK, PTL DEF Spec

-----------------------------------------------------------------------------
(* Every step is one atomic posting of Ledger, or leaves balance and       *)
(* ledger alone.  The row lock makes the balance a posting was computed    *)
(* from the balance it replaces.                                           *)

LEMMA OnlyCommitWrites ==
  ASSUME [Next]_vars
  PROVE  UNCHANGED <<balance, ledger>> \/ \E p \in Procs : Commit(p)
BY DEF Next, Step, vars, account, Begin, OpenWallet, LockKey, KeyIsNew, Replay, LockAccount,
       NoAccount, Write, Refuse, Abort, FinalizeAudit, LoseFinalize

LEMMA CommitPosts ==
  ASSUME TypeOK, LockInv, NeverOverdrawn, NEW p \in Procs, Commit(p)
  PROVE  Promise!Post(Posting(job[p]))
<1> DEFINE j == job[p]
           s == seen[p]
           e == Posting(j)
<1>1. /\ j \in Jobs /\ j \in JobType /\ j.user \in Users /\ j.amount \in Int
      /\ j.kind # "adjust" => j.amount > 0
  BY JobFacts DEF TypeOK
<1>2. s.balance = balance[j.user] /\ balance[j.user] \in Int /\ balance[j.user] >= 0
  BY <1>1 DEF Commit, LockInv, SeenIsCurrent, Holding, TypeOK, NeverOverdrawn
<1>3. Affordable(j, s) /\ ~Posted(j.key)
  BY DEF Commit, LockInv, MayCommit
<1>4. /\ e.user = j.user /\ e.key = j.key /\ e.amount = j.amount /\ e.by = j.by
      /\ e.type = RowType(j)
  BY DEF Posting
<1>5. Promise!Signed(e) = Delta(j)
  BY <1>1, <1>4 DEF Promise!Signed, Delta, RowType, Kinds, JobType
<1>6. balance[j.user] + Delta(j) >= 0
  <2>1. CASE j.kind \in {"consume", "adjust"}
    BY <1>2, <1>3, <2>1 DEF Affordable
  <2>2. CASE j.kind \notin {"consume", "adjust"}
    BY <1>1, <1>2, <2>2 DEF Delta
  <2> QED BY <2>1, <2>2
<1>7. Promise!RowOf(e, balance[j.user] + Delta(j)) = NewRow(j, s)
  BY <1>2, <1>4 DEF Promise!RowOf, NewRow
<1>8. ~Promise!Keyed(e.key)
  BY <1>3, <1>4 DEF Promise!Keyed, Posted
<1>9. /\ balance' = [balance EXCEPT ![j.user] = s.balance + Delta(j)]
      /\ ledger' = [ledger EXCEPT ![j.user] = Append(@, NewRow(j, s))]
  BY DEF Commit
<1> QED BY <1>2, <1>4, <1>5, <1>6, <1>7, <1>8, <1>9 DEF Promise!Post

LEMMA StepPosts ==
  ASSUME TypeOK, LockInv, NeverOverdrawn, [Next]_vars
  PROVE  UNCHANGED <<balance, ledger>> \/ \E j \in Jobs : Promise!Post(Posting(j))
BY OnlyCommitWrites, CommitPosts DEF TypeOK

\* What a posting does, in terms of this module.
LEMMA PostEffect ==
  ASSUME TypeOK, NEW j \in Jobs, Promise!Post(Posting(j))
  PROVE  LET row == NewRow(j, [balance |-> balance[j.user]]) IN
         /\ row \in RowRecord /\ row.key = j.key /\ ~Posted(j.key)
         /\ row.after = balance[j.user] + SignedAmount(row) /\ row.after >= 0
         /\ balance' = [balance EXCEPT ![j.user] = row.after]
         /\ ledger' = [ledger EXCEPT ![j.user] = Append(@, row)]
<1> DEFINE e == Posting(j)
           row == NewRow(j, [balance |-> balance[j.user]])
           after == balance[j.user] + Delta(j)
<1>1. /\ j \in JobType /\ j.user \in Users /\ j.key \in Keys /\ j.amount \in Int
      /\ j.by \in Admins \cup {NoAdmin} /\ balance[j.user] \in Int
  BY JobFacts DEF TypeOK
<1>2. /\ e.user = j.user /\ e.key = j.key /\ e.amount = j.amount /\ e.by = j.by
      /\ e.type = RowType(j)
  BY DEF Posting
<1>3. Promise!Signed(e) = Delta(j) /\ Delta(j) \in Int
  BY <1>1, <1>2 DEF Promise!Signed, Delta, RowType, Kinds, JobType
<1>4. row = Promise!RowOf(e, after) /\ row.after = after /\ row.key = j.key
  BY <1>2 DEF Promise!RowOf, NewRow
<1>5. row \in RowRecord
  BY <1>1, <1>3 DEF NewRow, RowRecord, RowType
<1>6. SignedAmount(row) = Delta(j)
  BY <1>1 DEF SignedAmount, NewRow, Delta, RowType, Kinds, JobType
<1>7. /\ ~Posted(j.key) /\ after >= 0
      /\ balance' = [balance EXCEPT ![j.user] = after]
      /\ ledger' = [ledger EXCEPT ![j.user] = Append(@, row)]
  BY <1>2, <1>3, <1>4 DEF Promise!Post, Promise!Keyed, Posted
<1> QED BY <1>4, <1>5, <1>6, <1>7

\* No interleaving of calls overdraws a wallet.
THEOREM WalletNeverOverdrawn == Spec => []NeverOverdrawn
<1>1. Init => NeverOverdrawn
  <2> SUFFICES ASSUME Init PROVE NeverOverdrawn
    OBVIOUS
  <2>1. balance = [u \in Users |-> 0]
    BY DEF Init
  <2>2. \A u \in Users : balance[u] = 0
    BY <2>1
  <2>3. 0 >= 0
    OBVIOUS
  <2> QED BY <2>2, <2>3, Zenon DEF NeverOverdrawn
<1>2. TypeOK /\ LockInv /\ NeverOverdrawn /\ [Next]_vars => NeverOverdrawn'
  <2> SUFFICES ASSUME TypeOK, LockInv, NeverOverdrawn, [Next]_vars PROVE NeverOverdrawn'
    OBVIOUS
  <2>1. CASE UNCHANGED <<balance, ledger>>
    BY <2>1 DEF NeverOverdrawn
  <2>2. ASSUME NEW j \in Jobs, Promise!Post(Posting(j)) PROVE NeverOverdrawn'
    BY <2>2, PostEffect DEF NeverOverdrawn, TypeOK
  <2> QED BY <2>1, <2>2, StepPosts
<1> QED BY <1>1, <1>2, WalletTypeOK, LockInvHolds, PTL DEF Spec

\* Wallet implements Ledger: each call's effect happens at once or not at all.
THEOREM WalletImplementsLedger == Spec => PromiseSpec
<1>1. Init => Promise!Init
  BY DEF Init, Promise!Init
<1>2. TypeOK /\ LockInv /\ NeverOverdrawn /\ [Next]_vars => [Promise!Next]_(Promise!vars)
  BY StepPosts DEF Promise!Next, Promise!vars
<1> QED BY <1>1, <1>2, WalletTypeOK, LockInvHolds, WalletNeverOverdrawn, PTL
        DEF Spec, PromiseSpec, Promise!Spec

-----------------------------------------------------------------------------
\* What follows for the rows.

\* No update of a balance is lost: the rows of a user add up to it.
THEOREM WalletLedgerExplainsBalance == Spec => []LedgerExplainsBalance
<1>1. Init => LedgerExplainsBalance
  <2> SUFFICES ASSUME Init PROVE LedgerExplainsBalance
    OBVIOUS
  <2>1. balance = [u \in Users |-> 0] /\ ledger = [u \in Users |-> <<>>]
    BY DEF Init
  <2>2. \A u \in Users : balance[u] = 0 /\ ledger[u] = <<>>
    BY <2>1
  <2>3. \A u \in Users : \A i \in DOMAIN ledger[u] : FALSE
    BY <2>2
  <2> QED BY <2>2, <2>3 DEF LedgerExplainsBalance, Latest
<1>2. TypeOK /\ LockInv /\ NeverOverdrawn /\ LedgerExplainsBalance /\ [Next]_vars
        => LedgerExplainsBalance'
  <2> SUFFICES ASSUME TypeOK, LockInv, NeverOverdrawn, LedgerExplainsBalance, [Next]_vars
               PROVE  LedgerExplainsBalance'
    OBVIOUS
  <2>1. CASE UNCHANGED <<balance, ledger>>
    BY <2>1 DEF LedgerExplainsBalance, Latest, Before
  <2>2. ASSUME NEW j \in Jobs, Promise!Post(Posting(j)) PROVE LedgerExplainsBalance'
    <3> DEFINE row == NewRow(j, [balance |-> balance[j.user]])
               w == j.user
    <3>1. /\ row \in RowRecord /\ row.after = balance[w] + SignedAmount(row)
          /\ balance' = [balance EXCEPT ![w] = row.after]
          /\ ledger' = [ledger EXCEPT ![w] = Append(@, row)]
      BY <2>2, PostEffect
    <3>2. w \in Users
      BY JobFacts
    <3> HIDE DEF row, w
    <3>0. PICK n : n = Len(ledger[w]) + 1
      OBVIOUS
    <3>3. /\ \A v \in Users \ {w} : ledger'[v] = ledger[v]
          /\ Len(ledger[w]) \in Nat /\ DOMAIN ledger[w] = 1..Len(ledger[w])
          /\ Len(ledger'[w]) = n /\ DOMAIN ledger'[w] = 1..n
          /\ \A i \in DOMAIN ledger[w] : ledger'[w][i] = ledger[w][i]
          /\ ledger'[w][n] = row
      <4>1. /\ \A v \in Users \ {w} : ledger'[v] = ledger[v]
            /\ Len(ledger[w]) \in Nat /\ DOMAIN ledger[w] = 1..Len(ledger[w])
            /\ Len(ledger'[w]) = Len(ledger[w]) + 1
            /\ DOMAIN ledger'[w] = 1..(Len(ledger[w]) + 1)
            /\ \A i \in DOMAIN ledger[w] : ledger'[w][i] = ledger[w][i]
            /\ ledger'[w][Len(ledger[w]) + 1] = row
        BY <3>1, <3>2, AppendFacts
      <4> QED BY <3>0, <4>1
    <3>4. balance'[w] = row.after /\ \A v \in Users \ {w} : balance'[v] = balance[v]
      BY <3>1, <3>2 DEF TypeOK
    <3>5. ASSUME NEW v \in Users \ {w}
          PROVE  /\ balance'[v] = Latest(v)'
                 /\ \A i \in DOMAIN ledger'[v] :
                      ledger'[v][i].after = Before(v, i)' + SignedAmount(ledger'[v][i])
      <4>1. ledger'[v] = ledger[v] /\ balance'[v] = balance[v]
        BY <3>3, <3>4
      <4>2. Latest(v)' = Latest(v) /\ \A i : Before(v, i)' = Before(v, i)
        BY <4>1 DEF Latest, Before
      <4> QED BY <4>1, <4>2 DEF LedgerExplainsBalance
    <3>6. balance'[w] = Latest(w)'
      <4>1. n \in DOMAIN ledger'[w]
        BY <3>0, <3>3
      <4>2. ledger'[w] # <<>>
        BY <4>1
      <4> QED BY <3>3, <3>4, <4>2 DEF Latest
    <3>7. Before(w, n)' = balance[w]
      <4>1. balance[w] = Latest(w)
        BY <3>2 DEF LedgerExplainsBalance
      <4>2. CASE ledger[w] = <<>>
        BY <3>0, <3>3, <4>1, <4>2 DEF Latest, Before
      <4>3. CASE ledger[w] # <<>>
        <5>1. ledger[w] \in Seq(RowRecord)
          BY <3>2 DEF TypeOK
        <5>2. Len(ledger[w]) # 0
          BY <4>3, <5>1
        <5>3. n # 1 /\ n - 1 = Len(ledger[w]) /\ n - 1 \in DOMAIN ledger[w]
          BY <3>0, <3>3, <5>2
        <5> QED BY <3>3, <4>1, <4>3, <5>3 DEF Latest, Before
      <4> QED BY <4>2, <4>3
    <3>8. ASSUME NEW i \in DOMAIN ledger'[w]
          PROVE  ledger'[w][i].after = Before(w, i)' + SignedAmount(ledger'[w][i])
      <4>1. CASE i = n
        BY <3>1, <3>3, <3>7, <4>1
      <4>2. CASE i # n
        <5>1. i \in DOMAIN ledger[w] /\ (i # 1 => i - 1 \in DOMAIN ledger[w])
          BY <3>0, <3>3, <3>8, <4>2
        <5>2. ledger[w][i].after = Before(w, i) + SignedAmount(ledger[w][i])
          BY <3>2, <5>1 DEF LedgerExplainsBalance
        <5>3. Before(w, i)' = Before(w, i)
          BY <3>3, <5>1 DEF Before
        <5> QED BY <3>3, <5>1, <5>2, <5>3
      <4> QED BY <4>1, <4>2
    <3> QED BY <3>2, <3>5, <3>6, <3>8 DEF LedgerExplainsBalance
  <2> QED BY <2>1, <2>2, StepPosts
<1> QED BY <1>1, <1>2, WalletTypeOK, LockInvHolds, WalletNeverOverdrawn, PTL DEF Spec

\* A retried key moves points once, whoever retries it.
THEOREM WalletKeyPostedOnce == Spec => []KeyPostedOnce
<1>1. Init => KeyPostedOnce
  BY DEF Init, KeyPostedOnce
<1>2. TypeOK /\ LockInv /\ NeverOverdrawn /\ KeyPostedOnce /\ [Next]_vars => KeyPostedOnce'
  <2> SUFFICES ASSUME TypeOK, LockInv, NeverOverdrawn, KeyPostedOnce, [Next]_vars
               PROVE  KeyPostedOnce'
    OBVIOUS
  <2>1. CASE UNCHANGED <<balance, ledger>>
    BY <2>1 DEF KeyPostedOnce
  <2>2. ASSUME NEW j \in Jobs, Promise!Post(Posting(j)) PROVE KeyPostedOnce'
    <3> DEFINE row == NewRow(j, [balance |-> balance[j.user]])
               w == j.user
    <3>1. /\ row \in RowRecord /\ row.key = j.key /\ ~Posted(j.key)
          /\ ledger' = [ledger EXCEPT ![w] = Append(@, row)]
      BY <2>2, PostEffect
    <3>2. w \in Users
      BY JobFacts
    <3> HIDE DEF row, w
    <3>0. PICK n : n = Len(ledger[w]) + 1
      OBVIOUS
    <3>3. /\ \A v \in Users \ {w} : ledger'[v] = ledger[v]
          /\ DOMAIN ledger[w] = 1..Len(ledger[w]) /\ Len(ledger[w]) \in Nat
          /\ DOMAIN ledger'[w] = 1..n
          /\ \A i \in DOMAIN ledger[w] : ledger'[w][i] = ledger[w][i]
          /\ ledger'[w][n] = row
      <4>1. /\ \A v \in Users \ {w} : ledger'[v] = ledger[v]
            /\ Len(ledger[w]) \in Nat /\ DOMAIN ledger[w] = 1..Len(ledger[w])
            /\ Len(ledger'[w]) = Len(ledger[w]) + 1
            /\ DOMAIN ledger'[w] = 1..(Len(ledger[w]) + 1)
            /\ \A i \in DOMAIN ledger[w] : ledger'[w][i] = ledger[w][i]
            /\ ledger'[w][Len(ledger[w]) + 1] = row
        BY <3>1, <3>2, AppendFacts
      <4> QED BY <3>0, <4>1
    <3>4. ASSUME NEW v \in Users, NEW i \in DOMAIN ledger'[v], ~(v = w /\ i = n)
          PROVE  /\ i \in DOMAIN ledger[v] /\ ledger'[v][i] = ledger[v][i]
                 /\ ledger'[v][i].key # row.key
      <4>1. i \in DOMAIN ledger[v] /\ ledger'[v][i] = ledger[v][i]
        BY <3>0, <3>3, <3>4
      <4> QED BY <3>1, <4>1 DEF Posted
    <3> SUFFICES ASSUME NEW u \in Users, NEW v \in Users,
                        NEW i \in DOMAIN ledger'[u], NEW k \in DOMAIN ledger'[v],
                        ledger'[u][i].key = ledger'[v][k].key
                 PROVE  u = v /\ i = k
      BY DEF KeyPostedOnce
    <3>5. CASE u = w /\ i = n
      BY <3>3, <3>4, <3>5
    <3>6. CASE v = w /\ k = n
      BY <3>3, <3>4, <3>6
    <3>7. CASE ~(u = w /\ i = n) /\ ~(v = w /\ k = n)
      BY <3>4, <3>7 DEF KeyPostedOnce
    <3> QED BY <3>5, <3>6, <3>7
  <2> QED BY <2>1, <2>2, StepPosts
<1> QED BY <1>1, <1>2, WalletTypeOK, LockInvHolds, WalletNeverOverdrawn, PTL DEF Spec

-----------------------------------------------------------------------------
\* The row an adjustment leaves and the record of who made it.

LEMMA AdjustmentAfterAppend ==
  ASSUME TypeOK, NEW u \in Users, NEW r \in RowRecord,
         ledger' = [ledger EXCEPT ![u] = Append(@, r)], NEW k
  PROVE  HasAdjustment(k)' <=> HasAdjustment(k) \/ (k = r.key /\ r.by # NoAdmin)
<1> DEFINE n == Len(ledger[u]) + 1
<1>0. /\ \A v \in Users \ {u} : ledger'[v] = ledger[v]
      /\ n \in Nat /\ n > 0 /\ DOMAIN ledger[u] = 1..(n - 1) /\ DOMAIN ledger'[u] = 1..n
      /\ \A i \in DOMAIN ledger[u] : ledger'[u][i] = ledger[u][i]
      /\ ledger'[u][n] = r
  <2>1. /\ \A v \in Users \ {u} : ledger'[v] = ledger[v]
        /\ Len(ledger[u]) \in Nat /\ DOMAIN ledger[u] = 1..Len(ledger[u])
        /\ DOMAIN ledger'[u] = 1..(Len(ledger[u]) + 1)
        /\ \A i \in DOMAIN ledger[u] : ledger'[u][i] = ledger[u][i]
        /\ ledger'[u][Len(ledger[u]) + 1] = r
    BY AppendFacts
  <2>2. n - 1 = Len(ledger[u]) /\ n \in Nat /\ n > 0
    BY <2>1
  <2> QED BY <2>1, <2>2
<1> HIDE DEF n
<1>1. ASSUME HasAdjustment(k)' PROVE HasAdjustment(k) \/ (k = r.key /\ r.by # NoAdmin)
  <2>1. PICK v \in Users : \E i \in DOMAIN ledger'[v] :
               ledger'[v][i].key = k /\ ledger'[v][i].by # NoAdmin
    BY <1>1 DEF HasAdjustment
  <2>2. PICK i \in DOMAIN ledger'[v] : ledger'[v][i].key = k /\ ledger'[v][i].by # NoAdmin
    BY <2>1
  <2>3. CASE v = u /\ i = n
    BY <2>2, <2>3, <1>0
  <2>4. CASE ~(v = u /\ i = n)
    <3>1. i \in DOMAIN ledger[v] /\ ledger'[v][i] = ledger[v][i]
      BY <2>2, <2>4, <1>0
    <3> QED BY <2>2, <3>1 DEF HasAdjustment
  <2> QED BY <2>3, <2>4
<1>2. ASSUME HasAdjustment(k) PROVE HasAdjustment(k)'
  <2>1. PICK v \in Users : \E i \in DOMAIN ledger[v] :
               ledger[v][i].key = k /\ ledger[v][i].by # NoAdmin
    BY <1>2 DEF HasAdjustment
  <2>2. PICK i \in DOMAIN ledger[v] : ledger[v][i].key = k /\ ledger[v][i].by # NoAdmin
    BY <2>1
  <2>3. i \in DOMAIN ledger'[v] /\ ledger'[v][i] = ledger[v][i]
    BY <2>2, <1>0
  <2> QED BY <2>2, <2>3 DEF HasAdjustment
<1>3. ASSUME k = r.key, r.by # NoAdmin PROVE HasAdjustment(k)'
  <2>1. n \in DOMAIN ledger'[u] /\ ledger'[u][n] = r
    BY <1>0
  <2> QED BY <1>3, <2>1 DEF HasAdjustment
<1> QED BY <1>1, <1>2, <1>3

LEMMA AuditByAdjustment ==
  /\ AuditMatchesLedger <=> \A k \in Keys : audit[k] # "none" <=> HasAdjustment(k)
  /\ AuditMatchesLedger' <=> \A k \in Keys : audit'[k] # "none" <=> HasAdjustment(k)'
BY DEF AuditMatchesLedger, HasAdjustment

AuditInv == AuditMatchesLedger /\ FinalizesAdjustment

\* What touches neither the ledger nor the audit log, and finishes nothing.
LEMMA AuditUntouched ==
  ASSUME TypeOK, AuditInv, UNCHANGED <<ledger, audit>>,
         \A p \in Procs : pc'[p] = "finalize" => pc[p] = "finalize" /\ job'[p] = job[p]
  PROVE  AuditInv'
BY DEF AuditInv, AuditMatchesLedger, FinalizesAdjustment, HasAdjustment

LEMMA AuditInvStep ==
  ASSUME TypeOK, AuditInv, [Next]_vars PROVE AuditInv'
<1>1. ASSUME NEW p \in Procs, NEW j \in Jobs, Begin(p, j) PROVE AuditInv'
  BY <1>1, AuditUntouched DEF Begin, account, TypeOK
<1>2. ASSUME NEW u \in Users, OpenWallet(u) PROVE AuditInv'
  BY <1>2, AuditUntouched DEF OpenWallet
<1>3. ASSUME NEW p \in Procs, LockKey(p) \/ KeyIsNew(p) \/ LockAccount(p) \/ NoAccount(p)
                              \/ Write(p) \/ Refuse(p) \/ Abort(p) \/ LoseFinalize(p)
      PROVE  AuditInv'
  BY <1>3, AuditUntouched DEF LockKey, KeyIsNew, LockAccount, NoAccount, Write, Refuse, Abort,
     LoseFinalize, End, Goto, account, TypeOK
<1>4. ASSUME NEW p \in Procs, Replay(p) PROVE AuditInv'
  <2> DEFINE j == job[p]
  <2>1. PICK u \in Users : \E i \in DOMAIN ledger[u] :
            LET row == ledger[u][i] IN
            /\ row.key = j.key
            /\ \/ End(p, "idle", Recorded(u, row)) /\ UNCHANGED audit
               \/ /\ SameAdjustment(j, u, row) /\ j.kind = "adjust"
                  /\ End(p, "finalize", Recorded(u, row)) /\ AuditIntent(j.key)
               \/ End(p, "idle", Error) /\ UNCHANGED audit
    BY <1>4 DEF Replay
  <2>2. UNCHANGED <<ledger, job>>
    BY <1>4 DEF Replay, account
  <2>3. CASE UNCHANGED audit /\ \E r : End(p, "idle", r)
    BY <2>2, <2>3, AuditUntouched DEF End, TypeOK
  <2>4. CASE /\ \E i \in DOMAIN ledger[u] :
                  ledger[u][i].key = j.key /\ SameAdjustment(j, u, ledger[u][i])
             /\ j.kind = "adjust" /\ AuditIntent(j.key)
             /\ \E r : End(p, "finalize", r)
    <3>1. j \in Jobs /\ j.key \in Keys /\ j.by \in Admins
      BY <2>4, JobFacts, JobsAssumption DEF TypeOK
    <3>2. HasAdjustment(j.key)
      BY <2>4, <3>1, NamesAssumption DEF HasAdjustment, SameAdjustment
    <3>3. AuditMatchesLedger'
      <4>1. \A k \in Keys : audit'[k] # "none" <=> audit[k] # "none" \/ k = j.key
        BY <2>4, <3>1 DEF AuditIntent, TypeOK
      <4>2. \A k : HasAdjustment(k)' <=> HasAdjustment(k)
        BY <2>2 DEF HasAdjustment
      <4> QED BY <3>2, <4>1, <4>2, AuditByAdjustment DEF AuditInv
    <3>4. FinalizesAdjustment'
      BY <2>2, <2>4, <3>2 DEF AuditInv, FinalizesAdjustment, HasAdjustment, End, TypeOK
    <3> QED BY <3>3, <3>4 DEF AuditInv
  <2> QED BY <2>1, <2>3, <2>4
<1>5. ASSUME NEW p \in Procs, Commit(p) PROVE AuditInv'
  <2> DEFINE j == job[p]
             row == NewRow(j, seen[p])
  <2>1. /\ UNCHANGED job
        /\ ledger' = [ledger EXCEPT ![j.user] = Append(@, row)]
        /\ IF j.kind = "adjust" THEN AuditIntent(j.key) ELSE UNCHANGED audit
        /\ pc' = [pc EXCEPT ![p] = IF j.kind = "adjust" THEN "finalize" ELSE "idle"]
    BY <1>5 DEF Commit, End
  <2>2. /\ j \in Jobs /\ j.user \in Users /\ j.key \in Keys /\ row \in RowRecord
        /\ row.key = j.key /\ row.by = j.by
        /\ row.by # NoAdmin <=> j.kind = "adjust"
    <3>1. j \in Jobs /\ seen[p] \in Totals
      BY DEF TypeOK
    <3> QED BY <3>1, JobFacts, WriteFacts, JobsAssumption, NamesAssumption DEF NewRow
  <2> HIDE DEF row
  <2>3. \A k : HasAdjustment(k)' <=> HasAdjustment(k) \/ (k = j.key /\ j.kind = "adjust")
    BY <2>1, <2>2, AdjustmentAfterAppend
  <2>4. \A k \in Keys : audit'[k] # "none" <=> audit[k] # "none" \/ (k = j.key /\ j.kind = "adjust")
    BY <2>1, <2>2 DEF AuditIntent, TypeOK
  <2>5. AuditMatchesLedger'
    BY <2>3, <2>4, AuditByAdjustment DEF AuditInv
  <2>6. FinalizesAdjustment'
    BY <2>1, <2>3 DEF AuditInv, FinalizesAdjustment, TypeOK
  <2> QED BY <2>5, <2>6 DEF AuditInv
<1>6. ASSUME NEW p \in Procs, FinalizeAudit(p) PROVE AuditInv'
  <2>1. HasAdjustment(job[p].key) /\ UNCHANGED <<ledger, job>>
    BY <1>6 DEF FinalizeAudit, AuditInv, FinalizesAdjustment, account
  <2>2. AuditMatchesLedger'
    BY <1>6, <2>1 DEF FinalizeAudit, AuditInv, AuditMatchesLedger, HasAdjustment, TypeOK
  <2>3. FinalizesAdjustment'
    BY <1>6, <2>1 DEF FinalizeAudit, Goto, AuditInv, FinalizesAdjustment, HasAdjustment, TypeOK
  <2> QED BY <2>2, <2>3 DEF AuditInv
<1>7. CASE UNCHANGED vars
  BY <1>7, AuditUntouched DEF vars, account
<1> QED BY <1>1, <1>2, <1>3, <1>4, <1>5, <1>6, <1>7 DEF Next, Step

\* Points an administrator moved have an audit row, and an audit row has its
\* points: they commit in one transaction, also when the handler dies at once.
THEOREM WalletAuditMatchesLedger == Spec => []AuditMatchesLedger
<1>1. Init => AuditInv
  BY DEF Init, AuditInv, AuditMatchesLedger, FinalizesAdjustment
<1>2. AuditInv => AuditMatchesLedger
  BY DEF AuditInv
<1> QED BY <1>1, <1>2, AuditInvStep, WalletTypeOK, PTL DEF Spec
-----------------------------------------------------------------------------
(* A committed row is never changed, so an answer that was right when it   *)
(* was given stays right until the process begins its next call.           *)

Recalls(k, n) ==
  \E u \in Users : \E i \in DOMAIN ledger[u] : ledger[u][i].key = k /\ ledger[u][i].after = n

LEMMA RecallsAfterAppend ==
  ASSUME TypeOK, NEW u \in Users, NEW r \in RowRecord,
         ledger' = [ledger EXCEPT ![u] = Append(@, r)], NEW k, NEW n,
         Recalls(k, n) \/ (k = r.key /\ n = r.after)
  PROVE  Recalls(k, n)'
<1>1. /\ \A v \in Users \ {u} : ledger'[v] = ledger[v]
      /\ Len(ledger[u]) \in Nat /\ DOMAIN ledger[u] = 1..Len(ledger[u])
      /\ DOMAIN ledger'[u] = 1..(Len(ledger[u]) + 1)
      /\ \A i \in DOMAIN ledger[u] : ledger'[u][i] = ledger[u][i]
      /\ ledger'[u][Len(ledger[u]) + 1] = r
  BY AppendFacts
<1>2. CASE k = r.key /\ n = r.after
  <2>1. Len(ledger[u]) + 1 \in DOMAIN ledger'[u]
    BY <1>1
  <2> QED BY <1>1, <1>2, <2>1 DEF Recalls
<1>3. CASE Recalls(k, n)
  <2>1. PICK v \in Users : \E i \in DOMAIN ledger[v] : ledger[v][i].key = k /\ ledger[v][i].after = n
    BY <1>3 DEF Recalls
  <2>2. PICK i \in DOMAIN ledger[v] : ledger[v][i].key = k /\ ledger[v][i].after = n
    BY <2>1
  <2>3. i \in DOMAIN ledger'[v] /\ ledger'[v][i] = ledger[v][i]
    BY <2>2, <1>1
  <2> QED BY <2>2, <2>3 DEF Recalls
<1> QED BY <1>2, <1>3

\* A step that writes nothing leaves each answer or takes it away, but for one
\* that gives p an answer the ledger has.
LEMMA AnswersUntouched ==
  ASSUME ReplyIsRecorded, UNCHANGED ledger,
         \A p \in Procs : \/ reply'[p].status # "ok"
                          \/ job'[p] = job[p] /\ reply'[p] = reply[p]
                          \/ Recalls(job[p].key, reply'[p].after) /\ job'[p] = job[p]
  PROVE  ReplyIsRecorded'
<1> SUFFICES ASSUME NEW p \in Procs, reply'[p].status = "ok"
             PROVE  \E u \in Users : \E i \in DOMAIN ledger'[u] :
                      ledger'[u][i].key = job'[p].key /\ ledger'[u][i].after = reply'[p].after
  BY DEF ReplyIsRecorded
<1>1. job'[p] = job[p] /\ Recalls(job[p].key, reply'[p].after)
  BY DEF ReplyIsRecorded, Recalls
<1> QED BY <1>1 DEF Recalls

LEMMA ReplyStep ==
  ASSUME TypeOK, LockInv, ReplyIsRecorded, [Next]_vars PROVE ReplyIsRecorded'
<1>1. ASSUME NEW p \in Procs, NEW j \in Jobs, Begin(p, j) PROVE ReplyIsRecorded'
  BY <1>1, AnswersUntouched DEF Begin, account, TypeOK, NoReply
<1>2. ASSUME NEW p \in Procs, NoAccount(p) \/ Refuse(p) \/ Abort(p) PROVE ReplyIsRecorded'
  BY <1>2, AnswersUntouched DEF NoAccount, Refuse, Abort, End, Error, account, TypeOK
<1>3. ASSUME NEW p \in Procs, LockKey(p) \/ KeyIsNew(p) \/ LockAccount(p) \/ Write(p)
                              \/ FinalizeAudit(p) \/ LoseFinalize(p)
      PROVE  ReplyIsRecorded'
  BY <1>3, AnswersUntouched DEF LockKey, KeyIsNew, LockAccount, Write, FinalizeAudit, LoseFinalize,
     Goto, account
<1>4. ASSUME NEW u \in Users, OpenWallet(u) PROVE ReplyIsRecorded'
  BY <1>4, AnswersUntouched DEF OpenWallet
<1>5. ASSUME NEW p \in Procs, Replay(p) PROVE ReplyIsRecorded'
  <2>0. PICK u \in Users : \E i \in DOMAIN ledger[u] :
             /\ ledger[u][i].key = job[p].key
             /\ \E next : End(p, next, Ok(ledger[u][i].after)) \/ End(p, next, Error)
    BY <1>5, Zenon DEF Replay, Recorded
  <2>1. PICK i \in DOMAIN ledger[u] :
             /\ ledger[u][i].key = job[p].key
             /\ \E next : End(p, next, Ok(ledger[u][i].after)) \/ End(p, next, Error)
    BY <2>0
  <2>2. UNCHANGED <<ledger, job>>
    BY <1>5 DEF Replay, account
  <2>3. Recalls(job[p].key, ledger[u][i].after)
    BY <2>1 DEF Recalls
  <2> QED BY <2>1, <2>2, <2>3, AnswersUntouched DEF End, Ok, Error, TypeOK
<1>6. ASSUME NEW p \in Procs, Commit(p) PROVE ReplyIsRecorded'
  <2> DEFINE j == job[p]
             row == NewRow(j, seen[p])
  <2>1. /\ UNCHANGED job
        /\ ledger' = [ledger EXCEPT ![j.user] = Append(@, row)]
        /\ reply' = [reply EXCEPT ![p] = Ok(row.after)]
    BY <1>6 DEF Commit, End, NewRow
  <2>2. j \in Jobs /\ j.user \in Users /\ row \in RowRecord /\ row.key = j.key
    <3>1. j \in Jobs /\ seen[p] \in Totals
      BY DEF TypeOK
    <3> QED BY <3>1, JobFacts, WriteFacts DEF NewRow
  <2> HIDE DEF row
  <2>3. ASSUME NEW k, NEW n, Recalls(k, n) \/ (k = row.key /\ n = row.after)
        PROVE  \E u \in Users : \E i \in DOMAIN ledger'[u] :
                 ledger'[u][i].key = k /\ ledger'[u][i].after = n
    <3>1. Recalls(k, n)'
      BY <2>1, <2>2, <2>3, RecallsAfterAppend
    <3> QED BY <3>1 DEF Recalls
  <2>4. ASSUME NEW q \in Procs, reply'[q].status = "ok"
        PROVE  Recalls(job[q].key, reply'[q].after) \/ (job[q].key = row.key /\ reply'[q].after = row.after)
    <3>1. CASE q = p
      BY <2>1, <2>2, <3>1 DEF Ok, TypeOK
    <3>2. CASE q # p
      BY <2>1, <2>4, <3>2 DEF ReplyIsRecorded, Recalls, TypeOK
    <3> QED BY <3>1, <3>2
  <2>5. ASSUME NEW q \in Procs, reply'[q].status = "ok"
        PROVE  \E u \in Users : \E i \in DOMAIN ledger'[u] :
                 ledger'[u][i].key = job'[q].key /\ ledger'[u][i].after = reply'[q].after
    <3> DEFINE k == job[q].key
               n == reply'[q].after
    <3>1. Recalls(k, n) \/ (k = row.key /\ n = row.after)
      BY <2>4, <2>5
    <3>2. \E u \in Users : \E i \in DOMAIN ledger'[u] : ledger'[u][i].key = k /\ ledger'[u][i].after = n
      <4> HIDE DEF k, n
      <4> QED BY <2>3, <3>1
    <3> QED BY <2>1, <3>2
  <2> QED BY <2>5 DEF ReplyIsRecorded
<1>7. CASE UNCHANGED vars
  BY <1>7, AnswersUntouched DEF vars, account
<1> QED BY <1>1, <1>2, <1>3, <1>4, <1>5, <1>6, <1>7 DEF Next, Step

\* Whatever a call answered, first or as a replay, is what the ledger records
\* under its key.
THEOREM WalletReplyIsRecorded == Spec => []ReplyIsRecorded
<1>1. Init => ReplyIsRecorded
  BY DEF Init, ReplyIsRecorded, NoReply
<1> QED BY <1>1, ReplyStep, WalletTypeOK, LockInvHolds, PTL DEF Spec

-----------------------------------------------------------------------------
(* Sums.                                                                   *)

Terms(a, n) == \A i \in 1..n : a[i] \in Int

\* The partial sums of a.
IsSums(t, a, n) == t \in [0..n -> Int] /\ t[0] = 0 /\ \A i \in 1..n : t[i] = t[i - 1] + a[i]

\* Of some numbers one is the least.
LEMMA LeastNumber ==
  ASSUME NEW S \in SUBSET Nat, S # {}
  PROVE  \E n \in S : \A k \in S : n <= k
<1>1. PICK n \in S : \A k \in S : <<k, n>> \notin OpToRel(<, Nat)
  BY NatLessThanWellFounded, WFMin
<1>2. \A k \in S : ~(k < n)
  BY <1>1 DEF OpToRel
<1> QED
  BY <1>2

\* What holds at 0 and goes on holds up to n.
LEMMA UpTo ==
  ASSUME NEW n \in Nat, NEW Good \in SUBSET Nat, 0 \in Good,
         \A i \in 1..n : i - 1 \in Good => i \in Good
  PROVE  0..n \subseteq Good
<1> DEFINE Bad == (0..n) \ Good
<1> SUFFICES ASSUME Bad # {} PROVE FALSE
  OBVIOUS
<1>1. PICK m \in Bad : \A k \in Bad : m <= k
  <2>1. Bad \in SUBSET Nat
    OBVIOUS
  <2> HIDE DEF Bad
  <2> QED
    BY <2>1, LeastNumber
<1>2. m \in 1..n /\ m \notin Good
  BY <1>1
<1>3. m - 1 \in 0..n /\ ~(m <= m - 1)
  BY <1>2
<1>4. m - 1 \in Good
  BY <1>1, <1>3
<1> QED
  BY <1>2, <1>4

LEMMA SumsExist ==
  ASSUME NEW n \in Nat, NEW a, Terms(a, n)
  PROVE  \E t : IsSums(t, a, n)
<1> DEFINE Good == {m \in 0..n : \E t : IsSums(t, a, m)}
<1>1. 0 \in Good
  <2> DEFINE t == [i \in 0..0 |-> 0]
  <2>1. IsSums(t, a, 0)
    BY DEF IsSums
  <2> QED
    BY <2>1
<1>2. ASSUME NEW i \in 1..n, i - 1 \in Good PROVE i \in Good
  <2>1. PICK t : IsSums(t, a, i - 1)
    BY <1>2
  <2> DEFINE s == [k \in 0..i |-> IF k = i THEN t[i - 1] + a[i] ELSE t[k]]
  <2>2. a[i] \in Int /\ t \in [0..(i - 1) -> Int]
    BY <2>1 DEF Terms, IsSums
  <2>3. s \in [0..i -> Int]
    BY <2>2
  <2>4. s[0] = 0
    BY <2>1 DEF IsSums
  <2>5. ASSUME NEW k \in 1..i PROVE s[k] = s[k - 1] + a[k]
    <3>1. k - 1 \in 0..i /\ k - 1 # i /\ k \in 0..i
      OBVIOUS
    <3>2. CASE k = i
      BY <3>1, <3>2
    <3>3. CASE k # i
      <4>1. k \in 1..(i - 1)
        BY <3>3
      <4>2. t[k] = t[k - 1] + a[k]
        BY <2>1, <4>1 DEF IsSums
      <4> QED
        BY <3>1, <3>3, <4>2
    <3> QED
      BY <3>2, <3>3
  <2>6. IsSums(s, a, i)
    BY <2>3, <2>4, <2>5 DEF IsSums
  <2> QED
    BY <2>6
<1>3. 0..n \subseteq Good
  <2>1. Good \in SUBSET Nat
    OBVIOUS
  <2> HIDE DEF Good
  <2> QED
    BY <1>1, <1>2, <2>1, UpTo
<1> QED
  BY <1>3

\* Sums of the same terms are the same.
LEMMA SumsAgree ==
  ASSUME NEW n \in Nat, NEW m \in Nat, NEW k \in Nat, k <= n, k <= m,
         NEW a, NEW b, NEW t, NEW s, IsSums(t, a, n), IsSums(s, b, m), \A i \in 1..k : a[i] = b[i]
  PROVE  t[k] = s[k]
<1> DEFINE Good == {i \in 0..k : t[i] = s[i]}
<1>1. 0 \in Good
  BY DEF IsSums
<1>2. ASSUME NEW i \in 1..k, i - 1 \in Good PROVE i \in Good
  BY <1>2 DEF IsSums
<1>3. 0..k \subseteq Good
  <2>1. Good \in SUBSET Nat
    OBVIOUS
  <2> HIDE DEF Good
  <2> QED
    BY <1>1, <1>2, <2>1, UpTo
<1> QED
  BY <1>3

\* SumTo is the last of the partial sums.
LEMMA SumToIs ==
  ASSUME NEW n \in Nat, NEW a, Terms(a, n)
  PROVE  \E t : IsSums(t, a, n) /\ SumTo(a, n) = t[n]
<1>1. PICK t : IsSums(t, a, n)
  BY SumsExist
<1>2. t = [i \in 0..n |-> IF i = 0 THEN 0 ELSE t[i - 1] + a[i]]
  BY <1>1 DEF IsSums
<1> DEFINE c == CHOOSE s : s = [i \in 0..n |-> IF i = 0 THEN 0 ELSE s[i - 1] + a[i]]
<1>3. c = [i \in 0..n |-> IF i = 0 THEN 0 ELSE c[i - 1] + a[i]]
  BY <1>2
<1>4. SumTo(a, n) = c[n]
  BY DEF SumTo
<1> HIDE DEF c
<1> DEFINE Good == {i \in 0..n : c[i] = t[i]}
<1>5. 0 \in Good
  BY <1>1, <1>3 DEF IsSums
<1>6. ASSUME NEW i \in 1..n, i - 1 \in Good PROVE i \in Good
  <2>1. c[i] = c[i - 1] + a[i]
    BY <1>3
  <2> QED
    BY <1>1, <1>6, <2>1 DEF IsSums
<1>7. 0..n \subseteq Good
  <2>1. Good \in SUBSET Nat
    OBVIOUS
  <2> HIDE DEF Good
  <2> QED
    BY <1>5, <1>6, <2>1, UpTo
<1>8. c[n] = t[n]
  BY <1>7
<1> QED
  BY <1>1, <1>4, <1>8

LEMMA SumOfNone == ASSUME NEW a PROVE SumTo(a, 0) = 0
<1>1. Terms(a, 0)
  BY DEF Terms
<1> QED
  BY <1>1, SumToIs DEF IsSums

\* One more term.
LEMMA SumOfOneMore ==
  ASSUME NEW n \in Nat, NEW a, NEW b, Terms(a, n), Terms(b, n + 1), \A i \in 1..n : a[i] = b[i]
  PROVE  SumTo(b, n + 1) = SumTo(a, n) + b[n + 1] /\ SumTo(a, n) \in Int
<1>1. PICK t : IsSums(t, a, n) /\ SumTo(a, n) = t[n]
  BY SumToIs
<1>2. n + 1 \in Nat
  OBVIOUS
<1>3. PICK s : IsSums(s, b, n + 1) /\ SumTo(b, n + 1) = s[n + 1]
  BY <1>2, SumToIs
<1>4. t[n] = s[n]
  BY <1>1, <1>2, <1>3, SumsAgree
<1>5. s[n + 1] = s[n] + b[n + 1]
  BY <1>3 DEF IsSums
<1> QED
  BY <1>1, <1>3, <1>4, <1>5 DEF IsSums

LEMMA SumsOfSame ==
  ASSUME NEW n \in Nat, NEW a, NEW b, Terms(a, n), Terms(b, n), \A i \in 1..n : a[i] = b[i]
  PROVE  SumTo(a, n) = SumTo(b, n)
<1>1. PICK t : IsSums(t, a, n) /\ SumTo(a, n) = t[n]
  BY SumToIs
<1>2. PICK s : IsSums(s, b, n) /\ SumTo(b, n) = s[n]
  BY SumToIs
<1> QED
  BY <1>1, <1>2, SumsAgree

\* One term that becomes 0, of terms that are not negative.
LEMMA SumWithoutOne ==
  ASSUME NEW n \in Nat, NEW a, NEW b, Terms(a, n), Terms(b, n), NEW k \in 1..n,
         \A i \in 1..n : a[i] >= 0, b[k] = 0, \A i \in 1..n : i # k => b[i] = a[i]
  PROVE  SumTo(b, n) = SumTo(a, n) - a[k] /\ SumTo(a, n) >= a[k]
<1>1. PICK t : IsSums(t, a, n) /\ SumTo(a, n) = t[n]
  BY SumToIs
<1>2. PICK s : IsSums(s, b, n) /\ SumTo(b, n) = s[n]
  BY SumToIs
<1> DEFINE Good == {i \in 0..n : /\ s[i] = IF i < k THEN t[i] ELSE t[i] - a[k]
                                 /\ t[i] >= IF i < k THEN 0 ELSE a[k]}
<1>3. 0 \in Good
  BY <1>1, <1>2 DEF IsSums
<1>4. ASSUME NEW i \in 1..n, i - 1 \in Good PROVE i \in Good
  <2>1. /\ s[i] = s[i - 1] + b[i] /\ t[i] = t[i - 1] + a[i]
        /\ s[i - 1] \in Int /\ t[i - 1] \in Int /\ a[i] \in Int /\ a[k] \in Int /\ a[i] >= 0
    BY <1>1, <1>2 DEF IsSums, Terms
  <2>2. /\ s[i - 1] = IF i - 1 < k THEN t[i - 1] ELSE t[i - 1] - a[k]
        /\ t[i - 1] >= IF i - 1 < k THEN 0 ELSE a[k]
    BY <1>4
  <2>3. CASE i < k
    BY <2>1, <2>2, <2>3
  <2>4. CASE i = k
    BY <2>1, <2>2, <2>4
  <2>5. CASE i > k
    BY <2>1, <2>2, <2>5
  <2> QED
    BY <2>3, <2>4, <2>5
<1>5. 0..n \subseteq Good
  <2>1. Good \in SUBSET Nat
    OBVIOUS
  <2> HIDE DEF Good
  <2> QED
    BY <1>3, <1>4, <2>1, UpTo
<1> QED
  BY <1>1, <1>2, <1>5

-----------------------------------------------------------------------------
(* The totals.  What is still consumed is what no refund gave back, and    *)
(* the clamp at 0 never bites, because a refund finds the row it gives     *)
(* back posted, of its own amount, and given back by no other.             *)

RowOfJob(u, row) ==
  \E c \in Jobs : /\ c.user = u /\ c.key = row.key /\ c.amount = row.amount /\ c.by = row.by
                  /\ RowType(c) = row.type

\* Every row is some call's.
RowsFromJobs == \A u \in Users : \A i \in DOMAIN ledger[u] : RowOfJob(u, ledger[u][i])

GivesBack(row, k) ==
  /\ row.type = "adjust" /\ row.by = NoAdmin
  /\ \E f \in Jobs : f.kind = "refund" /\ f.of = k /\ f.key = row.key

GivenBack ==
  {k \in Keys : \E u \in Users : \E i \in DOMAIN ledger[u] : GivesBack(ledger[u][i], k)}

\* A refund, posted or on its way, comes after what it gives back.
RefundsFollow ==
  /\ \A k \in GivenBack : Posted(k)
  /\ \A p \in Procs : pc[p] # "idle" /\ job[p].kind = "refund" => Posted(job[p].of)

Open(u) == [i \in 1..Len(ledger[u]) |->
              IF ledger[u][i].type = "consume" /\ ledger[u][i].key \notin GivenBack
              THEN ledger[u][i].amount ELSE 0]

ConsumedIsOpen == \A u \in Users : consumed[u] = SumTo(Open(u), Len(ledger[u]))

OriginInv == RowsFromJobs /\ RefundsFollow

LEMMA OnlyCommitCounts ==
  ASSUME [Next]_vars
  PROVE  \/ UNCHANGED <<balance, recharged, consumed, ledger>>
         \/ \E p \in Procs : Commit(p)
BY DEF Next, Step, vars, account, Begin, OpenWallet, LockKey, KeyIsNew, Replay, LockAccount,
       NoAccount, Write, Refuse, Abort, FinalizeAudit, LoseFinalize

\* A call on its way was on its way, or has just begun.
LEMMA OnItsWay ==
  ASSUME TypeOK, [Next]_vars, NEW p \in Procs, pc'[p] # "idle"
  PROVE  \/ job'[p] = job[p] /\ pc[p] # "idle"
         \/ (job'[p].kind = "refund" => Posted(job'[p].of))
<1>1. ASSUME NEW q \in Procs, NEW j \in Jobs, Begin(q, j)
      PROVE  \/ job'[p] = job[p] /\ pc[p] # "idle"
             \/ (job'[p].kind = "refund" => Posted(job'[p].of))
  BY <1>1 DEF Begin, TypeOK
<1>2. ASSUME NEW q \in Procs, Step(q) \/ Abort(q) \/ LoseFinalize(q)
      PROVE  job'[p] = job[p] /\ pc[p] # "idle"
  <2>1. UNCHANGED job
    BY <1>2 DEF Step, LockKey, KeyIsNew, Replay, LockAccount, NoAccount, Write, Refuse, Commit,
       FinalizeAudit, Abort, LoseFinalize
  <2>2. pc[q] # "idle"
    BY <1>2 DEF Step, LockKey, KeyIsNew, Replay, LockAccount, NoAccount, Write, Refuse, Commit,
       FinalizeAudit, Abort, LoseFinalize, InTransaction
  <2>3. \E next : pc' = [pc EXCEPT ![q] = next]
    BY <1>2, Zenon DEF Step, LockKey, KeyIsNew, Replay, LockAccount, NoAccount, Write, Refuse, Commit,
       FinalizeAudit, Abort, LoseFinalize, End, Goto
  <2> QED
    BY <2>1, <2>2, <2>3 DEF TypeOK
<1>3. CASE (\E u \in Users : OpenWallet(u)) \/ UNCHANGED vars
  BY <1>3 DEF OpenWallet, vars
<1> QED
  BY <1>1, <1>2, <1>3 DEF Next

\* What a commit writes, on the totals it finds.
LEMMA CommitEffect ==
  ASSUME TypeOK, LockInv, NEW p \in Procs, Commit(p)
  PROVE  LET j == job[p]
             r == NewRow(j, seen[p])
             u == j.user
         IN /\ j \in Jobs /\ ~Posted(j.key) /\ pc[p] = "commit"
            /\ r \in RowRecord /\ r.type = RowType(j) /\ r.key = j.key
            /\ r.amount = j.amount /\ r.by = j.by
            /\ ledger' = [ledger EXCEPT ![u] = Append(@, r)]
            /\ balance' = [balance EXCEPT ![u] = balance[u] + Delta(j)]
            /\ recharged' = [recharged EXCEPT ![u] =
                               IF j.kind = "credit" THEN recharged[u] + j.amount ELSE recharged[u]]
            /\ consumed' = [consumed EXCEPT ![u] =
                 CASE j.kind = "consume" -> consumed[u] + j.amount
                   [] j.kind = "refund"  -> IF consumed[u] > j.amount THEN consumed[u] - j.amount
                                                                      ELSE 0
                   [] OTHER              -> consumed[u]]
<1> DEFINE j == job[p]
           s == seen[p]
<1>1. j \in Jobs /\ s \in Totals /\ pc[p] = "commit"
  BY DEF TypeOK, Commit
<1>2. /\ s.balance = balance[j.user] /\ s.recharged = recharged[j.user]
      /\ s.consumed = consumed[j.user]
  <2>1. pc[p] \in Holding
    BY <1>1 DEF Holding
  <2>2. seen[p] = [balance   |-> balance[job[p].user],
                   recharged |-> recharged[job[p].user],
                   consumed  |-> consumed[job[p].user]]
    BY <2>1 DEF LockInv, SeenIsCurrent
  <2> QED
    BY <2>2
<1>3. ~Posted(j.key)
  BY <1>1 DEF LockInv, MayCommit
<1>4. NewRow(j, s) \in RowRecord
  BY <1>1, WriteFacts
<1>5. /\ NewRow(j, s).type = RowType(j) /\ NewRow(j, s).key = j.key
      /\ NewRow(j, s).amount = j.amount /\ NewRow(j, s).by = j.by
  BY DEF NewRow
<1>6. /\ ledger' = [ledger EXCEPT ![j.user] = Append(@, NewRow(j, s))]
      /\ balance' = [balance EXCEPT ![j.user] = balance[j.user] + Delta(j)]
  BY <1>2 DEF Commit
<1>7. recharged' = [recharged EXCEPT ![j.user] =
                      IF j.kind = "credit" THEN recharged[j.user] + j.amount ELSE recharged[j.user]]
  BY <1>2 DEF Commit, NewRecharged
<1>8. consumed' = [consumed EXCEPT ![j.user] =
                 CASE j.kind = "consume" -> consumed[j.user] + j.amount
                   [] j.kind = "refund"  -> IF consumed[j.user] > j.amount
                                            THEN consumed[j.user] - j.amount ELSE 0
                   [] OTHER              -> consumed[j.user]]
  BY <1>2 DEF Commit, NewConsumed
<1> QED
  BY <1>1, <1>3, <1>4, <1>5, <1>6, <1>7, <1>8

\* Rows after an append: the old ones and the new one.
LEMMA RowsAfterAppend ==
  ASSUME TypeOK, NEW u \in Users, NEW r \in RowRecord,
         ledger' = [ledger EXCEPT ![u] = Append(@, r)],
         NEW v \in Users, NEW i \in DOMAIN ledger'[v]
  PROVE  \/ i \in DOMAIN ledger[v] /\ ledger'[v][i] = ledger[v][i]
         \/ v = u /\ i = Len(ledger[u]) + 1 /\ ledger'[v][i] = r
<1>1. /\ \A x \in Users \ {u} : ledger'[x] = ledger[x]
      /\ Len(ledger[u]) \in Nat /\ DOMAIN ledger[u] = 1..Len(ledger[u])
      /\ DOMAIN ledger'[u] = 1..(Len(ledger[u]) + 1)
      /\ \A x \in DOMAIN ledger[u] : ledger'[u][x] = ledger[u][x]
      /\ ledger'[u][Len(ledger[u]) + 1] = r
  BY AppendFacts
<1> QED
  BY <1>1

LEMMA GivenBackAfterAppend ==
  ASSUME TypeOK, NEW u \in Users, NEW r \in RowRecord,
         ledger' = [ledger EXCEPT ![u] = Append(@, r)]
  PROVE  GivenBack' = GivenBack \cup {k \in Keys : GivesBack(r, k)}
<1>0. /\ \A x \in Users \ {u} : ledger'[x] = ledger[x]
      /\ Len(ledger[u]) \in Nat /\ DOMAIN ledger[u] = 1..Len(ledger[u])
      /\ DOMAIN ledger'[u] = 1..(Len(ledger[u]) + 1)
      /\ \A x \in DOMAIN ledger[u] : ledger'[u][x] = ledger[u][x]
      /\ ledger'[u][Len(ledger[u]) + 1] = r
  BY AppendFacts
<1>1. /\ \A v \in Users : \A i \in DOMAIN ledger[v] :
            i \in DOMAIN ledger'[v] /\ ledger'[v][i] = ledger[v][i]
      /\ Len(ledger[u]) + 1 \in DOMAIN ledger'[u] /\ ledger'[u][Len(ledger[u]) + 1] = r
  BY <1>0
<1>2. ASSUME NEW k \in GivenBack' PROVE k \in GivenBack \/ GivesBack(r, k)
  BY <1>2, RowsAfterAppend DEF GivenBack, GivesBack
<1>3. GivenBack \subseteq GivenBack'
  BY <1>1 DEF GivenBack, GivesBack
<1>4. ASSUME NEW k \in Keys, GivesBack(r, k) PROVE k \in GivenBack'
  BY <1>1, <1>4 DEF GivenBack, GivesBack
<1> QED
  BY <1>2, <1>3, <1>4 DEF GivenBack

LEMMA OriginStep ==
  ASSUME TypeOK, LockInv, OriginInv, [Next]_vars PROVE OriginInv'
<1>1. ASSUME NEW p \in Procs, Commit(p)
      PROVE  /\ RowsFromJobs'
             /\ \A k \in GivenBack' : Posted(k)'
             /\ \A k : Posted(k) => Posted(k)'
  <2> DEFINE j == job[p]
             r == NewRow(j, seen[p])
             u == j.user
  <2>1. /\ j \in Jobs /\ pc[p] = "commit"
        /\ r \in RowRecord /\ r.type = RowType(j) /\ r.key = j.key
        /\ r.amount = j.amount /\ r.by = j.by
        /\ ledger' = [ledger EXCEPT ![u] = Append(@, r)]
    BY <1>1, CommitEffect
  <2>2. u \in Users
    BY <2>1, JobFacts
  <2>3. j.kind = "refund" => Posted(j.of)
    BY <2>1 DEF OriginInv, RefundsFollow
  <2>4. RowOfJob(u, r)
    BY <2>1 DEF RowOfJob
  <2> HIDE DEF r
  <2>5. \A k : Posted(k) => Posted(k)'
    BY <2>1, <2>2, PostedAfterAppend
  <2>6. ASSUME NEW k \in Keys, GivesBack(r, k) PROVE Posted(k)
    <3>1. PICK f \in Jobs : f.kind = "refund" /\ f.of = k /\ f.key = j.key
      BY <2>1, <2>6 DEF GivesBack
    <3>2. j.kind = "refund"
      <4>1. j.by = NoAdmin /\ RowType(j) = "adjust"
        BY <2>1, <2>6 DEF GivesBack
      <4> QED
        BY <2>1, <4>1, JobFacts, NamesAssumption DEF RowType, Kinds
    <3>3. j.of = k
      BY <2>1, <3>1, <3>2, RefundsAssumption
    <3> QED
      BY <2>3, <3>2, <3>3
  <2>7. ASSUME NEW k \in GivenBack' PROVE Posted(k)'
    <3>1. k \in Keys /\ (k \in GivenBack \/ GivesBack(r, k))
      BY <2>1, <2>2, <2>7, GivenBackAfterAppend DEF GivenBack
    <3> QED
      BY <2>5, <2>6, <3>1 DEF OriginInv, RefundsFollow
  <2>8. ASSUME NEW v \in Users, NEW i \in DOMAIN ledger'[v] PROVE RowOfJob(v, ledger'[v][i])
    <3>1. \/ i \in DOMAIN ledger[v] /\ ledger'[v][i] = ledger[v][i]
          \/ v = u /\ ledger'[v][i] = r
      BY <2>1, <2>2, RowsAfterAppend
    <3> QED
      BY <2>4, <3>1 DEF OriginInv, RowsFromJobs
  <2>9. RowsFromJobs'
    BY <2>8 DEF RowsFromJobs, RowOfJob
  <2> QED
    BY <2>5, <2>7, <2>9
<1>2. ASSUME UNCHANGED ledger
      PROVE  /\ RowsFromJobs'
             /\ \A k \in GivenBack' : Posted(k)'
             /\ \A k : Posted(k) => Posted(k)'
  <2>1. RowsFromJobs'
    BY <1>2 DEF OriginInv, RowsFromJobs, RowOfJob
  <2>2. \A k : Posted(k)' <=> Posted(k)
    BY <1>2 DEF Posted
  <2>3. GivenBack' = GivenBack
    BY <1>2 DEF GivenBack, GivesBack
  <2> QED
    BY <2>1, <2>2, <2>3 DEF OriginInv, RefundsFollow
<1>3. /\ RowsFromJobs'
      /\ \A k \in GivenBack' : Posted(k)'
      /\ \A k : Posted(k) => Posted(k)'
  BY <1>1, <1>2, OnlyCommitCounts
<1>4. ASSUME NEW p \in Procs, pc'[p] # "idle", job'[p].kind = "refund" PROVE Posted(job[p].of)'
  <2>1. Posted(job'[p].of)
    BY <1>4, OnItsWay DEF OriginInv, RefundsFollow
  <2>2. PICK k : k = job'[p].of
    OBVIOUS
  <2>3. Posted(k)'
    BY <1>3, <2>1, <2>2
  <2> QED
    BY <2>2, <2>3 DEF Posted
<1>5. RefundsFollow'
  BY <1>3, <1>4 DEF RefundsFollow, Posted
<1> QED
  BY <1>3, <1>5 DEF OriginInv

LEMMA OriginHolds == Spec => []OriginInv
<1>1. Init => OriginInv
  BY DEF Init, OriginInv, RowsFromJobs, RefundsFollow, GivenBack
<1> QED
  BY <1>1, OriginStep, WalletTypeOK, LockInvHolds, PTL DEF Spec

\* What an unposted refund gives back: one open row of its user and its amount.
LEMMA RefundFindsItsRow ==
  ASSUME TypeOK, OriginInv, KeyPostedOnce, NEW j \in Jobs, j.kind = "refund", ~Posted(j.key),
         Posted(j.of)
  PROVE  /\ j.of \notin GivenBack
         /\ \E m \in DOMAIN ledger[j.user] :
              /\ ledger[j.user][m].key = j.of /\ ledger[j.user][m].type = "consume"
              /\ ledger[j.user][m].amount = j.amount
              /\ \A v \in Users : \A i \in DOMAIN ledger[v] :
                   ledger[v][i].key = j.of => v = j.user /\ i = m
<1>1. PICK v \in Users : \E m \in DOMAIN ledger[v] : ledger[v][m].key = j.of
  BY DEF Posted
<1>2. PICK m \in DOMAIN ledger[v] : ledger[v][m].key = j.of
  BY <1>1
<1>3. PICK c \in Jobs : /\ c.user = v /\ c.key = j.of /\ c.amount = ledger[v][m].amount
                        /\ RowType(c) = ledger[v][m].type
  BY <1>2 DEF OriginInv, RowsFromJobs, RowOfJob
<1>4. c.kind = "consume" /\ v = j.user /\ c.amount = j.amount
  BY <1>3, RefundsAssumption
<1>5. ledger[v][m].type = "consume"
  BY <1>3, <1>4 DEF RowType
<1>6. ASSUME NEW x \in Users, NEW i \in DOMAIN ledger[x], ledger[x][i].key = j.of
      PROVE  x = v /\ i = m
  BY <1>2, <1>6 DEF KeyPostedOnce
<1>7. ASSUME j.of \in GivenBack PROVE FALSE
  <2>1. PICK x \in Users : \E i \in DOMAIN ledger[x] : GivesBack(ledger[x][i], j.of)
    BY <1>7 DEF GivenBack
  <2>2. PICK i \in DOMAIN ledger[x] : GivesBack(ledger[x][i], j.of)
    BY <2>1
  <2>3. PICK f \in Jobs : f.kind = "refund" /\ f.of = j.of /\ f.key = ledger[x][i].key
    BY <2>2 DEF GivesBack
  <2>4. f.key = j.key
    BY <2>3, RefundsAssumption
  <2> QED
    BY <2>2, <2>3, <2>4 DEF Posted
<1> QED
  BY <1>2, <1>3, <1>4, <1>5, <1>6, <1>7

LEMMA OpenTerms ==
  ASSUME TypeOK, RowsFromJobs, NEW u \in Users
  PROVE  /\ Len(ledger[u]) \in Nat /\ DOMAIN ledger[u] = 1..Len(ledger[u])
         /\ Terms(Open(u), Len(ledger[u]))
         /\ \A i \in 1..Len(ledger[u]) : Open(u)[i] >= 0
<1>1. ledger[u] \in Seq(RowRecord) /\ Len(ledger[u]) \in Nat /\ DOMAIN ledger[u] = 1..Len(ledger[u])
  BY DEF TypeOK
<1>2. ASSUME NEW i \in 1..Len(ledger[u]) PROVE Open(u)[i] \in Int /\ Open(u)[i] >= 0
  <2>1. PICK c \in Jobs : c.amount = ledger[u][i].amount /\ RowType(c) = ledger[u][i].type
    BY <1>1 DEF RowsFromJobs, RowOfJob
  <2>2. c.amount \in Int /\ (RowType(c) = "consume" => c.amount > 0)
    BY JobFacts DEF RowType
  <2>3. Open(u)[i] = IF ledger[u][i].type = "consume" /\ ledger[u][i].key \notin GivenBack
                     THEN ledger[u][i].amount ELSE 0
    BY DEF Open
  <2> QED
    BY <2>1, <2>2, <2>3
<1> QED
  BY <1>1, <1>2 DEF Terms

\* What one commit does to the sum of what is open, per kind of call.
LEMMA CommitCounts ==
  ASSUME TypeOK, LockInv, OriginInv, KeyPostedOnce, ConsumedIsOpen, NEW p \in Procs, Commit(p),
         NEW j \in Jobs, j = job[p], NEW u \in Users, u = j.user
  PROVE  /\ SumTo(Open(u), Len(ledger[u]))' =
              SumTo(Open(u), Len(ledger[u]))
                + (CASE j.kind = "consume" -> j.amount
                     [] j.kind = "refund"  -> -j.amount
                     [] OTHER              -> 0)
         /\ j.kind = "refund" => consumed[u] >= j.amount
         /\ SumTo(Open(u), Len(ledger[u])) \in Int
         /\ \A v \in Users \ {u} : Open(v)' = Open(v)
<1>0. PICK r : r = NewRow(j, seen[p])
  OBVIOUS
<1>1. /\ pc[p] = "commit" /\ ~Posted(j.key)
      /\ r \in RowRecord /\ r.type = RowType(j) /\ r.key = j.key
      /\ r.amount = j.amount /\ r.by = j.by
      /\ ledger' = [ledger EXCEPT ![u] = Append(@, r)]
  BY <1>0, CommitEffect
<1>2. j.key \in Keys /\ j.amount \in Int /\ j.kind \in Kinds /\ j.of \in Keys
  BY <1>1, JobFacts DEF JobType
<1>3. PICK n \in Nat : n = Len(ledger[u])
  BY OpenTerms DEF OriginInv
<1>4. PICK a : a = Open(u)
  OBVIOUS
<1>5. PICK b : b = Open(u)'
  OBVIOUS
<1>6. /\ DOMAIN ledger[u] = 1..n
      /\ Terms(a, n) /\ \A i \in 1..n : a[i] >= 0
  BY <1>3, <1>4, OpenTerms DEF OriginInv
<1>7. /\ \A v \in Users \ {u} : ledger'[v] = ledger[v]
      /\ Len(ledger'[u]) = n + 1
      /\ \A i \in 1..n : ledger'[u][i] = ledger[u][i]
      /\ ledger'[u][n + 1] = r
  <2>1. /\ \A v \in Users \ {u} : ledger'[v] = ledger[v]
        /\ Len(ledger'[u]) = Len(ledger[u]) + 1
        /\ \A i \in DOMAIN ledger[u] : ledger'[u][i] = ledger[u][i]
        /\ ledger'[u][Len(ledger[u]) + 1] = r
    BY <1>1, AppendFacts
  <2> QED
    BY <1>3, <1>6, <2>1
<1>8. GivenBack' = GivenBack \cup {k \in Keys : GivesBack(r, k)}
  BY <1>1, GivenBackAfterAppend
<1>9. j.key \notin GivenBack
  BY <1>1 DEF OriginInv, RefundsFollow
<1>10. \A i \in 1..n : ledger[u][i].key \in Keys
  <2>1. \A i \in 1..n : ledger[u][i] \in RowRecord
    BY <1>3 DEF TypeOK
  <2> QED
    BY <2>1 DEF RowRecord
<1>11. \A i \in 1..(n + 1) : b[i] = IF ledger'[u][i].type = "consume"
                                       /\ ledger'[u][i].key \notin GivenBack'
                                    THEN ledger'[u][i].amount ELSE 0
  BY <1>5, <1>7 DEF Open
<1>12. \A i \in 1..n : b[i] = IF GivesBack(r, ledger[u][i].key) THEN 0 ELSE a[i]
  <2> SUFFICES ASSUME NEW i \in 1..n
               PROVE  b[i] = IF GivesBack(r, ledger[u][i].key) THEN 0 ELSE a[i]
    OBVIOUS
  <2>1. i \in 1..(n + 1) /\ ledger'[u][i] = ledger[u][i] /\ ledger[u][i].key \in Keys
    BY <1>7, <1>10
  <2>2. a[i] = IF ledger[u][i].type = "consume" /\ ledger[u][i].key \notin GivenBack
               THEN ledger[u][i].amount ELSE 0
    BY <1>3, <1>4 DEF Open
  <2>3. b[i] = IF ledger[u][i].type = "consume" /\ ledger[u][i].key \notin GivenBack'
               THEN ledger[u][i].amount ELSE 0
    BY <1>11, <2>1
  <2> QED
    BY <1>8, <2>1, <2>2, <2>3
<1>13. b[n + 1] = IF j.kind = "consume" THEN j.amount ELSE 0
  <2>1. n + 1 \in 1..(n + 1)
    OBVIOUS
  <2>2. r.type = "consume" <=> j.kind = "consume"
    BY <1>1 DEF RowType
  <2>3. r.type = "consume" => r.key \notin GivenBack'
    BY <1>1, <1>8, <1>9 DEF GivesBack
  <2> QED
    BY <1>1, <1>7, <1>11, <2>1, <2>2, <2>3
<1>14. \A k \in Keys : GivesBack(r, k) <=> j.kind = "refund" /\ k = j.of
  <2>1. r.type = "adjust" /\ r.by = NoAdmin <=> j.kind = "refund"
    BY <1>1, <1>2, JobFacts, NamesAssumption DEF RowType, Kinds
  <2>2. ASSUME j.kind = "refund", NEW k \in Keys
        PROVE  (\E f \in Jobs : f.kind = "refund" /\ f.of = k /\ f.key = r.key) <=> k = j.of
    BY <1>1, <2>2, RefundsAssumption
  <2> QED
    BY <2>1, <2>2 DEF GivesBack
<1>15. Terms(b, n) /\ Terms(b, n + 1)
  <2>1. \A i \in 1..n : b[i] \in Int
    BY <1>6, <1>12 DEF Terms
  <2>2. b[n + 1] \in Int
    BY <1>2, <1>13
  <2>3. \A i \in 1..(n + 1) : i \in 1..n \/ i = n + 1
    OBVIOUS
  <2> QED
    BY <2>1, <2>2, <2>3 DEF Terms
<1>16. SumTo(b, n + 1) = SumTo(b, n) + b[n + 1] /\ SumTo(b, n) \in Int
  BY <1>15, SumOfOneMore
<1>17. SumTo(a, n) \in Int
  BY <1>6, SumToIs DEF IsSums
<1>18. SumTo(Open(u), Len(ledger[u]))' = SumTo(b, n + 1)
  BY <1>5, <1>7
<1>19. SumTo(Open(u), Len(ledger[u])) = SumTo(a, n) /\ consumed[u] = SumTo(a, n)
  BY <1>3, <1>4 DEF ConsumedIsOpen
<1>20. ASSUME NEW v \in Users \ {u} PROVE Open(v)' = Open(v)
  <2>1. ledger'[v] = ledger[v] /\ ledger[v] \in Seq(RowRecord)
    BY <1>7 DEF TypeOK
  <2>2. ASSUME NEW i \in 1..Len(ledger[v])
        PROVE  ledger[v][i].key \in GivenBack' <=> ledger[v][i].key \in GivenBack
    <3>1. ledger[v][i].key \in Keys
      <4>1. ledger[v][i] \in RowRecord
        BY <2>1
      <4> QED
        BY <4>1 DEF RowRecord
    <3>2. ledger[v][i].key = j.of /\ j.kind = "refund" => FALSE
      <4> SUFFICES ASSUME ledger[v][i].key = j.of, j.kind = "refund" PROVE FALSE
        OBVIOUS
      <4>1. PICK c \in Jobs : c.user = v /\ c.key = j.of
        BY <2>1 DEF OriginInv, RowsFromJobs, RowOfJob
      <4> QED
        BY <4>1, RefundsAssumption
    <3> QED
      BY <1>8, <1>14, <3>1, <3>2
  <2> QED
    BY <2>1, <2>2 DEF Open
<1>21. CASE j.kind # "refund"
  <2>1. SumTo(a, n) = SumTo(b, n)
    <3>1. \A i \in 1..n : a[i] = b[i]
      BY <1>10, <1>12, <1>14, <1>21
    <3> QED
      BY <1>6, <1>15, <3>1, SumsOfSame
  <2>2. b[n + 1] = CASE j.kind = "consume" -> j.amount
                      [] j.kind = "refund"  -> -j.amount
                      [] OTHER              -> 0
    BY <1>2, <1>13, <1>21
  <2>3. SumTo(b, n + 1) = SumTo(a, n) + b[n + 1]
    BY <1>16, <2>1
  <2> QED
    BY <1>17, <1>18, <1>19, <1>21, <1>20, <2>2, <2>3
<1>22. CASE j.kind = "refund"
  <2>1. Posted(j.of)
    BY <1>1, <1>22 DEF OriginInv, RefundsFollow
  <2>2. /\ j.of \notin GivenBack
        /\ \E m \in DOMAIN ledger[j.user] :
             /\ ledger[j.user][m].key = j.of /\ ledger[j.user][m].type = "consume"
             /\ ledger[j.user][m].amount = j.amount
             /\ \A v \in Users : \A i \in DOMAIN ledger[v] :
                  ledger[v][i].key = j.of => v = j.user /\ i = m
    BY <1>1, <1>22, <2>1, RefundFindsItsRow
  <2>3. PICK m \in 1..n : /\ ledger[u][m].key = j.of /\ ledger[u][m].type = "consume"
                          /\ ledger[u][m].amount = j.amount
                          /\ \A i \in 1..n : ledger[u][i].key = j.of => i = m
    BY <1>6, <2>2
  <2>4. a[m] = j.amount
    BY <1>3, <1>4, <2>2, <2>3 DEF Open
  <2>5. b[m] = 0 /\ \A i \in 1..n : i # m => b[i] = a[i]
    BY <1>10, <1>12, <1>14, <1>22, <2>3
  <2>6. SumTo(b, n) = SumTo(a, n) - j.amount /\ SumTo(a, n) >= j.amount
    BY <1>6, <1>15, <2>4, <2>5, SumWithoutOne
  <2>7. SumTo(b, n + 1) = SumTo(a, n) - j.amount
    BY <1>2, <1>13, <1>16, <1>17, <1>22, <2>6
  <2> QED
    BY <1>2, <1>17, <1>18, <1>19, <1>22, <1>20, <2>6, <2>7
<1> QED
  BY <1>21, <1>22

LEMMA ConsumedStep ==
  ASSUME TypeOK, LockInv, OriginInv, KeyPostedOnce, ConsumedIsOpen, [Next]_vars
  PROVE  ConsumedIsOpen'
<1>1. CASE UNCHANGED <<balance, recharged, consumed, ledger>>
  BY <1>1 DEF ConsumedIsOpen, Open, GivenBack, GivesBack
<1>2. ASSUME NEW p \in Procs, Commit(p) PROVE ConsumedIsOpen'
  <2>1. PICK j \in Jobs : j = job[p]
    BY DEF TypeOK
  <2>2. PICK u \in Users : u = j.user
    BY JobFacts
  <2>3. /\ SumTo(Open(u), Len(ledger[u]))' =
             SumTo(Open(u), Len(ledger[u]))
               + (CASE j.kind = "consume" -> j.amount
                    [] j.kind = "refund"  -> -j.amount
                    [] OTHER              -> 0)
        /\ j.kind = "refund" => consumed[u] >= j.amount
        /\ SumTo(Open(u), Len(ledger[u])) \in Int
        /\ \A v \in Users \ {u} : Open(v)' = Open(v)
    BY <1>2, <2>1, <2>2, CommitCounts
  <2>4. /\ ledger' = [ledger EXCEPT ![u] = Append(@, NewRow(j, seen[p]))]
        /\ consumed' = [consumed EXCEPT ![u] =
             CASE j.kind = "consume" -> consumed[u] + j.amount
               [] j.kind = "refund"  -> IF consumed[u] > j.amount THEN consumed[u] - j.amount ELSE 0
               [] OTHER              -> consumed[u]]
    BY <1>2, <2>1, <2>2, CommitEffect
  <2>5. consumed[u] = SumTo(Open(u), Len(ledger[u])) /\ consumed[u] \in Int /\ j.amount \in Int
    BY JobFacts DEF ConsumedIsOpen, TypeOK
  <2>6. consumed'[u] = consumed[u] + (CASE j.kind = "consume" -> j.amount
                                        [] j.kind = "refund"  -> -j.amount
                                        [] OTHER              -> 0)
    <3>1. consumed'[u] = CASE j.kind = "consume" -> consumed[u] + j.amount
               [] j.kind = "refund"  -> IF consumed[u] > j.amount THEN consumed[u] - j.amount ELSE 0
               [] OTHER              -> consumed[u]
      BY <2>4 DEF TypeOK
    <3> QED
      BY <2>3, <2>5, <3>1
  <2>7. consumed'[u] = SumTo(Open(u), Len(ledger[u]))'
    BY <2>3, <2>5, <2>6
  <2>8. ASSUME NEW v \in Users \ {u} PROVE consumed'[v] = SumTo(Open(v), Len(ledger[v]))'
    <3>1. consumed'[v] = consumed[v] /\ ledger'[v] = ledger[v]
      BY <2>4 DEF TypeOK
    <3>2. Open(v)' = Open(v)
      BY <2>3
    <3> QED
      BY <3>1, <3>2 DEF ConsumedIsOpen
  <2>9. \A v \in Users : consumed'[v] = SumTo(Open(v), Len(ledger[v]))'
    BY <2>7, <2>8
  <2> QED
    BY <2>9 DEF ConsumedIsOpen
<1> QED
  BY <1>1, <1>2, OnlyCommitCounts

\* A row more adds what an administrator's row moves to the adjusted points.
LEMMA AdjustedAfterAppend ==
  ASSUME TypeOK, NEW u \in Users, NEW r \in RowRecord,
         ledger' = [ledger EXCEPT ![u] = Append(@, r)]
  PROVE  /\ AdjustedPoints(u)' = AdjustedPoints(u) + Adjusted(r)
         /\ AdjustedPoints(u) \in Int
         /\ \A v \in Users \ {u} : AdjustedPoints(v)' = AdjustedPoints(v)
<1>1. PICK n \in Nat : n = Len(ledger[u])
  BY DEF TypeOK
<1>2. /\ \A v \in Users \ {u} : ledger'[v] = ledger[v]
      /\ Len(ledger'[u]) = n + 1
      /\ \A i \in 1..n : ledger'[u][i] = ledger[u][i]
      /\ ledger'[u][n + 1] = r
  <2>1. /\ \A v \in Users \ {u} : ledger'[v] = ledger[v]
        /\ Len(ledger[u]) \in Nat /\ DOMAIN ledger[u] = 1..Len(ledger[u])
        /\ Len(ledger'[u]) = Len(ledger[u]) + 1
        /\ DOMAIN ledger'[u] = 1..(Len(ledger[u]) + 1)
        /\ \A i \in DOMAIN ledger[u] : ledger'[u][i] = ledger[u][i]
        /\ ledger'[u][Len(ledger[u]) + 1] = r
    BY AppendFacts
  <2>2. DOMAIN ledger[u] = 1..n
    BY <1>1, <2>1
  <2> QED
    BY <1>1, <2>1, <2>2
<1>3. PICK a : a = [i \in 1..n |-> Adjusted(ledger[u][i])]
  OBVIOUS
<1>4. PICK b : b = [i \in 1..(n + 1) |-> Adjusted(ledger'[u][i])]
  OBVIOUS
<1>5. \A i \in 1..n : a[i] = b[i] /\ a[i] \in Int
  <2> SUFFICES ASSUME NEW i \in 1..n PROVE a[i] = b[i] /\ a[i] \in Int
    OBVIOUS
  <2>1. ledger[u][i] \in RowRecord /\ i \in 1..(n + 1)
    <3>1. ledger[u] \in Seq(RowRecord)
      BY DEF TypeOK
    <3>2. ledger[u][i] \in RowRecord
      BY <1>1, <3>1
    <3> QED
      BY <3>2
  <2>2. Adjusted(ledger[u][i]) \in Int
    BY <2>1 DEF Adjusted, RowRecord
  <2> QED
    BY <1>2, <1>3, <1>4, <2>1, <2>2
<1>6. b[n + 1] = Adjusted(r) /\ b[n + 1] \in Int
  BY <1>2, <1>4 DEF Adjusted, RowRecord
<1>7. Terms(a, n) /\ Terms(b, n + 1)
  <2>1. \A i \in 1..(n + 1) : i \in 1..n \/ i = n + 1
    OBVIOUS
  <2> QED
    BY <1>5, <1>6, <2>1 DEF Terms
<1>8. SumTo(b, n + 1) = SumTo(a, n) + b[n + 1] /\ SumTo(a, n) \in Int
  BY <1>5, <1>7, SumOfOneMore
<1>9. AdjustedPoints(u) = SumTo(a, n) /\ AdjustedPoints(u)' = SumTo(b, n + 1)
  BY <1>1, <1>2, <1>3, <1>4 DEF AdjustedPoints, Adjusted
<1>10. ASSUME NEW v \in Users \ {u} PROVE AdjustedPoints(v)' = AdjustedPoints(v)
  BY <1>2 DEF AdjustedPoints, Adjusted
<1> QED
  BY <1>6, <1>8, <1>9, <1>10

\* What one commit does to the adjusted points.
LEMMA CommitBalances ==
  ASSUME TypeOK, LockInv, NEW p \in Procs, Commit(p),
         NEW j \in Jobs, j = job[p], NEW u \in Users, u = j.user
  PROVE  /\ AdjustedPoints(u)' = AdjustedPoints(u) + (IF j.kind = "adjust" THEN j.amount ELSE 0)
         /\ AdjustedPoints(u) \in Int
         /\ \A v \in Users \ {u} : AdjustedPoints(v)' = AdjustedPoints(v)
<1>1. PICK r : r = NewRow(j, seen[p])
  OBVIOUS
<1>2. r \in RowRecord /\ ledger' = [ledger EXCEPT ![u] = Append(@, r)]
  BY <1>1, CommitEffect
<1>3. Adjusted(r) = IF j.kind = "adjust" THEN j.amount ELSE 0
  <2>1. r.amount = j.amount /\ r.by = j.by
    BY <1>1 DEF NewRow
  <2> QED
    BY <2>1, JobFacts, NamesAssumption DEF Adjusted
<1> QED
  BY <1>2, <1>3, AdjustedAfterAppend

LEMMA TotalsStep ==
  ASSUME TypeOK, LockInv, OriginInv, KeyPostedOnce, ConsumedIsOpen, TotalsExplainBalance, [Next]_vars
  PROVE  TotalsExplainBalance'
<1>1. CASE UNCHANGED <<balance, recharged, consumed, ledger>>
  BY <1>1 DEF TotalsExplainBalance, AdjustedPoints, Adjusted
<1>2. ASSUME NEW p \in Procs, Commit(p) PROVE TotalsExplainBalance'
  <2>1. PICK j \in Jobs : j = job[p]
    BY DEF TypeOK
  <2>2. PICK u \in Users : u = j.user
    BY JobFacts
  <2>3. j.kind = "refund" => consumed[u] >= j.amount
    BY <1>2, <2>1, <2>2, CommitCounts
  <2>4. /\ AdjustedPoints(u)' = AdjustedPoints(u) + (IF j.kind = "adjust" THEN j.amount ELSE 0)
        /\ AdjustedPoints(u) \in Int
        /\ \A v \in Users \ {u} : AdjustedPoints(v)' = AdjustedPoints(v)
    BY <1>2, <2>1, <2>2, CommitBalances
  <2>5. /\ balance' = [balance EXCEPT ![u] = balance[u] + Delta(j)]
        /\ recharged' = [recharged EXCEPT ![u] =
                           IF j.kind = "credit" THEN recharged[u] + j.amount ELSE recharged[u]]
        /\ consumed' = [consumed EXCEPT ![u] =
             CASE j.kind = "consume" -> consumed[u] + j.amount
               [] j.kind = "refund"  -> IF consumed[u] > j.amount THEN consumed[u] - j.amount ELSE 0
               [] OTHER              -> consumed[u]]
    BY <1>2, <2>1, <2>2, CommitEffect
  <2>6. /\ balance'[u] = balance[u] + Delta(j)
        /\ recharged'[u] = IF j.kind = "credit" THEN recharged[u] + j.amount ELSE recharged[u]
        /\ consumed'[u] =
             CASE j.kind = "consume" -> consumed[u] + j.amount
               [] j.kind = "refund"  -> IF consumed[u] > j.amount THEN consumed[u] - j.amount ELSE 0
               [] OTHER              -> consumed[u]
    BY <2>5 DEF TypeOK
  <2>7. /\ balance[u] = recharged[u] - consumed[u] + AdjustedPoints(u)
        /\ balance[u] \in Int /\ recharged[u] \in Int /\ consumed[u] \in Int
        /\ j.amount \in Int /\ j.kind \in Kinds
    BY JobFacts DEF TotalsExplainBalance, TypeOK
  <2>8. balance'[u] = recharged'[u] - consumed'[u] + AdjustedPoints(u)'
    <3>1. CASE j.kind = "credit"
      BY <2>4, <2>6, <2>7, <3>1 DEF Delta
    <3>2. CASE j.kind = "consume"
      BY <2>4, <2>6, <2>7, <3>2 DEF Delta
    <3>3. CASE j.kind = "refund"
      BY <2>3, <2>4, <2>6, <2>7, <3>3 DEF Delta
    <3>4. CASE j.kind = "adjust"
      BY <2>4, <2>6, <2>7, <3>4 DEF Delta
    <3> QED
      BY <2>7, <3>1, <3>2, <3>3, <3>4 DEF Kinds
  <2>9. ASSUME NEW v \in Users \ {u}
        PROVE  balance'[v] = recharged'[v] - consumed'[v] + AdjustedPoints(v)'
    BY <2>4, <2>5 DEF TotalsExplainBalance, TypeOK
  <2>10. \A v \in Users : balance'[v] = recharged'[v] - consumed'[v] + AdjustedPoints(v)'
    BY <2>8, <2>9
  <2> QED
    BY <2>10 DEF TotalsExplainBalance
<1> QED
  BY <1>1, <1>2, OnlyCommitCounts

\* The three totals of every wallet agree with one another and with the ledger,
\* however many refunds run beside consumptions: what total_consumed_points
\* shows is what no refund gave back, and its clamp at 0 never hides a point.
THEOREM WalletTotalsExplainBalance == Spec => []TotalsExplainBalance
<1>1. Init => ConsumedIsOpen /\ TotalsExplainBalance
  <2> SUFFICES ASSUME Init, NEW u \in Users
               PROVE  /\ consumed[u] = SumTo(Open(u), Len(ledger[u]))
                      /\ balance[u] = recharged[u] - consumed[u] + AdjustedPoints(u)
    BY DEF ConsumedIsOpen, TotalsExplainBalance
  <2>1. Len(ledger[u]) = 0 /\ balance[u] = 0 /\ recharged[u] = 0 /\ consumed[u] = 0
    BY DEF Init
  <2>2. SumTo(Open(u), 0) = 0 /\ AdjustedPoints(u) = 0
    BY <2>1, SumOfNone DEF AdjustedPoints
  <2> QED
    BY <2>1, <2>2
<1>2. TypeOK /\ LockInv /\ OriginInv /\ KeyPostedOnce /\ ConsumedIsOpen /\ TotalsExplainBalance
        /\ [Next]_vars
      => ConsumedIsOpen' /\ TotalsExplainBalance'
  BY ConsumedStep, TotalsStep
<1> QED
  BY <1>1, <1>2, WalletTypeOK, LockInvHolds, OriginHolds, WalletKeyPostedOnce, PTL DEF Spec

-----------------------------------------------------------------------------
\* Locks belong to transactions that run, past the statement that took them.

PastKeyLock == InTransaction \ {"keylock"}

RowHolderRuns == \A u \in Users : rowLock[u] # NoProc => pc[rowLock[u]] \in Holding
KeyHolderRuns == \A k \in Keys : keyLock[k] # NoProc => pc[keyLock[k]] \in PastKeyLock
HoldersRun == RowHolderRuns /\ KeyHolderRuns

\* A transaction that ends keeps no lock.
LEMMA EndKeepsHolders ==
  ASSUME TypeOK, HoldersRun, NEW p \in Procs, NEW next, NEW r, End(p, next, r)
  PROVE  HoldersRun'
<1> USE DEF HoldersRun, TypeOK
<1>1. /\ rowLock' = [u \in Users |-> IF rowLock[u] = p THEN NoProc ELSE rowLock[u]]
      /\ keyLock' = [k \in Keys |-> IF keyLock[k] = p THEN NoProc ELSE keyLock[k]]
      /\ \A q \in Procs \ {p} : pc'[q] = pc[q]
  BY DEF End, ReleaseLocks
<1>2. RowHolderRuns'
  <2> SUFFICES ASSUME NEW u \in Users, rowLock'[u] # NoProc PROVE pc'[rowLock'[u]] \in Holding
    BY DEF RowHolderRuns, Holding
  <2>1. rowLock'[u] = rowLock[u] /\ rowLock[u] # p /\ rowLock[u] \in Procs
    BY <1>1
  <2> QED BY <1>1, <2>1 DEF RowHolderRuns
<1>3. KeyHolderRuns'
  <2> SUFFICES ASSUME NEW k \in Keys, keyLock'[k] # NoProc
               PROVE  pc'[keyLock'[k]] \in PastKeyLock
    BY DEF KeyHolderRuns, PastKeyLock, InTransaction
  <2>1. keyLock'[k] = keyLock[k] /\ keyLock[k] # p /\ keyLock[k] \in Procs
    BY <1>1
  <2> QED BY <1>1, <2>1 DEF KeyHolderRuns
<1> QED BY <1>2, <1>3

\* A step that takes no lock moves no holder back before the statement that locked.
LEMMA MoveKeepsHolders ==
  ASSUME TypeOK, HoldersRun, NEW p \in Procs, UNCHANGED locks,
         \A q \in Procs \ {p} : pc'[q] = pc[q],
         pc[p] \in Holding => pc'[p] \in Holding,
         pc[p] \in PastKeyLock => pc'[p] \in PastKeyLock
  PROVE  HoldersRun'
BY DEF HoldersRun, RowHolderRuns, KeyHolderRuns, TypeOK, locks, Holding, PastKeyLock,
       InTransaction

LEMMA HoldersStep == TypeOK /\ HoldersRun /\ [Next]_vars => HoldersRun'
<1> SUFFICES ASSUME TypeOK, HoldersRun, [Next]_vars PROVE HoldersRun'
  OBVIOUS
<1> USE DEF Holding, PastKeyLock, InTransaction
<1>1. ASSUME NEW p \in Procs, NEW j \in Jobs, Begin(p, j) PROVE HoldersRun'
  BY <1>1, MoveKeepsHolders DEF Begin, TypeOK
<1>2. ASSUME NEW u \in Users, OpenWallet(u) PROVE HoldersRun'
  BY <1>2 DEF OpenWallet, HoldersRun, RowHolderRuns, KeyHolderRuns, locks
<1>3. ASSUME NEW p \in Procs, LockKey(p) PROVE HoldersRun'
  <2>1. /\ pc[p] = "keylock" /\ pc'[p] = "check" /\ \A q \in Procs \ {p} : pc'[q] = pc[q]
        /\ keyLock' = [keyLock EXCEPT ![job[p].key] = p] /\ UNCHANGED rowLock
    BY <1>3 DEF LockKey, Goto, TypeOK
  <2>2. RowHolderRuns'
    BY <2>1 DEF HoldersRun, RowHolderRuns, TypeOK
  <2>3. KeyHolderRuns'
    <3> SUFFICES ASSUME NEW k \in Keys, keyLock'[k] # NoProc
                 PROVE  pc'[keyLock'[k]] \in PastKeyLock
      BY DEF KeyHolderRuns
    <3>1. keyLock'[k] = p \/ keyLock'[k] = keyLock[k]
      BY <2>1 DEF TypeOK
    <3> QED BY <2>1, <3>1 DEF HoldersRun, KeyHolderRuns, TypeOK
  <2> QED BY <2>2, <2>3 DEF HoldersRun
<1>4. ASSUME NEW p \in Procs, KeyIsNew(p) PROVE HoldersRun'
  BY <1>4, MoveKeepsHolders DEF KeyIsNew, Goto, TypeOK
<1>5. ASSUME NEW p \in Procs, Replay(p) PROVE HoldersRun'
  <2>1. \E next, r : End(p, next, r)
    BY <1>5 DEF Replay
  <2> QED BY <2>1, EndKeepsHolders
<1>6. ASSUME NEW p \in Procs, LockAccount(p) PROVE HoldersRun'
  <2>1. /\ pc[p] = "lock" /\ pc'[p] \in {"recheck", "write"}
        /\ \A q \in Procs \ {p} : pc'[q] = pc[q]
        /\ rowLock' = [rowLock EXCEPT ![job[p].user] = p] /\ UNCHANGED keyLock
    BY <1>6 DEF LockAccount, Goto, TypeOK
  <2>2. RowHolderRuns'
    <3> SUFFICES ASSUME NEW u \in Users, rowLock'[u] # NoProc
                 PROVE  pc'[rowLock'[u]] \in Holding
      BY DEF RowHolderRuns
    <3>1. rowLock'[u] = p \/ rowLock'[u] = rowLock[u]
      BY <2>1 DEF TypeOK
    <3> QED BY <2>1, <3>1 DEF HoldersRun, RowHolderRuns, TypeOK
  <2>3. KeyHolderRuns'
    BY <2>1 DEF HoldersRun, KeyHolderRuns, TypeOK
  <2> QED BY <2>2, <2>3 DEF HoldersRun
<1>7. ASSUME NEW p \in Procs, NoAccount(p) PROVE HoldersRun'
  BY <1>7, EndKeepsHolders DEF NoAccount
<1>8. ASSUME NEW p \in Procs, Write(p) PROVE HoldersRun'
  BY <1>8, MoveKeepsHolders DEF Write, Goto, TypeOK
<1>9. ASSUME NEW p \in Procs, Refuse(p) PROVE HoldersRun'
  BY <1>9, EndKeepsHolders DEF Refuse
<1>10. ASSUME NEW p \in Procs, Commit(p) PROVE HoldersRun'
  <2>1. \E next, r : End(p, next, r)
    BY <1>10 DEF Commit
  <2> QED BY <2>1, EndKeepsHolders
<1>11. ASSUME NEW p \in Procs, Abort(p) PROVE HoldersRun'
  BY <1>11, EndKeepsHolders DEF Abort
<1>12. ASSUME NEW p \in Procs, FinalizeAudit(p) PROVE HoldersRun'
  BY <1>12, MoveKeepsHolders DEF FinalizeAudit, Goto, TypeOK
<1>13. ASSUME NEW p \in Procs, LoseFinalize(p) PROVE HoldersRun'
  BY <1>13, MoveKeepsHolders DEF LoseFinalize, Goto, TypeOK
<1>14. CASE UNCHANGED vars
  BY <1>14 DEF vars, locks, HoldersRun, RowHolderRuns, KeyHolderRuns
<1> QED BY <1>1, <1>2, <1>3, <1>4, <1>5, <1>6, <1>7, <1>8, <1>9, <1>10, <1>11, <1>12,
           <1>13, <1>14 DEF Next, Step

(* The calls under way never all wait for each other, however many there   *)
(* are.  Of those furthest along one goes on: a commit waits for nothing,  *)
(* a write only for a commit, a row's lock only for calls further on, the  *)
(* lock of a key only for calls that hold it.                              *)
THEOREM WalletSomeCallGoesOn == Spec => []SomeCallGoesOn
<1>1. Init => HoldersRun
  BY DEF Init, HoldersRun, RowHolderRuns, KeyHolderRuns
<1>2. TypeOK /\ HoldersRun => SomeCallGoesOn
  <2> SUFFICES ASSUME TypeOK, HoldersRun, NEW c \in Procs, pc[c] # "idle"
               PROVE  \E p \in Procs : pc[p] # "idle" /\ ~Waits(p)
    BY DEF SomeCallGoesOn
  <2>1. CASE \E q \in Procs : pc[q] = "commit"
    BY <2>1 DEF Waits
  <2>2. CASE /\ \A q \in Procs : pc[q] # "commit"
             /\ \E q \in Procs : pc[q] = "write"
    BY <2>2 DEF Waits, KeyFree
  <2>3. CASE /\ \A q \in Procs : pc[q] \notin {"commit", "write"}
             /\ \E u \in Users : rowLock[u] # NoProc
    <3>1. PICK u \in Users : rowLock[u] # NoProc
      BY <2>3
    <3>2. rowLock[u] \in Procs /\ pc[rowLock[u]] = "recheck"
      BY <2>3, <3>1 DEF TypeOK, HoldersRun, RowHolderRuns, Holding
    <3> QED BY <3>2 DEF Waits
  <2>4. CASE /\ \A u \in Users : rowLock[u] = NoProc
             /\ \E q \in Procs : pc[q] = "lock"
    <3>1. PICK q \in Procs : pc[q] = "lock"
      BY <2>4
    <3>2. RowFree(job[q].user)
      BY <2>4, JobFacts DEF TypeOK, RowFree
    <3> QED BY <3>1, <3>2 DEF Waits
  <2>5. CASE /\ \A q \in Procs : pc[q] \notin {"commit", "write", "lock"}
             /\ \E k \in Keys : keyLock[k] # NoProc
    <3>1. PICK k \in Keys : keyLock[k] # NoProc
      BY <2>5
    <3>2. rowLock \in [Users -> Procs \cup {NoProc}] /\ keyLock[k] \in Procs
      BY <3>1 DEF TypeOK
    <3>3. pc[keyLock[k]] \in {"check", "recheck"}
      BY <2>5, <3>1, <3>2 DEF HoldersRun, KeyHolderRuns, PastKeyLock, InTransaction
    <3> QED BY <3>2, <3>3 DEF Waits
  <2>6. CASE /\ \A q \in Procs : pc[q] \notin {"commit", "write", "lock"}
             /\ \A k \in Keys : keyLock[k] = NoProc
    <3>1. KeyUnlocked(job[c].key)
      BY <2>6, JobFacts DEF TypeOK, KeyUnlocked
    <3> QED BY <2>6, <3>1 DEF Waits
  <2> QED BY <2>1, <2>2, <2>3, <2>4, <2>5, <2>6
<1> QED BY <1>1, <1>2, HoldersStep, WalletTypeOK, PTL DEF Spec
=============================================================================
