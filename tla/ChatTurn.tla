------------------------------ MODULE ChatTurn ------------------------------
(***************************************************************************)
(* One chat turn of apps/api: the user message a client sends under one    *)
(* clientMessageId, the generation attempts that try to answer it          *)
(* (chat/service.ts, chat/stream-runner.ts), what each attempt charges and *)
(* gives back, and the recovery job (chat/generation-recovery.ts) that     *)
(* settles attempts whose worker failed or vanished.                       *)
(*                                                                         *)
(* A worker is the request handler that acquired attempt a; it is split at *)
(* its awaits.  The wallet is what Wallet shows it to be: a key takes      *)
(* effect at most once, so consumed[a] and refunded[a] say whether the     *)
(* rows consume_<msg>_<a> and refund_<msg>_<a> exist.  Other turns move    *)
(* the balance between any two steps, so a balance check can go either way.*)
(***************************************************************************)
EXTENDS Naturals, FiniteSets

CONSTANTS MaxAttempts,   \* bound: attempts the client makes
          Recoverers,    \* recovery runs at once (no overlap guard, admin POST)
          FaultSets,     \* what may go wrong: one of these sets of FaultKinds
          ClientId       \* does the request carry a clientMessageId?

(* "crash"  a worker or a recovery run dies between two steps              *)
(* "wallet" a wallet transaction fails, or commits and its answer is lost  *)
(* "mark"   an update of chat_generation_attempts fails                    *)
(* "db"     another statement or transaction of a worker or recovery fails *)
(* "usage"  the insert of a failed-usage row fails                         *)
(* "ack"    finalize commits and its answer is lost                        *)
(* "lease"  an attempt outlives its lease                                  *)
FaultKinds == {"crash", "wallet", "mark", "db", "usage", "ack", "lease"}

ASSUME AttemptsAssumption == MaxAttempts \in Nat \ {0}
ASSUME FaultsAssumption == FaultSets \subseteq SUBSET FaultKinds
ASSUME ClientIdAssumption == ClientId \in BOOLEAN

Attempts == 1..MaxAttempts

VARIABLES status,     \* messages.generation_status of the user message
          attempt,    \* messages.generation_attempt
          lease,      \* messages.generation_lease_expires_at, against the clock
          replied,    \* the assistant message attempt a committed, by verdict
          bond,       \* relationship_bond_exp_events of the turn
          usage,      \* model_usage_logs.status values attempt a logged
          chargeSt, refundSt,   \* chat_generation_attempts of attempt a
          consumed, refunded,   \* wallet rows of attempt a
          asking,     \* what a retry of the client decided on reading the turn
          pc, verdict,          \* the worker of attempt a, and its outcome
          rpc, rrow,            \* each recovery run, and its current row
          faults                \* what may go wrong in this behaviour

turn == <<status, attempt, lease>>
outcome == <<replied, bond, usage>>
records == <<chargeSt, refundSt>>
wallet == <<consumed, refunded>>
worker == <<pc, verdict>>
recovery == <<rpc, rrow>>
vars == <<turn, outcome, records, wallet, asking, worker, recovery, faults>>

Free == {"filtered", "out_of_scope", "fallback"}    \* replies the platform pays for
Replies == Free \cup {"success", "canned"}
Alive(a) == pc[a] \notin {"idle", "done", "dead"}
Answered == \E a \in Attempts : replied[a] # "none"

\* Recovery holds the message row and the row of its attempt FOR UPDATE.
MessageLocked == \E r \in Recoverers : rpc[r] = "refund"
RowLocked(a) == \E r \in Recoverers : rpc[r] = "refund" /\ rrow[r] = a

Init ==
  /\ status = "none" /\ attempt = 0 /\ lease = "none"
  /\ replied = [a \in Attempts |-> "none"]
  /\ bond = 0
  /\ usage = [a \in Attempts |-> {}]
  /\ chargeSt = [a \in Attempts |-> "absent"]
  /\ refundSt = [a \in Attempts |-> "absent"]
  /\ consumed = [a \in Attempts |-> FALSE]
  /\ refunded = [a \in Attempts |-> FALSE]
  /\ pc = [a \in Attempts |-> "idle"]
  /\ verdict = [a \in Attempts |-> "none"]
  /\ asking = "no"
  /\ rpc = [r \in Recoverers |-> "idle"]
  /\ rrow = [r \in Recoverers |-> 1]
  /\ faults \in FaultSets

Goto(a, next) == pc' = [pc EXCEPT ![a] = next]
Charge(a, s) == chargeSt' = [chargeSt EXCEPT ![a] = s]
Refund(a, s) == refundSt' = [refundSt EXCEPT ![a] = s]

\* The catch block of the stream: refund, fail the turn, log, whatever happens.
Catch(a) == Goto(a, "refundMark") /\ verdict' = [verdict EXCEPT ![a] = "exception"]

-----------------------------------------------------------------------------
(* resolveClientTurn, a transaction behind the advisory lock of the client  *)
(* message id: read the turn, then write.  The answers replay of a          *)
(* completed turn, in_progress and collision change nothing.                *)

Acquire(n) ==
  /\ status' = IF ClientId THEN "generating" ELSE "null"
  /\ lease' = IF ClientId THEN "live" ELSE "none"
  /\ attempt' = n
  /\ Goto(n, "check")

CreateTurn ==
  /\ status = "none" /\ Acquire(1)
  /\ UNCHANGED <<outcome, records, wallet, asking, verdict, recovery>>

\* Mutant: any turn that is not completed may be taken over.
IgnoreLease == status \in {"failed", "generating"}
Abandoned == status = "failed" \/ (status = "generating" /\ lease = "expired")

\* resolveExistingClientTurn reads the turn of a client that asks again.
Retry ==
  /\ ClientId /\ asking = "no" /\ Abandoned
  /\ ~Answered => attempt < MaxAttempts
  /\ asking' = IF Answered THEN "complete" ELSE "reacquire"
  /\ UNCHANGED <<turn, outcome, records, wallet, worker, recovery>>

\* reacquireGenerationLease: a compare-and-set, on the status alone.
Reacquire ==
  /\ asking = "reacquire" /\ ~MessageLocked
  /\ asking' = "no"
  /\ \/ Abandoned /\ Acquire(attempt + 1)
     \/ ~Abandoned /\ UNCHANGED <<turn, pc>>                          \* in_progress
  /\ UNCHANGED <<outcome, records, wallet, verdict, recovery>>

\* completeTurn: the reply is there and the turn does not say so.
CompleteAndReplay ==
  /\ asking = "complete" /\ ~MessageLocked
  /\ asking' = "no"
  /\ status' = "completed" /\ lease' = "none"
  /\ UNCHANGED <<attempt, outcome, records, wallet, worker, recovery>>

\* createGenerationLeaseExpiresAt: the stream's timeout plus ten seconds.
ExpireLease ==
  /\ status = "generating" /\ lease = "live"
  /\ "lease" \in faults \/ ~Alive(attempt)
  /\ lease' = "expired"
  /\ UNCHANGED <<status, attempt, outcome, records, wallet, worker, recovery, asking>>

-----------------------------------------------------------------------------
\* The worker of attempt a, up to its charge.

\* checkInput blocks, or the message probes the protocol: a canned reply, free.
RejectInput(a) ==
  /\ pc[a] = "check"
  /\ Goto(a, "finalize")
  /\ verdict' = [verdict EXCEPT ![a] = "canned"]
  /\ UNCHANGED <<turn, outcome, records, wallet, recovery, asking>>

\* Prompt and snapshot are built; ensureGenerationAttempt inserts the row.
Prepare(a) ==
  /\ pc[a] = "check"
  /\ Charge(a, "pending") /\ Refund(a, "not_required")
  /\ Goto(a, "balance")
  /\ UNCHANGED <<turn, outcome, wallet, verdict, recovery, asking>>

CheckBalance(a) ==
  /\ pc[a] = "balance"
  /\ Goto(a, "consume") \/ Goto(a, "noFunds")
  /\ UNCHANGED <<turn, outcome, records, wallet, verdict, recovery, asking>>

\* failTurn: no attempt number in its WHERE clause.
FailTurn == status' = "failed" /\ lease' = "none" /\ UNCHANGED attempt

RefuseForBalance(a) ==
  /\ pc[a] = "noFunds" /\ ~MessageLocked
  /\ FailTurn
  /\ Goto(a, "markUnpaid")
  /\ UNCHANGED <<outcome, records, wallet, verdict, recovery, asking>>

\* consumePoints with key consume_<msg>_<a>.
Consume(a) ==
  /\ pc[a] = "consume"
  /\ \/ consumed' = [consumed EXCEPT ![a] = TRUE] /\ Goto(a, "markPaid")
     \/ UNCHANGED consumed /\ Goto(a, "markUnpaid")         \* 'Insufficient balance'
     \/ /\ "wallet" \in faults
        /\ consumed' \in {consumed, [consumed EXCEPT ![a] = TRUE]}
        /\ Goto(a, "markUnknown")
  /\ UNCHANGED <<turn, outcome, records, refunded, verdict, recovery, asking>>

\* markGenerationAttemptCharge; only the success mark lets its error escape.
MarkCharge(a) ==
  /\ ~RowLocked(a)
  /\ \/ pc[a] = "markPaid" /\ Charge(a, "succeeded") /\ Goto(a, "generate")
     \/ pc[a] = "markUnpaid" /\ Charge(a, "failed") /\ Goto(a, "done")
     \/ pc[a] = "markUnknown" /\ Charge(a, "unknown") /\ Goto(a, "done")
  /\ UNCHANGED <<turn, outcome, refundSt, wallet, verdict, recovery, asking>>

\* The error escapes as a 500 and nobody fails the turn: its lease runs out.
HandlerThrows(a) ==
  /\ \/ "mark" \in faults /\ pc[a] \in {"markPaid", "markUnpaid", "markUnknown"}
     \/ "db" \in faults /\ pc[a] \in {"check", "balance", "noFunds"}
  /\ Goto(a, "done")
  /\ UNCHANGED <<turn, outcome, records, wallet, verdict, recovery, asking>>

-----------------------------------------------------------------------------
\* The stream: generate, give back what must not be kept, commit or fail.

\* The agent answers, is refused, falls back, reports an error, or throws.
Generate(a) ==
  /\ pc[a] = "generate"
  /\ \E v \in Free \cup {"success", "error", "exception"} :
       /\ verdict' = [verdict EXCEPT ![a] = v]
       /\ Goto(a, IF v = "success" THEN "finalize" ELSE "refundMark")
  /\ UNCHANGED <<turn, outcome, records, wallet, recovery, asking>>

\* refundGenerationAttempt: mark 'pending' (a failure is swallowed) ...
MarkRefundPending(a) ==
  /\ pc[a] = "refundMark" /\ ~RowLocked(a)
  /\ Refund(a, "pending") \/ ("mark" \in faults /\ UNCHANGED refundSt)
  /\ Goto(a, "refundCheck")
  /\ UNCHANGED <<turn, outcome, chargeSt, wallet, verdict, recovery, asking>>

\* ... look the key up ...
CheckRefundKey(a) ==
  /\ pc[a] = "refundCheck"
  /\ Goto(a, IF refunded[a] THEN "refundDone" ELSE "refundWrite")
  /\ UNCHANGED <<turn, outcome, records, wallet, verdict, recovery, asking>>

\* ... write, unless recovery wrote the key meanwhile ...
WriteRefund(a) ==
  /\ pc[a] = "refundWrite"
  /\ \/ ~refunded[a] /\ refunded' = [refunded EXCEPT ![a] = TRUE] /\ Goto(a, "refundDone")
     \/ refunded[a] /\ UNCHANGED refunded /\ Goto(a, "refundLost")
     \/ /\ "wallet" \in faults
        /\ refunded' \in {refunded, [refunded EXCEPT ![a] = TRUE]}
        /\ Goto(a, "refundLost")
  /\ UNCHANGED <<turn, outcome, records, consumed, verdict, recovery, asking>>

\* ... and mark the result.  A free reply waits for it; failures do not.
MarkRefundDone(a) ==
  /\ pc[a] = "refundDone" /\ ~RowLocked(a)
  /\ Refund(a, "succeeded") \/ ("mark" \in faults /\ UNCHANGED refundSt)
  /\ Goto(a, IF verdict[a] \in Free THEN "finalize" ELSE "fail")
  /\ UNCHANGED <<turn, outcome, chargeSt, wallet, verdict, recovery, asking>>

\* Mutant: the result of refundGenerationAttempt is not looked at.
CommitAnyway(a) ==
  Goto(a, IF verdict[a] \in Free THEN "finalize" ELSE "fail") /\ UNCHANGED verdict
\* A free reply is not committed without its refund: throw 'refund_pending'.
AfterLostRefund(a) ==
  IF verdict[a] \in Free THEN Catch(a) ELSE Goto(a, "fail") /\ UNCHANGED verdict

MarkRefundLost(a) ==
  /\ pc[a] = "refundLost" /\ ~RowLocked(a)
  /\ Refund(a, "unknown") \/ ("mark" \in faults /\ UNCHANGED refundSt)
  /\ AfterLostRefund(a)
  /\ UNCHANGED <<turn, outcome, chargeSt, wallet, recovery, asking>>

\* model_usage_logs.status of a committed reply; a canned one is not logged.
UsageOf(v) == CASE v = "canned"   -> {}
                [] v = "fallback" -> {"failed"}
                [] OTHER          -> {v}

\* finalizeAssistantTurn, one transaction.
CommitReply(a) ==
  /\ status' = "completed" /\ lease' = "none" /\ UNCHANGED attempt
  /\ replied' = [replied EXCEPT ![a] = verdict[a]]
  /\ bond' = IF verdict[a] = "success" THEN bond + 1 ELSE bond
  /\ usage' = [usage EXCEPT ![a] = @ \cup UsageOf(verdict[a])]

\* Mutant: without turnCommitted, a stream closed by the client is a failure.
DeliveryThrows(a) == Catch(a)
\* What follows the commit only delivers the reply: its failure is swallowed.
Deliver(a) == Goto(a, "done") /\ UNCHANGED verdict

Finalize(a) ==
  /\ pc[a] = "finalize" /\ ~MessageLocked
  /\ CommitReply(a)
  /\ Deliver(a)
  /\ UNCHANGED <<records, wallet, recovery, asking>>

\* It rolls back, or commits unseen; a canned reply is outside the try block.
FinalizeThrows(a) ==
  /\ pc[a] = "finalize" /\ ~MessageLocked
  /\ \/ "db" \in faults /\ UNCHANGED <<turn, outcome>>
     \/ "ack" \in faults /\ CommitReply(a)
  /\ IF verdict[a] = "canned" THEN Goto(a, "done") /\ UNCHANGED verdict ELSE Catch(a)
  /\ UNCHANGED <<records, wallet, recovery, asking>>

\* failTurn after a refund.  In the catch block its failure is swallowed.
FailAttempt(a) ==
  /\ pc[a] = "fail" /\ ~MessageLocked
  /\ FailTurn
  /\ Goto(a, "logUsage")
  /\ UNCHANGED <<outcome, records, wallet, verdict, recovery, asking>>

FailAttemptThrows(a) ==
  /\ "db" \in faults /\ pc[a] = "fail"
  /\ IF verdict[a] = "exception" THEN Goto(a, "logUsage") /\ UNCHANGED verdict ELSE Catch(a)
  /\ UNCHANGED <<turn, outcome, records, wallet, recovery, asking>>

LogUsage(a) ==
  /\ pc[a] = "logUsage"
  /\ usage' = [usage EXCEPT ![a] = @ \cup {"failed"}]
  /\ Goto(a, "done")
  /\ UNCHANGED <<turn, replied, bond, records, wallet, verdict, recovery, asking>>

LogUsageThrows(a) ==
  /\ "usage" \in faults /\ pc[a] = "logUsage"
  /\ IF verdict[a] = "exception" THEN Goto(a, "done") /\ UNCHANGED verdict ELSE Catch(a)
  /\ UNCHANGED <<turn, outcome, records, wallet, recovery, asking>>

\* The process dies; nothing it held survives.
Crash(a) ==
  /\ "crash" \in faults /\ Alive(a)
  /\ Goto(a, "dead")
  /\ UNCHANGED <<turn, outcome, records, wallet, verdict, recovery, asking>>

-----------------------------------------------------------------------------
\* recoverGenerationAttempts.

WindowReached(a) ==
  status = "failed" \/ (status = "generating" /\ (lease = "expired" \/ a < attempt))

\* Mutant: only what is known to be charged and unrefunded.
UnsettledKnown(a) == chargeSt[a] = "succeeded" /\ refundSt[a] = "not_required"
Unsettled(a) ==
  \/ chargeSt[a] \in {"pending", "unknown"}
  \/ chargeSt[a] = "succeeded" /\ refundSt[a] \in {"not_required", "pending", "unknown"}
  \/ refundSt[a] \in {"pending", "unknown"}

\* A run lists the unresolved attempts and takes them up one after another.
RecoverList(r, a) ==
  /\ rpc[r] = "idle"
  /\ chargeSt[a] # "absent" /\ WindowReached(a) /\ Unsettled(a)
  /\ rpc' = [rpc EXCEPT ![r] = "row"]
  /\ rrow' = [rrow EXCEPT ![r] = a]
  /\ UNCHANGED <<turn, outcome, records, wallet, worker, asking>>

\* Mutant: an unknown charge is taken for a charge.
TrustCharge(a) ==
  IF chargeSt[a] \in {"pending", "unknown"} THEN "succeeded" ELSE chargeSt[a]
\* An ambiguous charge is what the wallet says it is.
ActualCharge(a) ==
  IF chargeSt[a] \in {"pending", "unknown"}
  THEN IF consumed[a] THEN "succeeded" ELSE "failed"
  ELSE chargeSt[a]

(* The transaction on one row rereads it FOR UPDATE.  The code then skips  *)
(* an attempt that is active again; RecoveryMeetsNoActive shows that there *)
(* is none, so the skip is no transition here.                             *)
Active(a) == a = attempt /\ status = "generating" /\ lease = "live"

Reread(r) == rpc[r] = "row" /\ ~MessageLocked /\ ~Active(rrow[r])
TurnCommitted == ClientId /\ Answered
EndRow(r) == rpc' = [rpc EXCEPT ![r] = "idle"] /\ UNCHANGED rrow

\* The reply is there: the turn is complete, the charge stands.
RecoverCommitted(r) ==
  /\ Reread(r) /\ TurnCommitted
  /\ Charge(rrow[r], ActualCharge(rrow[r]))
  /\ status' = "completed" /\ lease' = "none"
  /\ EndRow(r)
  /\ UNCHANGED <<attempt, outcome, refundSt, wallet, worker, asking>>

\* Nothing was charged: nothing to give back.
RecoverUncharged(r) ==
  /\ Reread(r) /\ ~TurnCommitted /\ ActualCharge(rrow[r]) # "succeeded"
  /\ Charge(rrow[r], ActualCharge(rrow[r])) /\ Refund(rrow[r], "not_required")
  /\ EndRow(r)
  /\ UNCHANGED <<turn, outcome, wallet, worker, asking>>

\* The refund key is there already: record it.
RecoverRefunded(r) ==
  /\ Reread(r) /\ ~TurnCommitted /\ ActualCharge(rrow[r]) = "succeeded" /\ refunded[rrow[r]]
  /\ Charge(rrow[r], "succeeded") /\ Refund(rrow[r], "succeeded")
  /\ EndRow(r)
  /\ UNCHANGED <<turn, outcome, wallet, worker, asking>>

\* It is not: refund under the same locks ...
StartRefund(r) ==
  /\ Reread(r) /\ ~TurnCommitted /\ ActualCharge(rrow[r]) = "succeeded" /\ ~refunded[rrow[r]]
  /\ rpc' = [rpc EXCEPT ![r] = "refund"]
  /\ UNCHANGED <<turn, outcome, records, wallet, worker, rrow, asking>>

\* ... or replay the refund the worker committed since ...
RecoverRefund(r) ==
  /\ rpc[r] = "refund"
  /\ refunded' = [refunded EXCEPT ![rrow[r]] = TRUE]
  /\ Charge(rrow[r], "succeeded") /\ Refund(rrow[r], "succeeded")
  /\ EndRow(r)
  /\ UNCHANGED <<turn, outcome, consumed, worker, asking>>

\* ... or lose the key to it at the insert, or fail.  The transaction may fail
\* before as well, at any statement: all rolled back.
RecoveryFails(r) ==
  /\ \/ rpc[r] = "refund" /\ (refunded[rrow[r]] \/ "wallet" \in faults)
     \/ rpc[r] = "row" /\ "db" \in faults
  /\ rpc' = [rpc EXCEPT ![r] = "catch"]
  /\ UNCHANGED <<turn, outcome, records, wallet, worker, rrow, asking>>

\* Outside the transaction, and whatever the row says by now.
RecoverCatch(r) ==
  /\ rpc[r] = "catch" /\ ~RowLocked(rrow[r])
  /\ Refund(rrow[r], "unknown")
  /\ EndRow(r)
  /\ UNCHANGED <<turn, outcome, chargeSt, wallet, worker, asking>>

RecovererCrash(r) ==
  /\ "crash" \in faults /\ rpc[r] # "idle"
  /\ EndRow(r)
  /\ UNCHANGED <<turn, outcome, records, wallet, worker, asking>>

-----------------------------------------------------------------------------
Work(a) ==
  \/ RejectInput(a) \/ Prepare(a) \/ CheckBalance(a) \/ RefuseForBalance(a)
  \/ Consume(a) \/ MarkCharge(a) \/ Generate(a)
  \/ MarkRefundPending(a) \/ CheckRefundKey(a) \/ WriteRefund(a)
  \/ MarkRefundDone(a) \/ MarkRefundLost(a)
  \/ Finalize(a) \/ FailAttempt(a) \/ LogUsage(a)

Fault(a) ==
  HandlerThrows(a) \/ FinalizeThrows(a) \/ FailAttemptThrows(a) \/ LogUsageThrows(a) \/ Crash(a)

Settle(r) ==
  RecoverCommitted(r) \/ RecoverUncharged(r) \/ RecoverRefunded(r) \/ StartRefund(r)
Recover(r) == Settle(r) \/ RecoverRefund(r) \/ RecoveryFails(r) \/ RecoverCatch(r)

Step ==
  \/ CreateTurn \/ Retry \/ Reacquire \/ CompleteAndReplay \/ ExpireLease
  \/ \E a \in Attempts : Work(a) \/ Fault(a)
  \/ \E r \in Recoverers : \/ \E a \in Attempts : RecoverList(r, a)
                           \/ Recover(r) \/ RecovererCrash(r)

Under(A) == A /\ UNCHANGED faults
Next == Under(Step)

Spec == Init /\ [][Next]_vars

(* Workers run until they end or die, the clock advances, and the          *)
(* scheduler runs recovery every five minutes over every listed row; its   *)
(* transactions do not fail for ever.  The client need not come back.      *)
FairSpec ==
  /\ Spec
  /\ WF_vars(Under(ExpireLease))
  /\ \A a \in Attempts : WF_vars(Under(Work(a)))
  /\ \A r \in Recoverers :
       /\ WF_vars(Under(Recover(r)))
       /\ SF_vars(Under(Settle(r))) /\ SF_vars(Under(RecoverRefund(r)))
       /\ \A a \in Attempts : SF_vars(Under(RecoverList(r, a)))

-----------------------------------------------------------------------------
\* Properties.

Verdicts == {"none", "error", "exception"} \cup Replies
Steps == {"idle", "check", "balance", "noFunds", "consume", "markPaid", "markUnpaid",
          "markUnknown", "generate", "refundMark", "refundCheck", "refundWrite",
          "refundDone", "refundLost", "finalize", "fail", "logUsage", "done", "dead"}

\* Every variable holds a value of its column or local variable.
TypeOK ==
  /\ status \in {"none", "null", "generating", "failed", "completed"}
  /\ attempt \in 0..MaxAttempts
  /\ asking \in {"no", "reacquire", "complete"}
  /\ lease \in {"none", "live", "expired"}
  /\ replied \in [Attempts -> {"none"} \cup Replies]
  /\ bond \in Nat
  /\ usage \in [Attempts -> SUBSET {"success", "failed", "filtered", "out_of_scope"}]
  /\ chargeSt \in [Attempts -> {"absent", "pending", "succeeded", "failed", "unknown"}]
  /\ refundSt \in [Attempts -> {"absent", "not_required", "pending", "succeeded", "unknown"}]
  /\ consumed \in [Attempts -> BOOLEAN] /\ refunded \in [Attempts -> BOOLEAN]
  /\ pc \in [Attempts -> Steps]
  /\ verdict \in [Attempts -> Verdicts]
  /\ rpc \in [Recoverers -> {"idle", "row", "refund", "catch"}]
  /\ rrow \in [Recoverers -> Attempts]
  /\ faults \in FaultSets

(* Workers keep to their leases, no answer of a commit is lost, and the    *)
(* client sends its message id.                                            *)
Fenced == ClientId /\ faults \cap {"lease", "usage", "ack"} = {}

\* "One Client Message ID can be shared by one user message and one assistant
\* message": retries, crashes and recovery never lead to a second reply.
OneReply == \A a, b \in Attempts : replied[a] # "none" /\ replied[b] # "none" => a = b

\* A delivered reply is paid for and stays paid for: neither a late refund of
\* its own worker nor recovery gives the points of its attempt back.
DeliveredKeepsCharge ==
  \A a \in Attempts : replied[a] = "success" => consumed[a] /\ ~refunded[a]

\* What the platform pays for costs nothing, also when the refund was lost or
\* raced recovery: a filtered, out-of-scope or fallback reply is in the
\* history only with its refund, a canned one was never charged.
FreeRepliesAreFree ==
  \A a \in Attempts : /\ replied[a] \in Free => refunded[a]
                      /\ replied[a] = "canned" => ~consumed[a]

\* The attempt row, which support and recovery read, claims no charge and no
\* refund the wallet does not hold, and no attempt gets back what it did not
\* pay, in whatever order the worker, recovery and their retries mark it.
RecordsTellTruth ==
  \A a \in Attempts : /\ chargeSt[a] = "succeeded" => consumed[a]
                      /\ refundSt[a] = "succeeded" => refunded[a]
                      /\ refunded[a] => consumed[a]

\* A charge closed as failed was not made, nor will be: recovery never closes
\* the row of an attempt that goes on to charge.
ClosedChargesAreFree == \A a \in Attempts : chargeSt[a] = "failed" => ~consumed[a]

\* An attempt that logged a success logged nothing else: a stream that breaks
\* after the commit adds no failed usage.
SuccessLoggedAlone == \A a \in Attempts : "success" \in usage[a] => usage[a] = {"success"}

\* The three statements that a slow worker or a lost acknowledgement breaks.
\* Behind the fence a turn has one reply, whatever crashes, fails, is retried
\* or recovered.
FencedOneReply == Fenced => OneReply

\* Behind the fence recovery closes no charge as failed that was, or will be,
\* taken from the wallet.
FencedClosedAreFree == Fenced => ClosedChargesAreFree

\* Behind the fence nobody gives back the charge of a delivered reply.
FencedKeepsCharge == Fenced => DeliveredKeepsCharge

(* A charge without a reply stays within reach of recovery until it is     *)
(* given back: its row lists it as unsettled, and its turn is one recovery  *)
(* looks at, or will be once the lease of its latest attempt is over.       *)
InReach(a) ==
  /\ Unsettled(a)
  /\ WindowReached(a) \/ (status = "generating" /\ lease = "live" /\ a = attempt)

\* Behind the fence no failed mark, crash, retry or overlapping recovery run puts
\* a charge out of recovery's reach before the turn has a reply.
ChargesStayInReach ==
  Fenced => \A a \in Attempts : consumed[a] /\ ~refunded[a] /\ ~Answered => InReach(a)

\* Once completed, a turn behind the fence is never failed, retried or charged
\* again.
CompletedIsFinal ==
  [][Fenced /\ status = "completed" => status' = "completed" /\ UNCHANGED <<attempt, consumed>>]_vars

\* The turn comes to rest with an answer, or with every charge given back.
Refunded(a) == consumed[a] => refunded[a]
NothingKeptForNothing == []<>(Answered \/ \A a \in Attempts : Refunded(a))

\* Every attempt comes to rest refunded, or with its reply delivered.
EveryAttemptSettles == \A a \in Attempts : []<>(Refunded(a) \/ replied[a] = "success")

\* Behind the fence the turn implements PaidReply: what workers, their retries and
\* recovery do to wallet and history is one promised step at a time.
Promise == INSTANCE PaidReply WITH
             taken    <- {a \in Attempts : consumed[a]},
             returned <- {a \in Attempts : refunded[a]},
             replies  <- {[by |-> a, verdict |-> replied[a]] :
                            a \in {b \in Attempts : replied[b] # "none"}}
Stutter == UNCHANGED <<wallet, replied>>
PaidReplySpec == (Fenced => Promise!Init) /\ [][Fenced => Stutter \/ Promise!Next]_(Promise!vars)
=============================================================================
