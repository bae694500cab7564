--------------------------- MODULE ChatTurnProofs ---------------------------
(***************************************************************************)
(* What holds of ChatTurn for any number of attempts and recovery runs.    *)
(* Truth holds whatever goes wrong.  Fence holds when workers keep to      *)
(* their leases: then at most one worker decides the turn at a time, and   *)
(* recovery only touches attempts nobody works on.                         *)
(***************************************************************************)
EXTENDS ChatTurn, TLAPS

(* How far an attempt is, and what the wallet holds of it by then.         *)
Uncharged == {"idle", "check", "balance", "noFunds", "consume", "markUnpaid"}
Charged == {"markPaid", "generate", "refundMark", "refundCheck", "refundWrite",
            "refundDone", "refundLost", "fail", "logUsage"}

\* The turn and the client that asks for it again.
TurnInv ==
  /\ status = "none" => attempt = 0 /\ asking = "no"
  /\ asking = "reacquire" => attempt < MaxAttempts
  /\ \A a \in Attempts : a > attempt => pc[a] = "idle"

\* What a worker knows of its attempt at each step.
WorkerInv ==
  \A a \in Attempts :
    /\ pc[a] \in Uncharged => ~consumed[a]
    /\ pc[a] \in Charged => consumed[a]
    /\ pc[a] = "refundDone" => refunded[a]
    /\ pc[a] = "finalize" => /\ verdict[a] \in Replies
                             /\ IF verdict[a] = "canned" THEN ~consumed[a] ELSE consumed[a]
                             /\ verdict[a] \in Free => refunded[a]
    /\ replied[a] = "canned" => pc[a] = "done"

RecoveryInv == \A r \in Recoverers : rpc[r] = "refund" => consumed[rrow[r]]

Truth == TypeOK /\ TurnInv /\ WorkerInv /\ RecoveryInv /\ FreeRepliesAreFree /\ RecordsTellTruth

-----------------------------------------------------------------------------
\* A worker here may still change the turn.
Deciding == {"check", "balance", "noFunds", "consume", "markPaid", "generate", "refundMark",
             "refundCheck", "refundWrite", "refundDone", "refundLost", "finalize", "fail"}

\* Only the worker of the current attempt decides, under a live lease, and only
\* until there is an answer.
OneWorker ==
  \A a \in Attempts : pc[a] \in Deciding =>
    /\ a = attempt /\ status = "generating" /\ lease = "live"
    /\ \A b \in Attempts : replied[b] = "none"

AnswerCompletes ==
  /\ Answered => status = "completed"
  /\ asking = "complete" => Answered

\* Recovery refunds only attempts nobody works on, of turns without an answer.
RecoveryWaits ==
  \A r \in Recoverers :
    /\ rpc[r] # "idle" => status # "none"
    /\ rpc[r] = "refund" => ~Answered /\ pc[rrow[r]] \notin Deciding

NotYetRefunded ==
  \A a \in Attempts :
    pc[a] \in {"markPaid", "generate"} \/ (pc[a] = "finalize" /\ verdict[a] = "success")
      => ~refunded[a]

NotYetLogged ==
  \A a \in Attempts : /\ pc[a] \in Deciding \cup {"logUsage", "idle"} => usage[a] = {}
                      /\ pc[a] \in {"idle", "check"} => chargeSt[a] = "absent"
                      /\ pc[a] \in {"balance", "consume"} => chargeSt[a] # "failed"

Fence == /\ OneWorker /\ AnswerCompletes /\ RecoveryWaits /\ NotYetRefunded /\ NotYetLogged
         /\ OneReply /\ DeliveredKeepsCharge /\ SuccessLoggedAlone /\ ClosedChargesAreFree

-----------------------------------------------------------------------------
(* Entering the catch block keeps the worker's variables typed.           *)
LEMMA CatchTyped ==
  ASSUME NEW a \in Attempts, Catch(a), pc \in [Attempts -> Steps], verdict \in [Attempts -> Verdicts]
  PROVE  pc' \in [Attempts -> Steps] /\ verdict' \in [Attempts -> Verdicts]
BY DEF Catch, Goto, Steps, Verdicts

LEMMA TruthStep ==
  ASSUME Truth, Step, UNCHANGED faults PROVE Truth'
<1> USE AttemptsAssumption DEF Truth, TypeOK, TurnInv, WorkerInv, RecoveryInv,
    FreeRepliesAreFree, RecordsTellTruth, Attempts, Replies, Free, Steps, Verdicts, Uncharged, Charged,
    turn, outcome, records, wallet, worker, recovery, Goto, Charge, Refund
<1>1. ASSUME CreateTurn
      PROVE  Truth'
  BY <1>1 DEF CreateTurn, Acquire
<1>2. ASSUME Retry
      PROVE  Truth'
  BY <1>2 DEF Retry, Abandoned
<1>3. ASSUME Reacquire
      PROVE  Truth'
  <2>1. CASE Abandoned /\ Acquire(attempt + 1)
    <3>1. attempt + 1 \in Attempts /\ pc[attempt + 1] = "idle"
      BY <1>3 DEF Reacquire
    <3>2. TypeOK' /\ TurnInv'
      BY <1>3, <2>1, <3>1 DEF Reacquire, Acquire
    <3>3. WorkerInv' /\ RecoveryInv' /\ FreeRepliesAreFree' /\ RecordsTellTruth'
      BY <1>3, <2>1, <3>1 DEF Reacquire, Acquire
    <3> QED
      BY <3>2, <3>3
  <2>2. CASE UNCHANGED <<turn, pc>>
    BY <1>3, <2>2 DEF Reacquire
  <2> QED
    BY <1>3, <2>1, <2>2 DEF Reacquire
<1>4. ASSUME CompleteAndReplay
      PROVE  Truth'
  BY <1>4 DEF CompleteAndReplay
<1>5. ASSUME ExpireLease
      PROVE  Truth'
  BY <1>5 DEF ExpireLease, Alive
<1>6. ASSUME NEW a \in Attempts, RejectInput(a)
      PROVE  Truth'
  BY <1>6 DEF RejectInput
<1>7. ASSUME NEW a \in Attempts, Prepare(a)
      PROVE  Truth'
  BY <1>7 DEF Prepare
<1>8. ASSUME NEW a \in Attempts, CheckBalance(a)
      PROVE  Truth'
  <2>1. CASE Goto(a, "consume")
    BY <1>8, <2>1 DEF CheckBalance
  <2>2. CASE Goto(a, "noFunds")
    BY <1>8, <2>2 DEF CheckBalance
  <2> QED
    BY <1>8, <2>1, <2>2 DEF CheckBalance
<1>9. ASSUME NEW a \in Attempts, RefuseForBalance(a)
      PROVE  Truth'
  BY <1>9 DEF RefuseForBalance, FailTurn
<1>10. ASSUME NEW a \in Attempts, Consume(a)
      PROVE  Truth'
  <2>1. CASE consumed' = [consumed EXCEPT ![a] = TRUE] /\ Goto(a, "markPaid")
    BY <1>10, <2>1 DEF Consume
  <2>2. CASE UNCHANGED consumed /\ Goto(a, "markUnpaid")
    BY <1>10, <2>2 DEF Consume
  <2>3. CASE UNCHANGED consumed /\ Goto(a, "markUnknown")
    BY <1>10, <2>3 DEF Consume
  <2>4. CASE consumed' = [consumed EXCEPT ![a] = TRUE] /\ Goto(a, "markUnknown")
    BY <1>10, <2>4 DEF Consume
  <2> QED
    BY <1>10, <2>1, <2>2, <2>3, <2>4 DEF Consume
<1>11. ASSUME NEW a \in Attempts, MarkCharge(a)
      PROVE  Truth'
  <2>1. CASE pc[a] = "markPaid" /\ Charge(a, "succeeded") /\ Goto(a, "generate")
    BY <1>11, <2>1 DEF MarkCharge
  <2>2. CASE pc[a] = "markUnpaid" /\ Charge(a, "failed") /\ Goto(a, "done")
    BY <1>11, <2>2 DEF MarkCharge
  <2>3. CASE pc[a] = "markUnknown" /\ Charge(a, "unknown") /\ Goto(a, "done")
    BY <1>11, <2>3 DEF MarkCharge
  <2> QED
    BY <1>11, <2>1, <2>2, <2>3 DEF MarkCharge
<1>12. ASSUME NEW a \in Attempts, Generate(a)
      PROVE  Truth'
  BY <1>12 DEF Generate
<1>13. ASSUME NEW a \in Attempts, MarkRefundPending(a)
      PROVE  Truth'
  BY <1>13 DEF MarkRefundPending
<1>14. ASSUME NEW a \in Attempts, CheckRefundKey(a)
      PROVE  Truth'
  BY <1>14 DEF CheckRefundKey
<1>15. ASSUME NEW a \in Attempts, WriteRefund(a)
      PROVE  Truth'
  <2>1. CASE refunded' = [refunded EXCEPT ![a] = TRUE] /\ Goto(a, "refundDone")
    BY <1>15, <2>1 DEF WriteRefund
  <2>2. CASE UNCHANGED refunded /\ Goto(a, "refundLost")
    BY <1>15, <2>2 DEF WriteRefund
  <2>3. CASE refunded' = [refunded EXCEPT ![a] = TRUE] /\ Goto(a, "refundLost")
    BY <1>15, <2>3 DEF WriteRefund
  <2> QED
    BY <1>15, <2>1, <2>2, <2>3 DEF WriteRefund
<1>16. ASSUME NEW a \in Attempts, MarkRefundDone(a)
      PROVE  Truth'
  BY <1>16 DEF MarkRefundDone
<1>17. ASSUME NEW a \in Attempts, MarkRefundLost(a)
      PROVE  Truth'
  <2>1. CASE verdict[a] \in Free
    <3>1. pc' \in [Attempts -> Steps] /\ verdict' \in [Attempts -> Verdicts]
      BY <1>17, <2>1, CatchTyped DEF MarkRefundLost, AfterLostRefund
    <3>2. TypeOK'
      <4>1. refundSt' \in [Attempts -> {"absent", "not_required", "pending", "succeeded", "unknown"}]
        BY <1>17 DEF MarkRefundLost
      <4> QED
        BY <1>17, <3>1, <4>1 DEF MarkRefundLost
    <3>3. TurnInv'
      BY <1>17, <2>1, <3>1 DEF MarkRefundLost, AfterLostRefund, Catch
    <3>4. WorkerInv'
      BY <1>17, <2>1, <3>1 DEF MarkRefundLost, AfterLostRefund, Catch
    <3>5. RecoveryInv' /\ FreeRepliesAreFree' /\ RecordsTellTruth'
      BY <1>17, <2>1 DEF MarkRefundLost, AfterLostRefund, Catch
    <3> QED
      BY <3>2, <3>3, <3>4, <3>5
  <2>2. CASE verdict[a] \notin Free
    BY <1>17, <2>2 DEF MarkRefundLost, AfterLostRefund, Catch
  <2> QED
    BY <1>17, <2>1, <2>2 DEF MarkRefundLost
<1>18. ASSUME NEW a \in Attempts, Finalize(a)
      PROVE  Truth'
  BY <1>18 DEF Finalize, CommitReply, UsageOf, Deliver
<1>19. ASSUME NEW a \in Attempts, FailAttempt(a)
      PROVE  Truth'
  BY <1>19 DEF FailAttempt, FailTurn
<1>20. ASSUME NEW a \in Attempts, LogUsage(a)
      PROVE  Truth'
  BY <1>20 DEF LogUsage
<1>21. ASSUME NEW a \in Attempts, HandlerThrows(a)
      PROVE  Truth'
  BY <1>21 DEF HandlerThrows
<1>22. ASSUME NEW a \in Attempts, FinalizeThrows(a)
      PROVE  Truth'
  <2>1. CASE UNCHANGED <<turn, outcome>> /\ verdict[a] = "canned"
    <3>1. pc' = [pc EXCEPT ![a] = "done"] /\ verdict' = verdict
      BY <1>22, <2>1 DEF FinalizeThrows
    <3>2. TypeOK'
      BY <1>22, <2>1, <3>1 DEF FinalizeThrows, CommitReply, UsageOf
    <3>3. TurnInv'
      BY <1>22, <2>1, <3>1 DEF FinalizeThrows, CommitReply, UsageOf, Catch
    <3>4. WorkerInv'
      BY <1>22, <2>1, <3>1 DEF FinalizeThrows, CommitReply, UsageOf, Catch
    <3>5. RecoveryInv' /\ FreeRepliesAreFree' /\ RecordsTellTruth'
      BY <1>22, <2>1 DEF FinalizeThrows, CommitReply, UsageOf, Catch
    <3> QED
      BY <3>2, <3>3, <3>4, <3>5
  <2>2. CASE UNCHANGED <<turn, outcome>> /\ verdict[a] # "canned"
    <3>1. pc' \in [Attempts -> Steps] /\ verdict' \in [Attempts -> Verdicts]
      BY <1>22, <2>2, CatchTyped DEF FinalizeThrows, CommitReply, UsageOf
    <3>2. TypeOK'
      BY <1>22, <2>2, <3>1 DEF FinalizeThrows, CommitReply, UsageOf
    <3>3. TurnInv'
      BY <1>22, <2>2, <3>1 DEF FinalizeThrows, CommitReply, UsageOf, Catch
    <3>4. WorkerInv'
      BY <1>22, <2>2, <3>1 DEF FinalizeThrows, CommitReply, UsageOf, Catch
    <3>5. RecoveryInv' /\ FreeRepliesAreFree' /\ RecordsTellTruth'
      BY <1>22, <2>2 DEF FinalizeThrows, CommitReply, UsageOf, Catch
    <3> QED
      BY <3>2, <3>3, <3>4, <3>5
  <2>3. CASE CommitReply(a) /\ verdict[a] = "canned"
    <3>1. pc' = [pc EXCEPT ![a] = "done"] /\ verdict' = verdict
      BY <1>22, <2>3 DEF FinalizeThrows
    <3>2. TypeOK'
      BY <1>22, <2>3, <3>1 DEF FinalizeThrows, CommitReply, UsageOf
    <3>3. TurnInv'
      BY <1>22, <2>3, <3>1 DEF FinalizeThrows, CommitReply, UsageOf, Catch
    <3>4. WorkerInv'
      BY <1>22, <2>3, <3>1 DEF FinalizeThrows, CommitReply, UsageOf, Catch
    <3>5. RecoveryInv' /\ FreeRepliesAreFree' /\ RecordsTellTruth'
      BY <1>22, <2>3 DEF FinalizeThrows, CommitReply, UsageOf, Catch
    <3> QED
      BY <3>2, <3>3, <3>4, <3>5
  <2>4. CASE CommitReply(a) /\ verdict[a] # "canned"
    <3>1. pc' \in [Attempts -> Steps] /\ verdict' \in [Attempts -> Verdicts]
      BY <1>22, <2>4, CatchTyped DEF FinalizeThrows, CommitReply, UsageOf
    <3>2. TypeOK'
      BY <1>22, <2>4, <3>1 DEF FinalizeThrows, CommitReply, UsageOf
    <3>3. TurnInv'
      BY <1>22, <2>4, <3>1 DEF FinalizeThrows, CommitReply, UsageOf, Catch
    <3>4. WorkerInv'
      BY <1>22, <2>4, <3>1 DEF FinalizeThrows, CommitReply, UsageOf, Catch
    <3>5. RecoveryInv' /\ FreeRepliesAreFree' /\ RecordsTellTruth'
      BY <1>22, <2>4 DEF FinalizeThrows, CommitReply, UsageOf, Catch
    <3> QED
      BY <3>2, <3>3, <3>4, <3>5
  <2> QED
    BY <1>22, <2>1, <2>2, <2>3, <2>4 DEF FinalizeThrows
<1>23. ASSUME NEW a \in Attempts, FailAttemptThrows(a)
      PROVE  Truth'
  <2>1. CASE verdict[a] = "exception"
    BY <1>23, <2>1 DEF FailAttemptThrows, Catch
  <2>2. CASE verdict[a] # "exception"
    <3>1. pc' \in [Attempts -> Steps] /\ verdict' \in [Attempts -> Verdicts]
      BY <1>23, <2>2, CatchTyped DEF FailAttemptThrows
    <3>2. TypeOK'
      BY <1>23, <2>2, <3>1 DEF FailAttemptThrows
    <3>3. TurnInv'
      BY <1>23, <2>2, <3>1 DEF FailAttemptThrows, Catch
    <3>4. WorkerInv'
      BY <1>23, <2>2, <3>1 DEF FailAttemptThrows, Catch
    <3>5. RecoveryInv' /\ FreeRepliesAreFree' /\ RecordsTellTruth'
      BY <1>23, <2>2 DEF FailAttemptThrows, Catch
    <3> QED
      BY <3>2, <3>3, <3>4, <3>5
  <2> QED
    BY <1>23, <2>1, <2>2 DEF FailAttemptThrows
<1>24. ASSUME NEW a \in Attempts, LogUsageThrows(a)
      PROVE  Truth'
  <2>1. CASE verdict[a] = "exception"
    BY <1>24, <2>1 DEF LogUsageThrows
  <2>2. CASE Catch(a)
    <3>1. pc' \in [Attempts -> Steps] /\ verdict' \in [Attempts -> Verdicts]
      BY <2>2, CatchTyped
    <3>2. TypeOK' /\ TurnInv'
      BY <1>24, <2>2, <3>1 DEF LogUsageThrows, Catch
    <3>3. WorkerInv' /\ RecoveryInv' /\ FreeRepliesAreFree' /\ RecordsTellTruth'
      BY <1>24, <2>2, <3>1 DEF LogUsageThrows, Catch
    <3> QED
      BY <3>2, <3>3
  <2> QED
    BY <1>24, <2>1, <2>2 DEF LogUsageThrows
<1>25. ASSUME NEW a \in Attempts, Crash(a)
      PROVE  Truth'
  BY <1>25 DEF Crash, Alive
<1>26. ASSUME NEW r \in Recoverers, NEW a \in Attempts, RecoverList(r, a)
      PROVE  Truth'
  BY <1>26 DEF RecoverList
<1>27. ASSUME NEW r \in Recoverers, RecoverCommitted(r)
      PROVE  Truth'
  BY <1>27 DEF RecoverCommitted, Reread, EndRow, ActualCharge
<1>28. ASSUME NEW r \in Recoverers, RecoverUncharged(r)
      PROVE  Truth'
  BY <1>28 DEF RecoverUncharged, Reread, EndRow, ActualCharge
<1>29. ASSUME NEW r \in Recoverers, RecoverRefunded(r)
      PROVE  Truth'
  BY <1>29 DEF RecoverRefunded, Reread, EndRow, ActualCharge
<1>30. ASSUME NEW r \in Recoverers, StartRefund(r)
      PROVE  Truth'
  BY <1>30 DEF StartRefund, Reread, ActualCharge
<1>31. ASSUME NEW r \in Recoverers, RecoverRefund(r)
      PROVE  Truth'
  BY <1>31 DEF RecoverRefund, EndRow
<1>32. ASSUME NEW r \in Recoverers, RecoveryFails(r)
      PROVE  Truth'
  BY <1>32 DEF RecoveryFails
<1>33. ASSUME NEW r \in Recoverers, RecoverCatch(r)
      PROVE  Truth'
  BY <1>33 DEF RecoverCatch, EndRow
<1>34. ASSUME NEW r \in Recoverers, RecovererCrash(r)
      PROVE  Truth'
  BY <1>34 DEF RecovererCrash, EndRow
<1>35. QED
  BY <1>1, <1>2, <1>3, <1>4, <1>5, <1>6, <1>7, <1>8, <1>9, <1>10, <1>11, <1>12, <1>13, <1>14, <1>15, <1>16, <1>17, <1>18, <1>19, <1>20, <1>21, <1>22, <1>23, <1>24, <1>25, <1>26, <1>27, <1>28, <1>29, <1>30, <1>31, <1>32, <1>33, <1>34 DEF Step, Work, Fault, Recover, Settle

LEMMA TruthInit == Init => Truth
BY AttemptsAssumption DEF Init, Truth, TypeOK, TurnInv, WorkerInv, RecoveryInv,
   FreeRepliesAreFree, RecordsTellTruth, Attempts, Replies, Free, Steps, Verdicts,
   Uncharged, Charged

LEMMA TruthHolds == Spec => []Truth
<1>1. Truth /\ UNCHANGED vars => Truth'
  BY DEF vars, turn, outcome, records, wallet, worker, recovery, Truth, TypeOK, TurnInv,
     WorkerInv, RecoveryInv, FreeRepliesAreFree, RecordsTellTruth
<1>2. Truth /\ [Next]_vars => Truth'
  BY <1>1, TruthStep DEF Next, Under
<1> QED
  BY TruthInit, <1>2, PTL DEF Spec

(* Every column and local variable of a turn keeps its type, under every   *)
(* fault, for any number of attempts and overlapping recovery runs.        *)
THEOREM TurnTypeOK == Spec => []TypeOK
<1>1. Truth => TypeOK
  BY DEF Truth
<1> QED
  BY TruthHolds, <1>1, PTL

(* Whatever fails and however late, a filtered, out-of-scope or fallback   *)
(* reply is committed only with its refund, a canned one without a charge. *)
THEOREM TurnFreeRepliesAreFree == Spec => []FreeRepliesAreFree
<1>1. Truth => FreeRepliesAreFree
  BY DEF Truth
<1> QED
  BY TruthHolds, <1>1, PTL

(* Whatever fails, the attempt rows never claim a charge or a refund that  *)
(* the wallet does not hold, and nothing is refunded that was not charged. *)
THEOREM TurnRecordsTellTruth == Spec => []RecordsTellTruth
<1>1. Truth => RecordsTellTruth
  BY DEF Truth
<1> QED
  BY TruthHolds, <1>1, PTL

-----------------------------------------------------------------------------
LEMMA FenceStep ==
  ASSUME Fenced, Truth, Fence, Step, UNCHANGED faults PROVE Fence'
<1> USE AttemptsAssumption DEF Fenced, Truth, TypeOK, TurnInv, WorkerInv, RecoveryInv,
    RecordsTellTruth, Attempts, Replies, Free, Steps, Verdicts, Uncharged, Charged,
    Fence, Deciding, OneWorker, AnswerCompletes, RecoveryWaits, NotYetRefunded, NotYetLogged,
    OneReply, DeliveredKeepsCharge, SuccessLoggedAlone, ClosedChargesAreFree, Answered,
    turn, outcome, records, wallet, worker, recovery, Goto, Charge, Refund
<1>1. ASSUME CreateTurn
      PROVE  Fence'
  BY <1>1 DEF CreateTurn, Acquire
<1>2. ASSUME Retry
      PROVE  Fence'
  BY <1>2 DEF Retry, Abandoned
<1>3. ASSUME Reacquire
      PROVE  Fence'
  BY <1>3 DEF Reacquire, Acquire, Abandoned, MessageLocked
<1>4. ASSUME CompleteAndReplay
      PROVE  Fence'
  BY <1>4 DEF CompleteAndReplay, MessageLocked
<1>5. ASSUME ExpireLease
      PROVE  Fence'
  BY <1>5 DEF ExpireLease, Alive
<1>6. ASSUME NEW a \in Attempts, RejectInput(a)
      PROVE  Fence'
  BY <1>6 DEF RejectInput
<1>7. ASSUME NEW a \in Attempts, Prepare(a)
      PROVE  Fence'
  BY <1>7 DEF Prepare
<1>8. ASSUME NEW a \in Attempts, CheckBalance(a)
      PROVE  Fence'
  BY <1>8 DEF CheckBalance
<1>9. ASSUME NEW a \in Attempts, RefuseForBalance(a)
      PROVE  Fence'
  BY <1>9 DEF RefuseForBalance, FailTurn, MessageLocked
<1>10. ASSUME NEW a \in Attempts, Consume(a)
      PROVE  Fence'
  <2>1. CASE consumed' = [consumed EXCEPT ![a] = TRUE]
    BY <1>10, <2>1 DEF Consume
  <2>2. CASE UNCHANGED consumed /\ Goto(a, "markUnpaid")
    BY <1>10, <2>2 DEF Consume
  <2>3. CASE UNCHANGED consumed /\ Goto(a, "markUnknown")
    BY <1>10, <2>3 DEF Consume
  <2> QED
    BY <1>10, <2>1, <2>2, <2>3 DEF Consume
<1>11. ASSUME NEW a \in Attempts, MarkCharge(a)
      PROVE  Fence'
  <2>1. CASE pc[a] = "markPaid" /\ Charge(a, "succeeded") /\ Goto(a, "generate")
    BY <1>11, <2>1 DEF MarkCharge
  <2>2. CASE pc[a] = "markUnpaid" /\ Charge(a, "failed") /\ Goto(a, "done")
    BY <1>11, <2>2 DEF MarkCharge
  <2>3. CASE pc[a] = "markUnknown" /\ Charge(a, "unknown") /\ Goto(a, "done")
    BY <1>11, <2>3 DEF MarkCharge
  <2> QED
    BY <1>11, <2>1, <2>2, <2>3 DEF MarkCharge
<1>12. ASSUME NEW a \in Attempts, Generate(a)
      PROVE  Fence'
  BY <1>12 DEF Generate
<1>13. ASSUME NEW a \in Attempts, MarkRefundPending(a)
      PROVE  Fence'
  BY <1>13 DEF MarkRefundPending
<1>14. ASSUME NEW a \in Attempts, CheckRefundKey(a)
      PROVE  Fence'
  BY <1>14 DEF CheckRefundKey
<1>15. ASSUME NEW a \in Attempts, WriteRefund(a)
      PROVE  Fence'
  BY <1>15 DEF WriteRefund
<1>16. ASSUME NEW a \in Attempts, MarkRefundDone(a)
      PROVE  Fence'
  BY <1>16 DEF MarkRefundDone
<1>17. ASSUME NEW a \in Attempts, MarkRefundLost(a)
      PROVE  Fence'
  <2>1. CASE verdict[a] \in Free
    <3>1. OneWorker'
      BY <1>17, <2>1 DEF MarkRefundLost, AfterLostRefund, Catch
    <3>2. AnswerCompletes' /\ RecoveryWaits'
      BY <1>17, <2>1 DEF MarkRefundLost, AfterLostRefund, Catch
    <3>3. NotYetRefunded' /\ NotYetLogged'
      BY <1>17, <2>1 DEF MarkRefundLost, AfterLostRefund, Catch
    <3>4. OneReply' /\ DeliveredKeepsCharge' /\ SuccessLoggedAlone' /\ ClosedChargesAreFree'
      BY <1>17, <2>1 DEF MarkRefundLost, AfterLostRefund, Catch
    <3> QED
      BY <3>1, <3>2, <3>3, <3>4
  <2>2. CASE verdict[a] \notin Free
    BY <1>17, <2>2 DEF MarkRefundLost, AfterLostRefund, Catch
  <2> QED
    BY <1>17, <2>1, <2>2 DEF MarkRefundLost
<1>18. ASSUME NEW a \in Attempts, Finalize(a)
      PROVE  Fence'
  BY <1>18 DEF Finalize, CommitReply, UsageOf, Deliver, MessageLocked
<1>19. ASSUME NEW a \in Attempts, FailAttempt(a)
      PROVE  Fence'
  BY <1>19 DEF FailAttempt, FailTurn, MessageLocked
<1>20. ASSUME NEW a \in Attempts, LogUsage(a)
      PROVE  Fence'
  BY <1>20 DEF LogUsage
<1>21. ASSUME NEW a \in Attempts, HandlerThrows(a)
      PROVE  Fence'
  BY <1>21 DEF HandlerThrows
<1>22. ASSUME NEW a \in Attempts, FinalizeThrows(a)
      PROVE  Fence'
  <2>0. UNCHANGED <<turn, outcome>>
    BY <1>22 DEF FinalizeThrows
  <2>1. CASE verdict[a] = "canned"
    <3>1. OneWorker'
      BY <1>22, <2>0, <2>1 DEF FinalizeThrows, Catch
    <3>2. AnswerCompletes' /\ RecoveryWaits'
      BY <1>22, <2>0, <2>1 DEF FinalizeThrows, Catch
    <3>3. NotYetRefunded' /\ NotYetLogged'
      BY <1>22, <2>0, <2>1 DEF FinalizeThrows, Catch
    <3>4. OneReply' /\ DeliveredKeepsCharge' /\ SuccessLoggedAlone' /\ ClosedChargesAreFree'
      BY <1>22, <2>0, <2>1 DEF FinalizeThrows, Catch
    <3> QED
      BY <3>1, <3>2, <3>3, <3>4
  <2>2. CASE verdict[a] # "canned"
    <3>1. OneWorker'
      BY <1>22, <2>0, <2>2 DEF FinalizeThrows, Catch
    <3>2. AnswerCompletes' /\ RecoveryWaits'
      BY <1>22, <2>0, <2>2 DEF FinalizeThrows, Catch
    <3>3. NotYetRefunded'
      BY <1>22, <2>0, <2>2 DEF FinalizeThrows, Catch
    <3>4. NotYetLogged'
      BY <1>22, <2>0, <2>2 DEF FinalizeThrows, Catch
    <3>5. OneReply' /\ DeliveredKeepsCharge' /\ SuccessLoggedAlone' /\ ClosedChargesAreFree'
      BY <1>22, <2>0, <2>2 DEF FinalizeThrows, Catch
    <3> QED
      BY <3>1, <3>2, <3>3, <3>4, <3>5
  <2> QED
    BY <1>22, <2>1, <2>2 DEF FinalizeThrows
<1>23. ASSUME NEW a \in Attempts, FailAttemptThrows(a)
      PROVE  Fence'
  <2>1. CASE verdict[a] = "exception"
    BY <1>23, <2>1 DEF FailAttemptThrows, Catch
  <2>2. CASE verdict[a] # "exception"
    <3>1. OneWorker'
      BY <1>23, <2>2 DEF FailAttemptThrows, Catch
    <3>2. AnswerCompletes' /\ RecoveryWaits'
      BY <1>23, <2>2 DEF FailAttemptThrows, Catch
    <3>3. NotYetRefunded' /\ NotYetLogged'
      BY <1>23, <2>2 DEF FailAttemptThrows, Catch
    <3>4. OneReply' /\ DeliveredKeepsCharge' /\ SuccessLoggedAlone' /\ ClosedChargesAreFree'
      BY <1>23, <2>2 DEF FailAttemptThrows, Catch
    <3> QED
      BY <3>1, <3>2, <3>3, <3>4
  <2> QED
    BY <1>23, <2>1, <2>2 DEF FailAttemptThrows
<1>24. ASSUME NEW a \in Attempts, LogUsageThrows(a)
      PROVE  Fence'
  BY <1>24 DEF LogUsageThrows, Catch
<1>25. ASSUME NEW a \in Attempts, Crash(a)
      PROVE  Fence'
  BY <1>25 DEF Crash, Alive
<1>26. ASSUME NEW r \in Recoverers, NEW a \in Attempts, RecoverList(r, a)
      PROVE  Fence'
  BY <1>26 DEF RecoverList, WindowReached
<1>27. ASSUME NEW r \in Recoverers, RecoverCommitted(r)
      PROVE  Fence'
  <2>1. OneWorker'
    BY <1>27 DEF RecoverCommitted, Reread, EndRow, ActualCharge, TurnCommitted, Active
  <2>2. AnswerCompletes' /\ RecoveryWaits'
    BY <1>27 DEF RecoverCommitted, Reread, EndRow, ActualCharge, TurnCommitted, Active
  <2>3. NotYetRefunded' /\ NotYetLogged'
    BY <1>27 DEF RecoverCommitted, Reread, EndRow, ActualCharge, TurnCommitted, Active
  <2>4. OneReply' /\ DeliveredKeepsCharge' /\ SuccessLoggedAlone' /\ ClosedChargesAreFree'
    BY <1>27 DEF RecoverCommitted, Reread, EndRow, ActualCharge, TurnCommitted, Active
  <2> QED
    BY <2>1, <2>2, <2>3, <2>4
<1>28. ASSUME NEW r \in Recoverers, RecoverUncharged(r)
      PROVE  Fence'
  <2>1. OneWorker'
    BY <1>28 DEF RecoverUncharged, Reread, EndRow, ActualCharge, TurnCommitted, Active
  <2>2. AnswerCompletes' /\ RecoveryWaits'
    BY <1>28 DEF RecoverUncharged, Reread, EndRow, ActualCharge, TurnCommitted, Active
  <2>3. NotYetRefunded' /\ NotYetLogged'
    BY <1>28 DEF RecoverUncharged, Reread, EndRow, ActualCharge, TurnCommitted, Active
  <2>4. OneReply' /\ DeliveredKeepsCharge' /\ SuccessLoggedAlone' /\ ClosedChargesAreFree'
    BY <1>28 DEF RecoverUncharged, Reread, EndRow, ActualCharge, TurnCommitted, Active
  <2> QED
    BY <2>1, <2>2, <2>3, <2>4
<1>29. ASSUME NEW r \in Recoverers, RecoverRefunded(r)
      PROVE  Fence'
  BY <1>29 DEF RecoverRefunded, Reread, EndRow, ActualCharge, TurnCommitted, Active
<1>30. ASSUME NEW r \in Recoverers, StartRefund(r)
      PROVE  Fence'
  BY <1>30 DEF StartRefund, Reread, ActualCharge, TurnCommitted, Active
<1>31. ASSUME NEW r \in Recoverers, RecoverRefund(r)
      PROVE  Fence'
  BY <1>31 DEF RecoverRefund, EndRow
<1>32. ASSUME NEW r \in Recoverers, RecoveryFails(r)
      PROVE  Fence'
  BY <1>32 DEF RecoveryFails
<1>33. ASSUME NEW r \in Recoverers, RecoverCatch(r)
      PROVE  Fence'
  BY <1>33 DEF RecoverCatch, EndRow
<1>34. ASSUME NEW r \in Recoverers, RecovererCrash(r)
      PROVE  Fence'
  BY <1>34 DEF RecovererCrash, EndRow
<1>35. QED
  BY <1>1, <1>2, <1>3, <1>4, <1>5, <1>6, <1>7, <1>8, <1>9, <1>10, <1>11, <1>12, <1>13, <1>14, <1>15, <1>16, <1>17, <1>18, <1>19, <1>20, <1>21, <1>22, <1>23, <1>24, <1>25, <1>26, <1>27, <1>28, <1>29, <1>30, <1>31, <1>32, <1>33, <1>34 DEF Step, Work, Fault, Recover, Settle

LEMMA FenceInit == Init => Fence
BY AttemptsAssumption DEF Init, Fence, Deciding, OneWorker, AnswerCompletes, RecoveryWaits,
   NotYetRefunded, NotYetLogged, OneReply, DeliveredKeepsCharge, SuccessLoggedAlone,
   ClosedChargesAreFree, Answered, Attempts

LEMMA FenceHolds == Spec => [](Truth /\ (Fenced => Fence))
<1>1. Fenced /\ Fence /\ UNCHANGED vars => Fence'
  BY DEF vars, turn, outcome, records, wallet, worker, recovery, Fence, OneWorker,
     AnswerCompletes, RecoveryWaits, NotYetRefunded, NotYetLogged, OneReply,
     DeliveredKeepsCharge, SuccessLoggedAlone, ClosedChargesAreFree, Answered
<1>2. [Next]_vars => (Fenced' <=> Fenced)
  BY DEF Next, Under, vars, Fenced
<1>3. Truth /\ (Fenced => Fence) /\ [Next]_vars => (Fenced => Fence)'
  BY <1>1, <1>2, FenceStep DEF Next, Under
<1> QED
  BY TruthHolds, FenceInit, <1>3, PTL DEF Spec

(* When workers keep their leases and learn the result of their commits, a *)
(* client message gets one reply, however often it is retried and whatever *)
(* crashes, fails or is recovered.                                         *)
THEOREM TurnOneReply == Spec => []FencedOneReply
<1>1. (Fenced => Fence) => FencedOneReply
  BY DEF Fence, FencedOneReply
<1> QED
  BY FenceHolds, <1>1, PTL

(* Under the same condition the charge of a delivered reply is never given *)
(* back, by its own worker or by recovery.                                 *)
THEOREM TurnDeliveredKeepsCharge == Spec => []FencedKeepsCharge
<1>1. (Fenced => Fence) => FencedKeepsCharge
  BY DEF Fence, FencedKeepsCharge
<1> QED
  BY FenceHolds, <1>1, PTL

(* Under the same condition recovery never closes the charge of an attempt *)
(* as failed that was, or later is, taken from the wallet.                 *)
THEOREM TurnClosedChargesAreFree == Spec => []FencedClosedAreFree
<1>1. (Fenced => Fence) => FencedClosedAreFree
  BY DEF Fence, FencedClosedAreFree
<1> QED
  BY FenceHolds, <1>1, PTL

LEMMA CompletedStep ==
  ASSUME Truth, Fence, Fenced, status = "completed", [Next]_vars
  PROVE  status' = "completed" /\ UNCHANGED <<attempt, consumed>>
<1> USE DEF Truth, TurnInv, Fence, Deciding, OneWorker, Fenced,
    turn, outcome, records, wallet, worker, recovery
<1>1. \A a \in Attempts : pc[a] \notin Deciding
  OBVIOUS
<1>2. CASE CreateTurn \/ Retry \/ Reacquire \/ CompleteAndReplay \/ ExpireLease
  BY <1>2 DEF CreateTurn, Retry, Reacquire, CompleteAndReplay, ExpireLease, Abandoned
<1>3. ASSUME NEW a \in Attempts, Work(a)
      PROVE  status' = "completed" /\ UNCHANGED <<attempt, consumed>>
  BY <1>1, <1>3 DEF Work, RejectInput, Prepare, CheckBalance, RefuseForBalance, Consume,
     MarkCharge, Generate, MarkRefundPending, CheckRefundKey, WriteRefund, MarkRefundDone,
     MarkRefundLost, Finalize, FailAttempt, LogUsage
<1>4. ASSUME NEW a \in Attempts, Fault(a)
      PROVE  status' = "completed" /\ UNCHANGED <<attempt, consumed>>
  BY <1>1, <1>4 DEF Fault, HandlerThrows, FinalizeThrows, FailAttemptThrows, LogUsageThrows, Crash
<1>5. ASSUME NEW r \in Recoverers, Recover(r) \/ RecovererCrash(r)
      PROVE  status' = "completed" /\ UNCHANGED <<attempt, consumed>>
  BY <1>5 DEF Recover, Settle, RecoverCommitted, RecoverUncharged, RecoverRefunded, StartRefund,
     RecoverRefund, RecoveryFails, RecoverCatch, RecovererCrash
<1>6. ASSUME NEW r \in Recoverers, NEW a \in Attempts, RecoverList(r, a)
      PROVE  status' = "completed" /\ UNCHANGED <<attempt, consumed>>
  BY <1>6 DEF RecoverList
<1>7. CASE UNCHANGED vars
  BY <1>7 DEF vars
<1> QED
  BY <1>2, <1>3, <1>4, <1>5, <1>6, <1>7 DEF Next, Under, Step

(* Under the same condition no retry, stale worker or recovery run reopens *)
(* a completed turn or charges it again.                                   *)
THEOREM TurnCompletedIsFinal == Spec => CompletedIsFinal
<1>1. Truth /\ (Fenced => Fence) /\ [Next]_vars =>
        [Fenced /\ status = "completed" => status' = "completed" /\ UNCHANGED <<attempt, consumed>>]_vars
  BY CompletedStep
<1> QED
  BY FenceHolds, <1>1, PTL DEF Spec, CompletedIsFinal

-----------------------------------------------------------------------------
(* Only four kinds of steps write the wallet or the history.               *)
Charges(a) ==
  /\ pc[a] = "consume"
  /\ consumed' = [consumed EXCEPT ![a] = TRUE]
  /\ UNCHANGED <<refunded, replied>>

Returns(a) ==
  /\ pc[a] = "refundWrite" \/ \E r \in Recoverers : rpc[r] = "refund" /\ rrow[r] = a
  /\ refunded' = [refunded EXCEPT ![a] = TRUE]
  /\ UNCHANGED <<consumed, replied>>

Answers(a) ==
  /\ pc[a] = "finalize"
  /\ replied' = [replied EXCEPT ![a] = verdict[a]]
  /\ UNCHANGED wallet

LEMMA WritesOfTurn ==
  ASSUME Truth, Fenced, Step
  PROVE  Stutter \/ \E a \in Attempts : Charges(a) \/ Returns(a) \/ Answers(a)
<1> USE DEF turn, outcome, records, wallet, worker, recovery, Stutter
<1>1. CASE CreateTurn \/ Retry \/ Reacquire \/ CompleteAndReplay \/ ExpireLease
  BY <1>1 DEF CreateTurn, Retry, Reacquire, CompleteAndReplay, ExpireLease
<1>2. ASSUME NEW a \in Attempts, Work(a)
      PROVE  Stutter \/ Charges(a) \/ Returns(a) \/ Answers(a)
  <2>1. CASE Consume(a)
    BY <2>1 DEF Consume, Charges
  <2>2. CASE WriteRefund(a)
    BY <2>2 DEF WriteRefund, Returns
  <2>3. CASE Finalize(a)
    BY <2>3 DEF Finalize, CommitReply, Answers
  <2>4. CASE \/ RejectInput(a) \/ Prepare(a) \/ CheckBalance(a) \/ RefuseForBalance(a)
             \/ MarkCharge(a) \/ Generate(a) \/ MarkRefundPending(a) \/ CheckRefundKey(a)
             \/ MarkRefundDone(a) \/ MarkRefundLost(a) \/ FailAttempt(a) \/ LogUsage(a)
    BY <2>4 DEF RejectInput, Prepare, CheckBalance, RefuseForBalance, MarkCharge, Generate,
       MarkRefundPending, CheckRefundKey, MarkRefundDone, MarkRefundLost, FailAttempt, LogUsage
  <2> QED BY <1>2, <2>1, <2>2, <2>3, <2>4 DEF Work
<1>3. ASSUME NEW a \in Attempts, Fault(a) PROVE Stutter
  BY <1>3 DEF Fault, HandlerThrows, FinalizeThrows, FailAttemptThrows, LogUsageThrows, Crash,
     Fenced
<1>4. ASSUME NEW r \in Recoverers, NEW a \in Attempts, RecoverList(r, a) PROVE Stutter
  BY <1>4 DEF RecoverList
<1>5. ASSUME NEW r \in Recoverers, Recover(r) \/ RecovererCrash(r)
      PROVE  Stutter \/ Returns(rrow[r])
  BY <1>5 DEF Recover, Settle, RecoverCommitted, RecoverUncharged, RecoverRefunded, StartRefund,
     RecoverRefund, RecoveryFails, RecoverCatch, RecovererCrash, Returns
<1>6. \A r \in Recoverers : rrow[r] \in Attempts
  BY DEF Truth, TypeOK
<1> QED BY <1>1, <1>2, <1>3, <1>4, <1>5, <1>6 DEF Step

\* A charge is taken once, before there is a reply.
LEMMA ChargesTakes ==
  ASSUME Truth, Fence, NEW a \in Attempts, Charges(a) PROVE Promise!Take(a)
<1>1. ~consumed[a] /\ \A b \in Attempts : replied[b] = "none"
  BY DEF Charges, Truth, WorkerInv, Uncharged, Fence, OneWorker, Deciding
<1>2. {b \in Attempts : consumed'[b]} = {b \in Attempts : consumed[b]} \cup {a}
  BY DEF Charges, Truth, TypeOK
<1>3. UNCHANGED <<refunded, replied>>
  BY DEF Charges
<1> QED BY <1>1, <1>2, <1>3 DEF Promise!Take

\* It is given back by its worker or by recovery, which wait until there can be no
\* reply of that attempt.
LEMMA ReturnsGivesBack ==
  ASSUME Truth, Fence, NEW a \in Attempts, Returns(a) PROVE Stutter \/ Promise!GiveBack(a)
<1>1. CASE refunded[a]
  <2>1. refunded' = refunded
    BY <1>1 DEF Returns, Truth, TypeOK
  <2> QED BY <2>1 DEF Returns, Stutter, wallet
<1>2. CASE ~refunded[a]
  <2>1. consumed[a] /\ \A b \in Attempts : replied[b] = "none"
    BY DEF Returns, Truth, WorkerInv, RecoveryInv, Charged, Fence, OneWorker, Deciding,
       RecoveryWaits, Answered
  <2>2. {b \in Attempts : refunded'[b]} = {b \in Attempts : refunded[b]} \cup {a}
    BY DEF Returns, Truth, TypeOK
  <2>3. UNCHANGED <<consumed, replied>>
    BY DEF Returns
  <2> QED BY <1>2, <2>1, <2>2, <2>3 DEF Promise!GiveBack
<1> QED BY <1>1, <1>2

\* The reply is the first, and paid for exactly when it should be.
LEMMA AnswersReplies ==
  ASSUME Truth, Fence, NEW a \in Attempts, Answers(a)
  PROVE  \E v \in Replies : Promise!Reply(a, v)
<1> PICK v : v = verdict[a]
  OBVIOUS
<1>1. /\ \A b \in Attempts : replied[b] = "none"
      /\ v \in Replies
      /\ v = "success" => consumed[a] /\ ~refunded[a]
      /\ v \in Free => refunded[a]
      /\ v = "canned" => ~consumed[a]
  BY DEF Answers, Truth, WorkerInv, Fence, OneWorker, Deciding, NotYetRefunded
<1>2. v # "none"
  BY <1>1 DEF Replies, Free
<1>3. replied'[a] = v /\ \A b \in Attempts \ {a} : replied'[b] = "none"
  BY <1>1 DEF Answers, Truth, TypeOK
<1>4. {b \in Attempts : replied'[b] # "none"} = {a}
  BY <1>2, <1>3
<1>5. {[by |-> b, verdict |-> replied'[b]] : b \in {c \in Attempts : replied'[c] # "none"}}
        = {[by |-> a, verdict |-> v]}
  BY <1>3, <1>4
<1>6. {[by |-> b, verdict |-> replied[b]] : b \in {c \in Attempts : replied[c] # "none"}} = {}
  BY <1>1
<1>7. UNCHANGED <<consumed, refunded>>
  BY DEF Answers, wallet
<1>8. Promise!Reply(a, v)
  BY <1>1, <1>5, <1>6, <1>7 DEF Promise!Reply, Promise!Kept
<1> QED BY <1>1, <1>8

(* Behind the fence a turn implements PaidReply, for any number of attempts *)
(* and overlapping recovery runs: points are taken, given back and paid for *)
(* a reply only in steps the user was promised.                             *)
THEOREM TurnImplementsPaidReply == Spec => PaidReplySpec
<1>1. Init => Promise!Init
  BY DEF Init, Promise!Init
<1>2. Truth /\ (Fenced => Fence) /\ [Next]_vars =>
        [Fenced => Stutter \/ Promise!Next]_(Promise!vars)
  <2> SUFFICES ASSUME Truth, Fenced => Fence, [Next]_vars, Fenced PROVE Stutter \/ Promise!Next
    OBVIOUS
  <2>1. CASE UNCHANGED vars
    BY <2>1 DEF vars, outcome, wallet, Stutter
  <2>2. CASE Step
    <3>1. PICK a \in Attempts : Stutter \/ Charges(a) \/ Returns(a) \/ Answers(a)
      BY <2>2, WritesOfTurn, AttemptsAssumption DEF Attempts
    <3>2. CASE Charges(a)
      BY <3>2, ChargesTakes DEF Promise!Next
    <3>3. CASE Returns(a)
      BY <3>3, ReturnsGivesBack DEF Promise!Next
    <3>4. CASE Answers(a)
      <4>1. PICK v \in Replies : Promise!Reply(a, v)
        BY <3>4, AnswersReplies
      <4> QED BY <4>1 DEF Promise!Next, Replies
    <3> QED BY <3>1, <3>2, <3>3, <3>4
  <2> QED BY <2>1, <2>2 DEF Next, Under
<1> QED BY <1>1, <1>2, FenceHolds, PTL DEF Spec, PaidReplySpec

-----------------------------------------------------------------------------
(* What recovery needs to find a charge: the row of its attempt was there   *)
(* before the charge was made, and only a reply completes the turn.         *)
TurnOpen ==
  /\ status = "completed" => Answered
  /\ status = "generating" => lease # "none"
  /\ ClientId => status # "null"

RowBeforeCharge ==
  \A a \in Attempts : pc[a] \in {"balance", "consume"} \/ consumed[a] =>
    chargeSt[a] # "absent" /\ refundSt[a] # "absent"

Reach == TurnOpen /\ RowBeforeCharge

\* An answer is not taken back.
LEMMA StaysAnswered ==
  ASSUME Truth, Fenced, Step PROVE Answered => Answered'
<1>1. CASE Stutter
  BY <1>1 DEF Stutter, Answered
<1>2. ASSUME NEW a \in Attempts, Charges(a) \/ Returns(a)
      PROVE  Answered => Answered'
  BY <1>2 DEF Charges, Returns, Answered
<1>3. ASSUME NEW a \in Attempts, Answers(a)
      PROVE  Answered => Answered'
  <2>1. replied'[a] = verdict[a] /\ verdict[a] \in Replies
    BY <1>3 DEF Answers, Truth, TypeOK, WorkerInv
  <2> QED BY <2>1 DEF Answered, Replies, Free
<1> QED BY <1>1, <1>2, <1>3, WritesOfTurn

LEMMA TurnOpenStep ==
  ASSUME Truth, Fence, Fenced, TurnOpen, Step PROVE TurnOpen'
<1> USE StaysAnswered DEF TurnOpen, turn, outcome, records, wallet, worker, recovery
<1>1. CASE CreateTurn \/ Retry \/ Reacquire \/ CompleteAndReplay \/ ExpireLease
  BY <1>1 DEF CreateTurn, Retry, Reacquire, CompleteAndReplay, ExpireLease, Acquire, Fenced,
     Fence, AnswerCompletes
<1>2. ASSUME NEW a \in Attempts, Work(a) PROVE TurnOpen'
  <2>1. CASE Finalize(a)
    <3>1. status' = "completed" /\ Answers(a)
      BY <2>1 DEF Finalize, CommitReply, Answers
    <3>2. replied'[a] = verdict[a] /\ verdict[a] \in Replies
      BY <3>1 DEF Answers, Truth, TypeOK, WorkerInv
    <3> QED BY <3>1, <3>2 DEF Answered, Replies, Free
  <2>2. CASE RefuseForBalance(a) \/ FailAttempt(a)
    BY <2>2 DEF RefuseForBalance, FailAttempt, FailTurn
  <2>3. CASE \/ RejectInput(a) \/ Prepare(a) \/ CheckBalance(a) \/ Consume(a)
             \/ MarkCharge(a) \/ Generate(a) \/ MarkRefundPending(a) \/ CheckRefundKey(a)
             \/ WriteRefund(a) \/ MarkRefundDone(a) \/ MarkRefundLost(a) \/ LogUsage(a)
    BY <2>3 DEF RejectInput, Prepare, CheckBalance, Consume, MarkCharge, Generate,
       MarkRefundPending, CheckRefundKey, WriteRefund, MarkRefundDone, MarkRefundLost, LogUsage
  <2> QED BY <1>2, <2>1, <2>2, <2>3 DEF Work
<1>3. ASSUME NEW a \in Attempts, Fault(a) PROVE TurnOpen'
  BY <1>3 DEF Fault, HandlerThrows, FinalizeThrows, FailAttemptThrows, LogUsageThrows, Crash,
     Fenced
<1>4. ASSUME NEW r \in Recoverers, NEW a \in Attempts, RecoverList(r, a) PROVE TurnOpen'
  BY <1>4 DEF RecoverList
<1>5. ASSUME NEW r \in Recoverers, Recover(r) \/ RecovererCrash(r) PROVE TurnOpen'
  BY <1>5 DEF Recover, Settle, RecoverCommitted, RecoverUncharged, RecoverRefunded, StartRefund,
     RecoverRefund, RecoveryFails, RecoverCatch, RecovererCrash, TurnCommitted
<1> QED BY <1>1, <1>2, <1>3, <1>4, <1>5 DEF Step

LEMMA RowBeforeChargeStep ==
  ASSUME Truth, Fenced, RowBeforeCharge, Step PROVE RowBeforeCharge'
<1> USE DEF Truth, TypeOK, RowBeforeCharge, turn, outcome, records, wallet, worker, recovery,
    Goto, Charge, Refund
<1>1. CASE CreateTurn \/ Retry \/ Reacquire \/ CompleteAndReplay \/ ExpireLease
  BY <1>1 DEF CreateTurn, Retry, Reacquire, CompleteAndReplay, ExpireLease, Acquire
<1>2. ASSUME NEW a \in Attempts, Work(a) PROVE RowBeforeCharge'
  <2>1. CASE Prepare(a)
    BY <2>1 DEF Prepare
  <2>2. CASE CheckBalance(a)
    BY <2>2 DEF CheckBalance
  <2>3. CASE Consume(a)
    BY <2>3 DEF Consume
  <2>4. CASE MarkCharge(a)
    BY <2>4 DEF MarkCharge
  <2>5. CASE MarkRefundPending(a)
    BY <2>5 DEF MarkRefundPending
  <2>6. CASE MarkRefundDone(a)
    BY <2>6 DEF MarkRefundDone
  <2>7. CASE MarkRefundLost(a)
    BY <2>7 DEF MarkRefundLost, AfterLostRefund, Catch
  <2>8. CASE RejectInput(a) \/ RefuseForBalance(a) \/ FailAttempt(a) \/ LogUsage(a)
    BY <2>8 DEF RejectInput, RefuseForBalance, FailAttempt, LogUsage
  <2>9. CASE Generate(a) \/ CheckRefundKey(a) \/ WriteRefund(a)
    BY <2>9 DEF Generate, CheckRefundKey, WriteRefund
  <2>10. CASE Finalize(a)
    BY <2>10 DEF Finalize, Deliver
  <2> QED BY <1>2, <2>1, <2>2, <2>3, <2>4, <2>5, <2>6, <2>7, <2>8, <2>9, <2>10 DEF Work
<1>3. ASSUME NEW a \in Attempts, Fault(a) PROVE RowBeforeCharge'
  BY <1>3 DEF Fault, HandlerThrows, FinalizeThrows, FailAttemptThrows, LogUsageThrows, Crash,
     Catch
<1>4. ASSUME NEW r \in Recoverers, NEW a \in Attempts, RecoverList(r, a)
      PROVE  RowBeforeCharge'
  BY <1>4 DEF RecoverList
<1>5. ASSUME NEW r \in Recoverers, Recover(r) \/ RecovererCrash(r) PROVE RowBeforeCharge'
  <2>1. CASE RecoverCommitted(r)
    BY <2>1 DEF RecoverCommitted, ActualCharge, EndRow
  <2>2. CASE RecoverUncharged(r)
    BY <2>2 DEF RecoverUncharged, ActualCharge, EndRow
  <2>3. CASE RecoverRefunded(r) \/ RecoverRefund(r)
    BY <2>3 DEF RecoverRefunded, RecoverRefund, EndRow
  <2>4. CASE RecoverCatch(r)
    BY <2>4 DEF RecoverCatch, EndRow
  <2>5. CASE StartRefund(r) \/ RecoveryFails(r) \/ RecovererCrash(r)
    BY <2>5 DEF StartRefund, RecoveryFails, RecovererCrash
  <2> QED BY <1>5, <2>1, <2>2, <2>3, <2>4, <2>5 DEF Recover, Settle
<1> QED BY <1>1, <1>2, <1>3, <1>4, <1>5 DEF Step

LEMMA ReachHolds == Spec => [](Fenced => Reach)
<1>1. Init => Reach
  BY DEF Init, Reach, TurnOpen, RowBeforeCharge
<1>2. Truth /\ (Fenced => Fence) /\ (Fenced => Reach) /\ [Next]_vars => (Fenced => Reach)'
  <2> SUFFICES ASSUME Truth, Fenced => Fence, Fenced => Reach, [Next]_vars, Fenced'
               PROVE  Reach'
    OBVIOUS
  <2>1. Fenced
    BY DEF Next, Under, vars, Fenced
  <2>2. CASE Step
    BY <2>1, <2>2, TurnOpenStep, RowBeforeChargeStep DEF Reach
  <2>3. CASE UNCHANGED vars
    BY <2>1, <2>3 DEF vars, turn, outcome, records, wallet, worker, Reach, TurnOpen,
       RowBeforeCharge, Answered
  <2> QED BY <2>2, <2>3 DEF Next, Under
<1> QED BY <1>1, <1>2, FenceHolds, PTL DEF Spec

(* The safety half of NothingKeptForNothing, behind the fence: whatever is  *)
(* charged and neither answered nor given back is found by recovery, at the *)
(* latest once the lease of the latest attempt is over.                     *)
THEOREM TurnChargesStayInReach == Spec => []ChargesStayInReach
<1>1. Truth /\ (Fenced => Fence) /\ (Fenced => Reach) => ChargesStayInReach
  <2> SUFFICES ASSUME Truth, Fence, Reach, Fenced, NEW a \in Attempts,
                      consumed[a], ~refunded[a], ~Answered
               PROVE  InReach(a)
    BY DEF ChargesStayInReach
  <2>1. /\ chargeSt[a] \in {"pending", "succeeded", "unknown"}
        /\ refundSt[a] \in {"not_required", "pending", "unknown"}
    BY DEF Truth, TypeOK, RecordsTellTruth, Fence, ClosedChargesAreFree, Reach, RowBeforeCharge
  <2>2. Unsettled(a)
    BY <2>1 DEF Unsettled
  <2>3. pc[a] # "idle" /\ a <= attempt /\ attempt \in Nat /\ a \in Nat /\ a >= 1
    <3>1. pc[a] # "idle"
      BY DEF Truth, WorkerInv, Uncharged
    <3>2. ~(a > attempt)
      BY <3>1 DEF Truth, TurnInv
    <3>3. a \in Nat /\ a >= 1 /\ attempt \in Nat
      BY AttemptsAssumption DEF Attempts, Truth, TypeOK
    <3> QED BY <3>1, <3>2, <3>3
  <2>4. status \in {"failed", "generating"}
    BY <2>3 DEF Truth, TypeOK, TurnInv, Reach, TurnOpen, Fenced
  <2>5. status = "generating" => lease \in {"live", "expired"}
    BY DEF Truth, TypeOK, Reach, TurnOpen
  <2> QED BY <2>2, <2>3, <2>4, <2>5 DEF InReach, WindowReached
<1> QED BY <1>1, FenceHolds, ReachHolds, PTL
=============================================================================
