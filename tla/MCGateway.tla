----------------------------- MODULE MCGateway -----------------------------
(***************************************************************************)
(* The gateway's queue of tasks and its stored cron jobs in one instance.  *)
(* They touch through the bus alone, which each of them models from its    *)
(* own side, so a behaviour runs one part; the other stays in an initial   *)
(* state.                                                                  *)
(***************************************************************************)
EXTENDS TaskQueue, CronJobs

VARIABLE part

all == <<part, vars, cronVars>>

AllInit ==
  /\ part \in {"queue", "cron"}
  /\ Init /\ CronInit

Queue(A) == part = "queue" /\ A /\ UNCHANGED <<part, cronVars>>
Clock(A) == part = "cron" /\ A /\ UNCHANGED <<part, vars>>

AllNext == Queue(Next) \/ Clock(CronNext)

\* The fairness of TaskQueue's FairSpec; the minute passes and replicas poll.
AllSpec ==
  /\ AllInit /\ [][AllNext]_all
  /\ WF_all(Queue(Send)) /\ WF_all(Queue(Route))
  /\ \A q \in Queues : WF_all(Queue(Work(q))) /\ SF_all(Queue(Acquire(q)))
  /\ WF_all(Clock(MinutePasses)) /\ \A r \in Replicas : WF_all(Clock(Poll(r)))

\* See DueFires of CronJobs: in the part of the jobs.
JobsFire == part = "cron" => DueFires
=============================================================================
