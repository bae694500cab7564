------------------------------ MODULE CronJobs ------------------------------
(***************************************************************************)
(* The stored cron jobs of fastclaw: replicas of the gateway poll the      *)
(* table cron_jobs (internal/cron/scheduler.go over store/database.go),    *)
(* lock a due job by its row, put its message on the inbound bus, and set  *)
(* its next run.  A tick is a minute, the interval of the poll and of      *)
(* every stored job: its schedule is not read.                             *)
(***************************************************************************)
EXTENDS Naturals, FiniteSets

CONSTANTS Jobs, Replicas,
          LockTTL,       \* ticks after which a lock may be taken over (5)
          MaxWait,       \* ticks a poll may wait for room on the bus
          MaxCrashes     \* bound: replicas that die in a poll, reads and locks that fail

ASSUME JobsAssumption == Jobs # {}
ASSUME TicksAssumption == LockTTL \in Nat /\ MaxWait \in Nat /\ MaxCrashes \in Nat

VARIABLES exists,        \* jobs with a row (enabled: no code disables one)
          dueIn,         \* next_run, in ticks from now
          locked, lockAge,
          step, todo, job, \* each replica: its step, the due jobs it listed, its job
          elapsed,       \* ticks since it listed them
          polled,        \* replicas whose ticker fired in this tick
          crashes

rows == <<exists, dueIn, locked, lockAge>>
replica == <<step, todo, job, elapsed, polled>>
cronVars == <<rows, replica, crashes>>

Due == {j \in exists : dueIn[j] = 0}

CronInit ==
  /\ exists = Jobs /\ dueIn = [j \in Jobs |-> 0]
  /\ locked = {} /\ lockAge = [j \in Jobs |-> 0]
  /\ step = [r \in Replicas |-> "wait"] /\ todo = [r \in Replicas |-> {}]
  /\ job \in [Replicas -> {CHOOSE j \in Jobs : TRUE}]
  /\ elapsed = [r \in Replicas |-> 0] /\ polled = {}
  /\ crashes = 0

Enter(r, next) == step' = [step EXCEPT ![r] = next]

StatementFails == crashes < MaxCrashes /\ crashes' = crashes + 1

\* GetDueCronJobs, when the ticker fires and when the replica starts.
List(r) ==
  /\ step[r] = "wait" /\ r \notin polled
  /\ polled' = polled \cup {r}
  /\ \/ todo' = [todo EXCEPT ![r] = Due] /\ UNCHANGED crashes
     \/ StatementFails /\ UNCHANGED todo
  /\ elapsed' = [elapsed EXCEPT ![r] = 0]
  /\ Enter(r, "next")
  /\ UNCHANGED <<rows, job>>

\* Mutant: a lock is as good as none.
NoLock(j) == TRUE
\* Mutant: the lock of a crashed replica is never taken over.
LockForEver(j) == j \notin locked
Lockable(j) == j \notin locked \/ lockAge[j] > LockTTL

\* LockCronJob: one UPDATE, of a row that may be gone or no longer due.
Lock(r) ==
  /\ step[r] = "next"
  /\ \E j \in todo[r] :
       /\ todo' = [todo EXCEPT ![r] = @ \ {j}]
       /\ \/ /\ j \in exists /\ Lockable(j) /\ UNCHANGED crashes
             /\ locked' = locked \cup {j} /\ lockAge' = [lockAge EXCEPT ![j] = 0]
             /\ job' = [job EXCEPT ![r] = j] /\ Enter(r, "send")
          \/ /\ IF j \in exists /\ Lockable(j) THEN StatementFails ELSE UNCHANGED crashes
             /\ UNCHANGED <<locked, lockAge, job, step>>
  /\ UNCHANGED <<exists, dueIn, elapsed, polled>>

Done(r) ==
  /\ step[r] = "next" /\ todo[r] = {}
  /\ Enter(r, "wait")
  /\ UNCHANGED <<rows, todo, job, elapsed, polled, crashes>>

\* The message goes to the bus, waiting there for room.
Fire(r) ==
  /\ step[r] = "send"
  /\ Enter(r, "update")
  /\ UNCHANGED <<rows, todo, job, elapsed, polled, crashes>>

\* UpdateCronJobRun: the next run counts from the poll, the lock goes, whoever
\* holds it; or the statement fails.
Update(r) ==
  /\ step[r] = "update"
  /\ \/ /\ dueIn' = [dueIn EXCEPT ![job[r]] = IF elapsed[r] = 0 THEN 1 ELSE 0]
        /\ locked' = locked \ {job[r]}
     \/ UNCHANGED <<dueIn, locked>>
  /\ Enter(r, "next")
  /\ UNCHANGED <<exists, lockAge, todo, job, elapsed, polled, crashes>>

Crash(r) ==
  /\ step[r] # "wait" /\ crashes < MaxCrashes
  /\ crashes' = crashes + 1
  /\ Enter(r, "wait") /\ todo' = [todo EXCEPT ![r] = {}] /\ polled' = polled \ {r}
  /\ UNCHANGED <<rows, job, elapsed>>

\* The agent's tool delete_cron_job.
Delete(j) ==
  /\ j \in exists
  /\ exists' = exists \ {j} /\ locked' = locked \ {j}
  /\ UNCHANGED <<dueIn, lockAge, replica, crashes>>

\* Statements take no time; waiting for the bus does.
MinutePasses ==
  /\ \A r \in Replicas : step[r] \in {"wait", "send"} /\ (step[r] = "send" => elapsed[r] < MaxWait)
  /\ exists # {}
  /\ polled' = {}
  /\ dueIn' = [j \in Jobs |-> IF dueIn[j] = 0 THEN 0 ELSE dueIn[j] - 1]
  /\ lockAge' = [j \in Jobs |-> IF j \in locked /\ lockAge[j] <= LockTTL THEN lockAge[j] + 1 ELSE lockAge[j]]
  /\ elapsed' = [r \in Replicas |-> IF step[r] = "send" THEN elapsed[r] + 1 ELSE elapsed[r]]
  /\ UNCHANGED <<exists, locked, step, todo, job, crashes>>

Poll(r) == List(r) \/ Lock(r) \/ Done(r) \/ Fire(r) \/ Update(r)

CronNext ==
  \/ \E r \in Replicas : Poll(r) \/ Crash(r)
  \/ \E j \in Jobs : Delete(j)
  \/ MinutePasses

CronSpec == CronInit /\ [][CronNext]_cronVars

-----------------------------------------------------------------------------
\* Properties.

\* Every variable holds a value of its column or local variable.
CronTypeOK ==
  /\ exists \subseteq Jobs /\ locked \subseteq exists
  /\ dueIn \in [Jobs -> 0..1] /\ lockAge \in [Jobs -> 0..(LockTTL + 1)]
  /\ step \in [Replicas -> {"wait", "next", "send", "update"}]
  /\ todo \in [Replicas -> SUBSET Jobs] /\ job \in [Replicas -> Jobs]
  /\ elapsed \in [Replicas -> 0..MaxWait] /\ polled \subseteq Replicas /\ crashes \in 0..MaxCrashes

\* While one replica is firing a job, no other fires it too, also when a
\* replica died holding the lock and another took it over.
LockExclusive ==
  \A r, s \in Replicas : r # s /\ step[r] \in {"send", "update"} /\ step[s] \in {"send", "update"}
                           => job[r] # job[s]

\* A due job is put on the bus, whichever replica died holding its lock.
Fired(j) == \E r \in Replicas : step[r] = "update" /\ job[r] = j
DueFires == \A j \in Jobs : j \in Due ~> Fired(j) \/ j \notin exists
=============================================================================
