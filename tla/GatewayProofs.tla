--------------------------- MODULE GatewayProofs ---------------------------
(***************************************************************************)
(* Theorems about what fastclaw's gateway runs beside its task queue, each *)
(* for every value of the constants: the stored cron jobs, the user spaces,*)
(* the routing of group posts, and the files of the sandboxes.             *)
(***************************************************************************)
EXTENDS CronJobs, UserSpaces, GroupRouting, Sandbox, TLAPS

-----------------------------------------------------------------------------
(* CronJobs.  The lock of a job that a replica is firing is no older than  *)
(* the replica's poll, and a poll never waits as long as a lock lasts.     *)

\* A poll ends before the lock it took may be taken over.
PollsEndInTime == MaxWait <= LockTTL

Fires(r) == step[r] \in {"send", "update"}

JobRanges ==
  /\ exists \subseteq Jobs /\ locked \subseteq Jobs
  /\ lockAge \in [Jobs -> Nat]
  /\ step \in [Replicas -> {"wait", "next", "send", "update"}]
  /\ todo \in [Replicas -> SUBSET Jobs] /\ job \in [Replicas -> Jobs]
  /\ elapsed \in [Replicas -> 0..MaxWait]

HoldsLock(r) == Fires(r) /\ job[r] \in exists => job[r] \in locked /\ lockAge[job[r]] <= elapsed[r]

JobInv == JobRanges /\ LockExclusive /\ \A r \in Replicas : HoldsLock(r)

LEMMA JobInit == CronInit => JobInv
  BY JobsAssumption, TicksAssumption DEF CronInit, JobInv, JobRanges, LockExclusive, HoldsLock, Fires

\* A replica that goes on without a lock changes nothing for the others.
LEMMA LetsGo ==
  ASSUME JobInv, NEW r \in Replicas, NEW next \in {"wait", "next", "update"}, Enter(r, next),
         next = "update" => step[r] = "send",
         exists' = exists, lockAge' = lockAge, job' = job,
         locked' = locked \/ (Fires(r) /\ locked' = locked \ {job[r]} /\ next # "update"),
         todo' \in [Replicas -> SUBSET Jobs], elapsed' \in [Replicas -> 0..MaxWait],
         \A s \in Replicas : s = r \/ elapsed'[s] = elapsed[s],
         next = "update" => elapsed'[r] = elapsed[r]
  PROVE  JobInv'
<1>1. step' = [step EXCEPT ![r] = next] /\ \A s \in Replicas : Fires(s)' => Fires(s) /\ (s = r => next = "update")
  BY DEF Enter, Fires, JobInv, JobRanges
<1>2. JobRanges'
  BY <1>1 DEF JobInv, JobRanges
<1>3. LockExclusive'
  BY <1>1 DEF JobInv, LockExclusive, Fires
<1>4. ASSUME NEW s \in Replicas, Fires(s)', job[s] \in exists
      PROVE  job[s] \in locked' /\ lockAge[job[s]] <= elapsed'[s]
  <2>1. Fires(s) /\ HoldsLock(s) /\ elapsed'[s] = elapsed[s]
    BY <1>1, <1>4 DEF JobInv
  <2>2. job[s] \in locked /\ lockAge[job[s]] <= elapsed'[s]
    BY <1>4, <2>1 DEF HoldsLock
  <2>3. CASE locked' = locked
    BY <2>2, <2>3
  <2>4. CASE Fires(r) /\ locked' = locked \ {job[r]} /\ next # "update"
    <3>1. s # r
      BY <1>1, <1>4, <2>4
    <3>2. job[s] # job[r]
      BY <2>1, <2>4, <3>1 DEF JobInv, LockExclusive, Fires
    <3>. QED BY <2>2, <2>4, <3>2
  <2>. QED BY <2>3, <2>4
<1>5. \A s \in Replicas : HoldsLock(s)'
  BY <1>4 DEF HoldsLock
<1>. QED BY <1>2, <1>3, <1>5 DEF JobInv

LEMMA ListStep == ASSUME JobInv, NEW r \in Replicas, List(r) PROVE JobInv'
<1>1. /\ Enter(r, "next") /\ elapsed' = [elapsed EXCEPT ![r] = 0]
      /\ todo' = [todo EXCEPT ![r] = Due] \/ todo' = todo
      /\ UNCHANGED <<exists, dueIn, locked, lockAge, job>>
  BY DEF List, rows
<1>2. Due \subseteq Jobs
  BY DEF Due, JobInv, JobRanges
<1>3. todo' \in [Replicas -> SUBSET Jobs]
  BY <1>1, <1>2 DEF JobInv, JobRanges
<1>4. elapsed' \in [Replicas -> 0..MaxWait] /\ \A s \in Replicas : s = r \/ elapsed'[s] = elapsed[s]
  BY <1>1, TicksAssumption DEF JobInv, JobRanges
<1>. QED BY <1>1, <1>3, <1>4, LetsGo

\* A lock is taken when no replica is firing the job.
LEMMA LockStep == ASSUME PollsEndInTime, JobInv, NEW r \in Replicas, Lock(r) PROVE JobInv'
<1>1. PICK j \in todo[r] :
        /\ todo' = [todo EXCEPT ![r] = @ \ {j}]
        /\ \/ /\ j \in exists /\ Lockable(j)
              /\ locked' = locked \cup {j} /\ lockAge' = [lockAge EXCEPT ![j] = 0]
              /\ job' = [job EXCEPT ![r] = j] /\ Enter(r, "send")
           \/ UNCHANGED <<locked, lockAge, job, step>>
  BY DEF Lock
<1>2. step[r] = "next" /\ UNCHANGED <<exists, elapsed>> /\ j \in Jobs /\ todo' \in [Replicas -> SUBSET Jobs]
  BY <1>1 DEF Lock, JobInv, JobRanges
<1>3. CASE UNCHANGED <<locked, lockAge, job, step>>
  BY <1>2, <1>3 DEF JobInv, JobRanges, LockExclusive, HoldsLock, Fires
<1>4. CASE /\ j \in exists /\ Lockable(j)
           /\ locked' = locked \cup {j} /\ lockAge' = [lockAge EXCEPT ![j] = 0]
           /\ job' = [job EXCEPT ![r] = j] /\ Enter(r, "send")
  <2>1. step' = [step EXCEPT ![r] = "send"]
    BY <1>4 DEF Enter
  <2>2. JobRanges'
    BY <1>2, <1>4, <2>1 DEF JobInv, JobRanges
  <2>3. ASSUME NEW s \in Replicas, s # r, Fires(s) PROVE job[s] # j
    <3>1. SUFFICES ASSUME job[s] = j PROVE FALSE
      OBVIOUS
    <3>2. j \in locked /\ lockAge[j] <= elapsed[s]
      BY <1>4, <2>3, <3>1 DEF JobInv, HoldsLock
    <3>3. lockAge[j] > LockTTL
      BY <1>4, <3>2 DEF Lockable
    <3>4. lockAge[j] \in Nat /\ elapsed[s] \in 0..MaxWait
      BY <1>2 DEF JobInv, JobRanges
    <3>. QED BY <3>2, <3>3, <3>4, TicksAssumption DEF PollsEndInTime
  <2>4. /\ step'[r] = "send" /\ job'[r] = j
        /\ \A s \in Replicas : s # r => step'[s] = step[s] /\ job'[s] = job[s]
    BY <1>4, <2>1 DEF JobInv, JobRanges
  <2>5. LockExclusive'
    BY <2>3, <2>4 DEF JobInv, LockExclusive, Fires
  <2>6. ASSUME NEW s \in Replicas PROVE HoldsLock(s)'
    <3>1. CASE s = r
      <4>1. lockAge'[j] = 0 /\ elapsed'[r] \in Nat /\ j \in locked'
        BY <1>2, <1>4 DEF JobInv, JobRanges
      <4>. QED BY <2>4, <3>1, <4>1 DEF HoldsLock
    <3>2. CASE s # r
      <4>1. Fires(s) => job[s] # j
        BY <2>3, <3>2
      <4>2. job[s] \in Jobs /\ HoldsLock(s) /\ job'[s] = job[s] /\ step'[s] = step[s]
        BY <2>4, <3>2 DEF JobInv, JobRanges
      <4>3. job[s] # j => lockAge'[job[s]] = lockAge[job[s]]
        BY <1>4, <4>2 DEF JobInv, JobRanges
      <4>. QED BY <1>2, <1>4, <4>1, <4>2, <4>3 DEF HoldsLock, Fires
    <3>. QED BY <3>1, <3>2
  <2>. QED BY <2>2, <2>5, <2>6 DEF JobInv
<1>. QED BY <1>1, <1>3, <1>4

LEMMA PollStep ==
  ASSUME JobInv, NEW r \in Replicas, Done(r) \/ Fire(r) \/ Update(r) \/ Crash(r)
  PROVE  JobInv'
<1>1. /\ JobRanges /\ elapsed' = elapsed /\ exists' = exists /\ lockAge' = lockAge /\ job' = job
      /\ todo' = todo \/ todo' = [todo EXCEPT ![r] = {}]
  BY DEF Done, Fire, Update, Crash, rows, JobInv
<1>2. todo' \in [Replicas -> SUBSET Jobs] /\ elapsed' \in [Replicas -> 0..MaxWait]
  BY <1>1 DEF JobRanges
<1>3. PICK next \in {"wait", "next", "update"} :
        /\ Enter(r, next)
        /\ next = "update" => step[r] = "send"
        /\ locked' = locked \/ (Fires(r) /\ locked' = locked \ {job[r]} /\ next # "update")
  <2>1. CASE Done(r) \/ Crash(r)
    BY <2>1 DEF Done, Crash, rows
  <2>2. CASE Fire(r)
    BY <2>2 DEF Fire, rows
  <2>3. CASE Update(r)
    BY <2>3 DEF Update, Fires
  <2>. QED BY <2>1, <2>2, <2>3
<1>. QED BY <1>1, <1>2, <1>3, LetsGo

LEMMA DeleteStep == ASSUME JobInv, NEW j \in Jobs, Delete(j) PROVE JobInv'
<1>1. /\ exists' = exists \ {j} /\ locked' = locked \ {j}
      /\ UNCHANGED <<lockAge, step, todo, job, elapsed>>
  BY DEF Delete, replica
<1>2. JobRanges' /\ LockExclusive'
  BY <1>1 DEF JobInv, JobRanges, LockExclusive
<1>3. \A r \in Replicas : HoldsLock(r)'
  BY <1>1 DEF JobInv, HoldsLock, Fires
<1>. QED BY <1>2, <1>3 DEF JobInv

\* A lock grows no older than the poll that took it.
LEMMA TickStep == ASSUME JobInv, MinutePasses PROVE JobInv'
<1>1. /\ lockAge' = [j \in Jobs |-> IF j \in locked /\ lockAge[j] <= LockTTL THEN lockAge[j] + 1 ELSE lockAge[j]]
      /\ elapsed' = [r \in Replicas |-> IF step[r] = "send" THEN elapsed[r] + 1 ELSE elapsed[r]]
      /\ \A r \in Replicas : step[r] \in {"wait", "send"} /\ (step[r] = "send" => elapsed[r] < MaxWait)
      /\ UNCHANGED <<exists, locked, step, todo, job>>
  BY DEF MinutePasses
<1>2. ASSUME NEW j \in Jobs PROVE lockAge'[j] \in {lockAge[j], lockAge[j] + 1} /\ lockAge[j] \in Nat
  BY <1>1, <1>2 DEF JobInv, JobRanges
<1>3. ASSUME NEW r \in Replicas
      PROVE  elapsed[r] \in 0..MaxWait /\ elapsed'[r] \in 0..MaxWait /\ (step[r] = "send" => elapsed'[r] = elapsed[r] + 1)
  BY <1>1, <1>3, TicksAssumption DEF JobInv, JobRanges
<1>4. lockAge' \in [Jobs -> Nat] /\ elapsed' \in [Replicas -> 0..MaxWait]
  BY <1>1, <1>2, <1>3
<1>5. JobRanges' /\ LockExclusive'
  BY <1>1, <1>4 DEF JobInv, JobRanges, LockExclusive
<1>6. ASSUME NEW r \in Replicas PROVE HoldsLock(r)'
  <2>1. job[r] \in Jobs /\ HoldsLock(r) /\ (Fires(r) => step[r] = "send")
    BY <1>1 DEF JobInv, JobRanges, Fires
  <2>2. Fires(r) /\ lockAge[job[r]] <= elapsed[r] => lockAge'[job[r]] <= elapsed'[r]
    BY <1>2, <1>3, <2>1
  <2>. QED BY <1>1, <2>1, <2>2 DEF HoldsLock, Fires
<1>. QED BY <1>5, <1>6 DEF JobInv

LEMMA JobNextKeeps == ASSUME PollsEndInTime PROVE JobInv /\ [CronNext]_cronVars => JobInv'
<1>. SUFFICES ASSUME JobInv, [CronNext]_cronVars PROVE JobInv'
  OBVIOUS
<1>1. ASSUME NEW r \in Replicas, Poll(r) \/ Crash(r) PROVE JobInv'
  BY <1>1, ListStep, LockStep, PollStep DEF Poll
<1>2. ASSUME NEW j \in Jobs, Delete(j) PROVE JobInv'
  BY <1>2, DeleteStep
<1>3. CASE UNCHANGED cronVars
  BY <1>3 DEF cronVars, rows, replica, JobInv, JobRanges, LockExclusive, HoldsLock, Fires
<1>. QED BY <1>1, <1>2, <1>3, TickStep DEF CronNext

\* processDueJobs over LockCronJob and UpdateCronJobRun: two replicas never fire
\* one job at the same time, whichever of them died with a lock, as long as a
\* poll waits for the bus no longer than a lock lasts.
THEOREM JobsAreExclusive == ASSUME PollsEndInTime PROVE CronSpec => []LockExclusive
<1>1. JobInv => LockExclusive
  BY DEF JobInv
<1>. QED BY <1>1, JobInit, JobNextKeeps, PTL DEF CronSpec

-----------------------------------------------------------------------------
\* Statements keep the columns and the variables of a poll within their types.
LEMMA CronTypeStep == CronTypeOK /\ [CronNext]_cronVars => CronTypeOK'
<1>. SUFFICES ASSUME CronTypeOK, [CronNext]_cronVars PROVE CronTypeOK'
  OBVIOUS
<1>. USE TicksAssumption DEF CronTypeOK, Enter, rows, replica
<1>1. ASSUME NEW r \in Replicas, Lock(r) PROVE CronTypeOK'
  BY <1>1 DEF Lock, StatementFails
<1>2. ASSUME NEW r \in Replicas, List(r) PROVE CronTypeOK'
  BY <1>2 DEF List, Due, StatementFails
<1>3. ASSUME NEW r \in Replicas, Done(r) \/ Fire(r) \/ Update(r) PROVE CronTypeOK'
  BY <1>3 DEF Done, Fire, Update
<1>4. ASSUME NEW r \in Replicas, Crash(r) PROVE CronTypeOK'
  BY <1>4 DEF Crash
<1>5. ASSUME NEW j \in Jobs, Delete(j) PROVE CronTypeOK'
  BY <1>5 DEF Delete
<1>6. CASE MinutePasses
  BY <1>6 DEF MinutePasses
<1>7. CASE UNCHANGED cronVars
  BY <1>7 DEF cronVars
<1>. QED BY <1>1, <1>2, <1>3, <1>4, <1>5, <1>6, <1>7 DEF CronNext, Poll

(* The rows of cron_jobs and the variables of a poll keep their types; the *)
(* lock of a deleted row goes with it.                                     *)
THEOREM JobsTypeOK == CronSpec => []CronTypeOK
<1>1. CronInit => CronTypeOK
  BY JobsAssumption, TicksAssumption DEF CronInit, CronTypeOK
<1>. QED BY <1>1, CronTypeStep, PTL DEF CronSpec

-----------------------------------------------------------------------------
(* UserSpaces.  A request never gets a space that was there before the     *)
(* last invalidation it can know of.  The write lock makes it so:          *)
(* while a space is loaded, no handler invalidates it, so what is stored   *)
(* has seen all that is published.                                         *)

\* What the proof needs of the types: counts of changes, without their bound.
Counts ==
  /\ setting \in [Users -> Nat] /\ published \in [Users -> Nat]
  /\ spaces \in [Users -> Nat \cup {Absent}]
  /\ got \in [Requests -> Nat \cup {Absent}] /\ before \in [Requests -> Nat]
  /\ stage \in [Requests -> {"idle", "get", "lock", "read", "store", "got"}]
  /\ user \in [Requests -> Users \cup {Absent}]
  /\ \A r \in Requests : stage[r] # "idle" => user[r] \in Users

\* One request loads, the holder of the write lock.
OneLoads == \A r \in Requests : stage[r] \in {"read", "store"} => writer = r

\* No handler answers before it has committed; no cached space lags behind one.
CacheIsCurrent ==
  \A u \in Users : /\ published[u] <= setting[u]
                   /\ spaces[u] # Absent => spaces[u] >= published[u]

\* What a request holds, or is about to store, step by step.
HoldsFresh(r) ==
  /\ stage[r] \in {"idle", "get", "lock", "read"} => got[r] = Absent
  /\ stage[r] # "idle" => before[r] <= published[user[r]]
  /\ stage[r] = "store" => got[r] # Absent /\ got[r] >= published[user[r]]
  /\ got[r] # Absent => got[r] >= before[r]

SpaceInv == Counts /\ OneLoads /\ CacheIsCurrent /\ \A r \in Requests : HoldsFresh(r)

-----------------------------------------------------------------------------
LEMMA SpaceInvInit == SpaceInit => SpaceInv
  BY DEF SpaceInit, SpaceInv, Counts, OneLoads, CacheIsCurrent, HoldsFresh

\* Every handler's change is a commit with some readers and some named spaces.
LEMMA ChangesCommit ==
  ASSUME SpaceNext
  PROVE  \/ \E readers, named \in SUBSET Users : Commit(readers, named)
         \/ ListSpaces
         \/ \E u \in Users : Invalidate(u) \/ EvictIdle(u)
         \/ \E r \in Requests : \/ \E u \in Users : Begin(r, u)
                               \/ Get(r) \/ LookAgain(r) \/ ReadSettings(r) \/ Store(r) \/ Respond(r)
<1>1. CASE ChangeSystem
  BY <1>1 DEF ChangeSystem
<1>2. ASSUME NEW u \in Users, SaveTools(u) PROVE \E readers, named \in SUBSET Users : Commit(readers, named)
  <2>1. {u} \in SUBSET Users /\ Users \in SUBSET Users
    OBVIOUS
  <2>. QED BY <1>2, <2>1 DEF SaveTools
<1>3. ASSUME NEW u \in Users, UpdatePlugin(u) PROVE \E readers, named \in SUBSET Users : Commit(readers, named)
  <2>1. {u} \in SUBSET Users /\ {} \in SUBSET Users /\ Users \in SUBSET Users
    OBVIOUS
  <2>. QED BY <1>3, <2>1 DEF UpdatePlugin
<1>4. ASSUME NEW u \in Users, NEW of \in SUBSET Users, ChangeScope(u, of)
      PROVE  \E readers, named \in SUBSET Users : Commit(readers, named)
  <2>1. {u} \in SUBSET Users /\ {} \in SUBSET Users
    OBVIOUS
  <2>. QED BY <1>4, <2>1 DEF ChangeScope
<1>. QED BY <1>1, <1>2, <1>3, <1>4 DEF SpaceNext

\* The handlers: commit, list the spaces, invalidate; and the idle sweep.
LEMMA HandlerKeeps ==
  ASSUME SpaceInv,
         \/ \E readers, named \in SUBSET Users : Commit(readers, named)
         \/ ListSpaces
         \/ \E u \in Users : Invalidate(u) \/ EvictIdle(u)
  PROVE  SpaceInv'
<1>. USE AbsentAssumption DEF SpaceInv, Counts, OneLoads, request
<1>1. ASSUME NEW readers \in SUBSET Users, NEW named \in SUBSET Users, Commit(readers, named) PROVE SpaceInv'
  BY <1>1 DEF Commit, CacheIsCurrent, HoldsFresh
<1>2. CASE ListSpaces
  <2>1. \A r \in Requests : stage[r] \notin {"read", "store"}
    BY <1>2 DEF ListSpaces, Unlocked
  <2>2. Counts' /\ OneLoads' /\ CacheIsCurrent'
    BY <1>2 DEF ListSpaces, CacheIsCurrent
  <2>3. \A u \in Users : published[u] <= published'[u]
    BY <1>2 DEF ListSpaces, CacheIsCurrent
  <2>4. \A r \in Requests : HoldsFresh(r)'
    BY <1>2, <2>1, <2>3 DEF ListSpaces, HoldsFresh
  <2>. QED BY <2>2, <2>4
<1>3. ASSUME NEW u \in Users, Invalidate(u) PROVE SpaceInv'
  <2>1. \A r \in Requests : stage[r] \notin {"read", "store"}
    BY <1>3 DEF Invalidate, Unlocked
  <2>2. Counts' /\ OneLoads' /\ CacheIsCurrent'
    BY <1>3 DEF Invalidate, CacheIsCurrent
  <2>3. \A v \in Users : published[v] <= published'[v]
    BY <1>3 DEF Invalidate, CacheIsCurrent
  <2>4. \A r \in Requests : HoldsFresh(r)'
    BY <1>3, <2>1, <2>3 DEF Invalidate, HoldsFresh
  <2>. QED BY <2>2, <2>4
<1>4. ASSUME NEW u \in Users, EvictIdle(u) PROVE SpaceInv'
  BY <1>4 DEF EvictIdle, handler, CacheIsCurrent, HoldsFresh
<1>. QED BY <1>1, <1>2, <1>3, <1>4

\* A request takes what is cached, or loads and stores it under the lock.
LEMMA RequestKeeps ==
  ASSUME SpaceInv, NEW r \in Requests,
         \/ \E u \in Users : Begin(r, u)
         \/ Get(r) \/ LookAgain(r) \/ ReadSettings(r) \/ Store(r) \/ Respond(r)
  PROVE  SpaceInv'
<1>. USE AbsentAssumption DEF SpaceInv, Counts, OneLoads, CacheIsCurrent, HoldsFresh, handler, Proceed, Give, Unlocked
<1>1. CASE \E u \in Users : Begin(r, u)
  BY <1>1 DEF Begin
<1>2. CASE Get(r)
  BY <1>2 DEF Get
<1>3. CASE LookAgain(r)
  BY <1>3 DEF LookAgain
<1>4. CASE ReadSettings(r)
  BY <1>4 DEF ReadSettings
<1>5. CASE Store(r)
  BY <1>5 DEF Store
<1>6. CASE Respond(r)
  BY <1>6 DEF Respond
<1>. QED BY <1>1, <1>2, <1>3, <1>4, <1>5, <1>6

\* The invariant is inductive.
LEMMA SpaceNextKeeps == SpaceInv /\ [SpaceNext]_spaceVars => SpaceInv'
<1>. SUFFICES ASSUME SpaceInv, [SpaceNext]_spaceVars PROVE SpaceInv'
  OBVIOUS
<1>1. CASE UNCHANGED spaceVars
  BY <1>1 DEF spaceVars, handler, request, SpaceInv, Counts, OneLoads, CacheIsCurrent, HoldsFresh
<1>2. CASE SpaceNext
  BY <1>2, ChangesCommit, HandlerKeeps, RequestKeeps
<1>. QED BY <1>1, <1>2

(* What was committed when a space was invalidated is seen by every        *)
(* request that begins later on the replica, whichever spaces the handlers *)
(* name and however loads and invalidations interleave: SpaceIsFresh, for  *)
(* any number of users, requests and changes.                              *)
THEOREM SpacesAreFresh == SpaceSpec => []SpaceIsFresh
<1>1. SpaceInv => SpaceIsFresh
  BY DEF SpaceInv, HoldsFresh, SpaceIsFresh
<1>. QED BY SpaceInvInit, SpaceNextKeeps, <1>1, PTL DEF SpaceSpec

\* The write lock is released by whoever took it: no load leaves it behind.
THEOREM SpacesLoaderHoldsLock == SpaceSpec => []LoaderHoldsLock
<1>1. SpaceInit => LoaderHoldsLock
  BY DEF SpaceInit, LoaderHoldsLock
<1>2. SpaceInv /\ LoaderHoldsLock /\ [SpaceNext]_spaceVars => LoaderHoldsLock'
  <2>. SUFFICES ASSUME SpaceInv, LoaderHoldsLock, [SpaceNext]_spaceVars PROVE LoaderHoldsLock'
    OBVIOUS
  <2>. USE AbsentAssumption DEF SpaceInv, Counts, LoaderHoldsLock, handler, request, Proceed, Give
  <2>1. CASE UNCHANGED spaceVars
    BY <2>1 DEF spaceVars
  <2>2. CASE \/ \E readers, named \in SUBSET Users : Commit(readers, named)
             \/ ListSpaces
             \/ \E u \in Users : Invalidate(u) \/ EvictIdle(u)
    BY <2>2 DEF Commit, ListSpaces, Invalidate, EvictIdle
  <2>3. ASSUME NEW r \in Requests, (\E u \in Users : Begin(r, u)) \/ Get(r) \/ Respond(r)
        PROVE  LoaderHoldsLock'
    BY <2>3 DEF Begin, Get, Respond
  <2>4. ASSUME NEW r \in Requests, LookAgain(r) PROVE LoaderHoldsLock'
    BY <2>4 DEF LookAgain, Unlocked
  <2>5. ASSUME NEW r \in Requests, ReadSettings(r) \/ Store(r) PROVE LoaderHoldsLock'
    BY <2>5 DEF ReadSettings, Store
  <2>. QED BY <2>1, <2>2, <2>3, <2>4, <2>5, ChangesCommit
<1>. QED BY <1>1, <1>2, SpaceInvInit, SpaceNextKeeps, PTL DEF SpaceSpec

\* The bound on changes bounds each user's: Changes is the largest count.
LEMMA ChangesBounds ==
  ASSUME SpaceTypeOK, Changes < MaxChanges, NEW u \in Users
  PROVE  setting[u] + 1 \in 0..MaxChanges
<1>. DEFINE Largest(n) == \A v \in Users : setting[v] <= n /\ \E w \in Users : setting[w] = n
<1>1. setting[u] \in 0..MaxChanges /\ \A v \in Users : setting[v] <= MaxChanges
  BY ChangesAssumption DEF SpaceTypeOK
<1>2. ASSUME setting[u] = MaxChanges PROVE FALSE
  <2>1. MaxChanges \in 0..MaxChanges /\ Largest(MaxChanges)
    BY <1>1, <1>2, ChangesAssumption
  <2>2. Changes \in 0..MaxChanges /\ Largest(Changes)
    <3>. HIDE DEF Largest
    <3>1. Changes = CHOOSE n \in 0..MaxChanges : Largest(n)
      BY DEF Changes, Largest
    <3>. QED BY <2>1, <3>1
  <2>. QED BY <1>2, <2>2, ChangesAssumption
<1>. QED BY <1>1, <1>2, ChangesAssumption

\* Counts of changes, the cached ones included, stay within what was committed.
THEOREM SpacesTyped == SpaceSpec => []SpaceTypeOK
<1>1. SpaceInit => SpaceTypeOK
  BY ChangesAssumption DEF SpaceInit, SpaceTypeOK
<1>2. SpaceInv /\ SpaceTypeOK /\ [SpaceNext]_spaceVars => SpaceTypeOK'
  <2>. SUFFICES ASSUME SpaceInv, SpaceTypeOK, [SpaceNext]_spaceVars PROVE SpaceTypeOK'
    OBVIOUS
  <2>. USE DEF SpaceTypeOK, handler, request, Proceed, Give
  <2>1. CASE UNCHANGED spaceVars
    BY <2>1 DEF spaceVars
  <2>2. ASSUME NEW readers \in SUBSET Users, NEW named \in SUBSET Users, Commit(readers, named) PROVE SpaceTypeOK'
    BY <2>2, ChangesBounds DEF Commit
  <2>3. CASE ListSpaces \/ \E u \in Users : Invalidate(u) \/ EvictIdle(u)
    BY <2>3 DEF ListSpaces, Invalidate, EvictIdle
  <2>4. ASSUME NEW r \in Requests, (\E u \in Users : Begin(r, u)) \/ Get(r) \/ LookAgain(r) \/ Store(r) \/ Respond(r)
        PROVE  SpaceTypeOK'
    <3>1. stage[r] # "idle" => user[r] \in Users
      BY DEF SpaceInv, Counts
    <3>. QED BY <2>4, <3>1, ChangesAssumption DEF Begin, Get, LookAgain, Store, Respond
  <2>5. ASSUME NEW r \in Requests, ReadSettings(r) PROVE SpaceTypeOK'
    <3>1. stage[r] # "idle" => user[r] \in Users
      BY DEF SpaceInv, Counts
    <3>. QED BY <2>5, <3>1 DEF ReadSettings
  <2>. QED BY <2>1, <2>2, <2>3, <2>4, <2>5, ChangesCommit
<1>. QED BY <1>1, <1>2, SpaceInvInit, SpaceNextKeeps, PTL DEF SpaceSpec

-----------------------------------------------------------------------------
(* GroupRouting.  The entry a post leaves in the map is no older than the  *)
(* post, and no copy comes later than Spread ticks after it: while copies  *)
(* can come, the entry is there.                                           *)

\* A post's last copy comes before its entry may be dropped.
CopiesComeInTime == Spread <= TTL

PostIds == 1..MaxPosts
Routed(p) == \E a \in Agents : heard[p][a] > 0 \/ asked[p][a] > 0

GroupTypes ==
  /\ posts \in Seq(Post) /\ Len(posts) <= MaxPosts
  /\ delivered \subseteq Made \X Accounts
  /\ inbound \in Seq(PostIds \X Accounts)
  /\ \A i \in 1..Len(inbound) : inbound[i] \in delivered
  /\ seen \in [DOMAIN seen -> Nat]
  /\ heard \in [PostIds -> [Agents -> Nat]] /\ asked \in [PostIds -> [Agents -> Nat]]

\* No copy on the bus is late.
CopiesAreFresh == \A i \in 1..Len(inbound) : posts[inbound[i][1]].age <= Spread

\* What was routed, and may still come again, is in the map.
RoutedIsSeen ==
  \A p \in PostIds : Routed(p) =>
    /\ p \in Made
    /\ posts[p].age <= Spread => posts[p].text \in DOMAIN seen /\ seen[posts[p].text] <= posts[p].age

GroupInv == GroupTypes /\ CopiesAreFresh /\ RoutedIsSeen /\ HeardOnce

LEMMA GroupInvInit == GroupInit => GroupInv
  BY GroupAssumption DEF GroupInit, GroupInv, GroupTypes, CopiesAreFresh, RoutedIsSeen, Routed,
     HeardOnce, Made, PostIds

\* The posts that were made are numbered from one, within the bound.
LEMMA MadePosts ==
  ASSUME GroupInv
  PROVE  /\ Made = 1..Len(posts) /\ Len(posts) \in Nat /\ Made \subseteq PostIds
         /\ \A p \in Made : posts[p] \in Post /\ posts[p].age \in Nat
<1>1. posts \in Seq(Post) /\ Len(posts) <= MaxPosts
  BY DEF GroupInv, GroupTypes
<1>2. Made = 1..Len(posts) /\ Len(posts) \in Nat
  BY <1>1 DEF Made
<1>3. Made \subseteq PostIds
  BY <1>1, <1>2, GroupAssumption DEF PostIds
<1>4. \A p \in Made : posts[p] \in Post
  BY <1>1, <1>2
<1>5. \A p \in Made : posts[p].age \in Nat
  BY <1>4 DEF Post
<1>. QED BY <1>2, <1>3, <1>4, <1>5

\* Nobody has heard of, or was asked about, a post that was not routed.
LEMMA Unrouted ==
  ASSUME GroupInv, NEW p \in PostIds, ~Routed(p)
  PROVE  \A a \in Agents : heard[p][a] = 0 /\ asked[p][a] = 0
<1>1. heard[p] \in [Agents -> Nat] /\ asked[p] \in [Agents -> Nat]
  BY DEF GroupInv, GroupTypes
<1>2. \A a \in Agents : heard[p][a] \in Nat /\ asked[p][a] \in Nat
  BY <1>1
<1>. QED BY <1>2 DEF Routed

\* The head of the bus is a delivered copy of a post that was made.
LEMMA HeadOfBus ==
  ASSUME GroupInv, inbound # <<>>
  PROVE  /\ Head(inbound) \in delivered /\ Head(inbound) = inbound[1]
         /\ Head(inbound)[1] \in Made /\ Head(inbound)[2] \in Accounts
         /\ posts[Head(inbound)[1]].age <= Spread
         /\ Made = 1..Len(posts) /\ Made \subseteq PostIds
         /\ Tail(inbound) \in Seq(PostIds \X Accounts)
         /\ \A i \in 1..Len(Tail(inbound)) : i + 1 \in 1..Len(inbound) /\ Tail(inbound)[i] = inbound[i + 1]
<1>1. Len(inbound) \in Nat /\ Len(inbound) > 0 /\ Head(inbound) = inbound[1]
  BY DEF GroupInv, GroupTypes
<1>2. Made = 1..Len(posts) /\ Made \subseteq PostIds
  BY MadePosts
<1>3. Head(inbound) \in delivered /\ Head(inbound)[1] \in Made /\ Head(inbound)[2] \in Accounts
  <2>1. delivered \subseteq Made \X Accounts
    BY DEF GroupInv, GroupTypes
  <2>2. \A i \in 1..Len(inbound) : inbound[i] \in delivered
    BY DEF GroupInv, GroupTypes
  <2>3. inbound[1] \in delivered
    BY <1>1, <2>2
  <2>. QED BY <1>1, <2>1, <2>3
<1>5. Tail(inbound) \in Seq(PostIds \X Accounts)
  BY DEF GroupInv, GroupTypes
<1>6. posts[Head(inbound)[1]].age <= Spread
  BY <1>1 DEF GroupInv, CopiesAreFresh
<1>4. \A i \in 1..Len(Tail(inbound)) : i + 1 \in 1..Len(inbound) /\ Tail(inbound)[i] = inbound[i + 1]
  BY <1>1 DEF GroupInv, GroupTypes
<1>. QED BY <1>1, <1>2, <1>3, <1>4, <1>5, <1>6

LEMMA WriteStep ==
  ASSUME GroupInv, NEW text \in Texts, NEW mention \in Accounts \cup {Nobody}, NEW bot \in BOOLEAN,
         Write(text, mention, bot)
  PROVE  GroupInv'
<1>1. /\ Len(posts) < MaxPosts
      /\ posts' = Append(posts, [text |-> text, mention |-> mention, bot |-> bot, age |-> 0])
      /\ UNCHANGED <<delivered, inbound, seen, heard, asked>>
  BY DEF Write
<1>2. /\ posts' \in Seq(Post) /\ Len(posts') = Len(posts) + 1 /\ Len(posts) \in Nat
      /\ Made = 1..Len(posts) /\ Made' = 1..(Len(posts) + 1)
      /\ \A p \in Made : posts'[p] = posts[p]
  BY <1>1 DEF GroupInv, GroupTypes, Made, Post
<1>3. GroupTypes'
  BY <1>1, <1>2, GroupAssumption DEF GroupInv, GroupTypes
<1>4. CopiesAreFresh'
  <2>1. \A i \in 1..Len(inbound) : inbound[i][1] \in Made
    BY DEF GroupInv, GroupTypes
  <2>. QED BY <1>1, <1>2, <2>1 DEF GroupInv, CopiesAreFresh
<1>5. RoutedIsSeen'
  BY <1>1, <1>2 DEF GroupInv, RoutedIsSeen, Routed
<1>6. HeardOnce'
  <2>1. \A a \in Agents : heard[Len(posts) + 1][a] = 0 /\ asked[Len(posts) + 1][a] = 0
    <3>1. Len(posts) + 1 \in PostIds /\ Len(posts) + 1 \notin Made
      BY <1>1, <1>2, GroupAssumption DEF PostIds
    <3>. QED BY <3>1, Unrouted DEF GroupInv, RoutedIsSeen
  <2>. QED BY <1>1, <1>2, <2>1 DEF GroupInv, HeardOnce
<1>. QED BY <1>3, <1>4, <1>5, <1>6 DEF GroupInv

LEMMA DeliverStep ==
  ASSUME GroupInv, NEW p \in Made, NEW account \in Accounts, Deliver(p, account)
  PROVE  GroupInv'
<1>1. /\ posts[p].age <= Spread
      /\ delivered' = delivered \cup {<<p, account>>} /\ inbound' = Append(inbound, <<p, account>>)
      /\ UNCHANGED <<posts, seen, heard, asked>>
  BY DEF Deliver
<1>2. Made = 1..Len(posts) /\ Made \subseteq PostIds /\ Made' = Made
  BY <1>1, GroupAssumption DEF GroupInv, GroupTypes, Made, PostIds
<1>3. /\ inbound' \in Seq(PostIds \X Accounts)
      /\ \A i \in 1..Len(inbound') :
           inbound'[i] = <<p, account>> \/ (i \in 1..Len(inbound) /\ inbound'[i] = inbound[i])
  BY <1>1, <1>2 DEF GroupInv, GroupTypes
<1>4. GroupTypes'
  BY <1>1, <1>2, <1>3 DEF GroupInv, GroupTypes
<1>5. CopiesAreFresh'
  BY <1>1, <1>3 DEF GroupInv, CopiesAreFresh
<1>6. RoutedIsSeen' /\ HeardOnce'
  BY <1>1, <1>2 DEF GroupInv, RoutedIsSeen, Routed, HeardOnce
<1>. QED BY <1>4, <1>5, <1>6 DEF GroupInv

\* A copy that is dropped, for want of an owner or as a duplicate.
LEMMA DropStep == ASSUME GroupInv, Unowned \/ Ignore PROVE GroupInv'
<1>1. inbound # <<>> /\ inbound' = Tail(inbound) /\ UNCHANGED <<posts, delivered, seen, heard, asked>>
  BY DEF Unowned, Ignore
<1>2. GroupTypes' /\ CopiesAreFresh'
  BY <1>1, HeadOfBus DEF GroupInv, GroupTypes, CopiesAreFresh, Made
<1>3. RoutedIsSeen' /\ HeardOnce'
  BY <1>1 DEF GroupInv, RoutedIsSeen, Routed, HeardOnce, Made
<1>. QED BY <1>2, <1>3 DEF GroupInv

\* Marking what was not marked.
LEMMA MarksOfRoute ==
  ASSUME NEW S, NEW T, NEW h, NEW k, NEW h2, NEW k2,
         \A a \in Agents : h[a] = 0 /\ k[a] = 0,
         h2 = [a \in Agents |-> h[a] + IF a \in S THEN 1 ELSE 0],
         k2 = [a \in Agents |-> k[a] + IF a = T THEN 1 ELSE 0]
  PROVE  \A a \in Agents : /\ h2[a] = IF a \in S THEN 1 ELSE 0
                           /\ k2[a] = IF a = T THEN 1 ELSE 0
  OBVIOUS

\* A post shown to S or given to T, and no post of a bot to both, is heard once.
LEMMA OnceMarked ==
  ASSUME NEW S, NEW T, NEW h, NEW k, NEW bot \in BOOLEAN, ~bot => T \notin S,
         \A a \in Agents : /\ h[a] = IF a \in S THEN 1 ELSE 0
                           /\ k[a] = IF a = T THEN 1 ELSE 0
  PROVE  /\ \A a \in Agents : h[a] + (IF bot THEN 0 ELSE k[a]) <= 1
         /\ \A a, b \in Agents : k[a] > 0 /\ k[b] > 0 => a = b
         /\ \A a \in Agents : k[a] <= 1
<1>1. \A a \in Agents : k[a] \in {0, 1} /\ h[a] \in {0, 1}
  OBVIOUS
<1>2. \A a \in Agents : k[a] > 0 => a = T
  OBVIOUS
<1>3. \A a \in Agents : h[a] > 0 => a \in S
  OBVIOUS
<1>4. ASSUME NEW a \in Agents PROVE h[a] + (IF bot THEN 0 ELSE k[a]) <= 1
  <2>1. CASE bot
    BY <1>1, <2>1
  <2>2. CASE ~bot
    BY <1>1, <1>2, <1>3, <2>2
  <2>. QED BY <2>1, <2>2
<1>. QED BY <1>1, <1>2, <1>4

\* A copy that is routed is the first: an earlier one would be in the map.
LEMMA AcceptStep == ASSUME GroupInv, Accept PROVE GroupInv'
<1>. DEFINE p == Head(inbound)[1]
            account == Head(inbound)[2]
<1>1. /\ inbound # <<>> /\ inbound' = Tail(inbound) /\ UNCHANGED <<posts, delivered>>
      /\ posts[p].text \notin DOMAIN seen
      /\ seen' = [t \in DOMAIN seen \cup {posts[p].text} |-> IF t = posts[p].text THEN 0 ELSE seen[t]]
      /\ RouteGroup(p, account) \/ UNCHANGED <<heard, asked>>
  BY DEF Accept, IsDuplicate
<1>2. /\ p \in Made /\ p \in PostIds /\ posts[p].age <= Spread /\ Made = 1..Len(posts) /\ Made' = Made
      /\ \A q \in Made : posts[q].age \in Nat
  BY <1>1, HeadOfBus, MadePosts DEF Made
<1>3. \A a \in Agents : heard[p][a] = 0 /\ asked[p][a] = 0
  BY <1>1, <1>2, Unrouted DEF GroupInv, RoutedIsSeen
<1>4. seen' \in [DOMAIN seen' -> Nat]
  BY <1>1 DEF GroupInv, GroupTypes
<1>5. CopiesAreFresh'
  BY <1>1, HeadOfBus DEF GroupInv, CopiesAreFresh
<1>6. /\ inbound' \in Seq(PostIds \X Accounts) /\ \A i \in 1..Len(inbound') : inbound'[i] \in delivered'
  BY <1>1, HeadOfBus DEF GroupInv, GroupTypes
<1>7. CASE RouteGroup(p, account)
  <2>. DEFINE S == Shown(p, account)
              T == Target(p, account)
  <2>0. /\ heard' = [heard EXCEPT ![p] = [a \in Agents |-> heard[p][a] + IF a \in S THEN 1 ELSE 0]]
        /\ asked' = [asked EXCEPT ![p] = [a \in Agents |-> asked[p][a] + IF a = T THEN 1 ELSE 0]]
        /\ ~posts[p].bot => T \notin S
    BY <1>7 DEF RouteGroup, Shown
  <2>. HIDE DEF S, T
  <2>1. \A a \in Agents : /\ heard'[p][a] = IF a \in S THEN 1 ELSE 0
                          /\ asked'[p][a] = IF a = T THEN 1 ELSE 0
    <3>1. /\ heard'[p] = [a \in Agents |-> heard[p][a] + IF a \in S THEN 1 ELSE 0]
          /\ asked'[p] = [a \in Agents |-> asked[p][a] + IF a = T THEN 1 ELSE 0]
      BY <1>2, <2>0 DEF GroupInv, GroupTypes
    <3>. QED BY <1>3, <3>1, MarksOfRoute
  <2>2. \A q \in PostIds \ {p} : heard'[q] = heard[q] /\ asked'[q] = asked[q]
    BY <2>0 DEF GroupInv, GroupTypes
  <2>3. heard' \in [PostIds -> [Agents -> Nat]] /\ asked' \in [PostIds -> [Agents -> Nat]]
    <3>1. /\ [a \in Agents |-> heard[p][a] + IF a \in S THEN 1 ELSE 0] \in [Agents -> Nat]
          /\ [a \in Agents |-> asked[p][a] + IF a = T THEN 1 ELSE 0] \in [Agents -> Nat]
      BY <1>2 DEF GroupInv, GroupTypes
    <3>. QED BY <1>2, <2>0, <3>1 DEF GroupInv, GroupTypes
  <2>5. GroupTypes'
    BY <1>1, <1>2, <1>4, <1>6, <2>3 DEF GroupInv, GroupTypes
  <2>6. RoutedIsSeen'
    <3>1. ASSUME NEW q \in PostIds, Routed(q)' PROVE q = p \/ Routed(q)
      BY <2>2, <3>1 DEF Routed
    <3>. QED BY <1>1, <1>2, <3>1 DEF GroupInv, RoutedIsSeen
  <2>7. HeardOnce'
    <3>2. /\ \A a \in Agents : heard'[p][a] + (IF posts[p].bot THEN 0 ELSE asked'[p][a]) <= 1
          /\ \A a, b \in Agents : asked'[p][a] > 0 /\ asked'[p][b] > 0 => a = b
          /\ \A a \in Agents : asked'[p][a] <= 1
      <4>1. posts[p].bot \in BOOLEAN
        BY <1>2, MadePosts DEF Post
      <4>. QED BY <2>0, <2>1, <4>1, OnceMarked
    <3>3. Made \subseteq PostIds
      BY <1>1, HeadOfBus
    <3>4. \A q \in Made \ {p} : heard'[q] = heard[q] /\ asked'[q] = asked[q]
      BY <2>2, <3>3
    <3>. QED BY <1>1, <1>2, <3>2, <3>4 DEF GroupInv, HeardOnce
  <2>. QED BY <1>5, <2>5, <2>6, <2>7 DEF GroupInv
<1>8. CASE UNCHANGED <<heard, asked>>
  <2>1. GroupTypes'
    BY <1>1, <1>2, <1>4, <1>6, <1>8 DEF GroupInv, GroupTypes
  <2>2. RoutedIsSeen'
    BY <1>1, <1>2, <1>8 DEF GroupInv, RoutedIsSeen, Routed
  <2>3. HeardOnce'
    BY <1>1, <1>2, <1>8 DEF GroupInv, HeardOnce
  <2>. QED BY <1>5, <2>1, <2>2, <2>3 DEF GroupInv
<1>. QED BY <1>1, <1>7, <1>8

LEMMA CleanupStep == ASSUME CopiesComeInTime, GroupInv, CleanupDedup PROVE GroupInv'
<1>1. /\ seen' = [t \in {u \in DOMAIN seen : ~(seen[u] > TTL)} |-> seen[t]]
      /\ UNCHANGED <<posts, delivered, inbound, heard, asked>>
  BY DEF CleanupDedup, Expired, traffic
<1>2. GroupTypes' /\ CopiesAreFresh' /\ HeardOnce'
  BY <1>1 DEF GroupInv, GroupTypes, CopiesAreFresh, HeardOnce, Made
<1>3. RoutedIsSeen'
  <2>1. \A p \in Made : posts[p].age \in Nat
    BY MadePosts
  <2>2. \A t \in DOMAIN seen : seen[t] \in Nat
    BY DEF GroupInv, GroupTypes
  <2>. QED BY <1>1, <2>1, <2>2, GroupAssumption
           DEF GroupInv, RoutedIsSeen, Routed, Made, CopiesComeInTime
<1>. QED BY <1>2, <1>3 DEF GroupInv

\* Posts and entries age together.
LEMMA AgeStep == ASSUME CopiesComeInTime, GroupInv, Tick PROVE GroupInv'
<1>1. /\ inbound = <<>>
      /\ posts' = [p \in Made |-> [posts[p] EXCEPT !.age = IF posts[p].age > Spread THEN posts[p].age ELSE posts[p].age + 1]]
      /\ seen' = [t \in DOMAIN seen |-> IF seen[t] > TTL THEN seen[t] ELSE seen[t] + 1]
      /\ UNCHANGED <<delivered, inbound, heard, asked>>
  BY DEF Tick
<1>2. /\ Made = 1..Len(posts) /\ Len(posts) \in Nat
      /\ \A p \in Made : posts[p] \in Post /\ posts[p].age \in Nat
  BY MadePosts
<1>3. \A p \in Made : /\ posts'[p] \in Post /\ posts'[p].text = posts[p].text /\ posts'[p].bot = posts[p].bot
                      /\ posts'[p].age = IF posts[p].age > Spread THEN posts[p].age ELSE posts[p].age + 1
  BY <1>1, <1>2 DEF Post
<1>4. posts' \in [1..Len(posts) -> Post]
  BY <1>1, <1>2, <1>3
<1>5. posts' \in Seq(Post) /\ Len(posts') = Len(posts) /\ Made' = Made
  BY <1>2, <1>4 DEF Made
<1>6. GroupTypes'
  <2>1. \A t \in DOMAIN seen : seen[t] \in Nat
    BY DEF GroupInv, GroupTypes
  <2>2. seen' \in [DOMAIN seen' -> Nat]
    BY <1>1, <2>1
  <2>. QED BY <1>1, <1>5, <2>2 DEF GroupInv, GroupTypes
<1>7. CopiesAreFresh'
  BY <1>1 DEF CopiesAreFresh
<1>8. RoutedIsSeen'
  BY <1>1, <1>2, <1>3, <1>5, GroupAssumption
     DEF GroupInv, GroupTypes, RoutedIsSeen, Routed, CopiesComeInTime
<1>9. HeardOnce'
  BY <1>1, <1>3, <1>5 DEF GroupInv, HeardOnce
<1>. QED BY <1>6, <1>7, <1>8, <1>9 DEF GroupInv

LEMMA GroupNextKeeps == ASSUME CopiesComeInTime PROVE GroupInv /\ [GroupNext]_groupVars => GroupInv'
<1>. SUFFICES ASSUME GroupInv, [GroupNext]_groupVars PROVE GroupInv'
  OBVIOUS
<1>1. CASE UNCHANGED groupVars
  BY <1>1 DEF groupVars, traffic, GroupInv, GroupTypes, CopiesAreFresh, RoutedIsSeen, Routed, HeardOnce, Made
<1>2. CASE GroupNext
  BY <1>2, WriteStep, DeliverStep, DropStep, AcceptStep, CleanupStep, AgeStep DEF GroupNext
<1>. QED BY <1>1, <1>2

(* isDuplicate and routeGroup: of all copies of a post that come within    *)
(* the lifetime of its entry, one is routed, so that an agent is shown the *)
(* post once and one agent at most answers it.                             *)
THEOREM PostsAreHeardOnce == ASSUME CopiesComeInTime PROVE GroupSpec => []HeardOnce
<1>1. GroupInv => HeardOnce
  BY DEF GroupInv
<1>. QED BY <1>1, GroupInvInit, GroupNextKeeps, PTL DEF GroupSpec

\* The types hold whether or not copies come in time.
KeyedByText == DOMAIN seen \subseteq Texts

LEMMA GroupTypesStep == GroupTypes /\ KeyedByText /\ [GroupNext]_groupVars => GroupTypes' /\ KeyedByText'
<1>. SUFFICES ASSUME GroupTypes, KeyedByText, [GroupNext]_groupVars PROVE GroupTypes' /\ KeyedByText'
  OBVIOUS
<1>. USE DEF KeyedByText
<1>0. /\ Made = 1..Len(posts) /\ Len(posts) \in Nat /\ Made \subseteq PostIds
      /\ \A p \in Made : posts[p] \in Post /\ posts[p].age \in Nat
  <2>1. Made = 1..Len(posts) /\ Len(posts) \in Nat /\ \A p \in Made : posts[p] \in Post
    BY DEF GroupTypes, Made
  <2>. QED BY <2>1, GroupAssumption DEF GroupTypes, PostIds, Post
<1>1. CASE UNCHANGED groupVars
  BY <1>1 DEF groupVars, traffic, GroupTypes, Made
<1>2. ASSUME NEW text \in Texts, NEW mention \in Accounts \cup {Nobody}, NEW bot \in BOOLEAN,
             Write(text, mention, bot)
      PROVE  GroupTypes' /\ KeyedByText'
  <2>1. /\ posts' = Append(posts, [text |-> text, mention |-> mention, bot |-> bot, age |-> 0])
        /\ Len(posts) < MaxPosts /\ UNCHANGED <<delivered, inbound, seen, heard, asked>>
    BY <1>2 DEF Write
  <2>2. posts' \in Seq(Post) /\ Len(posts') = Len(posts) + 1 /\ Made \subseteq Made'
    BY <1>0, <2>1 DEF GroupTypes, Made, Post
  <2>. QED BY <1>0, <2>1, <2>2, GroupAssumption DEF GroupTypes
<1>3. ASSUME NEW p \in Made, NEW account \in Accounts, Deliver(p, account)
      PROVE  GroupTypes' /\ KeyedByText'
  <2>1. /\ delivered' = delivered \cup {<<p, account>>} /\ inbound' = Append(inbound, <<p, account>>)
        /\ UNCHANGED <<posts, seen, heard, asked>> /\ <<p, account>> \in PostIds \X Accounts
    BY <1>0, <1>3 DEF Deliver
  <2>2. /\ inbound' \in Seq(PostIds \X Accounts)
        /\ \A i \in 1..Len(inbound') :
             inbound'[i] = <<p, account>> \/ (i \in 1..Len(inbound) /\ inbound'[i] = inbound[i])
    BY <2>1 DEF GroupTypes
  <2>. QED BY <2>1, <2>2 DEF GroupTypes, Made
<1>4. ASSUME inbound # <<>>
      PROVE  /\ Head(inbound) \in delivered /\ Tail(inbound) \in Seq(PostIds \X Accounts)
             /\ \A i \in 1..Len(Tail(inbound)) : Tail(inbound)[i] \in delivered
  <2>1. /\ Head(inbound) = inbound[1] /\ 1 \in 1..Len(inbound) /\ Tail(inbound) \in Seq(PostIds \X Accounts)
        /\ \A i \in 1..Len(Tail(inbound)) : i + 1 \in 1..Len(inbound) /\ Tail(inbound)[i] = inbound[i + 1]
    BY <1>4 DEF GroupTypes
  <2>. QED BY <2>1 DEF GroupTypes
<1>5. CASE Unowned \/ Ignore
  <2>1. inbound # <<>> /\ inbound' = Tail(inbound) /\ UNCHANGED <<posts, delivered, seen, heard, asked>>
    BY <1>5 DEF Unowned, Ignore
  <2>. QED BY <1>4, <2>1 DEF GroupTypes, Made
<1>6. CASE Accept
  <2>. DEFINE p == Head(inbound)[1]
              S == Shown(p, Head(inbound)[2])
              T == Target(p, Head(inbound)[2])
  <2>1. /\ inbound # <<>> /\ inbound' = Tail(inbound) /\ UNCHANGED <<posts, delivered>>
        /\ seen' = [t \in DOMAIN seen \cup {posts[p].text} |-> IF t = posts[p].text THEN 0 ELSE seen[t]]
        /\ \/ /\ heard' = [heard EXCEPT ![p] = [a \in Agents |-> heard[p][a] + IF a \in S THEN 1 ELSE 0]]
              /\ asked' = [asked EXCEPT ![p] = [a \in Agents |-> asked[p][a] + IF a = T THEN 1 ELSE 0]]
           \/ UNCHANGED <<heard, asked>>
    BY <1>6 DEF Accept, RouteGroup
  <2>2. p \in Made /\ p \in PostIds /\ posts[p].text \in Texts
    <3>1. Head(inbound) \in delivered /\ delivered \subseteq Made \X Accounts
      BY <1>4, <2>1 DEF GroupTypes
    <3>2. p \in Made
      BY <3>1
    <3>. QED BY <1>0, <3>2 DEF Post
  <2>. HIDE DEF p, S, T
  <2>3. heard' \in [PostIds -> [Agents -> Nat]] /\ asked' \in [PostIds -> [Agents -> Nat]]
    <3>1. /\ [a \in Agents |-> heard[p][a] + IF a \in S THEN 1 ELSE 0] \in [Agents -> Nat]
          /\ [a \in Agents |-> asked[p][a] + IF a = T THEN 1 ELSE 0] \in [Agents -> Nat]
      BY <2>2 DEF GroupTypes
    <3>. QED BY <2>1, <3>1 DEF GroupTypes
  <2>4. seen' \in [DOMAIN seen' -> Nat] /\ KeyedByText'
    BY <2>1, <2>2 DEF GroupTypes
  <2>. QED BY <1>4, <2>1, <2>3, <2>4 DEF GroupTypes, Made
<1>7. CASE CleanupDedup
  <2>1. /\ seen' = [t \in {u \in DOMAIN seen : ~Expired(u)} |-> seen[t]]
        /\ UNCHANGED <<posts, delivered, inbound, heard, asked>>
    BY <1>7 DEF CleanupDedup, traffic
  <2>. QED BY <2>1 DEF GroupTypes, Made
<1>8. CASE Tick
  <2>1. /\ posts' = [q \in Made |-> [posts[q] EXCEPT !.age = IF posts[q].age > Spread THEN posts[q].age ELSE posts[q].age + 1]]
        /\ seen' = [t \in DOMAIN seen |-> IF seen[t] > TTL THEN seen[t] ELSE seen[t] + 1]
        /\ UNCHANGED <<delivered, inbound, heard, asked>>
    BY <1>8 DEF Tick
  <2>2. \A q \in Made : posts'[q] \in Post
    BY <1>0, <2>1 DEF Post
  <2>3. posts' \in [1..Len(posts) -> Post]
    BY <1>0, <2>1, <2>2
  <2>4. posts' \in Seq(Post) /\ Len(posts') = Len(posts) /\ Made' = Made
    BY <1>0, <2>3 DEF Made
  <2>5. seen' \in [DOMAIN seen' -> Nat] /\ DOMAIN seen' = DOMAIN seen
    BY <2>1 DEF GroupTypes
  <2>. QED BY <2>1, <2>4, <2>5 DEF GroupTypes
<1>. QED BY <1>1, <1>2, <1>3, <1>5, <1>6, <1>7, <1>8 DEF GroupNext

\* Posts, copies, the map and what agents have heard keep their types.
THEOREM GroupsTyped == GroupSpec => []GroupTypeOK
<1>. DEFINE Configured == bindings \in Bindings /\ team \in Team
<1>1. GroupInit => GroupTypes /\ KeyedByText /\ Configured
  BY GroupAssumption DEF GroupInit, GroupTypes, KeyedByText, Made, PostIds
<1>2. Configured /\ [GroupNext]_groupVars => Configured'
  BY DEF GroupNext, groupVars, config, Write, Deliver, Unowned, Ignore, Accept, CleanupDedup, Tick
<1>3. GroupTypes /\ KeyedByText /\ Configured => GroupTypeOK
  <2>. SUFFICES ASSUME GroupTypes PROVE inbound \in Seq(delivered)
    BY DEF GroupTypes, KeyedByText, GroupTypeOK, PostIds
  <2>1. inbound \in Seq(PostIds \X Accounts) /\ \A i \in 1..Len(inbound) : inbound[i] \in delivered
    BY DEF GroupTypes
  <2>. QED BY <2>1
<1>. HIDE DEF Configured
<1>. QED BY <1>1, <1>2, <1>3, GroupTypesStep, PTL DEF GroupSpec

-----------------------------------------------------------------------------
(* Sandbox.  A session that no hazard has exposed has one pool, and one    *)
(* call or sweep at a time at work on it; the version written last is in   *)
(* the store, in the box, or on its way between them.                      *)

Held(t) == doing[t] \in {"run", "recreate", "rehydrate", "rerun", "sync", "put"}

\* A tool call has a session, from Get on an executor, which is of its pool.
User(t) ==
  /\ doing[t] # "idle" => LoadOf(t) \in Loads /\ registry[LoadOf(t)] \in Sessions
  /\ doing[t] \in {"idle", "ready"} <=> call[t].scope = Nothing
  /\ IF Held(t) THEN call[t].ex \in 1..boxes /\ boxOf[call[t].ex] # Nothing ELSE call[t].ex = Nothing
  /\ \A g \in Loads, s \in Sessions :
       pool[g][s] # Nothing /\ pool[g][s] = call[t].ex => call[t].scope = s /\ LoadOf(t) = g

\* An executor is of one pool and session, and a box of one executor.
Executors ==
  /\ \A g \in Loads, s \in Sessions : pool[g][s] # Nothing =>
       /\ pool[g][s] <= boxes /\ boxOf[pool[g][s]] # Nothing
       /\ \A h \in Loads, r \in Sessions : pool[h][r] = pool[g][s] => h = g /\ r = s
  /\ \A e \in Boxes : boxOf[e] # Nothing => e <= boxes /\ boxOf[e] <= boxes
  /\ \A e, f \in Boxes : boxOf[e] = boxOf[f] /\ boxOf[e] # Nothing => e = f

Sweepers == \A g \in Loads : sweep[g].at = "wait" <=> sweep[g].session = Nothing

Tidy == FilesTypeOK /\ Executors /\ Sweepers /\ \A t \in TurnIds : User(t)

\* One at a time, in one pool.
Alone(s) ==
  /\ \A t, u \in Calling(s) : t = u
  /\ \A t \in Calling(s), h \in Loads : sweep[h].session # s /\ (pool[h][s] # Nothing => h = LoadOf(t))
  /\ \A g, h \in Loads : (sweep[g].session = s \/ pool[g][s] # Nothing)
                           /\ (sweep[h].session = s \/ pool[h][s] # Nothing) => g = h

\* Where the version written last is.
AtRest(s) == Calling(s) = {} => store[s] = latest[s]
InBox(s) ==
  \A g \in Loads : pool[g][s] # Nothing /\ Running(boxOf[pool[g][s]])
                     /\ (\A t \in Calling(s) : doing[t] # "rehydrate")
                       => disk[boxOf[pool[g][s]]] = latest[s]
InCall(s) ==
  \A t \in Calling(s) :
    /\ Held(t) => call[t].ex = pool[LoadOf(t)][s]
    /\ doing[t] \in {"get", "run", "rehydrate", "rerun"} => store[s] = latest[s]
    /\ doing[t] = "rehydrate" /\ Running(BoxAt(t)) => disk[BoxAt(t)] = Nothing
    /\ doing[t] = "put" => \/ call[t].seen = latest[s]
                           \/ call[t].seen = Nothing /\ store[s] = latest[s]
InSweep(s) == \A g \in Loads : sweep[g].session = s => sweep[g].seen \in {Nothing, latest[s]}
Kept(s) ==
  /\ Alone(s) /\ AtRest(s) /\ InBox(s) /\ InCall(s) /\ InSweep(s)
  /\ latest[s] = Nothing => store[s] = Nothing

FilesInv == Tidy /\ \A s \in Sessions \ exposed : Kept(s)

LEMMA NothingApart == Nothing \notin Sessions /\ Nothing \notin Nat /\ Nothing \notin Version
  BY SandboxAssumption DEF Version

LEMMA FilesInitInv == FilesInit => FilesInv
<1> SUFFICES ASSUME FilesInit PROVE FilesInv
  OBVIOUS
<1>0. 1 \in Loads /\ 0 \in 0..MaxBoxes /\ 0 \in 0..MaxWrites /\ 0 \in 0..MaxOutages /\ 0 \in 0..MaxLoads
  BY SandboxAssumption DEF Loads
<1>1. FilesTypeOK
  BY <1>0, SandboxAssumption DEF FilesInit, FilesTypeOK, NoCall, NoTurn
<1>2. Executors /\ Sweepers /\ \A t \in TurnIds : User(t)
  BY NothingApart DEF FilesInit, Executors, Sweepers, User, Held, NoCall, NoTurn
<1>3. ASSUME NEW s \in Sessions PROVE Kept(s)
  <2>1. Calling(s) = {} /\ \A g \in Loads : pool[g][s] = Nothing /\ sweep[g].session # s
    BY NothingApart DEF FilesInit, Calling, NoCall
  <2> QED BY <2>1 DEF FilesInit, Kept, Alone, AtRest, InBox, InCall, InSweep
<1> QED BY <1>1, <1>2, <1>3 DEF FilesInv, Tidy

-----------------------------------------------------------------------------
\* A session whose file, calls, pools, sweepers and box stay as they are.
SameBox(s) ==
  \A g \in Loads :
    /\ pool'[g][s] = pool[g][s]
    /\ pool[g][s] # Nothing =>
         /\ boxOf'[pool[g][s]] = boxOf[pool[g][s]]
         /\ boxOf[pool[g][s]] \in running' =>
              boxOf[pool[g][s]] \in running /\ disk'[boxOf[pool[g][s]]] = disk[boxOf[pool[g][s]]]
Untouched(s) ==
  /\ store'[s] = store[s] /\ latest'[s] = latest[s]
  /\ \A t \in TurnIds : \/ call[t].scope # s /\ call'[t].scope # s
                        \/ call'[t] = call[t] /\ doing'[t] = doing[t] /\ turn'[t] = turn[t]
  /\ \A g \in Loads : \/ sweep[g].session # s /\ sweep'[g].session # s
                      \/ sweep'[g] = sweep[g]
  /\ SameBox(s)

LEMMA StaysKept ==
  ASSUME Tidy, NEW s \in Sessions, Kept(s), Untouched(s) PROVE Kept(s)'
<1>1. Calling(s)' = Calling(s) /\ \A t \in Calling(s) : call'[t] = call[t] /\ doing'[t] = doing[t] /\ turn'[t] = turn[t]
  BY DEF Calling, Untouched, SameBox
<1>2. \A g \in Loads : sweep'[g].session = s <=> sweep[g].session = s
  BY DEF Untouched, SameBox
<1>3. Alone(s)'
  BY <1>1, <1>2 DEF Alone, Kept, Untouched, SameBox, LoadOf
<1>4. AtRest(s)' /\ InSweep(s)' /\ (latest'[s] = Nothing => store'[s] = Nothing)
  BY <1>1, <1>2 DEF AtRest, InSweep, Kept, Untouched, SameBox
<1>5. InBox(s)'
  <2> SUFFICES ASSUME NEW g \in Loads, pool'[g][s] # Nothing, boxOf'[pool'[g][s]] \in running',
                      \A t \in Calling(s)' : doing'[t] # "rehydrate"
               PROVE  disk'[boxOf'[pool'[g][s]]] = latest'[s]
    BY DEF InBox, Running
  <2>1. pool'[g][s] = pool[g][s] /\ boxOf'[pool[g][s]] = boxOf[pool[g][s]]
    BY DEF Untouched, SameBox
  <2>2. boxOf[pool[g][s]] \in running /\ disk'[boxOf[pool[g][s]]] = disk[boxOf[pool[g][s]]]
    BY <2>1 DEF Untouched, SameBox
  <2>3. disk[boxOf[pool[g][s]]] = latest[s]
    BY <1>1, <2>1, <2>2 DEF Kept, InBox, Running
  <2> QED BY <2>1, <2>2, <2>3 DEF Untouched, SameBox
<1>6. InCall(s)'
  <2> SUFFICES ASSUME NEW t \in Calling(s)
               PROVE  /\ Held(t)' => call'[t].ex = pool'[LoadOf(t)'][s]
                      /\ doing'[t] \in {"get", "run", "rehydrate", "rerun"} => store'[s] = latest'[s]
                      /\ doing'[t] = "rehydrate" /\ boxOf'[call'[t].ex] \in running' => disk'[boxOf'[call'[t].ex]] = Nothing
                      /\ doing'[t] = "put" => \/ call'[t].seen = latest'[s]
                                              \/ call'[t].seen = Nothing /\ store'[s] = latest'[s]
    BY <1>1 DEF InCall, Running, BoxAt
  <2>1. t \in TurnIds /\ call'[t] = call[t] /\ doing'[t] = doing[t] /\ LoadOf(t)' = LoadOf(t) /\ call[t].scope = s
    BY <1>1 DEF LoadOf, Calling
  <2>2. LoadOf(t) \in Loads
    BY <2>1, NothingApart DEF Tidy, User
  <2>3. Held(t)' => call'[t].ex = pool'[LoadOf(t)'][s]
    BY <2>1, <2>2 DEF Untouched, SameBox, Held, Kept, InCall
  <2>4. doing'[t] \in {"get", "run", "rehydrate", "rerun"} => store'[s] = latest'[s]
    BY <2>1 DEF Untouched, SameBox, Kept, InCall
  <2>5. ASSUME doing'[t] = "rehydrate", boxOf'[call'[t].ex] \in running' PROVE disk'[boxOf'[call'[t].ex]] = Nothing
    <3>1. Held(t)
      BY <2>1, <2>5 DEF Held
    <3>2. call[t].ex = pool[LoadOf(t)][s] /\ call[t].ex # Nothing
      BY <3>1, <2>1, NothingApart DEF Kept, InCall, Tidy, User
    <3>3. boxOf'[call[t].ex] = boxOf[call[t].ex] /\ boxOf[call[t].ex] \in running
          /\ disk'[boxOf[call[t].ex]] = disk[boxOf[call[t].ex]]
      BY <2>1, <2>2, <2>5, <3>2 DEF Untouched, SameBox
    <3> QED BY <2>1, <2>5, <3>3 DEF Kept, InCall, Running, BoxAt
  <2>6. doing'[t] = "put" => \/ call'[t].seen = latest'[s]
                             \/ call'[t].seen = Nothing /\ store'[s] = latest'[s]
    BY <2>1 DEF Untouched, SameBox, Kept, InCall
  <2> QED BY <2>3, <2>4, <2>5, <2>6
<1> QED BY <1>3, <1>4, <1>5, <1>6 DEF Kept

-----------------------------------------------------------------------------
\* A turn the step is not about goes on with what it has.
LEMMA OthersGoOn ==
  ASSUME Tidy, NEW u \in TurnIds, call'[u] = call[u], doing'[u] = doing[u], turn'[u] = turn[u],
         doing[u] # "idle" => registry'[LoadOf(u)] \in Sessions,
         boxes' \in Nat, boxes <= boxes',
         \A e \in 1..boxes : boxOf[e] # Nothing => boxOf'[e] # Nothing,
         \A g \in Loads, s \in Sessions : pool'[g][s] \in {pool[g][s], Nothing, boxes + 1}
  PROVE  User(u)'
<1>1. boxes \in Nat /\ LoadOf(u)' = LoadOf(u) /\ (Held(u)' <=> Held(u))
  BY DEF Tidy, FilesTypeOK, LoadOf, Held
<1>2. User(u)
  BY DEF Tidy
<1>3. ASSUME NEW g \in Loads, NEW s \in Sessions, pool'[g][s] # Nothing, pool'[g][s] = call[u].ex
      PROVE  call[u].scope = s /\ LoadOf(u) = g
  <2>1. call[u].ex = Nothing \/ call[u].ex \in 1..boxes
    BY <1>2 DEF User
  <2>2. pool'[g][s] # boxes + 1
    BY <1>1, <1>3, <2>1
  <2> QED BY <1>2, <1>3, <2>2 DEF User
<1>4. IF Held(u)' THEN call'[u].ex \in 1..boxes' /\ boxOf'[call'[u].ex] # Nothing ELSE call'[u].ex = Nothing
  BY <1>1, <1>2 DEF User
<1> QED BY <1>1, <1>2, <1>3, <1>4 DEF User

BoxTypes ==
  /\ running \subseteq Boxes /\ disk \in [Boxes -> Version \cup {Nothing}]
  /\ boxOf \in [Boxes -> Boxes \cup {Nothing}] /\ boxes \in 0..MaxBoxes
  /\ pool \in [Loads -> [Sessions -> Boxes \cup {Nothing}]]

LEMMA BoxCreated ==
  ASSUME Tidy, NEW g \in Loads, NEW s \in Sessions, CreateBox(g, s)
  PROVE  /\ Executors' /\ BoxTypes' /\ outages' \in 0..MaxOutages /\ exposed' \in {exposed, exposed \cup {s}}
         /\ boxes' = boxes + 1 /\ boxes + 1 \in Boxes /\ running' = running \cup {boxes + 1}
         /\ pool'[g][s] = boxes + 1 /\ boxOf'[boxes + 1] = boxes + 1
         /\ s \in exposed' \/ disk'[boxes + 1] = store[s]
         /\ \A e \in Boxes : e # boxes + 1 => boxOf'[e] = boxOf[e] /\ disk'[e] = disk[e]
         /\ \A h \in Loads, r \in Sessions : (h = g /\ r = s) \/ pool'[h][r] = pool[h][r]
<1>0. /\ boxes \in Nat /\ boxes < MaxBoxes /\ boxes + 1 \in Boxes /\ boxes' = boxes + 1
      /\ running' = running \cup {boxes + 1} /\ BoxTypes
  BY SandboxAssumption DEF Tidy, FilesTypeOK, BoxTypes, CreateBox, Boxes
<1>1. PICK v \in Version \cup {Nothing} : Hydrated(s, v) /\ disk' = [disk EXCEPT ![boxes + 1] = v]
  BY DEF CreateBox
<1>2. boxOf' = [boxOf EXCEPT ![boxes + 1] = boxes + 1] /\ pool' = [pool EXCEPT ![g][s] = boxes + 1]
  BY DEF CreateBox
<1>3. BoxTypes'
  BY <1>0, <1>1, <1>2 DEF BoxTypes, Boxes
<1>4. outages' \in 0..MaxOutages /\ exposed' \in {exposed, exposed \cup {s}}
  BY <1>1, SandboxAssumption DEF Hydrated, MayGoWrong, Tidy, FilesTypeOK
<1>5. s \in exposed' \/ disk'[boxes + 1] = store[s]
  BY <1>0, <1>1 DEF Hydrated, BoxTypes
<1>6. pool'[g][s] = boxes + 1 /\ boxOf'[boxes + 1] = boxes + 1
  BY <1>0, <1>2 DEF BoxTypes
<1>7. \A e \in Boxes : e # boxes + 1 => boxOf'[e] = boxOf[e] /\ disk'[e] = disk[e]
  BY <1>0, <1>1, <1>2 DEF BoxTypes
<1>8. \A h \in Loads, r \in Sessions : (h = g /\ r = s) \/ pool'[h][r] = pool[h][r]
  BY <1>2 DEF FilesTypeOK, Tidy
<1>9. Executors'
  <2>1. \A e \in Boxes : boxOf[e] # Nothing => e <= boxes /\ boxOf[e] <= boxes /\ boxOf[e] \in Nat
    BY <1>0 DEF Tidy, Executors, BoxTypes, Boxes
  <2>2. \A e \in Boxes : boxOf'[e] # Nothing => e <= boxes' /\ boxOf'[e] <= boxes'
    BY <1>0, <1>6, <1>7, <2>1 DEF Boxes
  <2>3. \A e, f \in Boxes : boxOf'[e] = boxOf'[f] /\ boxOf'[e] # Nothing => e = f
    BY <1>0, <1>6, <1>7, <2>1 DEF Boxes, Tidy, Executors
  <2>4. \A h \in Loads, r \in Sessions : pool[h][r] # Nothing => pool[h][r] <= boxes /\ pool[h][r] \in Boxes
    BY <1>0 DEF Tidy, Executors, BoxTypes
  <2>5. \A h \in Loads, r \in Sessions : pool'[h][r] # Nothing => pool'[h][r] <= boxes' /\ boxOf'[pool'[h][r]] # Nothing
    BY <1>0, <1>6, <1>7, <1>8, <2>4, NothingApart DEF Boxes, Tidy, Executors
  <2>6. ASSUME NEW h \in Loads, NEW r \in Sessions, NEW k \in Loads, NEW q \in Sessions,
               pool'[h][r] # Nothing, pool'[k][q] = pool'[h][r]
        PROVE  k = h /\ q = r
    <3>1. CASE h = g /\ r = s
      BY <1>0, <1>6, <1>8, <2>4, <2>6, <3>1 DEF Boxes
    <3>2. CASE k = g /\ q = s
      BY <1>0, <1>6, <1>8, <2>4, <2>6, <3>2 DEF Boxes
    <3>3. CASE ~(h = g /\ r = s) /\ ~(k = g /\ q = s)
      BY <1>8, <2>6, <3>3 DEF Tidy, Executors
    <3> QED BY <3>1, <3>2, <3>3
  <2> QED BY <2>2, <2>3, <2>5, <2>6 DEF Executors
<1> QED BY <1>0, <1>3, <1>4, <1>5, <1>6, <1>7, <1>8, <1>9

\* What no step but the named ones changes of the boxes.
LEMMA SameExecutors == Tidy /\ UNCHANGED <<boxOf, pool, boxes>> => Executors'
  BY DEF Tidy, Executors

\* The box of a call holds the file of its session alone.
LEMMA OwnBox ==
  ASSUME Tidy, NEW t \in TurnIds, Held(t)
  PROVE  /\ call[t].scope \in Sessions /\ LoadOf(t) \in Loads /\ call[t].ex \in Boxes /\ BoxAt(t) \in Boxes
         /\ BoxAt(t) <= boxes
         /\ \A g \in Loads, s \in Sessions : pool[g][s] # Nothing /\ boxOf[pool[g][s]] = BoxAt(t)
              => pool[g][s] = call[t].ex /\ s = call[t].scope /\ g = LoadOf(t)
<1>1. User(t) /\ call[t].ex \in 1..boxes /\ BoxAt(t) # Nothing
  BY DEF Tidy, User, BoxAt
<1>2. call[t].ex \in Boxes
  BY <1>1, SandboxAssumption DEF Tidy, FilesTypeOK, Boxes
<1>3. BoxAt(t) \in Boxes /\ BoxAt(t) <= boxes
  BY <1>1, <1>2 DEF Tidy, FilesTypeOK, BoxAt, Executors
<1>4. call[t].scope \in Sessions /\ LoadOf(t) \in Loads
  <2>1. call[t].scope # Nothing /\ LoadOf(t) \in Loads
    BY <1>1 DEF Held, User
  <2>2. call[t] \in [scope : Sessions \cup {Nothing}, ex : Boxes \cup {Nothing}, seen : Version \cup {Nothing}]
    BY DEF Tidy, FilesTypeOK
  <2> QED BY <2>1, <2>2
<1>5. ASSUME NEW g \in Loads, NEW s \in Sessions, pool[g][s] # Nothing, boxOf[pool[g][s]] = BoxAt(t)
      PROVE  pool[g][s] = call[t].ex /\ s = call[t].scope /\ g = LoadOf(t)
  <2>1. pool[g][s] \in Boxes
    BY <1>5 DEF Tidy, FilesTypeOK
  <2>2. pool[g][s] = call[t].ex
    BY <1>1, <1>2, <1>5, <2>1 DEF Tidy, Executors, BoxAt
  <2> QED BY <1>1, <1>5, <2>2 DEF User
<1> QED BY <1>1, <1>2, <1>3, <1>4, <1>5

\* The steps that have nothing to do with files.
LEMMA ReloadKeeps == FilesInv /\ Reload => FilesInv'
<1> SUFFICES ASSUME FilesInv, Reload PROVE FilesInv'
  OBVIOUS
<1>0. space' \in Loads
  BY SandboxAssumption DEF FilesInv, Tidy, FilesTypeOK, Reload, Loads
<1>1. FilesTypeOK' /\ Executors' /\ Sweepers' /\ \A t \in TurnIds : User(t)'
  BY <1>0 DEF FilesInv, Tidy, Reload, FilesTypeOK, Executors, Sweepers, User, Held, LoadOf, boxing, files, tools
<1>2. ASSUME NEW s \in Sessions, s \notin exposed PROVE Kept(s)'
  <2>1. Untouched(s)
    BY DEF Untouched, SameBox, Reload, boxing, files, tools
  <2> QED BY <1>2, <2>1, StaysKept DEF FilesInv
<1> QED BY <1>1, <1>2 DEF FilesInv, Tidy, Reload

LEMMA StartTurnKeeps ==
  ASSUME FilesInv, NEW t \in TurnIds, NEW s0 \in Sessions, StartTurn(t, s0) PROVE FilesInv'
<1>1. FilesTypeOK' /\ Executors' /\ Sweepers'
  <2>1. turn' \in [TurnIds -> [session : Sessions \cup {Nothing}, load : 0..MaxLoads]]
    BY DEF StartTurn, FilesInv, Tidy, FilesTypeOK, Loads
  <2> QED BY <2>1 DEF FilesInv, Tidy, StartTurn, Do, FilesTypeOK, Executors, Sweepers, boxing, files
<1>2. call[t].scope = Nothing /\ call[t].ex = Nothing
  BY DEF FilesInv, Tidy, StartTurn, User, Held
<1>3. ASSUME NEW u \in TurnIds PROVE User(u)'
  <2>1. LoadOf(u)' = IF u = t THEN space ELSE LoadOf(u)
    BY DEF FilesInv, Tidy, FilesTypeOK, StartTurn, LoadOf
  <2>2. doing' = [doing EXCEPT ![t] = "ready"] /\ registry' = [registry EXCEPT ![space] = s0]
    BY DEF StartTurn, Do
  <2>3. CASE u = t
    BY <1>2, <2>1, <2>2, <2>3 DEF FilesInv, Tidy, FilesTypeOK, User, Held, StartTurn, boxing
  <2>4. CASE u # t
    BY <2>1, <2>2, <2>4 DEF FilesInv, Tidy, FilesTypeOK, User, Held, StartTurn, boxing
  <2> QED BY <2>3, <2>4
<1>4. ASSUME NEW s \in Sessions, s \notin exposed PROVE Kept(s)'
  <2>1. Untouched(s)
    BY <1>2, NothingApart DEF Untouched, SameBox, StartTurn, Do, boxing, files, FilesInv, Tidy, FilesTypeOK
  <2> QED BY <1>4, <2>1, StaysKept DEF FilesInv
<1> QED BY <1>1, <1>3, <1>4 DEF FilesInv, Tidy, StartTurn

LEMMA EndTurnKeeps ==
  ASSUME FilesInv, NEW t \in TurnIds, EndTurn(t) PROVE FilesInv'
<1>1. FilesTypeOK' /\ Executors' /\ Sweepers'
  <2>1. turn' \in [TurnIds -> [session : Sessions \cup {Nothing}, load : 0..MaxLoads]]
    BY SandboxAssumption DEF EndTurn, FilesInv, Tidy, FilesTypeOK, NoTurn
  <2> QED BY <2>1 DEF FilesInv, Tidy, EndTurn, Do, FilesTypeOK, Executors, Sweepers, boxing, files
<1>2. call[t].scope = Nothing /\ call[t].ex = Nothing
  BY DEF FilesInv, Tidy, EndTurn, User, Held
<1>3. ASSUME NEW u \in TurnIds PROVE User(u)'
  <2>1. u # t => LoadOf(u)' = LoadOf(u)
    BY DEF FilesInv, Tidy, FilesTypeOK, EndTurn, LoadOf
  <2>2. doing' = [doing EXCEPT ![t] = "idle"]
    BY DEF EndTurn, Do
  <2>3. CASE u = t
    BY <1>2, <2>2, <2>3 DEF FilesInv, Tidy, FilesTypeOK, User, Held, EndTurn, boxing
  <2>4. CASE u # t
    BY <2>1, <2>2, <2>4 DEF FilesInv, Tidy, FilesTypeOK, User, Held, EndTurn, boxing
  <2> QED BY <2>3, <2>4
<1>4. ASSUME NEW s \in Sessions, s \notin exposed PROVE Kept(s)'
  <2>1. Untouched(s)
    BY <1>2, NothingApart DEF Untouched, SameBox, EndTurn, Do, boxing, files, FilesInv, Tidy, FilesTypeOK
  <2> QED BY <1>4, <2>1, StaysKept DEF FilesInv
<1> QED BY <1>1, <1>3, <1>4 DEF FilesInv, Tidy, EndTurn

LEMMA ExpireKeeps ==
  ASSUME FilesInv, NEW b \in Boxes, Expire(b) PROVE FilesInv'
<1>1. FilesTypeOK' /\ Executors' /\ Sweepers' /\ \A t \in TurnIds : User(t)'
  BY DEF FilesInv, Tidy, Expire, FilesTypeOK, Executors, Sweepers, User, Held, LoadOf, files, tools
<1>2. ASSUME NEW s \in Sessions, s \notin exposed PROVE Kept(s)'
  <2>1. \A c \in Boxes : c \in running' => c \in running /\ disk'[c] = disk[c]
    BY DEF Expire, FilesInv, Tidy, FilesTypeOK
  <2>2. \A g \in Loads : pool[g][s] # Nothing => boxOf[pool[g][s]] \in Boxes
    BY DEF FilesInv, Tidy, FilesTypeOK, Executors
  <2>3. Untouched(s)
    BY <2>1, <2>2 DEF Untouched, SameBox, Expire, files, tools
  <2> QED BY <1>2, <2>3, StaysKept DEF FilesInv
<1> QED BY <1>1, <1>2 DEF FilesInv, Tidy, Expire

LEMMA TimeKeeps == FilesInv /\ TimePasses => FilesInv'
<1> SUFFICES ASSUME FilesInv, TimePasses PROVE FilesInv'
  OBVIOUS
<1>1. idle' \in [Loads -> [Sessions -> 0..(IdleTTL + 1) \cup {Nothing}]]
  BY SandboxAssumption DEF TimePasses, FilesInv, Tidy, FilesTypeOK
<1>2. FilesTypeOK' /\ Executors' /\ Sweepers' /\ \A t \in TurnIds : User(t)'
  BY <1>1 DEF FilesInv, Tidy, TimePasses, FilesTypeOK, Executors, Sweepers, User, Held, LoadOf, boxing, files, tools
<1>3. ASSUME NEW s \in Sessions, s \notin exposed PROVE Kept(s)'
  <2>1. Untouched(s)
    BY DEF Untouched, SameBox, TimePasses, boxing, files, tools
  <2> QED BY <1>3, <2>1, StaysKept DEF FilesInv
<1> QED BY <1>2, <1>3 DEF FilesInv, Tidy, TimePasses

-----------------------------------------------------------------------------
\* The tools of a turn.
LEMMA NewVersion ==
  ASSUME FilesTypeOK, NEW v \in Version, New(v) PROVE writes' \in 0..MaxWrites /\ v # Nothing
  BY NothingApart, SandboxAssumption DEF New, Version, FilesTypeOK

\* A turn at its tools has a session.
LEMMA AtTools ==
  ASSUME Tidy, NEW t \in TurnIds, doing[t] # "idle"
  PROVE  LoadOf(t) \in Loads /\ registry[LoadOf(t)] \in Sessions
  BY DEF Tidy, User

LEMMA WriteFileKeeps == ASSUME FilesInv, NEW t \in TurnIds, WriteFile(t) PROVE FilesInv'
<1> DEFINE s0 == registry[LoadOf(t)]
<1>0. s0 \in Sessions
  BY AtTools DEF WriteFile, FilesInv
<1>1. PICK v \in Version : New(v) /\ store' = [store EXCEPT ![s0] = v] /\ latest' = [latest EXCEPT ![s0] = v]
  BY DEF WriteFile
<1>2. exposed' = IF Holding(s0) # {} \/ AtWork(s0) THEN exposed \cup {s0} ELSE exposed
  BY DEF WriteFile
<1>3. UNCHANGED <<space, boxing, tools, idle, sweep, outages>>
  BY DEF WriteFile
<1>4. writes' \in 0..MaxWrites /\ v # Nothing
  BY <1>1, NewVersion DEF FilesInv, Tidy
<1>5. FilesTypeOK'
  BY <1>0, <1>1, <1>2, <1>3, <1>4 DEF FilesInv, Tidy, FilesTypeOK, boxing, tools
<1>6. Executors' /\ Sweepers' /\ \A u \in TurnIds : User(u)'
  BY <1>3 DEF FilesInv, Tidy, Executors, Sweepers, User, Held, LoadOf, boxing, tools
<1>7. ASSUME NEW s \in Sessions, s \notin exposed' PROVE Kept(s)'
  <2>1. s \notin exposed /\ Kept(s)
    BY <1>2, <1>7 DEF FilesInv
  <2>2. CASE s # s0
    <3>1. store'[s] = store[s] /\ latest'[s] = latest[s]
      BY <1>1, <2>2 DEF FilesInv, Tidy, FilesTypeOK
    <3>2. Untouched(s)
      BY <1>3, <3>1 DEF Untouched, SameBox, boxing, tools
    <3> QED BY <2>1, <3>2, StaysKept DEF FilesInv
  <2>3. CASE s = s0
    <3>1. Holding(s) = {} /\ ~AtWork(s)
      BY <1>2, <1>7, <2>3
    <3>2. Calling(s) = {} /\ \A g \in Loads : sweep[g].session # s
      BY <3>1 DEF AtWork
    <3>3. Calling(s)' = {} /\ \A g \in Loads : sweep'[g].session # s
      BY <1>3, <3>2 DEF Calling, tools
    <3>4. ASSUME NEW g \in Loads PROVE ~(pool'[g][s] # Nothing /\ boxOf'[pool'[g][s]] \in running')
      BY <1>3, <3>1 DEF Holding, boxing
    <3>5. store'[s] = v /\ latest'[s] = v
      BY <1>1, <2>3 DEF FilesInv, Tidy, FilesTypeOK
    <3>6. Alone(s)'
      BY <1>3, <2>1, <3>3 DEF Kept, Alone, boxing
    <3> QED BY <1>4, <3>3, <3>4, <3>5, <3>6 DEF Kept, AtRest, InBox, InCall, InSweep, Running
  <2> QED BY <2>2, <2>3
<1> QED BY <1>5, <1>6, <1>7 DEF FilesInv, Tidy

\* The step of a turn between two others is its own.
LEMMA OthersStay ==
  ASSUME FilesTypeOK, NEW t \in TurnIds, NEW u \in TurnIds, u # t, NEW next, Do(t, next)
  PROVE  doing'[u] = doing[u]
  BY DEF FilesTypeOK, Do

LEMMA TouchKeeps == ASSUME FilesInv, NEW t \in TurnIds, Touch(t) PROVE FilesInv'
<1> DEFINE g0 == LoadOf(t)
           s0 == registry[g0]
<1>0. g0 \in Loads /\ s0 \in Sessions /\ doing[t] = "ready"
  BY AtTools DEF Touch, FilesInv
<1>1. call' = [call EXCEPT ![t] = [NoCall EXCEPT !.scope = s0]] /\ idle' = [idle EXCEPT ![g0][s0] = 0]
  BY DEF Touch
<1>2. exposed' = IF Meets(g0, s0) THEN exposed \cup {s0} ELSE exposed
  BY DEF Touch
<1>3. UNCHANGED <<space, boxing, files, registry, turn, sweep, outages>> /\ doing' = [doing EXCEPT ![t] = "get"]
  BY DEF Touch, Do
<1>4. FilesTypeOK'
  <2>1. call' \in [TurnIds -> [scope : Sessions \cup {Nothing}, ex : Boxes \cup {Nothing}, seen : Version \cup {Nothing}]]
    BY <1>0, <1>1 DEF NoCall, FilesInv, Tidy, FilesTypeOK
  <2>2. idle' \in [Loads -> [Sessions -> 0..(IdleTTL + 1) \cup {Nothing}]]
    BY <1>0, <1>1, SandboxAssumption DEF FilesInv, Tidy, FilesTypeOK
  <2> QED BY <1>0, <1>2, <1>3, <2>1, <2>2 DEF FilesInv, Tidy, FilesTypeOK, boxing, files
<1>5. Executors' /\ Sweepers'
  BY <1>3, SameExecutors DEF FilesInv, Tidy, Sweepers, boxing
<1>6. call'[t].scope = s0 /\ call'[t].ex = Nothing /\ call[t].scope = Nothing /\ doing'[t] = "get"
  BY <1>0, <1>1, <1>3 DEF NoCall, FilesInv, Tidy, FilesTypeOK, User
<1>7. ASSUME NEW u \in TurnIds, u # t PROVE call'[u] = call[u] /\ doing'[u] = doing[u] /\ turn'[u] = turn[u]
  BY <1>1, <1>3, <1>7 DEF FilesInv, Tidy, FilesTypeOK
<1>8. ASSUME NEW u \in TurnIds PROVE User(u)'
  <2>1. CASE u = t
    BY <1>0, <1>3, <1>6, <2>1, NothingApart DEF User, Held, LoadOf, boxing
  <2>2. CASE u # t
    BY <1>3, <1>7, <2>2 DEF FilesInv, Tidy, User, Held, LoadOf, boxing
  <2> QED BY <2>1, <2>2
<1>9. ASSUME NEW s \in Sessions, s \notin exposed' PROVE Kept(s)'
  <2>1. s \notin exposed /\ Kept(s)
    BY <1>2, <1>9 DEF FilesInv
  <2>2. CASE s # s0
    <3>1. Untouched(s)
      BY <1>3, <1>6, <1>7, <2>2, NothingApart DEF Untouched, SameBox, boxing, files
    <3> QED BY <2>1, <3>1, StaysKept DEF FilesInv
  <2>3. CASE s = s0
    <3>1. Calling(s) = {} /\ \A g \in Loads : sweep[g].session # s /\ (g # g0 => pool[g][s] = Nothing)
      BY <1>2, <1>9, <2>3 DEF Meets, AtWork
    <3>2. Calling(s)' = {t}
      BY <1>6, <1>7, <2>3, <3>1 DEF Calling
    <3>3. \A g \in Loads : sweep'[g].session # s /\ (g # LoadOf(t)' => pool'[g][s] = Nothing)
      BY <1>3, <3>1 DEF boxing, LoadOf
    <3>4. Alone(s)'
      BY <3>2, <3>3 DEF Alone
    <3>5. store'[s] = latest'[s]
      BY <1>3, <2>1, <3>1 DEF Kept, AtRest, files
    <3>6. InBox(s)'
      BY <1>3, <2>1, <3>1 DEF Kept, InBox, Running, boxing, files
    <3>7. AtRest(s)' /\ InSweep(s)' /\ InCall(s)'
      BY <1>6, <3>2, <3>3, <3>5 DEF AtRest, InSweep, InCall, Held
    <3> QED BY <3>4, <3>5, <3>6, <3>7 DEF Kept
  <2> QED BY <2>2, <2>3
<1> QED BY <1>4, <1>5, <1>8, <1>9 DEF FilesInv, Tidy

\* Get of a pool: whatever executor there is by then has the file.
LEMMA GotBox ==
  ASSUME FilesInv, NEW g \in Loads, NEW s \in Sessions, GetBox(g, s)
  PROVE  /\ Executors' /\ BoxTypes' /\ outages' \in 0..MaxOutages /\ exposed' \in {exposed, exposed \cup {s}}
         /\ boxes' \in Nat /\ boxes <= boxes'
         /\ \A e \in 1..boxes : boxOf'[e] = boxOf[e]
         /\ \A h \in Loads, r \in Sessions : /\ pool'[h][r] \in {pool[h][r], boxes + 1}
                                             /\ (h = g /\ r = s) \/ pool'[h][r] = pool[h][r]
         /\ \A r \in Sessions : r = s \/ SameBox(r)
         /\ \E p \in Boxes :
              /\ p = pool'[g][s] /\ p \in 1..boxes' /\ boxOf'[p] # Nothing
              /\ \/ SameBox(s) /\ pool[g][s] # Nothing
                 \/ s \in exposed'
                 \/ disk'[boxOf'[p]] = store[s] /\ pool[g][s] = Nothing
<1>0. BoxTypes /\ boxes \in Nat
  BY DEF BoxTypes, FilesInv, Tidy, FilesTypeOK
<1>1. CASE pool[g][s] # Nothing
  <2>1. UNCHANGED <<boxing, outages, exposed>>
    BY <1>1 DEF GetBox
  <2>2. pool[g][s] \in Boxes /\ pool[g][s] <= boxes /\ boxOf[pool[g][s]] # Nothing
    BY <1>0, <1>1 DEF FilesInv, Tidy, Executors, BoxTypes
  <2>3. pool[g][s] \in 1..boxes
    BY <1>0, <2>2 DEF Boxes
  <2>4. \A r \in Sessions : SameBox(r)
    BY <2>1 DEF SameBox, boxing
  <2>5. Executors' /\ BoxTypes' /\ outages' \in 0..MaxOutages
    BY <1>0, <2>1, SameExecutors DEF BoxTypes, FilesInv, Tidy, FilesTypeOK, boxing
  <2> QED BY <1>0, <1>1, <2>1, <2>2, <2>3, <2>4, <2>5 DEF boxing
<1>2. CASE pool[g][s] = Nothing
  <2>1. CreateBox(g, s)
    BY <1>2 DEF GetBox
  <2>2. /\ Executors' /\ BoxTypes' /\ outages' \in 0..MaxOutages /\ exposed' \in {exposed, exposed \cup {s}}
        /\ boxes' = boxes + 1 /\ boxes + 1 \in Boxes /\ running' = running \cup {boxes + 1}
        /\ pool'[g][s] = boxes + 1 /\ boxOf'[boxes + 1] = boxes + 1
        /\ s \in exposed' \/ disk'[boxes + 1] = store[s]
        /\ \A e \in Boxes : e # boxes + 1 => boxOf'[e] = boxOf[e] /\ disk'[e] = disk[e]
        /\ \A h \in Loads, r \in Sessions : (h = g /\ r = s) \/ pool'[h][r] = pool[h][r]
    BY <2>1, BoxCreated DEF FilesInv
  <2>3. ASSUME NEW r \in Sessions, r # s PROVE SameBox(r)
    <3> SUFFICES ASSUME NEW h \in Loads
                 PROVE  /\ pool'[h][r] = pool[h][r]
                        /\ pool[h][r] # Nothing =>
                             /\ boxOf'[pool[h][r]] = boxOf[pool[h][r]]
                             /\ boxOf[pool[h][r]] \in running' =>
                                  boxOf[pool[h][r]] \in running /\ disk'[boxOf[pool[h][r]]] = disk[boxOf[pool[h][r]]]
      BY DEF SameBox
    <3>1. pool'[h][r] = pool[h][r]
      BY <2>2, <2>3
    <3>2. ASSUME pool[h][r] # Nothing
          PROVE  /\ pool[h][r] \in Boxes /\ pool[h][r] <= boxes
                 /\ boxOf[pool[h][r]] \in Boxes /\ boxOf[pool[h][r]] <= boxes
      BY <1>0, <3>2 DEF FilesInv, Tidy, Executors, BoxTypes
    <3>3. \A e \in Boxes : e <= boxes => e # boxes + 1
      BY <1>0 DEF Boxes
    <3> QED BY <2>2, <3>1, <3>2, <3>3
  <2>4. \A e \in 1..boxes : e \in Boxes /\ e # boxes + 1
    BY <1>0, SandboxAssumption DEF Boxes, BoxTypes
  <2>5. boxes' \in Nat /\ boxes <= boxes' /\ boxes + 1 \in 1..boxes' /\ boxes + 1 # Nothing
    BY <1>0, <2>2, NothingApart
  <2> QED BY <1>2, <2>2, <2>3, <2>4, <2>5
<1> QED BY <1>1, <1>2

LEMMA GetFailsKeeps ==
  ASSUME FilesInv, NEW t \in TurnIds, doing[t] = "get", MayGoWrong, outages' = outages + 1,
         call' = [call EXCEPT ![t] = NoCall], Do(t, "ready"),
         UNCHANGED <<boxing, exposed>>, UNCHANGED <<space, files, registry, turn, idle, sweep>>
  PROVE  FilesInv'
<1> DEFINE s0 == call[t].scope
<1>1. doing' = [doing EXCEPT ![t] = "ready"]
  BY DEF Do
<1>2. FilesTypeOK'
  <2>1. call' \in [TurnIds -> [scope : Sessions \cup {Nothing}, ex : Boxes \cup {Nothing}, seen : Version \cup {Nothing}]]
    BY DEF NoCall, FilesInv, Tidy, FilesTypeOK
  <2>2. outages' \in 0..MaxOutages
    BY SandboxAssumption DEF MayGoWrong, FilesInv, Tidy, FilesTypeOK
  <2> QED BY <1>1, <2>1, <2>2 DEF FilesInv, Tidy, FilesTypeOK, boxing, files
<1>3. Executors' /\ Sweepers'
  BY SameExecutors DEF FilesInv, Tidy, Sweepers, boxing
<1>4. call'[t].scope = Nothing /\ call'[t].ex = Nothing /\ doing'[t] = "ready"
  BY <1>1 DEF NoCall, FilesInv, Tidy, FilesTypeOK
<1>5. ASSUME NEW u \in TurnIds, u # t PROVE call'[u] = call[u] /\ doing'[u] = doing[u] /\ turn'[u] = turn[u]
  BY <1>1, <1>5 DEF FilesInv, Tidy, FilesTypeOK
<1>6. ASSUME NEW u \in TurnIds PROVE User(u)'
  <2>1. CASE u = t
    BY <1>4, <2>1, NothingApart, AtTools DEF User, Held, LoadOf, FilesInv
  <2>2. CASE u # t
    BY <1>5, <2>2 DEF FilesInv, Tidy, User, Held, LoadOf, boxing
  <2> QED BY <2>1, <2>2
<1>7. ASSUME NEW s \in Sessions, s \notin exposed' PROVE Kept(s)'
  <2>1. s \notin exposed /\ Kept(s)
    BY <1>7 DEF FilesInv
  <2>2. CASE s # s0
    <3>1. Untouched(s)
      BY <1>4, <1>5, <2>2, NothingApart DEF Untouched, SameBox, boxing, files
    <3> QED BY <2>1, <3>1, StaysKept DEF FilesInv
  <2>3. CASE s = s0
    <3>1. t \in Calling(s) /\ Calling(s) = {t}
      BY <2>1, <2>3 DEF Calling, Kept, Alone
    <3>2. Calling(s)' = {}
      BY <1>4, <1>5, <2>3, <3>1, NothingApart DEF Calling
    <3>3. store'[s] = latest'[s]
      BY <2>1, <3>1 DEF Kept, InCall, files
    <3>4. Alone(s)' /\ InSweep(s)'
      BY <2>1, <3>2 DEF Kept, Alone, InSweep, boxing, files
    <3>5. InBox(s)'
      <4>1. \A u \in Calling(s) : doing[u] # "rehydrate"
        BY <3>1
      <4> QED BY <2>1, <4>1 DEF Kept, InBox, Running, boxing, files
    <3> QED BY <3>2, <3>3, <3>4, <3>5 DEF Kept, AtRest, InCall
  <2> QED BY <2>2, <2>3
<1> QED BY <1>2, <1>3, <1>6, <1>7 DEF FilesInv, Tidy

LEMMA GetKeeps == ASSUME FilesInv, NEW t \in TurnIds, GetExecutor(t) PROVE FilesInv'
<1>0. doing[t] = "get" /\ UNCHANGED <<space, files, registry, turn, idle, sweep>>
  BY DEF GetExecutor
<1>a. PICK g0 \in Loads, s0 \in Sessions : g0 = LoadOf(t) /\ s0 = call[t].scope /\ registry[g0] \in Sessions
  <2>1. LoadOf(t) \in Loads /\ registry[LoadOf(t)] \in Sessions /\ call[t].scope # Nothing
    BY <1>0 DEF FilesInv, Tidy, User
  <2>2. call[t] \in [scope : Sessions \cup {Nothing}, ex : Boxes \cup {Nothing}, seen : Version \cup {Nothing}]
    BY DEF FilesInv, Tidy, FilesTypeOK
  <2> QED BY <2>1, <2>2
<1>1. CASE /\ pool[LoadOf(t)][call[t].scope] = Nothing /\ MayGoWrong /\ outages' = outages + 1
           /\ call' = [call EXCEPT ![t] = NoCall] /\ Do(t, "ready")
           /\ UNCHANGED <<boxing, exposed>>
  BY <1>0, <1>1, GetFailsKeeps
<1>2. CASE GetBox(g0, s0) /\ call' = [call EXCEPT ![t].ex = Pooled(g0, s0)] /\ Do(t, "run")
  <2>2. /\ Executors' /\ BoxTypes' /\ outages' \in 0..MaxOutages /\ exposed' \in {exposed, exposed \cup {s0}}
        /\ boxes' \in Nat /\ boxes <= boxes'
        /\ \A e \in 1..boxes : boxOf'[e] = boxOf[e]
        /\ \A h \in Loads, r \in Sessions : /\ pool'[h][r] \in {pool[h][r], boxes + 1}
                                            /\ (h = g0 /\ r = s0) \/ pool'[h][r] = pool[h][r]
        /\ \A r \in Sessions : r = s0 \/ SameBox(r)
        /\ \E p \in Boxes :
             /\ p = pool'[g0][s0] /\ p \in 1..boxes' /\ boxOf'[p] # Nothing
             /\ \/ SameBox(s0) /\ pool[g0][s0] # Nothing
                \/ s0 \in exposed'
                \/ disk'[boxOf'[p]] = store[s0] /\ pool[g0][s0] = Nothing
    BY <1>2, GotBox
  <2>1. PICK p \in Boxes :
          /\ p = pool'[g0][s0] /\ p \in 1..boxes' /\ boxOf'[p] # Nothing
          /\ \/ SameBox(s0) /\ pool[g0][s0] # Nothing
             \/ s0 \in exposed'
             \/ disk'[boxOf'[p]] = store[s0] /\ pool[g0][s0] = Nothing
    BY <2>2
  <2>3. doing' = [doing EXCEPT ![t] = "run"] /\ call' = [call EXCEPT ![t].ex = p]
    BY <1>2, <2>1 DEF Do, Pooled
  <2>4. FilesTypeOK'
    <3>1. call' \in [TurnIds -> [scope : Sessions \cup {Nothing}, ex : Boxes \cup {Nothing}, seen : Version \cup {Nothing}]]
      BY <2>3 DEF FilesInv, Tidy, FilesTypeOK
    <3>2. doing' \in [TurnIds -> {"idle", "ready", "get", "run", "recreate", "rehydrate", "rerun", "sync", "put"}]
      BY <2>3 DEF FilesInv, Tidy, FilesTypeOK
    <3>3. exposed \subseteq Sessions
      BY DEF FilesInv, Tidy, FilesTypeOK
    <3>4. exposed' \subseteq Sessions
      BY <2>2, <3>3
    <3> QED BY <1>0, <2>2, <3>1, <3>2, <3>4 DEF BoxTypes, FilesInv, Tidy, FilesTypeOK, files
  <2>5. Sweepers'
    BY <1>0 DEF Sweepers, FilesInv, Tidy
  <2>6. call'[t].scope = s0 /\ call'[t].ex = p /\ doing'[t] = "run"
    BY <1>a, <2>3 DEF FilesInv, Tidy, FilesTypeOK
  <2>7. ASSUME NEW u \in TurnIds, u # t PROVE call'[u] = call[u] /\ doing'[u] = doing[u] /\ turn'[u] = turn[u]
    BY <1>0, <2>3, <2>7 DEF FilesInv, Tidy, FilesTypeOK
  <2>8. ASSUME NEW u \in TurnIds PROVE User(u)'
    <3>1. CASE u = t
      <4>1. \A h \in Loads, r \in Sessions : pool'[h][r] = p /\ p # Nothing => h = g0 /\ r = s0
        BY <2>1, <2>2 DEF Executors
      <4> QED BY <1>0, <1>a, <2>1, <2>6, <3>1, <4>1, NothingApart DEF User, Held, LoadOf
    <3>2. CASE u # t
      <4>1. doing[u] # "idle" => registry'[LoadOf(u)] \in Sessions
        BY <1>0, AtTools DEF FilesInv
      <4> QED BY <2>2, <2>7, <3>2, <4>1, OthersGoOn DEF FilesInv
    <3> QED BY <3>1, <3>2
  <2>9. ASSUME NEW s \in Sessions, s \notin exposed' PROVE Kept(s)'
    <3>1. s \notin exposed /\ Kept(s)
      BY <2>2, <2>9 DEF FilesInv
    <3>2. CASE s # s0
      <4>1. Untouched(s)
        BY <1>0, <1>a, <2>2, <2>6, <2>7, <3>2 DEF Untouched, files
      <4> QED BY <3>1, <4>1, StaysKept DEF FilesInv
    <3>3. CASE s = s0
      <4>1. Calling(s) = {t}
        BY <1>a, <3>1, <3>3 DEF Calling, Kept, Alone
      <4>2. Calling(s)' = {t}
        BY <2>6, <2>7, <3>3, <4>1 DEF Calling
      <4>3. \A h \in Loads : sweep'[h].session # s /\ (pool'[h][s] # Nothing => h = g0) /\ LoadOf(t)' = g0
        <5>1. \A h \in Loads : sweep[h].session # s /\ (pool[h][s] # Nothing => h = g0)
          BY <1>a, <3>1, <4>1 DEF Kept, Alone
        <5>2. LoadOf(t)' = g0
          BY <1>0, <1>a DEF LoadOf
        <5> QED BY <1>0, <2>2, <3>3, <5>1, <5>2
      <4>4. store[s] = latest[s] /\ store'[s] = latest'[s] /\ latest'[s] = latest[s]
        BY <1>0, <3>1, <4>1 DEF Kept, InCall, files
      <4>5. Alone(s)' /\ InSweep(s)' /\ AtRest(s)'
        BY <4>2, <4>3, <4>4 DEF Alone, InSweep, AtRest
      <4>6. boxOf'[p] \in running' => disk'[boxOf'[p]] = latest[s]
        <5>1. CASE SameBox(s0) /\ pool[g0][s0] # Nothing
          BY <1>0, <2>1, <3>1, <3>3, <4>1, <5>1 DEF SameBox, Kept, InBox, Running
        <5> QED BY <2>1, <2>9, <3>3, <4>4, <5>1
      <4>7. InBox(s)'
        BY <2>1, <3>3, <4>3, <4>4, <4>6 DEF InBox, Running
      <4>8. InCall(s)'
        BY <2>1, <2>6, <3>3, <4>2, <4>3, <4>4 DEF InCall
      <4> QED BY <4>4, <4>5, <4>7, <4>8 DEF Kept
    <3> QED BY <3>2, <3>3
  <2> QED BY <2>2, <2>4, <2>5, <2>8, <2>9 DEF FilesInv, Tidy
<1> QED BY <1>a, <1>1, <1>2 DEF GetExecutor

\* What a call that has its executor knows of the file of its session.
CallKept(t) ==
  LET s == call[t].scope IN
  /\ doing[t] \in {"run", "rehydrate", "rerun"} => store[s] = latest[s]
  /\ Running(BoxAt(t)) => disk[BoxAt(t)] = IF doing[t] = "rehydrate" THEN Nothing ELSE latest[s]
  /\ doing[t] = "put" => \/ call[t].seen = latest[s]
                         \/ call[t].seen = Nothing /\ store[s] = latest[s]
  /\ latest[s] = Nothing => store[s] = Nothing

LEMMA CallIsKept ==
  ASSUME FilesInv, NEW t \in TurnIds, Held(t), call[t].scope \notin exposed PROVE CallKept(t)
<1>1. call[t].scope \in Sessions /\ LoadOf(t) \in Loads /\ call[t].ex \in Boxes
  BY OwnBox DEF FilesInv
<1>2. PICK s \in Sessions : s = call[t].scope /\ Kept(s)
  BY <1>1 DEF FilesInv
<1>3. t \in Calling(s) /\ \A u \in Calling(s) : u = t
  BY <1>2 DEF Calling, Kept, Alone
<1>4. call[t].ex = pool[LoadOf(t)][s] /\ call[t].ex # Nothing
  <2>1. call[t].ex = pool[LoadOf(t)][s]
    BY <1>2, <1>3 DEF Kept, InCall
  <2> QED BY <1>1, <2>1, NothingApart DEF Boxes
<1>5. doing[t] \in {"run", "rehydrate", "rerun"} => store[s] = latest[s]
  BY <1>2, <1>3 DEF Kept, InCall
<1>6. doing[t] = "rehydrate" /\ Running(BoxAt(t)) => disk[BoxAt(t)] = Nothing
  BY <1>2, <1>3 DEF Kept, InCall
<1>7. doing[t] # "rehydrate" /\ Running(BoxAt(t)) => disk[BoxAt(t)] = latest[s]
  BY <1>1, <1>2, <1>3, <1>4 DEF Kept, InBox, BoxAt
<1>8. doing[t] = "put" => \/ call[t].seen = latest[s]
                          \/ call[t].seen = Nothing /\ store[s] = latest[s]
  BY <1>2, <1>3 DEF Kept, InCall
<1>9. latest[s] = Nothing => store[s] = Nothing
  BY <1>2 DEF Kept
<1> QED BY <1>2, <1>5, <1>6, <1>7, <1>8, <1>9 DEF CallKept

\* A step of a call that keeps its executor: what is left to show of it.
LEMMA CallGoesOn ==
  ASSUME FilesInv, NEW t \in TurnIds, FilesTypeOK', Executors', Held(t), Held(t)',
         call'[t].scope = call[t].scope, call'[t].ex = call[t].ex,
         UNCHANGED <<registry, turn, sweep, pool>>, boxes <= boxes',
         \A e \in 1..boxes : boxOf[e] # Nothing => boxOf'[e] # Nothing,
         \A u \in TurnIds : u # t => call'[u] = call[u] /\ doing'[u] = doing[u],
         exposed \subseteq exposed',
         \A s \in Sessions : s # call[t].scope => SameBox(s) /\ store'[s] = store[s] /\ latest'[s] = latest[s],
         call[t].scope \notin exposed' => CallKept(t)'
  PROVE  FilesInv'
<1>1. call[t].scope \in Sessions /\ LoadOf(t) \in Loads /\ call[t].ex \in Boxes
  BY OwnBox DEF FilesInv
<1>2. User(t) /\ call[t].ex \in 1..boxes /\ boxes \in Nat /\ boxes' \in Nat /\ call[t].ex # Nothing
  BY NothingApart DEF FilesInv, Tidy, User, FilesTypeOK
<1>3. Sweepers'
  BY DEF Sweepers, FilesInv, Tidy
<1>4. ASSUME NEW u \in TurnIds PROVE User(u)'
  <2>1. CASE u = t
    <3>1. call'[t].ex \in 1..boxes' /\ boxOf'[call'[t].ex] # Nothing
      BY <1>2 DEF User
    <3> QED BY <1>2, <2>1, <3>1 DEF User, Held, LoadOf
  <2>2. CASE u # t
    <3>1. doing[u] # "idle" => registry'[LoadOf(u)] \in Sessions
      BY AtTools DEF FilesInv
    <3>2. \A g \in Loads, s \in Sessions : pool'[g][s] \in {pool[g][s], Nothing, boxes + 1}
      OBVIOUS
    <3> QED BY <1>2, <2>2, <3>1, <3>2, OthersGoOn DEF FilesInv
  <2> QED BY <2>1, <2>2
<1>5. ASSUME NEW s \in Sessions, s \notin exposed' PROVE Kept(s)'
  <2>1. s \notin exposed /\ Kept(s)
    BY <1>5 DEF FilesInv
  <2>2. CASE s # call[t].scope
    <3>1. \A u \in TurnIds : \/ call[u].scope # s /\ call'[u].scope # s
                             \/ call'[u] = call[u] /\ doing'[u] = doing[u] /\ turn'[u] = turn[u]
      BY <2>2
    <3>2. Untouched(s)
      BY <2>2, <3>1 DEF Untouched
    <3> QED BY <2>1, <3>2, StaysKept DEF FilesInv
  <2>3. CASE s = call[t].scope
    <3>1. Calling(s) = {t} /\ Calling(s)' = {t}
      <4>1. t \in Calling(s) /\ \A u \in Calling(s) : u = t
        BY <2>1, <2>3 DEF Calling, Kept, Alone
      <4>2. t \in Calling(s)'
        BY <2>3 DEF Calling
      <4>3. \A u \in TurnIds : u # t => ~(call'[u].scope = s)
        BY <2>3, <4>1 DEF Calling
      <4>4. Calling(s) = {t}
        BY <4>1 DEF Calling
      <4> QED BY <4>2, <4>3, <4>4 DEF Calling
    <3>2. Alone(s)' /\ AtRest(s)'
      BY <2>1, <3>1 DEF Kept, Alone, AtRest, LoadOf
    <3>3. InSweep(s)'
      BY <2>1, <3>1 DEF Kept, Alone, InSweep
    <3>4. /\ doing'[t] \in {"run", "rehydrate", "rerun"} => store'[s] = latest'[s]
          /\ boxOf'[call'[t].ex] \in running' =>
               disk'[boxOf'[call'[t].ex]] = IF doing'[t] = "rehydrate" THEN Nothing ELSE latest'[s]
          /\ doing'[t] = "put" => \/ call'[t].seen = latest'[s]
                                  \/ call'[t].seen = Nothing /\ store'[s] = latest'[s]
          /\ latest'[s] = Nothing => store'[s] = Nothing
      BY <1>5, <2>3 DEF CallKept, Running, BoxAt
    <3>5. call[t].ex = pool[LoadOf(t)][s] /\ \A h \in Loads : pool[h][s] # Nothing => h = LoadOf(t)
      BY <2>1, <3>1 DEF Kept, InCall, Alone
    <3>6. InBox(s)'
      BY <3>1, <3>4, <3>5 DEF InBox, Running
    <3>7. InCall(s)'
      BY <3>1, <3>4, <3>5 DEF InCall, Running, BoxAt, LoadOf, Held
    <3> QED BY <3>2, <3>3, <3>4, <3>6, <3>7 DEF Kept
  <2> QED BY <2>2, <2>3
<1> QED BY <1>3, <1>4, <1>5 DEF FilesInv, Tidy

-----------------------------------------------------------------------------
\* The command of a call, in a box that runs: the file of the box is the last.
LEMMA CommandKeeps ==
  ASSUME FilesInv, NEW t \in TurnIds, Held(t), Running(BoxAt(t)), Command(t, BoxAt(t)),
         UNCHANGED <<running, boxOf, pool>>
  PROVE  /\ disk' \in [Boxes -> Version \cup {Nothing}] /\ writes' \in 0..MaxWrites
         /\ latest' \in [Sessions -> Version \cup {Nothing}] /\ store' = store
         /\ \A s \in Sessions : s # call[t].scope => SameBox(s) /\ latest'[s] = latest[s]
         /\ call[t].scope \notin exposed /\ doing[t] # "rehydrate" => disk'[BoxAt(t)] = latest'[call[t].scope]
         /\ latest'[call[t].scope] \in {latest[call[t].scope]} \cup Version
<1>1. /\ call[t].scope \in Sessions /\ BoxAt(t) \in Boxes
      /\ \A g \in Loads, s \in Sessions : pool[g][s] # Nothing /\ boxOf[pool[g][s]] = BoxAt(t) => s = call[t].scope
  BY OwnBox DEF FilesInv
<1>2. call[t].scope \notin exposed /\ doing[t] # "rehydrate" => disk[BoxAt(t)] = latest[call[t].scope]
  BY CallIsKept DEF CallKept
<1>3. CASE UNCHANGED <<disk, files>>
  <2>1. \A s \in Sessions : SameBox(s)
    BY <1>3 DEF SameBox
  <2> QED BY <1>2, <1>3, <2>1 DEF files, FilesInv, Tidy, FilesTypeOK
<1>4. CASE \E v \in Version :
             /\ New(v)
             /\ disk' = [disk EXCEPT ![BoxAt(t)] = v] /\ latest' = [latest EXCEPT ![call[t].scope] = v]
             /\ UNCHANGED store
  <2>1. PICK v \in Version :
          /\ New(v)
          /\ disk' = [disk EXCEPT ![BoxAt(t)] = v] /\ latest' = [latest EXCEPT ![call[t].scope] = v]
          /\ UNCHANGED store
    BY <1>4
  <2>2. writes' \in 0..MaxWrites
    BY <2>1, NewVersion DEF FilesInv, Tidy
  <2>3. disk \in [Boxes -> Version \cup {Nothing}] /\ latest \in [Sessions -> Version \cup {Nothing}]
        /\ boxOf \in [Boxes -> Boxes \cup {Nothing}]
    BY DEF FilesInv, Tidy, FilesTypeOK
  <2>4. \A s \in Sessions : s # call[t].scope => SameBox(s) /\ latest'[s] = latest[s]
    <3> SUFFICES ASSUME NEW s \in Sessions, s # call[t].scope PROVE SameBox(s) /\ latest'[s] = latest[s]
      OBVIOUS
    <3>1. latest'[s] = latest[s]
      BY <2>1, <2>3
    <3>2. ASSUME NEW g \in Loads, pool[g][s] # Nothing
          PROVE  disk'[boxOf[pool[g][s]]] = disk[boxOf[pool[g][s]]]
      <4>1. boxOf[pool[g][s]] # BoxAt(t)
        BY <1>1, <3>2
      <4> QED BY <2>1, <2>3, <4>1
    <3> QED BY <3>1, <3>2 DEF SameBox
  <2>5. disk'[BoxAt(t)] = v /\ latest'[call[t].scope] = v
    BY <1>1, <2>1, <2>3
  <2>6. disk' \in [Boxes -> Version \cup {Nothing}] /\ latest' \in [Sessions -> Version \cup {Nothing}]
    BY <2>1, <2>3
  <2> QED BY <2>1, <2>2, <2>4, <2>5, <2>6
<1> QED BY <1>3, <1>4 DEF Command

LEMMA RunKeeps == ASSUME FilesInv, NEW t \in TurnIds, Run(t) PROVE FilesInv'
<1>0. /\ doing[t] = "run" /\ Held(t)
      /\ UNCHANGED <<space, running, boxOf, pool, boxes, registry, turn, call, idle, sweep, exposed>>
  BY DEF Run, Held
<1>a. /\ Held(t) /\ UNCHANGED <<registry, turn, sweep, pool>> /\ boxes <= boxes' /\ exposed \subseteq exposed'
      /\ call'[t].scope = call[t].scope /\ call'[t].ex = call[t].ex
      /\ \A e \in 1..boxes : boxOf[e] # Nothing => boxOf'[e] # Nothing
  BY <1>0 DEF FilesInv, Tidy, FilesTypeOK
<1>1. PICK next \in {"sync", "recreate"} : Do(t, next)
  BY DEF Run
<1>2. doing' = [doing EXCEPT ![t] = next] /\ doing'[t] = next /\ Held(t)'
  BY <1>1 DEF Do, Held, FilesInv, Tidy, FilesTypeOK
<1>3. \A u \in TurnIds : u # t => call'[u] = call[u] /\ doing'[u] = doing[u]
  BY <1>0, <1>2 DEF FilesInv, Tidy, FilesTypeOK
<1>4. outages' \in 0..MaxOutages
  BY SandboxAssumption DEF Run, MayGoWrong, FilesInv, Tidy, FilesTypeOK
<1>5. Executors'
  BY <1>0, SameExecutors DEF FilesInv, Tidy
<1>6. CallKept(t) \/ call[t].scope \in exposed
  BY <1>0, CallIsKept
<1>7. BoxAt(t)' = BoxAt(t)
  BY <1>0 DEF BoxAt
<1>8. CASE Running(BoxAt(t))
  <2>1. Command(t, BoxAt(t))
    BY <1>8 DEF Run
  <2>2. /\ disk' \in [Boxes -> Version \cup {Nothing}] /\ writes' \in 0..MaxWrites
        /\ latest' \in [Sessions -> Version \cup {Nothing}] /\ store' = store
        /\ \A s \in Sessions : s # call[t].scope => SameBox(s) /\ latest'[s] = latest[s]
        /\ call[t].scope \notin exposed /\ doing[t] # "rehydrate" => disk'[BoxAt(t)] = latest'[call[t].scope]
        /\ latest'[call[t].scope] \in {latest[call[t].scope]} \cup Version
    BY <1>0, <1>8, <2>1, CommandKeeps
  <2>3. FilesTypeOK'
    BY <1>0, <1>2, <1>4, <2>2 DEF FilesInv, Tidy, FilesTypeOK
  <2>4. call[t].scope \notin exposed' => CallKept(t)'
    BY <1>0, <1>2, <1>6, <1>7, <2>2, NothingApart DEF CallKept
  <2>5. \A s \in Sessions : s # call[t].scope => SameBox(s) /\ store'[s] = store[s] /\ latest'[s] = latest[s]
    BY <2>2
  <2> QED BY <1>a, <1>2, <1>3, <1>5, <2>3, <2>4, <2>5, CallGoesOn
<1>9. CASE ~Running(BoxAt(t))
  <2>1. UNCHANGED <<disk, files, outages>>
    BY <1>9 DEF Run
  <2>2. FilesTypeOK'
    BY <1>0, <1>2, <1>4, <2>1 DEF FilesInv, Tidy, FilesTypeOK, files
  <2>3. \A s \in Sessions : SameBox(s) /\ store'[s] = store[s] /\ latest'[s] = latest[s]
    BY <1>0, <2>1 DEF SameBox, files
  <2>4. call[t].scope \notin exposed' => CallKept(t)'
    BY <1>0, <1>2, <1>6, <1>7, <1>9, <2>1 DEF CallKept, Running, files
  <2> QED BY <1>a, <1>2, <1>3, <1>5, <2>2, <2>4, <2>3, CallGoesOn
<1> QED BY <1>8, <1>9

LEMMA RerunKeeps == ASSUME FilesInv, NEW t \in TurnIds, Rerun(t) PROVE FilesInv'
<1>0. /\ doing[t] = "rerun" /\ Held(t)
      /\ UNCHANGED <<space, running, boxOf, pool, boxes, registry, turn, call, idle, sweep, outages, exposed>>
  BY DEF Rerun, Held
<1>a. /\ Held(t) /\ UNCHANGED <<registry, turn, sweep, pool>> /\ boxes <= boxes' /\ exposed \subseteq exposed'
      /\ call'[t].scope = call[t].scope /\ call'[t].ex = call[t].ex
      /\ \A e \in 1..boxes : boxOf[e] # Nothing => boxOf'[e] # Nothing
  BY <1>0 DEF FilesInv, Tidy, FilesTypeOK
<1>1. doing' = [doing EXCEPT ![t] = "sync"] /\ doing'[t] = "sync" /\ Held(t)'
  BY DEF Rerun, Do, Held, FilesInv, Tidy, FilesTypeOK
<1>2. \A u \in TurnIds : u # t => call'[u] = call[u] /\ doing'[u] = doing[u]
  BY <1>0, <1>1 DEF FilesInv, Tidy, FilesTypeOK
<1>3. Executors'
  BY <1>0, SameExecutors DEF FilesInv, Tidy
<1>4. CallKept(t) \/ call[t].scope \in exposed
  BY <1>0, CallIsKept
<1>5. BoxAt(t)' = BoxAt(t)
  BY <1>0 DEF BoxAt
<1>6. CASE Running(BoxAt(t))
  <2>1. Command(t, BoxAt(t))
    BY <1>6 DEF Rerun
  <2>2. /\ disk' \in [Boxes -> Version \cup {Nothing}] /\ writes' \in 0..MaxWrites
        /\ latest' \in [Sessions -> Version \cup {Nothing}] /\ store' = store
        /\ \A s \in Sessions : s # call[t].scope => SameBox(s) /\ latest'[s] = latest[s]
        /\ call[t].scope \notin exposed /\ doing[t] # "rehydrate" => disk'[BoxAt(t)] = latest'[call[t].scope]
        /\ latest'[call[t].scope] \in {latest[call[t].scope]} \cup Version
    BY <1>0, <1>6, <2>1, CommandKeeps
  <2>3. FilesTypeOK'
    BY <1>0, <1>1, <2>2 DEF FilesInv, Tidy, FilesTypeOK
  <2>4. call[t].scope \notin exposed' => CallKept(t)'
    BY <1>0, <1>1, <1>4, <1>5, <2>2, NothingApart DEF CallKept
  <2>5. \A s \in Sessions : s # call[t].scope => SameBox(s) /\ store'[s] = store[s] /\ latest'[s] = latest[s]
    BY <2>2
  <2> QED BY <1>a, <1>1, <1>2, <1>3, <2>3, <2>4, <2>5, CallGoesOn
<1>7. CASE ~Running(BoxAt(t))
  <2>1. UNCHANGED <<disk, files>>
    BY <1>7 DEF Rerun
  <2>2. FilesTypeOK'
    BY <1>0, <1>1, <2>1 DEF FilesInv, Tidy, FilesTypeOK, files
  <2>3. \A s \in Sessions : SameBox(s) /\ store'[s] = store[s] /\ latest'[s] = latest[s]
    BY <1>0, <2>1 DEF SameBox, files
  <2>4. call[t].scope \notin exposed' => CallKept(t)'
    BY <1>0, <1>1, <1>4, <1>5, <1>7, <2>1 DEF CallKept, Running, files
  <2> QED BY <1>a, <1>1, <1>2, <1>3, <2>2, <2>4, <2>3, CallGoesOn
<1> QED BY <1>6, <1>7

LEMMA RecreateKeeps == ASSUME FilesInv, NEW t \in TurnIds, Recreate(t) PROVE FilesInv'
<1>0. doing[t] = "recreate" /\ Held(t) /\ UNCHANGED <<space, files, pool, registry, turn, call, idle, sweep>>
  BY DEF Recreate, Held
<1>1. /\ call[t].scope \in Sessions /\ LoadOf(t) \in Loads /\ call[t].ex \in Boxes /\ BoxAt(t) \in Boxes
      /\ boxes \in Nat /\ call[t].ex <= boxes /\ boxOf \in [Boxes -> Boxes \cup {Nothing}]
  BY <1>0, OwnBox DEF FilesInv, Tidy, FilesTypeOK, User
<1>2. PICK next \in {"rehydrate", "sync"} : Do(t, next)
  BY DEF Recreate
<1>3. doing' = [doing EXCEPT ![t] = next] /\ doing'[t] = next /\ Held(t)'
  BY <1>2 DEF Do, Held, FilesInv, Tidy, FilesTypeOK
<1>4. \A u \in TurnIds : u # t => call'[u] = call[u] /\ doing'[u] = doing[u]
  BY <1>0, <1>3 DEF FilesInv, Tidy, FilesTypeOK
<1>5. /\ UNCHANGED <<registry, turn, sweep, pool>>
      /\ call'[t].scope = call[t].scope /\ call'[t].ex = call[t].ex
  BY <1>0
<1>6. CallKept(t) \/ call[t].scope \in exposed
  BY <1>0, CallIsKept
<1>7. CASE /\ boxes < MaxBoxes /\ boxes' = boxes + 1 /\ running' = running \cup {boxes + 1}
           /\ disk' = [disk EXCEPT ![boxes + 1] = Nothing]
           /\ boxOf' = [boxOf EXCEPT ![call[t].ex] = boxes + 1]
           /\ exposed' = IF latest[call[t].scope] # store[call[t].scope] THEN exposed \cup {call[t].scope} ELSE exposed
           /\ Do(t, "rehydrate") /\ UNCHANGED outages
  <2>1. boxes + 1 \in Boxes /\ boxes' \in 0..MaxBoxes /\ boxes + 1 # Nothing
    BY <1>1, <1>7, SandboxAssumption DEF Boxes
  <2>2. FilesTypeOK'
    BY <1>0, <1>1, <1>3, <1>7, <2>1 DEF FilesInv, Tidy, FilesTypeOK, files
  <2>3. \A e \in Boxes : /\ boxOf'[e] = IF e = call[t].ex THEN boxes + 1 ELSE boxOf[e]
                         /\ boxOf[e] # Nothing => e <= boxes /\ boxOf[e] <= boxes /\ boxOf[e] \in Boxes
    BY <1>1, <1>7 DEF FilesInv, Tidy, Executors
  <2>4. \A e \in Boxes : e <= boxes => e # boxes + 1
    BY <1>1 DEF Boxes
  <2>5. Executors'
    <3>1. \A e \in Boxes : boxOf'[e] # Nothing => e <= boxes' /\ boxOf'[e] <= boxes'
      BY <1>1, <1>7, <2>3 DEF Boxes
    <3>2. \A e, f \in Boxes : boxOf'[e] = boxOf'[f] /\ boxOf'[e] # Nothing => e = f
      BY <2>1, <2>3, <2>4 DEF FilesInv, Tidy, Executors
    <3>3. ASSUME NEW g \in Loads, NEW s \in Sessions, pool'[g][s] # Nothing
          PROVE  /\ pool'[g][s] <= boxes' /\ boxOf'[pool'[g][s]] # Nothing
                 /\ \A h \in Loads, r \in Sessions : pool'[h][r] = pool'[g][s] => h = g /\ r = s
      <4>1. pool[g][s] \in Boxes /\ pool[g][s] <= boxes /\ boxOf[pool[g][s]] # Nothing
        BY <1>0, <3>3 DEF FilesInv, Tidy, FilesTypeOK, Executors
      <4>2. pool[g][s] <= boxes'
        BY <1>1, <1>7, <4>1 DEF Boxes
      <4>3. boxOf'[pool[g][s]] # Nothing
        BY <2>1, <2>3, <4>1
      <4> QED BY <1>0, <3>3, <4>2, <4>3 DEF FilesInv, Tidy, Executors
    <3> QED BY <3>1, <3>2, <3>3 DEF Executors
  <2>6. boxes <= boxes' /\ exposed \subseteq exposed' /\ \A e \in 1..boxes : boxOf[e] # Nothing => boxOf'[e] # Nothing
    <3>1. \A e \in 1..boxes : e \in Boxes
      BY <1>1, SandboxAssumption DEF Boxes, FilesInv, Tidy, FilesTypeOK
    <3> QED BY <1>1, <1>7, <2>1, <2>3, <3>1
  <2>7. \A s \in Sessions : s # call[t].scope => SameBox(s) /\ store'[s] = store[s] /\ latest'[s] = latest[s]
    <3> SUFFICES ASSUME NEW s \in Sessions, s # call[t].scope PROVE SameBox(s)
      BY <1>0 DEF files
    <3> SUFFICES ASSUME NEW g \in Loads, pool[g][s] # Nothing
                 PROVE  /\ boxOf'[pool[g][s]] = boxOf[pool[g][s]]
                        /\ boxOf[pool[g][s]] \in running' =>
                             boxOf[pool[g][s]] \in running /\ disk'[boxOf[pool[g][s]]] = disk[boxOf[pool[g][s]]]
      BY <1>0 DEF SameBox
    <3>1. pool[g][s] \in Boxes /\ boxOf[pool[g][s]] # Nothing /\ pool[g][s] # call[t].ex
      BY DEF FilesInv, Tidy, FilesTypeOK, Executors, User
    <3>2. boxOf'[pool[g][s]] = boxOf[pool[g][s]] /\ boxOf[pool[g][s]] # boxes + 1
      BY <2>3, <2>4, <3>1
    <3> QED BY <1>7, <2>3, <3>1, <3>2 DEF FilesInv, Tidy, FilesTypeOK
  <2>8. call[t].scope \notin exposed' => CallKept(t)'
    <3>1. BoxAt(t)' = boxes + 1 /\ doing'[t] = "rehydrate"
      BY <1>0, <1>1, <1>3, <1>7, <2>3 DEF BoxAt, Do, FilesInv, Tidy, FilesTypeOK
    <3>2. disk'[boxes + 1] = Nothing
      BY <1>7, <2>1 DEF FilesInv, Tidy, FilesTypeOK
    <3> QED BY <1>0, <1>6, <1>7, <3>1, <3>2 DEF CallKept, files
  <2> QED BY <1>0, <1>3, <1>4, <1>5, <2>2, <2>5, <2>6, <2>7, <2>8, CallGoesOn
<1>8. CASE /\ MayGoWrong /\ outages' = outages + 1
           /\ exposed' = exposed \cup {call[t].scope}
           /\ Do(t, "sync") /\ UNCHANGED <<running, disk, boxOf, boxes>>
  <2>1. outages' \in 0..MaxOutages
    BY <1>8, SandboxAssumption DEF MayGoWrong, FilesInv, Tidy, FilesTypeOK
  <2>2. FilesTypeOK'
    BY <1>0, <1>1, <1>3, <1>8, <2>1 DEF FilesInv, Tidy, FilesTypeOK, files
  <2>3. Executors'
    BY <1>0, <1>8, SameExecutors DEF FilesInv, Tidy
  <2>4. \A s \in Sessions : SameBox(s) /\ store'[s] = store[s] /\ latest'[s] = latest[s]
    BY <1>0, <1>8 DEF SameBox, files
  <2>5. /\ boxes <= boxes' /\ exposed \subseteq exposed' /\ call[t].scope \in exposed'
        /\ \A e \in 1..boxes : boxOf[e] # Nothing => boxOf'[e] # Nothing
    BY <1>1, <1>8
  <2> QED BY <1>0, <1>3, <1>4, <1>5, <2>2, <2>3, <2>4, <2>5, CallGoesOn
<1> QED BY <1>7, <1>8 DEF Recreate

LEMMA RehydrateKeeps == ASSUME FilesInv, NEW t \in TurnIds, Rehydrate(t) PROVE FilesInv'
<1>0. /\ doing[t] = "rehydrate" /\ Held(t)
      /\ UNCHANGED <<space, running, boxOf, pool, boxes, files, registry, turn, call, idle, sweep>>
  BY DEF Rehydrate, Held
<1>1. /\ call[t].scope \in Sessions /\ BoxAt(t) \in Boxes /\ disk \in [Boxes -> Version \cup {Nothing}]
      /\ \A g \in Loads, s \in Sessions : pool[g][s] # Nothing /\ boxOf[pool[g][s]] = BoxAt(t) => s = call[t].scope
  BY <1>0, OwnBox DEF FilesInv, Tidy, FilesTypeOK
<1>2. store[call[t].scope] \in Version \cup {Nothing}
  BY <1>1 DEF FilesInv, Tidy, FilesTypeOK
<1>3. doing' = [doing EXCEPT ![t] = "rerun"] /\ doing'[t] = "rerun" /\ Held(t)'
  BY DEF Rehydrate, Do, Held, FilesInv, Tidy, FilesTypeOK
<1>4. \A u \in TurnIds : u # t => call'[u] = call[u] /\ doing'[u] = doing[u]
  BY <1>0, <1>3 DEF FilesInv, Tidy, FilesTypeOK
<1>5. /\ disk' \in [Boxes -> Version \cup {Nothing}] /\ outages' \in 0..MaxOutages
      /\ exposed' \in {exposed, exposed \cup {call[t].scope}}
      /\ \A b \in Boxes : b # BoxAt(t) => disk'[b] = disk[b]
      /\ Running(BoxAt(t)) => \/ call[t].scope \in exposed'
                              \/ disk'[BoxAt(t)] = IF store[call[t].scope] = Nothing THEN disk[BoxAt(t)]
                                                   ELSE store[call[t].scope]
  <2>1. CASE /\ Running(BoxAt(t)) /\ UNCHANGED <<outages, exposed>>
             /\ disk' = [disk EXCEPT ![BoxAt(t)] = IF Restored(call[t].scope) = Nothing THEN @ ELSE Restored(call[t].scope)]
    <3>1. outages' \in 0..MaxOutages /\ exposed' = exposed
      BY <2>1 DEF FilesInv, Tidy, FilesTypeOK
    <3> QED BY <1>1, <1>2, <2>1, <3>1 DEF Restored
  <2>2. CASE /\ MayGoWrong /\ outages' = outages + 1
             /\ exposed' = exposed \cup {call[t].scope} /\ UNCHANGED disk
    <3>1. outages' \in 0..MaxOutages
      BY <2>2, SandboxAssumption DEF MayGoWrong, FilesInv, Tidy, FilesTypeOK
    <3> QED BY <1>1, <2>2, <3>1
  <2>3. CASE ~Running(BoxAt(t)) /\ UNCHANGED <<disk, outages, exposed>>
    <3>1. outages' \in 0..MaxOutages
      BY <2>3 DEF FilesInv, Tidy, FilesTypeOK
    <3> QED BY <1>1, <2>3, <3>1
  <2> QED BY <2>1, <2>2, <2>3 DEF Rehydrate
<1>6. FilesTypeOK'
  BY <1>0, <1>1, <1>3, <1>5 DEF FilesInv, Tidy, FilesTypeOK, files
<1>7. Executors'
  BY <1>0, SameExecutors DEF FilesInv, Tidy
<1>8. \A s \in Sessions : s # call[t].scope => SameBox(s) /\ store'[s] = store[s] /\ latest'[s] = latest[s]
  <2> SUFFICES ASSUME NEW s \in Sessions, s # call[t].scope PROVE SameBox(s)
    BY <1>0 DEF files
  <2>1. ASSUME NEW g \in Loads, pool[g][s] # Nothing PROVE disk'[boxOf[pool[g][s]]] = disk[boxOf[pool[g][s]]]
    <3>1. boxOf[pool[g][s]] # BoxAt(t) /\ boxOf[pool[g][s]] \in Boxes
      BY <1>1, <2>1 DEF FilesInv, Tidy, FilesTypeOK, Executors
    <3> QED BY <1>5, <3>1
  <2> QED BY <1>0, <2>1 DEF SameBox
<1>9. call[t].scope \notin exposed' => CallKept(t)'
  <2>1. BoxAt(t)' = BoxAt(t)
    BY <1>0 DEF BoxAt
  <2>2. call[t].scope \notin exposed' => CallKept(t)
    BY <1>0, <1>5, CallIsKept
  <2> QED BY <1>0, <1>3, <1>5, <2>1, <2>2 DEF CallKept, Running, files
<1>a. /\ UNCHANGED <<registry, turn, sweep, pool>> /\ boxes <= boxes' /\ exposed \subseteq exposed'
      /\ call'[t].scope = call[t].scope /\ call'[t].ex = call[t].ex
      /\ \A e \in 1..boxes : boxOf[e] # Nothing => boxOf'[e] # Nothing
  BY <1>0, <1>5 DEF FilesInv, Tidy, FilesTypeOK
<1> QED BY <1>0, <1>3, <1>4, <1>6, <1>7, <1>8, <1>9, <1>a, CallGoesOn

LEMMA SnapshotKeeps == ASSUME FilesInv, NEW t \in TurnIds, TakeSnapshot(t) PROVE FilesInv'
<1>0. /\ doing[t] = "sync" /\ Held(t)
      /\ UNCHANGED <<space, boxing, files, registry, turn, idle, sweep, outages>>
      /\ call' = [call EXCEPT ![t].seen = Seen(call[t].ex)]
      /\ exposed' = IF ~Running(BoxAt(t)) /\ latest[call[t].scope] # store[call[t].scope]
                    THEN exposed \cup {call[t].scope} ELSE exposed
  BY DEF TakeSnapshot, Held, Lost, BoxAt
<1>1. /\ call[t].scope \in Sessions /\ BoxAt(t) \in Boxes /\ disk \in [Boxes -> Version \cup {Nothing}]
  BY <1>0, OwnBox DEF FilesInv, Tidy, FilesTypeOK
<1>2. Seen(call[t].ex) \in Version \cup {Nothing}
  BY <1>1 DEF Seen, BoxAt
<1>3. doing' = [doing EXCEPT ![t] = "put"] /\ doing'[t] = "put" /\ Held(t)'
  BY DEF TakeSnapshot, Do, Held, FilesInv, Tidy, FilesTypeOK
<1>4. \A u \in TurnIds : u # t => call'[u] = call[u] /\ doing'[u] = doing[u]
  BY <1>0, <1>3 DEF FilesInv, Tidy, FilesTypeOK
<1>5. call'[t].scope = call[t].scope /\ call'[t].ex = call[t].ex /\ call'[t].seen = Seen(call[t].ex)
  BY <1>0 DEF FilesInv, Tidy, FilesTypeOK
<1>6. FilesTypeOK'
  <2>1. call' \in [TurnIds -> [scope : Sessions \cup {Nothing}, ex : Boxes \cup {Nothing}, seen : Version \cup {Nothing}]]
    BY <1>0, <1>2 DEF FilesInv, Tidy, FilesTypeOK
  <2>2. exposed' \subseteq Sessions
    BY <1>0, <1>1 DEF FilesInv, Tidy, FilesTypeOK
  <2> QED BY <1>0, <1>3, <2>1, <2>2 DEF FilesInv, Tidy, FilesTypeOK, boxing, files
<1>7. Executors'
  BY <1>0, SameExecutors DEF FilesInv, Tidy, boxing
<1>8. \A s \in Sessions : SameBox(s) /\ store'[s] = store[s] /\ latest'[s] = latest[s]
  BY <1>0 DEF SameBox, boxing, files
<1>9. call[t].scope \notin exposed' => CallKept(t)'
  <2>1. BoxAt(t)' = BoxAt(t)
    BY <1>0, <1>5 DEF BoxAt, boxing
  <2>2. call[t].scope \notin exposed' => CallKept(t)
    BY <1>0, CallIsKept
  <2>3. Seen(call[t].ex) = IF Running(BoxAt(t)) THEN disk[BoxAt(t)] ELSE Nothing
    BY DEF Seen, BoxAt
  <2> QED BY <1>0, <1>1, <1>3, <1>5, <2>1, <2>2, <2>3 DEF CallKept, Running, files, boxing
<1>a. /\ UNCHANGED <<registry, turn, sweep, pool>> /\ boxes <= boxes' /\ exposed \subseteq exposed'
      /\ \A e \in 1..boxes : boxOf[e] # Nothing => boxOf'[e] # Nothing
  BY <1>0 DEF FilesInv, Tidy, FilesTypeOK, boxing
<1>b. Held(t)
  BY <1>0
<1> QED BY <1>3, <1>4, <1>5, <1>6, <1>7, <1>8, <1>9, <1>a, <1>b, CallGoesOn

\* A snapshot of the version written last, or of nothing, when it is stored.
LEMMA PutStores ==
  ASSUME FilesInv, NEW s \in Sessions, NEW v \in Version \cup {Nothing}, Put(s, v)
  PROVE  /\ store' \in [Sessions -> Version \cup {Nothing}] /\ outages' \in 0..MaxOutages
         /\ exposed' \in {exposed, exposed \cup {s}}
         /\ \A r \in Sessions : r # s => store'[r] = store[r]
         /\ s \notin exposed' => store'[s] = IF v = Nothing THEN store[s] ELSE v
<1>1. store \in [Sessions -> Version \cup {Nothing}] /\ outages \in 0..MaxOutages /\ MaxOutages \in Nat
  BY SandboxAssumption DEF FilesInv, Tidy, FilesTypeOK
<1>2. CASE /\ Skipped(s, v)
           /\ exposed' = IF v \notin {Nothing, store[s]} /\ SameSize(s, v) THEN exposed \cup {s} ELSE exposed
           /\ UNCHANGED <<store, outages>>
  BY <1>1, <1>2 DEF Skipped
<1>3. CASE ~Skipped(s, v) /\ store' = [store EXCEPT ![s] = v] /\ UNCHANGED <<outages, exposed>>
  BY <1>1, <1>3 DEF Skipped
<1>4. CASE ~Skipped(s, v) /\ MayGoWrong /\ outages' = outages + 1 /\ exposed' = exposed \cup {s} /\ UNCHANGED store
  <2>1. outages' \in 0..MaxOutages
    BY <1>1, <1>4 DEF MayGoWrong
  <2> QED BY <1>1, <1>4, <2>1
<1> QED BY <1>2, <1>3, <1>4 DEF Put

LEMMA PutBackKeeps == ASSUME FilesInv, NEW t \in TurnIds, PutBack(t) PROVE FilesInv'
<1>0. /\ doing[t] = "put" /\ Held(t) /\ Put(call[t].scope, call[t].seen)
      /\ call' = [call EXCEPT ![t] = NoCall]
      /\ UNCHANGED <<space, boxing, writes, latest, registry, turn, idle, sweep>>
  BY DEF PutBack, Held
<1>1. /\ call[t].scope \in Sessions /\ call[t].seen \in Version \cup {Nothing}
      /\ LoadOf(t) \in Loads /\ registry[LoadOf(t)] \in Sessions
  BY <1>0, OwnBox, AtTools DEF FilesInv, Tidy, FilesTypeOK
<1>2. /\ store' \in [Sessions -> Version \cup {Nothing}] /\ outages' \in 0..MaxOutages
      /\ exposed' \in {exposed, exposed \cup {call[t].scope}}
      /\ \A r \in Sessions : r # call[t].scope => store'[r] = store[r]
      /\ call[t].scope \notin exposed' =>
           store'[call[t].scope] = IF call[t].seen = Nothing THEN store[call[t].scope] ELSE call[t].seen
  BY <1>0, <1>1, PutStores
<1>3. doing' = [doing EXCEPT ![t] = "ready"] /\ doing'[t] = "ready"
  BY DEF PutBack, Do, FilesInv, Tidy, FilesTypeOK
<1>4. ASSUME NEW u \in TurnIds, u # t PROVE call'[u] = call[u] /\ doing'[u] = doing[u] /\ turn'[u] = turn[u]
  BY <1>0, <1>3, <1>4 DEF FilesInv, Tidy, FilesTypeOK
<1>5. call'[t].scope = Nothing /\ call'[t].ex = Nothing
  BY <1>0 DEF NoCall, FilesInv, Tidy, FilesTypeOK
<1>6. FilesTypeOK'
  <2>1. call' \in [TurnIds -> [scope : Sessions \cup {Nothing}, ex : Boxes \cup {Nothing}, seen : Version \cup {Nothing}]]
    BY <1>0 DEF NoCall, FilesInv, Tidy, FilesTypeOK
  <2>2. exposed' \subseteq Sessions
    BY <1>1, <1>2 DEF FilesInv, Tidy, FilesTypeOK
  <2> QED BY <1>0, <1>2, <1>3, <2>1, <2>2 DEF FilesInv, Tidy, FilesTypeOK, boxing
<1>7. Executors' /\ Sweepers'
  BY <1>0, SameExecutors DEF FilesInv, Tidy, Sweepers, boxing
<1>8. ASSUME NEW u \in TurnIds PROVE User(u)'
  <2>1. CASE u = t
    BY <1>0, <1>1, <1>3, <1>5, <2>1, NothingApart DEF User, Held, LoadOf
  <2>2. CASE u # t
    BY <1>0, <1>4, <2>2 DEF FilesInv, Tidy, User, Held, LoadOf, boxing
  <2> QED BY <2>1, <2>2
<1>9. ASSUME NEW s \in Sessions, s \notin exposed' PROVE Kept(s)'
  <2>1. s \notin exposed /\ Kept(s)
    BY <1>2, <1>9 DEF FilesInv
  <2>2. CASE s # call[t].scope
    <3>1. Untouched(s)
      BY <1>0, <1>2, <1>4, <1>5, <2>2, NothingApart DEF Untouched, SameBox, boxing
    <3> QED BY <2>1, <3>1, StaysKept DEF FilesInv
  <2>3. CASE s = call[t].scope
    <3>1. Calling(s) = {t}
      BY <2>1, <2>3 DEF Calling, Kept, Alone
    <3>2. Calling(s)' = {}
      BY <1>4, <1>5, <2>3, <3>1, NothingApart DEF Calling
    <3>3. latest'[s] = latest[s] /\ store'[s] = latest[s]
      <4>1. call[t].seen = latest[s] \/ (call[t].seen = Nothing /\ store[s] = latest[s])
        BY <1>0, <2>1, <3>1 DEF Kept, InCall
      <4>2. latest[s] = Nothing => store[s] = Nothing
        BY <2>1 DEF Kept
      <4> QED BY <1>0, <1>2, <1>9, <2>3, <4>1, <4>2
    <3>4. Alone(s)' /\ InSweep(s)'
      BY <1>0, <2>1, <3>2 DEF Kept, Alone, InSweep, boxing
    <3>5. InBox(s)'
      <4>1. \A u \in Calling(s) : doing[u] # "rehydrate"
        BY <1>0, <3>1
      <4> QED BY <1>0, <2>1, <4>1 DEF Kept, InBox, Running, boxing
    <3> QED BY <3>2, <3>3, <3>4, <3>5 DEF Kept, AtRest, InCall
  <2> QED BY <2>2, <2>3
<1> QED BY <1>6, <1>7, <1>8, <1>9 DEF FilesInv, Tidy

-----------------------------------------------------------------------------
\* The sweeper of a pool.
LEMMA EvictKeeps == ASSUME FilesInv, NEW g \in Loads, NEW s0 \in Sessions, Evict(g, s0) PROVE FilesInv'
<1>0. /\ sweep[g].at = "wait" /\ idle' = [idle EXCEPT ![g][s0] = Nothing]
      /\ sweep' = [sweep EXCEPT ![g] = [at |-> "flush", session |-> s0, seen |-> Nothing]]
      /\ exposed' = IF Meets(g, s0) THEN exposed \cup {s0} ELSE exposed
      /\ UNCHANGED <<space, boxing, files, tools, outages>>
  BY DEF Evict
<1>1. sweep[g].session = Nothing
  BY <1>0 DEF FilesInv, Tidy, Sweepers
<1>2. sweep'[g] = [at |-> "flush", session |-> s0, seen |-> Nothing] /\ \A h \in Loads : h # g => sweep'[h] = sweep[h]
  BY <1>0 DEF FilesInv, Tidy, FilesTypeOK
<1>3. FilesTypeOK'
  <2>1. sweep' \in [Loads -> [at : {"wait", "flush", "put", "release"}, session : Sessions \cup {Nothing},
                              seen : Version \cup {Nothing}]]
    BY <1>0 DEF FilesInv, Tidy, FilesTypeOK
  <2>2. idle' \in [Loads -> [Sessions -> 0..(IdleTTL + 1) \cup {Nothing}]]
    BY <1>0 DEF FilesInv, Tidy, FilesTypeOK
  <2> QED BY <1>0, <2>1, <2>2 DEF FilesInv, Tidy, FilesTypeOK, boxing, files, tools
<1>4. Executors' /\ Sweepers' /\ \A u \in TurnIds : User(u)'
  BY <1>0, <1>2, NothingApart DEF FilesInv, Tidy, Executors, Sweepers, User, Held, LoadOf, boxing, tools
<1>5. ASSUME NEW s \in Sessions, s \notin exposed' PROVE Kept(s)'
  <2>1. s \notin exposed /\ Kept(s)
    BY <1>0, <1>5 DEF FilesInv
  <2>2. CASE s # s0
    <3>1. Untouched(s)
      BY <1>0, <1>1, <1>2, <2>2, NothingApart DEF Untouched, SameBox, boxing, files, tools
    <3> QED BY <2>1, <3>1, StaysKept DEF FilesInv
  <2>3. CASE s = s0
    <3>1. Calling(s) = {} /\ \A h \in Loads : sweep[h].session # s /\ (h # g => pool[h][s] = Nothing)
      BY <1>0, <1>5, <2>3 DEF Meets, AtWork
    <3>2. Calling(s)' = {}
      BY <1>0, <3>1 DEF Calling, tools
    <3>3. \A h \in Loads : h # g => sweep'[h].session # s /\ pool'[h][s] = Nothing
      BY <1>0, <1>2, <3>1 DEF boxing
    <3>4. Alone(s)'
      BY <3>2, <3>3 DEF Alone
    <3>5. InBox(s)'
      BY <1>0, <2>1, <3>1 DEF Kept, InBox, Running, boxing, files
    <3>6. InSweep(s)'
      BY <1>2, <3>3 DEF InSweep
    <3> QED BY <1>0, <2>1, <3>1, <3>2, <3>4, <3>5, <3>6 DEF Kept, AtRest, InCall, files
  <2> QED BY <2>2, <2>3
<1> QED BY <1>3, <1>4, <1>5 DEF FilesInv, Tidy

\* A sweeper goes on with its session, or ends: what is left to show of it.
SweepKept(g, s) ==
  /\ sweep[g].seen \in {Nothing, latest[s]} /\ store[s] = latest[s]
  /\ pool[g][s] # Nothing /\ Running(boxOf[pool[g][s]]) => disk[boxOf[pool[g][s]]] = latest[s]

LEMMA SweepIsKept ==
  ASSUME FilesInv, NEW g \in Loads, NEW s \in Sessions, s \notin exposed, sweep[g].session = s
  PROVE  SweepKept(g, s) /\ Calling(s) = {}
<1>1. Kept(s)
  BY DEF FilesInv
<1>2. Calling(s) = {}
  BY <1>1 DEF Kept, Alone
<1> QED BY <1>1, <1>2 DEF SweepKept, Kept, AtRest, InBox, InSweep

LEMMA SweepGoesOn ==
  ASSUME FilesInv, NEW g \in Loads, NEW s0 \in Sessions, sweep[g].session = s0,
         FilesTypeOK', Executors', Sweepers', UNCHANGED <<tools, latest>>,
         sweep'[g].session \in {s0, Nothing}, \A h \in Loads : h # g => sweep'[h] = sweep[h],
         boxes <= boxes', \A e \in 1..boxes : boxOf[e] # Nothing => boxOf'[e] # Nothing,
         \A h \in Loads, s \in Sessions : pool'[h][s] \in {pool[h][s], Nothing, boxes + 1},
         \A h \in Loads : h # g => pool'[h][s0] = pool[h][s0],
         exposed \subseteq exposed',
         \A s \in Sessions : s # s0 => SameBox(s) /\ store'[s] = store[s],
         s0 \notin exposed' => SweepKept(g, s0)'
  PROVE  FilesInv'
<1>1. ASSUME NEW u \in TurnIds PROVE User(u)'
  <2>1. doing[u] # "idle" => registry'[LoadOf(u)] \in Sessions
    BY AtTools DEF FilesInv, tools
  <2>2. call'[u] = call[u] /\ doing'[u] = doing[u] /\ turn'[u] = turn[u] /\ boxes' \in Nat
    BY DEF tools, FilesTypeOK
  <2> QED BY <2>1, <2>2, OthersGoOn DEF FilesInv
<1>2. ASSUME NEW s \in Sessions, s \notin exposed' PROVE Kept(s)'
  <2>1. s \notin exposed /\ Kept(s)
    BY <1>2 DEF FilesInv
  <2>2. CASE s # s0
    <3>1. \A u \in TurnIds : call'[u] = call[u] /\ doing'[u] = doing[u] /\ turn'[u] = turn[u]
      BY DEF tools
    <3>2. \A h \in Loads : (sweep[h].session # s /\ sweep'[h].session # s) \/ sweep'[h] = sweep[h]
      BY <2>2, NothingApart
    <3>3. Untouched(s)
      BY <2>2, <3>1, <3>2 DEF Untouched
    <3> QED BY <2>1, <3>3, StaysKept DEF FilesInv
  <2>3. CASE s = s0
    <3>1. Calling(s) = {} /\ Calling(s)' = {}
      BY <2>1, <2>3, SweepIsKept DEF Calling, tools
    <3>2. \A h \in Loads : h # g => sweep[h].session # s /\ pool[h][s] = Nothing
      BY <2>1, <2>3 DEF Kept, Alone
    <3>3. \A h \in Loads : h # g => sweep'[h].session # s /\ pool'[h][s] = Nothing
      BY <2>3, <3>2
    <3>4. Alone(s)'
      BY <3>1, <3>3 DEF Alone
    <3>5. /\ sweep'[g].seen \in {Nothing, latest'[s]} /\ store'[s] = latest'[s]
          /\ pool'[g][s] # Nothing /\ boxOf'[pool'[g][s]] \in running' => disk'[boxOf'[pool'[g][s]]] = latest'[s]
      BY <1>2, <2>3 DEF SweepKept, Running
    <3>6. InBox(s)' /\ InSweep(s)'
      BY <3>3, <3>5 DEF InBox, InSweep, Running
    <3> QED BY <3>1, <3>4, <3>5, <3>6 DEF Kept, AtRest, InCall
  <2> QED BY <2>2, <2>3
<1> QED BY <1>1, <1>2 DEF FilesInv, Tidy

LEMMA SweepTyped ==
  ASSUME FilesInv, NEW g \in Loads, sweep[g].at # "wait"
  PROVE  sweep[g].session \in Sessions /\ sweep[g].seen \in Version \cup {Nothing}
<1>1. sweep[g] \in [at : {"wait", "flush", "put", "release"}, session : Sessions \cup {Nothing},
                    seen : Version \cup {Nothing}]
  BY DEF FilesInv, Tidy, FilesTypeOK
<1>2. sweep[g].session # Nothing
  BY DEF FilesInv, Tidy, Sweepers
<1> QED BY <1>1, <1>2

SweepRecord == [at : {"wait", "flush", "put", "release"}, session : Sessions \cup {Nothing},
                seen : Version \cup {Nothing}]

LEMMA SweepStep ==
  ASSUME FilesTypeOK, NEW g \in Loads, NEW at \in {"wait", "flush", "put", "release"}
  PROVE  /\ sweep' = [sweep EXCEPT ![g].at = at] => sweep' \in [Loads -> SweepRecord]
         /\ \A v \in Version \cup {Nothing} :
              sweep' = [sweep EXCEPT ![g].at = at, ![g].seen = v] => sweep' \in [Loads -> SweepRecord]
<1>1. sweep \in [Loads -> SweepRecord]
  BY DEF FilesTypeOK, SweepRecord
<1>2. PICK r \in SweepRecord : r = sweep[g]
  BY <1>1
<1>3. [r EXCEPT !.at = at] \in SweepRecord
  BY DEF SweepRecord
<1>4. ASSUME NEW v \in Version \cup {Nothing} PROVE [[r EXCEPT !.at = at] EXCEPT !.seen = v] \in SweepRecord
  BY DEF SweepRecord
<1>5. ASSUME sweep' = [sweep EXCEPT ![g].at = at] PROVE sweep' \in [Loads -> SweepRecord]
  <2>1. sweep' = [sweep EXCEPT ![g] = [r EXCEPT !.at = at]]
    BY <1>2, <1>5
  <2> QED BY <1>1, <1>3, <2>1
<1>6. ASSUME NEW v \in Version \cup {Nothing}, sweep' = [sweep EXCEPT ![g].at = at, ![g].seen = v]
      PROVE  sweep' \in [Loads -> SweepRecord]
  <2>1. sweep' = [sweep EXCEPT ![g] = [[r EXCEPT !.at = at] EXCEPT !.seen = v]]
    BY <1>1, <1>2, <1>6
  <2> QED BY <1>1, <1>4, <2>1
<1> QED BY <1>5, <1>6

LEMMA FlushKeeps == ASSUME FilesInv, NEW g \in Loads, Flush(g) PROVE FilesInv'
<1>0. sweep[g].at = "flush" /\ UNCHANGED <<space, files, tools, idle>>
  BY DEF Flush
<1>a. PICK s0 \in Sessions : s0 = sweep[g].session
  BY <1>0, SweepTyped
<1>1. CASE /\ GetBox(g, s0)
           /\ sweep' = [sweep EXCEPT ![g].at = "put",
                                     ![g].seen = LET b == boxOf'[Pooled(g, s0)]
                                                 IN IF b \in running' THEN disk'[b] ELSE Nothing]
  <2>1. /\ Executors' /\ BoxTypes' /\ outages' \in 0..MaxOutages /\ exposed' \in {exposed, exposed \cup {s0}}
        /\ boxes' \in Nat /\ boxes <= boxes'
        /\ \A e \in 1..boxes : boxOf'[e] = boxOf[e]
        /\ \A h \in Loads, r \in Sessions : /\ pool'[h][r] \in {pool[h][r], boxes + 1}
                                            /\ (h = g /\ r = s0) \/ pool'[h][r] = pool[h][r]
        /\ \A r \in Sessions : r = s0 \/ SameBox(r)
        /\ \E p \in Boxes :
             /\ p = pool'[g][s0] /\ p \in 1..boxes' /\ boxOf'[p] # Nothing
             /\ \/ SameBox(s0) /\ pool[g][s0] # Nothing
                \/ s0 \in exposed'
                \/ disk'[boxOf'[p]] = store[s0] /\ pool[g][s0] = Nothing
    BY <1>1, GotBox
  <2>2. PICK p \in Boxes :
          /\ p = pool'[g][s0] /\ p \in 1..boxes' /\ boxOf'[p] # Nothing
          /\ \/ SameBox(s0) /\ pool[g][s0] # Nothing
             \/ s0 \in exposed'
             \/ disk'[boxOf'[p]] = store[s0] /\ pool[g][s0] = Nothing
    BY <2>1
  <2>3. PICK v : v = IF boxOf'[p] \in running' THEN disk'[boxOf'[p]] ELSE Nothing
    OBVIOUS
  <2>4. v \in Version \cup {Nothing}
    <3>1. boxOf'[p] \in Boxes /\ disk' \in [Boxes -> Version \cup {Nothing}]
      BY <2>1, <2>2 DEF BoxTypes
    <3> QED BY <2>3, <3>1
  <2>5. sweep' = [sweep EXCEPT ![g].at = "put", ![g].seen = v]
    BY <1>1, <2>2, <2>3 DEF Pooled
  <2>6. /\ sweep'[g].at = "put" /\ sweep'[g].session = s0 /\ sweep'[g].seen = v
        /\ \A h \in Loads : h # g => sweep'[h] = sweep[h]
    BY <1>a, <2>5 DEF FilesInv, Tidy, FilesTypeOK
  <2>7. FilesTypeOK'
    <3>1. sweep' \in [Loads -> SweepRecord]
      BY <2>4, <2>5, SweepStep DEF FilesInv, Tidy
    <3>2. exposed \subseteq Sessions
      BY DEF FilesInv, Tidy, FilesTypeOK
    <3>3. exposed' \subseteq Sessions
      BY <2>1, <3>2
    <3> QED BY <1>0, <2>1, <3>1, <3>3 DEF BoxTypes, SweepRecord, FilesInv, Tidy, FilesTypeOK, files, tools
  <2>8. Sweepers'
    BY <2>6, NothingApart DEF Sweepers, FilesInv, Tidy
  <2>9. s0 \notin exposed' => SweepKept(g, s0)'
    <3> SUFFICES ASSUME s0 \notin exposed' PROVE SweepKept(g, s0)'
      OBVIOUS
    <3>1. s0 \notin exposed /\ UNCHANGED <<store, latest>>
      BY <1>0, <2>1 DEF files
    <3>2. SweepKept(g, s0)
      BY <1>a, <3>1, SweepIsKept
    <3>3. boxOf'[p] \in running' => disk'[boxOf'[p]] = latest[s0]
      <4>1. CASE SameBox(s0) /\ pool[g][s0] # Nothing
        BY <2>2, <3>2, <4>1 DEF SameBox, SweepKept, Running
      <4>2. CASE disk'[boxOf'[p]] = store[s0]
        BY <3>2, <4>2 DEF SweepKept
      <4> QED BY <2>2, <4>1, <4>2
    <3> QED BY <2>2, <2>3, <2>6, <3>1, <3>2, <3>3 DEF SweepKept, Running
  <2>10. /\ UNCHANGED <<tools, latest>> /\ exposed \subseteq exposed'
         /\ \A e \in 1..boxes : boxOf[e] # Nothing => boxOf'[e] # Nothing
         /\ \A h \in Loads, s \in Sessions : pool'[h][s] \in {pool[h][s], Nothing, boxes + 1}
         /\ \A h \in Loads : h # g => pool'[h][s0] = pool[h][s0]
         /\ \A s \in Sessions : s # s0 => SameBox(s) /\ store'[s] = store[s]
    BY <1>0, <2>1 DEF files
  <2>11. sweep[g].session = s0 /\ sweep'[g].session \in {s0, Nothing} /\ boxes <= boxes' /\ Executors'
    BY <1>a, <2>1, <2>6
  <2> QED BY <2>6, <2>7, <2>8, <2>9, <2>10, <2>11, SweepGoesOn
<1>2. CASE /\ pool[g][s0] = Nothing
           /\ sweep' = [sweep EXCEPT ![g].at = "release"] /\ UNCHANGED <<boxing, outages, exposed>>
  <2>1. FilesTypeOK'
    <3>1. sweep' \in [Loads -> SweepRecord]
      BY <1>2, SweepStep DEF FilesInv, Tidy
    <3> QED BY <1>0, <1>2, <3>1 DEF SweepRecord, FilesInv, Tidy, FilesTypeOK, boxing, files, tools
  <2>2. /\ sweep'[g].at = "release" /\ sweep'[g].session = s0 /\ sweep'[g].seen = sweep[g].seen
        /\ \A h \in Loads : h # g => sweep'[h] = sweep[h]
    BY <1>a, <1>2 DEF FilesInv, Tidy, FilesTypeOK
  <2>3. Executors' /\ Sweepers'
    BY <1>2, <2>2, SameExecutors, NothingApart DEF Sweepers, FilesInv, Tidy, boxing
  <2>4. s0 \notin exposed' => SweepKept(g, s0)'
    <3>1. s0 \notin exposed => SweepKept(g, s0)
      BY <1>a, SweepIsKept
    <3> QED BY <1>0, <1>2, <2>2, <3>1 DEF SweepKept, Running, boxing, files
  <2>5. /\ UNCHANGED <<tools, latest>> /\ exposed \subseteq exposed' /\ boxes <= boxes'
        /\ \A e \in 1..boxes : boxOf[e] # Nothing => boxOf'[e] # Nothing
        /\ \A h \in Loads, s \in Sessions : pool'[h][s] \in {pool[h][s], Nothing, boxes + 1}
        /\ \A h \in Loads : h # g => pool'[h][s0] = pool[h][s0]
        /\ \A s \in Sessions : s # s0 => SameBox(s) /\ store'[s] = store[s]
    BY <1>0, <1>2 DEF files, boxing, SameBox, FilesInv, Tidy, FilesTypeOK
  <2>6. sweep[g].session = s0 /\ sweep'[g].session \in {s0, Nothing}
    BY <1>a, <2>2
  <2> QED BY <2>1, <2>2, <2>3, <2>4, <2>5, <2>6, SweepGoesOn
<1> QED BY <1>a, <1>1, <1>2 DEF Flush

LEMMA FlushPutKeeps == ASSUME FilesInv, NEW g \in Loads, FlushPut(g) PROVE FilesInv'
<1>0. /\ sweep[g].at = "put" /\ UNCHANGED <<space, boxing, writes, latest, tools, idle>>
      /\ sweep' = [sweep EXCEPT ![g].at = "release"]
  BY DEF FlushPut
<1>a. PICK s0 \in Sessions, v \in Version \cup {Nothing} : s0 = sweep[g].session /\ v = sweep[g].seen /\ Put(s0, v)
  BY <1>0, SweepTyped DEF FlushPut
<1>1. /\ store' \in [Sessions -> Version \cup {Nothing}] /\ outages' \in 0..MaxOutages
      /\ exposed' \in {exposed, exposed \cup {s0}}
      /\ \A r \in Sessions : r # s0 => store'[r] = store[r]
      /\ s0 \notin exposed' => store'[s0] = IF v = Nothing THEN store[s0] ELSE v
  BY <1>a, PutStores
<1>2. /\ sweep'[g].at = "release" /\ sweep'[g].session = s0 /\ sweep'[g].seen = v
      /\ \A h \in Loads : h # g => sweep'[h] = sweep[h]
  BY <1>0, <1>a DEF FilesInv, Tidy, FilesTypeOK
<1>3. FilesTypeOK'
  <2>1. sweep' \in [Loads -> SweepRecord]
    BY <1>0, SweepStep DEF FilesInv, Tidy
  <2>2. exposed' \subseteq Sessions
    BY <1>1 DEF FilesInv, Tidy, FilesTypeOK
  <2> QED BY <1>0, <1>1, <2>1, <2>2 DEF SweepRecord, FilesInv, Tidy, FilesTypeOK, boxing, tools
<1>4. Executors' /\ Sweepers'
  BY <1>0, <1>2, SameExecutors, NothingApart DEF Sweepers, FilesInv, Tidy, boxing
<1>5. s0 \notin exposed' => SweepKept(g, s0)'
  <2>1. s0 \notin exposed => SweepKept(g, s0)
    BY <1>a, SweepIsKept
  <2> QED BY <1>0, <1>1, <1>a, <1>2, <2>1 DEF SweepKept, Running, boxing
<1>6. /\ UNCHANGED <<tools, latest>> /\ exposed \subseteq exposed' /\ boxes <= boxes'
      /\ \A e \in 1..boxes : boxOf[e] # Nothing => boxOf'[e] # Nothing
      /\ \A h \in Loads, s \in Sessions : pool'[h][s] \in {pool[h][s], Nothing, boxes + 1}
      /\ \A h \in Loads : h # g => pool'[h][s0] = pool[h][s0]
      /\ \A s \in Sessions : s # s0 => SameBox(s) /\ store'[s] = store[s]
  BY <1>0, <1>1 DEF boxing, SameBox, FilesInv, Tidy, FilesTypeOK
<1>7. sweep[g].session = s0 /\ sweep'[g].session \in {s0, Nothing}
  BY <1>a, <1>2
<1> QED BY <1>2, <1>3, <1>4, <1>5, <1>6, <1>7, SweepGoesOn

LEMMA ReleaseKeeps == ASSUME FilesInv, NEW g \in Loads, Release(g) PROVE FilesInv'
<1>0. /\ sweep[g].at = "release" /\ UNCHANGED <<space, disk, boxOf, boxes, files, tools, idle, exposed>>
      /\ sweep' = [sweep EXCEPT ![g] = [at |-> "wait", session |-> Nothing, seen |-> Nothing]]
  BY DEF Release
<1>a. PICK s0 \in Sessions : s0 = sweep[g].session
  BY <1>0, SweepTyped
<1>1. /\ pool' = [pool EXCEPT ![g][s0] = Nothing] /\ running' \subseteq running /\ outages' \in 0..MaxOutages
  BY <1>0, <1>a, SandboxAssumption DEF Release, MayGoWrong, FilesInv, Tidy, FilesTypeOK
<1>2. /\ sweep'[g].at = "wait" /\ sweep'[g].session = Nothing /\ sweep'[g].seen = Nothing
      /\ \A h \in Loads : h # g => sweep'[h] = sweep[h]
  BY <1>0 DEF FilesInv, Tidy, FilesTypeOK
<1>3. \A h \in Loads, s \in Sessions : pool'[h][s] = IF h = g /\ s = s0 THEN Nothing ELSE pool[h][s]
  BY <1>1 DEF FilesInv, Tidy, FilesTypeOK
<1>4. FilesTypeOK'
  <2>1. sweep' \in [Loads -> [at : {"wait", "flush", "put", "release"}, session : Sessions \cup {Nothing},
                              seen : Version \cup {Nothing}]]
    BY <1>0 DEF FilesInv, Tidy, FilesTypeOK
  <2>2. pool' \in [Loads -> [Sessions -> Boxes \cup {Nothing}]] /\ running' \subseteq Boxes
    BY <1>1 DEF FilesInv, Tidy, FilesTypeOK
  <2> QED BY <1>0, <1>1, <2>1, <2>2 DEF FilesInv, Tidy, FilesTypeOK, files, tools
<1>5. Executors' /\ Sweepers'
  BY <1>0, <1>2, <1>3 DEF Executors, Sweepers, FilesInv, Tidy
<1>6. s0 \notin exposed' => SweepKept(g, s0)'
  <2>1. s0 \notin exposed => SweepKept(g, s0)
    BY <1>a, SweepIsKept
  <2> QED BY <1>0, <1>2, <1>3, <2>1 DEF SweepKept, files
<1>7. /\ UNCHANGED <<tools, latest>> /\ exposed \subseteq exposed' /\ boxes <= boxes'
      /\ \A e \in 1..boxes : boxOf[e] # Nothing => boxOf'[e] # Nothing
      /\ \A h \in Loads, s \in Sessions : pool'[h][s] \in {pool[h][s], Nothing, boxes + 1}
      /\ \A h \in Loads : h # g => pool'[h][s0] = pool[h][s0]
      /\ \A s \in Sessions : s # s0 => SameBox(s) /\ store'[s] = store[s]
  BY <1>0, <1>1, <1>3 DEF files, SameBox, FilesInv, Tidy, FilesTypeOK
<1>8. sweep[g].session = s0 /\ sweep'[g].session \in {s0, Nothing}
  BY <1>a, <1>2
<1> QED BY <1>2, <1>4, <1>5, <1>6, <1>7, <1>8, SweepGoesOn

-----------------------------------------------------------------------------
LEMMA FilesNextKeeps == FilesInv /\ [FilesNext]_fileVars => FilesInv'
<1> SUFFICES ASSUME FilesInv, [FilesNext]_fileVars PROVE FilesInv'
  OBVIOUS
<1>1. CASE Reload
  BY <1>1, ReloadKeeps
<1>2. ASSUME NEW t \in TurnIds, (\E s \in Sessions : StartTurn(t, s)) \/ EndTurn(t) \/ Tool(t) PROVE FilesInv'
  BY <1>2, StartTurnKeeps, EndTurnKeeps, WriteFileKeeps, TouchKeeps, GetKeeps, RunKeeps, RecreateKeeps,
     RehydrateKeeps, RerunKeeps, SnapshotKeeps, PutBackKeeps DEF Tool
<1>3. ASSUME NEW g \in Loads, (\E s \in Sessions : Evict(g, s)) \/ Flush(g) \/ FlushPut(g) \/ Release(g) PROVE FilesInv'
  BY <1>3, EvictKeeps, FlushKeeps, FlushPutKeeps, ReleaseKeeps
<1>4. CASE (\E b \in Boxes : Expire(b)) \/ TimePasses
  BY <1>4, ExpireKeeps, TimeKeeps
<1>5. CASE UNCHANGED fileVars
  <2>1. FilesTypeOK' /\ Executors' /\ Sweepers' /\ \A t \in TurnIds : User(t)'
    BY <1>5 DEF FilesInv, Tidy, fileVars, FilesTypeOK, Executors, Sweepers, User, Held, LoadOf, boxing, files, tools
  <2>2. ASSUME NEW s \in Sessions, s \notin exposed PROVE Kept(s)'
    <3>1. Untouched(s)
      BY <1>5 DEF Untouched, SameBox, fileVars, boxing, files, tools
    <3> QED BY <2>2, <3>1, StaysKept DEF FilesInv
  <2> QED BY <1>5, <2>1, <2>2 DEF FilesInv, Tidy, fileVars
<1> QED BY <1>1, <1>2, <1>3, <1>4, <1>5 DEF FilesNext

\* Every variable holds a value of its field.
THEOREM FilesTyped == FilesSpec => []FilesTypeOK
<1>1. FilesInv => FilesTypeOK
  BY DEF FilesInv, Tidy
<1> QED BY <1>1, FilesInitInv, FilesNextKeeps, PTL DEF FilesSpec

\* Whatever boxes expire, answer 502, are swept and made again, over any number
\* of turns, sessions and loads of the space: the version written last is in the
\* store when no call is at work on the session, and in the box a command runs
\* in, unless one of the named hazards has exposed the session.
THEOREM FilesWorkIsKept == FilesSpec => []WorkIsKept
<1>1. FilesInv => WorkIsKept
  <2> SUFFICES ASSUME FilesInv, NEW s \in Sessions \ exposed
               PROVE  /\ Calling(s) = {} => store[s] = latest[s]
                      /\ \A t \in TurnIds : doing[t] \in {"run", "rerun"} /\ call[t].scope = s /\ Running(BoxAt(t))
                                              => disk[BoxAt(t)] = latest[s]
    BY DEF WorkIsKept
  <2>1. Calling(s) = {} => store[s] = latest[s]
    BY DEF FilesInv, Kept, AtRest
  <2>2. ASSUME NEW t \in TurnIds, doing[t] \in {"run", "rerun"}, call[t].scope = s, Running(BoxAt(t))
        PROVE  disk[BoxAt(t)] = latest[s]
    <3>1. CallKept(t)
      BY <2>2, CallIsKept DEF Held
    <3> QED BY <2>2, <3>1 DEF CallKept
  <2> QED BY <2>1, <2>2
<1> QED BY <1>1, FilesInitInv, FilesNextKeeps, PTL DEF FilesSpec
=============================================================================
