-------------------------- MODULE TaskQueueProofs ---------------------------
(***************************************************************************)
(* Theorems about TaskQueue, for any chats, tasks, capacities and times.   *)
(* The argument: whoever may still use a queue has touched it since the    *)
(* last tick: a Submit that finds room has, and a worker that finds a task *)
(* has.  A queue whose worker executes was idle no longer than that was    *)
(* busy, so the sweep takes it only under a task that outlived it, and the *)
(* chat's next queue begins a new line.  So a line has one queue that may  *)
(* still get or hold a task, and its tasks stand there, and their replies  *)
(* on the bus, in their order: to each line TaskQueue is ChatService.      *)
(***************************************************************************)
EXTENDS TaskQueue, FiniteSetTheorems, SequenceTheorems, TLAPS

Types ==
  /\ seq \in 0..MaxTasks
  /\ taskSt \in [Tasks -> {"none", "pending", "running", "done", "failed"}]
  /\ taskQ \in [Tasks -> Queues \cup {NoQueue}]
  /\ chatOf \in Seq(Chats) /\ Len(chatOf) <= MaxQueues
  /\ current \in [Chats -> Queues \cup {NoQueue}]
  /\ buf \in [Queues -> Seq(Tasks)] /\ open \in [Queues -> BOOLEAN]
  /\ \A q \in Queues : Len(buf[q]) <= Cap
  /\ idle \in [Queues -> Nat] /\ busy \in [Queues -> Nat]
  /\ pc \in [Queues -> {"none", "recv", "touch", "exit"} \cup Executing]
  /\ cur \in [Queues -> Tasks \cup {NoTask}]
  /\ sending \in Tasks \cup {NoTask}
  /\ outbound \in Seq(Tasks) /\ Len(outbound) <= OutCap /\ sent \subseteq Tasks
  /\ outlived \in [Chats -> 0..MaxQueues] /\ line \in Seq(0..MaxQueues) /\ Len(line) = Len(chatOf)
  /\ life \in {"up", "stopping", "stopped"} /\ gone \subseteq {"submitter", "router"}

\* A queue is made once; a worker that executes holds a task.
Unmade == \A q \in Queues : q > Len(chatOf) => ~open[q] /\ pc[q] = "none" /\ buf[q] = <<>>
Held == \A q \in Queues : pc[q] \in Executing \cup {"touch"} <=> cur[q] # NoTask

\* A chat has no more lines than queues, and no queue is of a line to come.
Counted ==
  /\ \A c \in Chats : outlived[c] <= Len(chatOf)
  /\ \A q \in 1..Len(chatOf) : line[q] <= outlived[chatOf[q]]

Sound == Types /\ Unmade /\ Held /\ Counted

-----------------------------------------------------------------------------
LEMMA SoundInit == Init => Sound
  BY CapacityAssumption, BoundsAssumption
  DEF Init, Sound, Types, Unmade, Held, Counted, Executing, Tasks, Queues, NoQueue, NoTask

\* Submit finds the queue of the chat, or makes the next one.
LEMMA FoundOrMade ==
  ASSUME Sound, NEW c \in Chats, NEW q \in Queues, FindOrMake(c, q)
  PROVE  \/ q = current[c] /\ UNCHANGED <<chatOf, current, buf, open, pc, outlived, line>>
         \/ /\ current[c] = NoQueue /\ q = Len(chatOf) + 1 /\ UNCHANGED buf
            /\ chatOf' \in Seq(Chats) /\ Len(chatOf') = q /\ chatOf'[q] = c
            /\ \A i \in 1..Len(chatOf) : chatOf'[i] = chatOf[i]
            /\ current' = [current EXCEPT ![c] = q]
            /\ open' = [open EXCEPT ![q] = TRUE]
            /\ pc' = [pc EXCEPT ![q] = "recv"]
            /\ outlived' \in [Chats -> 0..MaxQueues]
            /\ \A d \in Chats : outlived'[d] = IF d = c /\ Outlived(c) THEN outlived[d] + 1 ELSE outlived[d]
            /\ line' \in Seq(0..MaxQueues) /\ Len(line') = q /\ line'[q] = outlived'[c]
            /\ \A i \in 1..Len(chatOf) : line'[i] = line[i]
<1>1. CASE current[c] # NoQueue
  BY <1>1 DEF FindOrMake, channels, history
<1>2. CASE current[c] = NoQueue
  <2>1. /\ chatOf \in Seq(Chats) /\ q = Len(chatOf) + 1 /\ chatOf' = Append(chatOf, c)
        /\ current' = [current EXCEPT ![c] = q] /\ open' = [open EXCEPT ![q] = TRUE]
        /\ pc' = [pc EXCEPT ![q] = "recv"] /\ UNCHANGED buf
    BY <1>2 DEF FindOrMake, Sound, Types, Goto
  <2>2. chatOf' \in Seq(Chats) /\ Len(chatOf') = q /\ chatOf'[q] = c
    BY <2>1, AppendProperties
  <2>3. \A i \in 1..Len(chatOf) : chatOf'[i] = chatOf[i]
    BY <2>1, AppendProperties
  <2>4. /\ outlived' = [outlived EXCEPT ![c] = IF Outlived(c) THEN outlived[c] + 1 ELSE outlived[c]]
        /\ line' = Append(line, outlived'[c])
        /\ line \in Seq(0..MaxQueues) /\ Len(line) = Len(chatOf)
        /\ outlived \in [Chats -> 0..MaxQueues]
    BY <1>2 DEF FindOrMake, Sound, Types
  <2>5. outlived[c] + 1 \in 0..MaxQueues
    <3>1. outlived[c] <= Len(chatOf) /\ Len(chatOf) \in Nat /\ q <= MaxQueues
      BY <2>1, LenProperties, BoundsAssumption DEF Sound, Counted, Queues
    <3>. QED BY <2>1, <2>4, <3>1, BoundsAssumption
  <2>6. /\ outlived' \in [Chats -> 0..MaxQueues]
        /\ \A d \in Chats : outlived'[d] = IF d = c /\ Outlived(c) THEN outlived[d] + 1 ELSE outlived[d]
    BY <2>4, <2>5
  <2>7. /\ line' \in Seq(0..MaxQueues) /\ Len(line') = q /\ line'[q] = outlived'[c]
        /\ \A i \in 1..Len(chatOf) : line'[i] = line[i]
    <3>1. outlived'[c] \in 0..MaxQueues
      BY <2>6
    <3>. QED BY <2>1, <2>4, <3>1, AppendProperties
  <2>. QED BY <1>2, <2>1, <2>2, <2>3, <2>6, <2>7
<1>. QED BY <1>1, <1>2

LEMMA SoundSubmit ==
  ASSUME Sound, NEW c \in Chats, Submit(c)
  PROVE  Sound'
<1>. USE DEF Sound, NoQueue, NoTask
<1>. PICK q \in Queues : FindOrMake(c, q) /\ taskQ' = [taskQ EXCEPT ![seq + 1] = q] /\ TouchQueue(q)
  BY DEF Submit
<1>1. /\ seq + 1 \in Tasks /\ seq' = seq + 1 /\ seq' \in 0..MaxTasks /\ sending' = seq + 1
      /\ taskSt' = [taskSt EXCEPT ![seq + 1] = "pending"]
      /\ UNCHANGED <<cur, busy, outbound, sent, life, gone>>
  BY BoundsAssumption DEF Submit, Status, process, Types, Tasks
<1>2. idle' \in [Queues -> Nat]
  BY DEF TouchQueue, Types
<1>3. CASE UNCHANGED <<chatOf, current, buf, open, pc, outlived, line>>
  <2>1. /\ taskSt' \in [Tasks -> {"none", "pending", "running", "done", "failed"}]
        /\ taskQ' \in [Tasks -> Queues \cup {NoQueue}] /\ sending' \in Tasks
    BY <1>1 DEF Types
  <2>. HIDE DEF NoQueue, NoTask
  <2>2. Types'
    BY <1>1, <1>2, <1>3, <2>1 DEF Types
  <2>. QED BY <1>1, <1>3, <2>2 DEF Unmade, Held, Counted
<1>4. CASE /\ q = Len(chatOf) + 1 /\ UNCHANGED buf
           /\ chatOf' \in Seq(Chats) /\ Len(chatOf') = q /\ chatOf'[q] = c
           /\ \A i \in 1..Len(chatOf) : chatOf'[i] = chatOf[i]
           /\ current' = [current EXCEPT ![c] = q]
           /\ open' = [open EXCEPT ![q] = TRUE]
           /\ pc' = [pc EXCEPT ![q] = "recv"]
           /\ outlived' \in [Chats -> 0..MaxQueues]
           /\ \A d \in Chats : outlived'[d] = IF d = c /\ Outlived(c) THEN outlived[d] + 1 ELSE outlived[d]
           /\ line' \in Seq(0..MaxQueues) /\ Len(line') = q /\ line'[q] = outlived'[c]
           /\ \A i \in 1..Len(chatOf) : line'[i] = line[i]
  <2>1. /\ chatOf' \in Seq(Chats) /\ Len(chatOf') = q /\ current' = [current EXCEPT ![c] = q]
        /\ open' = [open EXCEPT ![q] = TRUE] /\ pc' = [pc EXCEPT ![q] = "recv"]
        /\ outlived' \in [Chats -> 0..MaxQueues] /\ line' \in Seq(0..MaxQueues) /\ Len(line') = q
    BY <1>4
  <2>2. q <= MaxQueues /\ pc[q] = "none"
    BY <1>4, BoundsAssumption DEF Queues, Unmade, Types
  <2>3. Types'
    <3>1. /\ taskSt' \in [Tasks -> {"none", "pending", "running", "done", "failed"}]
          /\ taskQ' \in [Tasks -> Queues \cup {NoQueue}] /\ sending' \in Tasks
      BY <1>1 DEF Types
    <3>2. /\ current' \in [Chats -> Queues \cup {NoQueue}] /\ open' \in [Queues -> BOOLEAN]
          /\ pc' \in [Queues -> {"none", "recv", "touch", "exit"} \cup Executing]
      BY <2>1 DEF Types
    <3>3. /\ buf' \in [Queues -> Seq(Tasks)] /\ \A r \in Queues : Len(buf'[r]) <= Cap
          /\ Len(chatOf') <= MaxQueues /\ Len(line') = Len(chatOf')
      BY <1>4, <2>1, <2>2 DEF Types
    <3>. HIDE DEF NoQueue, NoTask
    <3>. QED BY <1>1, <1>2, <2>1, <3>1, <3>2, <3>3 DEF Types
  <2>4. Unmade'
    BY <1>4, <2>1 DEF Unmade, Types, Queues
  <2>5. Held'
    BY <1>1, <2>1, <2>2 DEF Held, Executing, Types
  <2>6. Counted'
    <3>1. /\ chatOf'[q] = c /\ \A i \in 1..Len(chatOf) : chatOf'[i] = chatOf[i] /\ line'[i] = line[i]
          /\ \A d \in Chats : outlived'[d] \in {outlived[d], outlived[d] + 1}
          /\ line'[q] = outlived'[c]
      BY <1>4
    <3>5. Len(chatOf) \in Nat /\ \A i \in 1..Len(chatOf) : chatOf[i] \in Chats /\ line[i] \in Nat
      BY LenProperties, ElementOfSeq, BoundsAssumption DEF Types
    <3>6. \A d \in Chats : outlived[d] \in Nat /\ outlived'[d] \in Nat
      BY <2>1, BoundsAssumption DEF Types
    <3>2. \A d \in Chats : outlived'[d] <= Len(chatOf')
      <4>1. SUFFICES ASSUME NEW d \in Chats PROVE outlived'[d] <= Len(chatOf) + 1
        BY <1>4
      <4>2. outlived[d] <= Len(chatOf)
        BY DEF Counted
      <4>. QED BY <3>1, <3>5, <3>6, <4>2
    <3>3. ASSUME NEW i \in 1..Len(chatOf') PROVE line'[i] <= outlived'[chatOf'[i]]
      <4>1. CASE i = q
        BY <3>1, <3>6, <4>1
      <4>2. CASE i # q
        <5>1. i \in 1..Len(chatOf) /\ chatOf[i] \in Chats /\ line[i] <= outlived[chatOf[i]]
          BY <1>4, <2>1, <3>3, <3>5, <4>2 DEF Counted
        <5>. QED BY <3>1, <3>5, <3>6, <5>1
      <4>. QED BY <4>1, <4>2
    <3>. QED BY <3>2, <3>3 DEF Counted
  <2>. QED BY <2>3, <2>4, <2>5, <2>6
<1>. QED BY <1>3, <1>4, FoundOrMade

LEMMA SoundSend == ASSUME Sound, Send PROVE Sound'
<1>. DEFINE q == taskQ[sending]
<1>1. /\ sending \in Tasks /\ q \in Queues \cup {NoQueue} /\ buf \in [Queues -> Seq(Tasks)]
      /\ \A r \in Queues : Len(buf[r]) <= Cap
      /\ buf' = [buf EXCEPT ![q] = Append(buf[q], sending)]
      /\ Len(buf[q]) < Cap /\ open[q] /\ sending' = NoTask
      /\ UNCHANGED <<tasks, chatOf, current, open, history, idle, workers, outbound, sent, process>>
  BY DEF Send, Room, Sound, Types
<1>. HIDE DEF q
<1>2. buf' \in [Queues -> Seq(Tasks)] /\ \A r \in Queues : Len(buf'[r]) <= Cap
  <2>1. ASSUME NEW r \in Queues PROVE buf'[r] \in Seq(Tasks) /\ Len(buf'[r]) <= Cap
    <3>1. CASE r = q
      BY <1>1, <3>1, AppendProperties, CapacityAssumption
    <3>2. CASE r # q
      BY <1>1, <3>2
    <3>. QED BY <3>1, <3>2
  <2>. QED BY <2>1, <1>1
<1>. QED BY <1>1, <1>2 DEF Sound, Types, Unmade, Held, Counted, tasks, history, workers, process

\* The worker's steps.
LEMMA SoundWorker ==
  ASSUME Sound, NEW q \in Queues, Work(q) \/ Acquire(q)
  PROVE  Sound'
<1>. USE DEF Goto, Status, Executing, tasks, workers, process, channels, history
<1>1. CASE Receive(q)
  <2>1. /\ buf[q] \in Seq(Tasks) /\ buf[q] # <<>>
        /\ cur' = [cur EXCEPT ![q] = Head(buf[q])]
        /\ buf' = [buf EXCEPT ![q] = Tail(buf[q])]
        /\ pc[q] = "recv" /\ pc' = [pc EXCEPT ![q] = "sem"] /\ busy' = [busy EXCEPT ![q] = 0]
    BY <1>1 DEF Receive, Sound, Types
  <2>2. Head(buf[q]) \in Tasks /\ Tail(buf[q]) \in Seq(Tasks) /\ Len(Tail(buf[q])) = Len(buf[q]) - 1
    BY <2>1, HeadTailProperties
  <2>3. Head(buf[q]) # NoTask
    BY <2>2 DEF Tasks, NoTask
  <2>4. Len(Tail(buf[q])) <= Cap
    BY <2>2, CapacityAssumption DEF Sound, Types
  <2>5. UNCHANGED <<seq, taskSt, taskQ, chatOf, current, open, outlived, line, idle, sending, outbound, sent, life, gone>>
    BY <1>1 DEF Receive
  <2>6. Types'
    BY <2>1, <2>2, <2>4, <2>5 DEF Sound, Types
  <2>. QED BY <2>1, <2>3, <2>5, <2>6 DEF Sound, Types, Unmade, Held, Counted
<1>2. CASE Exit(q)
  BY <1>2 DEF Exit, Sound, Types, Unmade, Held, Counted
<1>3. CASE GiveUp(q)
  BY <1>3 DEF GiveUp, Sound, Types, Unmade, Held, Counted
<1>4. CASE HandlerFails(q)
  BY <1>4 DEF HandlerFails, Sound, Types, Unmade, Held, Counted
<1>5. CASE Answer(q)
  BY <1>5 DEF Answer, Sound, Types, Unmade, Held, Counted
<1>6. CASE Reply(q)
  <2>1. cur[q] \in Tasks /\ outbound' = Append(outbound, cur[q])
    BY <1>6 DEF Reply, Sound, Types, Held
  <2>2. outbound' \in Seq(Tasks) /\ Len(outbound') <= OutCap
    BY <1>6, <2>1, AppendProperties, CapacityAssumption DEF Reply, Sound, Types
  <2>. QED BY <1>6, <2>2 DEF Reply, Sound, Types, Unmade, Held, Counted
<1>7. CASE Touch(q)
  BY <1>7 DEF Touch, Sound, Types, Unmade, Held, Counted, NoTask
<1>8. CASE Acquire(q)
  BY <1>8 DEF Acquire, Sound, Types, Unmade, Held, Counted
<1>. QED BY <1>1, <1>2, <1>3, <1>4, <1>5, <1>6, <1>7, <1>8 DEF Work

\* The router, the sweep, the clock and the end of the process.
LEMMA SoundRest ==
  ASSUME Sound,
         \/ Route \/ Cleanup \/ Tick \/ Signal \/ Stop
         \/ \E who \in {"submitter", "router"} : Return(who)
  PROVE  Sound'
<1>. USE DEF tasks, workers, process, channels, history
<1>1. CASE Route
  <2>1. Head(outbound) \in Tasks /\ outbound' \in Seq(Tasks) /\ Len(outbound') <= OutCap
    BY <1>1, HeadTailProperties, CapacityAssumption DEF Route, Sound, Types
  <2>. QED BY <1>1, <2>1 DEF Route, Sound, Types, Unmade, Held, Counted
<1>2. CASE Cleanup
  BY <1>2 DEF Cleanup, Sound, Types, Unmade, Held, Counted
<1>3. CASE Tick
  BY <1>3 DEF Tick, Sound, Types, Unmade, Held, Counted
<1>4. CASE Signal \/ Stop \/ \E who \in {"submitter", "router"} : Return(who)
  BY <1>4 DEF Signal, Stop, Return, Sound, Types, Unmade, Held, Counted
<1>. QED BY <1>1, <1>2, <1>3, <1>4

LEMMA SoundStutter == ASSUME Sound, UNCHANGED vars PROVE Sound'
<1>. USE DEF vars, tasks, channels, history, workers, process
<1>1. Types'
  BY DEF Sound, Types
<1>2. Unmade' /\ Held' /\ Counted'
  BY DEF Sound, Unmade, Held, Counted
<1>. QED BY <1>1, <1>2 DEF Sound

LEMMA SoundStep == Sound /\ [Next]_vars => Sound'
  BY SoundSubmit, SoundSend, SoundWorker, SoundRest, SoundStutter DEF Next

\* No step takes a slot there is none of.
LEMMA RunningIsFinite == IsFiniteSet(Running)
<1>1. IsFiniteSet(Queues)
  BY FS_Interval, BoundsAssumption DEF Queues
<1>2. Running \subseteq Queues
  BY DEF Running
<1>. QED BY <1>1, <1>2, FS_Subset

SlotsSuffice == Cardinality(Running) <= MaxConcurrent

LEMMA SlotsStep ==
  ASSUME Sound, SlotsSuffice, [Next]_vars
  PROVE  SlotsSuffice'
<1>. USE DEF SlotsSuffice
<1>0. IsFiniteSet(Running) /\ Cardinality(Running) \in Nat
  BY RunningIsFinite, FS_CardinalityType
<1>1. ASSUME Running' \subseteq Running PROVE SlotsSuffice'
  <2>1. IsFiniteSet(Running') /\ Cardinality(Running') <= Cardinality(Running)
    BY <1>0, <1>1, FS_Subset
  <2>. QED BY <1>0, <2>1, FS_CardinalityType, CapacityAssumption
<1>2. ASSUME NEW q \in Queues, Acquire(q) PROVE SlotsSuffice'
  <2>1. q \notin Running /\ Running' = Running \cup {q} /\ Cardinality(Running) < MaxConcurrent
    BY <1>2 DEF Acquire, Goto, SlotFree, Running, Sound, Types
  <2>. QED BY <1>0, <2>1, FS_AddElement, CapacityAssumption
<1>3. ASSUME NEW q \in Queues, Work(q) PROVE Running' \subseteq Running
  BY <1>3 DEF Work, Receive, Exit, GiveUp, HandlerFails, Answer, Reply, Touch, Goto, Running, Sound, Types
<1>4. ASSUME NEW c \in Chats, Submit(c) PROVE Running' \subseteq Running
  BY <1>4 DEF Submit, FindOrMake, Goto, Running, Sound, Types
<1>5. CASE \/ UNCHANGED vars \/ Send \/ Route \/ Cleanup \/ Tick \/ Signal \/ Stop
           \/ \E who \in {"submitter", "router"} : Return(who)
  BY <1>5 DEF vars, Send, Route, Cleanup, Tick, Signal, Stop, Return, workers, Running
<1>. QED BY <1>1, <1>2, <1>3, <1>4, <1>5 DEF Next

(* Channels, bus and semaphore never hold more than their capacity, and    *)
(* every variable keeps its type.                                          *)
THEOREM QueueTypeOK == Spec => []TypeOK
<1>1. Init => SlotsSuffice
  <2>1. Init => Running = {}
    BY DEF Init, Running
  <2>. QED BY <2>1, FS_EmptySet, CapacityAssumption DEF SlotsSuffice
<1>2. Sound /\ SlotsSuffice /\ [Next]_vars => SlotsSuffice'
  BY SlotsStep
<1>3. Sound /\ SlotsSuffice => TypeOK
  BY DEF Sound, Types, SlotsSuffice, TypeOK
<1>. QED BY SoundInit, SoundStep, <1>1, <1>2, <1>3, PTL DEF Spec

-----------------------------------------------------------------------------
\* The queue a chat is entered with is its open one, and the only one.
CurrentIsOpen ==
  \A c \in Chats : current[c] # NoQueue =>
    open[current[c]] /\ current[c] <= Len(chatOf) /\ chatOf[current[c]] = c
OpenIsCurrent == \A q \in Queues : open[q] => current[chatOf[q]] = q
ClosedIsEmpty == \A q \in Queues : ~open[q] => buf[q] = <<>>

\* Whoever found room, or a task, has touched the queue since the last tick.
RoomIsFresh ==
  sending # NoTask => /\ taskQ[sending] \in Queues
                      /\ Room(taskQ[sending]) => idle[taskQ[sending]] = 0
FoundIsFresh == \A q \in Queues : pc[q] = "recv" /\ buf[q] # <<>> => idle[q] = 0

Touched == CurrentIsOpen /\ OpenIsCurrent /\ ClosedIsEmpty /\ NoSendOnClosed /\ RoomIsFresh /\ FoundIsFresh

LEMMA TouchedInit == Init => Touched
  BY DEF Init, Touched, CurrentIsOpen, OpenIsCurrent, ClosedIsEmpty, NoSendOnClosed, RoomIsFresh, FoundIsFresh

LEMMA TouchedSubmit ==
  ASSUME Sound, Touched, NEW c \in Chats, Submit(c)
  PROVE  Touched'
<1>. PICK q \in Queues : FindOrMake(c, q) /\ taskQ' = [taskQ EXCEPT ![seq + 1] = q] /\ TouchQueue(q)
  BY DEF Submit
<1>0. seq + 1 \in Tasks /\ seq + 1 # NoTask
  BY BoundsAssumption DEF Submit, Sound, Types, Tasks, NoTask
<1>1. /\ seq + 1 \in Tasks /\ seq + 1 # NoTask /\ sending' = seq + 1 /\ taskQ'[seq + 1] = q
      /\ idle' = [idle EXCEPT ![q] = 0]
      /\ chatOf \in Seq(Chats) /\ idle \in [Queues -> Nat] /\ current \in [Chats -> Queues \cup {NoQueue}]
      /\ open \in [Queues -> BOOLEAN] /\ buf \in [Queues -> Seq(Tasks)]
      /\ pc \in [Queues -> {"none", "recv", "touch", "exit"} \cup Executing]
  BY <1>0 DEF Submit, TouchQueue, Sound, Types
<1>2. CASE q = current[c] /\ UNCHANGED <<chatOf, current, buf, open, pc>>
  <2>1. open[q] /\ idle'[q] = 0
    BY <1>1, <1>2 DEF Touched, CurrentIsOpen, Queues, NoQueue
  <2>2. NoSendOnClosed' /\ RoomIsFresh'
    BY <1>1, <1>2, <2>1 DEF NoSendOnClosed, RoomIsFresh
  <2>3. FoundIsFresh'
    BY <1>1, <1>2 DEF Touched, FoundIsFresh
  <2>. QED BY <1>2, <2>2, <2>3 DEF Touched, CurrentIsOpen, OpenIsCurrent, ClosedIsEmpty
<1>3. CASE /\ current[c] = NoQueue /\ q = Len(chatOf) + 1 /\ UNCHANGED buf
           /\ chatOf' \in Seq(Chats) /\ Len(chatOf') = q /\ chatOf'[q] = c
           /\ \A i \in 1..Len(chatOf) : chatOf'[i] = chatOf[i]
           /\ current' = [current EXCEPT ![c] = q]
           /\ open' = [open EXCEPT ![q] = TRUE]
           /\ pc' = [pc EXCEPT ![q] = "recv"]
  <2>1. \A r \in Queues : open[r] => r \in 1..Len(chatOf)
    BY <1>1 DEF Sound, Unmade, Queues
  <2>2. ~open[q] /\ buf[q] = <<>>
    BY <1>1, <1>3 DEF Sound, Unmade, Queues
  <2>3. CurrentIsOpen'
    <3>1. SUFFICES ASSUME NEW d \in Chats, d # c, current[d] # NoQueue
                   PROVE  open'[current[d]] /\ current[d] <= Len(chatOf') /\ chatOf'[current[d]] = d
      BY <1>1, <1>3 DEF CurrentIsOpen, Queues
    <3>2. open[current[d]] /\ current[d] <= Len(chatOf) /\ chatOf[current[d]] = d /\ current[d] \in Queues
      BY <1>1, <3>1 DEF Touched, CurrentIsOpen
    <3>. QED BY <1>1, <1>3, <2>1, <3>2
  <2>4. OpenIsCurrent'
    <3>1. SUFFICES ASSUME NEW r \in Queues, r # q, open[r] PROVE current'[chatOf'[r]] = r
      BY <1>1, <1>3 DEF OpenIsCurrent
    <3>2. r \in 1..Len(chatOf) /\ current[chatOf[r]] = r /\ chatOf[r] \in Chats /\ chatOf'[r] = chatOf[r]
      BY <1>1, <1>3, <2>1, <3>1 DEF Touched, OpenIsCurrent
    <3>3. chatOf[r] # c
      BY <1>3, <3>2 DEF Queues, NoQueue
    <3>. QED BY <1>1, <1>3, <3>2, <3>3
  <2>5. NoSendOnClosed' /\ RoomIsFresh'
    BY <1>1, <1>3 DEF NoSendOnClosed, RoomIsFresh
  <2>6. FoundIsFresh' /\ ClosedIsEmpty'
    BY <1>1, <1>3, <2>2 DEF Touched, FoundIsFresh, ClosedIsEmpty
  <2>. QED BY <2>3, <2>4, <2>5, <2>6 DEF Touched
<1>. QED BY <1>2, <1>3, FoundOrMade DEF Sound

LEMMA TouchedSend == ASSUME Sound, Touched, Send PROVE Touched'
<1>1. /\ sending \in Tasks /\ taskQ[sending] \in Queues /\ open[taskQ[sending]] /\ sending' = NoTask
      /\ idle[taskQ[sending]] = 0 /\ buf \in [Queues -> Seq(Tasks)]
      /\ buf' = [buf EXCEPT ![taskQ[sending]] = Append(buf[taskQ[sending]], sending)]
      /\ UNCHANGED <<tasks, chatOf, current, open, idle, workers, outbound, sent, process>>
  BY DEF Send, Sound, Types, Touched, RoomIsFresh
<1>2. FoundIsFresh' /\ ClosedIsEmpty'
  BY <1>1 DEF Touched, FoundIsFresh, ClosedIsEmpty, workers
<1>. QED BY <1>1, <1>2 DEF Touched, CurrentIsOpen, OpenIsCurrent, NoSendOnClosed, RoomIsFresh, NoTask

LEMMA TouchedWorker ==
  ASSUME Sound, Touched, NEW q \in Queues, Work(q) \/ Acquire(q)
  PROVE  Touched'
<1>. USE DEF Goto, tasks, channels, history, workers, process
<1>1. CASE Receive(q)
  <2>1. /\ buf[q] # <<>> /\ buf[q] \in Seq(Tasks) /\ idle[q] = 0 /\ buf' = [buf EXCEPT ![q] = Tail(buf[q])]
        /\ buf \in [Queues -> Seq(Tasks)]
        /\ pc' = [pc EXCEPT ![q] = "sem"]
        /\ UNCHANGED <<tasks, chatOf, current, open, idle, sending>>
    BY <1>1 DEF Receive, Sound, Types, Touched, FoundIsFresh
  <2>2. open[q]
    BY <2>1 DEF Touched, ClosedIsEmpty
  <2>3. RoomIsFresh'
    BY <2>1 DEF Touched, RoomIsFresh, Room
  <2>4. ClosedIsEmpty' /\ FoundIsFresh'
    BY <2>1, <2>2 DEF Touched, ClosedIsEmpty, FoundIsFresh
  <2>. QED BY <2>1, <2>3, <2>4 DEF Touched, CurrentIsOpen, OpenIsCurrent, NoSendOnClosed
<1>2. CASE Touch(q)
  BY <1>2 DEF Touch, Sound, Types, Touched, CurrentIsOpen, OpenIsCurrent, ClosedIsEmpty, NoSendOnClosed, RoomIsFresh, Room, FoundIsFresh
<1>3. CASE Exit(q) \/ GiveUp(q) \/ HandlerFails(q) \/ Answer(q) \/ Reply(q) \/ Acquire(q)
  <2>1. /\ UNCHANGED <<taskQ, chatOf, current, buf, open, idle, sending>>
        /\ \E v \in {"exit", "touch", "reply", "run"} : pc' = [pc EXCEPT ![q] = v]
    BY <1>3 DEF Exit, GiveUp, HandlerFails, Answer, Reply, Acquire
  <2>2. FoundIsFresh'
    BY <2>1 DEF Sound, Types, Touched, FoundIsFresh
  <2>. QED BY <2>1, <2>2 DEF Touched, CurrentIsOpen, OpenIsCurrent, ClosedIsEmpty, NoSendOnClosed, RoomIsFresh, Room
<1>. QED BY <1>1, <1>2, <1>3 DEF Work

LEMMA TouchedCleanup == ASSUME Sound, Touched, Cleanup PROVE Touched'
<1>1. /\ open' = [r \in Queues |-> open[r] /\ r \notin Dropped]
      /\ current' = [c \in Chats |-> IF current[c] \in Dropped THEN NoQueue ELSE current[c]]
      /\ Dropped \subseteq Queues
      /\ \A r \in Dropped : open[r] /\ buf[r] = <<>> /\ idle[r] # 0
      /\ UNCHANGED <<tasks, chatOf, buf, idle, workers, sending>>
      /\ current \in [Chats -> Queues \cup {NoQueue}] /\ open \in [Queues -> BOOLEAN]
      /\ chatOf \in Seq(Chats)
  BY TimesAssumption DEF Cleanup, Dropped, Unused, Sound, Types
<1>. HIDE DEF Dropped
<1>2. CurrentIsOpen'
  BY <1>1 DEF Touched, CurrentIsOpen
<1>3. OpenIsCurrent'
  <2>1. ASSUME NEW r \in Queues, open[r], r \notin Dropped PROVE current'[chatOf[r]] = r
    <3>1. chatOf[r] \in Chats
      BY <1>1, <2>1 DEF Sound, Unmade, Queues
    <3>. QED BY <1>1, <2>1, <3>1 DEF Touched, OpenIsCurrent
  <2>. QED BY <1>1, <2>1 DEF OpenIsCurrent
<1>4. ClosedIsEmpty' /\ FoundIsFresh'
  BY <1>1 DEF Touched, ClosedIsEmpty, FoundIsFresh, workers
<1>5. NoSendOnClosed' /\ RoomIsFresh'
  BY <1>1, CapacityAssumption DEF Touched, NoSendOnClosed, RoomIsFresh, Room, tasks
<1>. QED BY <1>2, <1>3, <1>4, <1>5 DEF Touched

LEMMA TouchedRest ==
  ASSUME Sound, Touched,
         \/ Route \/ Tick \/ Signal \/ Stop \/ UNCHANGED vars
         \/ \E who \in {"submitter", "router"} : Return(who)
  PROVE  Touched'
<1>. USE DEF tasks, channels, history, workers, process, Touched, CurrentIsOpen, OpenIsCurrent, ClosedIsEmpty,
             NoSendOnClosed, RoomIsFresh, Room, FoundIsFresh
<1>1. CASE Tick
  BY <1>1 DEF Tick, Prompt
<1>2. CASE \/ Route \/ Signal \/ Stop \/ UNCHANGED vars
           \/ \E who \in {"submitter", "router"} : Return(who)
  BY <1>2 DEF Route, Signal, Stop, Return, vars
<1>. QED BY <1>1, <1>2

LEMMA TouchedStep == Sound /\ Touched /\ [Next]_vars => Touched'
  BY TouchedSubmit, TouchedSend, TouchedWorker, TouchedCleanup, TouchedRest DEF Next

(* Whatever the sweep does between the two halves of Submit, the channel   *)
(* Submit is about to send on is open: the gateway does not panic.         *)
THEOREM QueueNoSendOnClosed == Spec => []NoSendOnClosed
<1>1. Touched => NoSendOnClosed
  BY DEF Touched
<1>. QED BY SoundInit, SoundStep, TouchedInit, TouchedStep, <1>1, PTL DEF Spec

-----------------------------------------------------------------------------
\* What Submit does to the queues: it opens the one it uses, and no other.
LEMMA Entered ==
  ASSUME Sound, Touched, NEW c \in Chats, NEW q \in Queues, FindOrMake(c, q)
  PROVE  /\ UNCHANGED buf /\ open'[q] /\ pc'[q] = IF open[q] THEN pc[q] ELSE "recv"
         /\ \A r \in Queues \ {q} : open'[r] = open[r] /\ pc'[r] = pc[r]
<1>1. CASE q = current[c] /\ UNCHANGED <<chatOf, current, buf, open, pc>>
  BY <1>1 DEF Touched, CurrentIsOpen, Queues, NoQueue
<1>2. CASE /\ q = Len(chatOf) + 1 /\ UNCHANGED buf
           /\ open' = [open EXCEPT ![q] = TRUE] /\ pc' = [pc EXCEPT ![q] = "recv"]
  <2>1. ~open[q]
    BY <1>2 DEF Sound, Types, Unmade, Queues
  <2>. QED BY <1>2, <2>1 DEF Sound, Types
<1>. QED BY <1>1, <1>2, FoundOrMade DEF Sound

\* A worker executes a task on an open queue, idle no longer than the worker is
\* busy, or on one that was dropped because the task outlived it.
Timed ==
  \A q \in Queues : pc[q] \in Executing => IF open[q] THEN idle[q] <= busy[q] ELSE busy[q] > IdleTimeout

LEMMA TimedStep ==
  ASSUME Sound, Touched, Timed, [Next]_vars
  PROVE  Timed'
<1>. USE TimesAssumption DEF Goto, tasks, channels, history, workers, process, Executing
<1>1. ASSUME NEW c \in Chats, Submit(c) PROVE Timed'
  <2>. PICK q \in Queues : FindOrMake(c, q) /\ TouchQueue(q)
    BY <1>1 DEF Submit
  <2>1. idle' = [idle EXCEPT ![q] = 0] /\ UNCHANGED busy
    BY <1>1 DEF Submit, TouchQueue
  <2>. QED BY <2>1, Entered DEF Sound, Types, Timed
<1>2. ASSUME NEW q \in Queues, Receive(q) PROVE Timed'
  <2>1. open[q] /\ idle[q] = 0
    BY <1>2 DEF Receive, Sound, Types, Touched, ClosedIsEmpty, FoundIsFresh
  <2>. QED BY <1>2, <2>1 DEF Receive, Sound, Types, Timed
<1>3. ASSUME NEW q \in Queues,
             Exit(q) \/ GiveUp(q) \/ HandlerFails(q) \/ Answer(q) \/ Reply(q) \/ Touch(q) \/ Acquire(q)
      PROVE  Timed'
  BY <1>3 DEF Exit, GiveUp, HandlerFails, Answer, Reply, Touch, Acquire, Sound, Types, Timed
<1>4. CASE Cleanup
  <2>1. ASSUME NEW q \in Dropped, pc[q] \in Executing PROVE busy[q] > IdleTimeout
    BY <2>1 DEF Dropped, Unused, Timed, Sound, Types
  <2>. QED BY <1>4, <2>1 DEF Cleanup, Timed
<1>5. CASE Tick
  BY <1>5 DEF Tick, Sound, Types, Timed
<1>6. CASE \/ UNCHANGED vars \/ Send \/ Route \/ Signal \/ Stop
           \/ \E who \in {"submitter", "router"} : Return(who)
  BY <1>6 DEF vars, Send, Route, Signal, Stop, Return, Timed
<1>. QED BY <1>1, <1>2, <1>3, <1>4, <1>5, <1>6 DEF Next, Work

\* Of the queues of a line one at most may still get or hold a task.
Live(q) == open[q] \/ pc[q] \in Executing
OneLive == \A q, r \in Queues : q # r /\ Live(q) /\ Live(r) => LineOf(q) # LineOf(r)

LEMMA OneLiveSubmit ==
  ASSUME Sound, Touched, Timed, OneLive, NEW c \in Chats, Submit(c)
  PROVE  OneLive'
<1>. PICK q \in Queues : FindOrMake(c, q)
  BY DEF Submit
<1>1. CASE q = current[c] /\ UNCHANGED <<chatOf, current, buf, open, pc, outlived, line>>
  BY <1>1 DEF OneLive, Live, LineOf
<1>2. CASE /\ current[c] = NoQueue /\ q = Len(chatOf) + 1
           /\ chatOf'[q] = c
           /\ \A i \in 1..Len(chatOf) : chatOf'[i] = chatOf[i]
           /\ open' = [open EXCEPT ![q] = TRUE]
           /\ pc' = [pc EXCEPT ![q] = "recv"]
           /\ \A d \in Chats : outlived'[d] = IF d = c /\ Outlived(c) THEN outlived[d] + 1 ELSE outlived[d]
           /\ line'[q] = outlived'[c]
           /\ \A i \in 1..Len(chatOf) : line'[i] = line[i]
  <2>1. ASSUME NEW r \in Queues, r # q, Live(r)'
        PROVE  Live(r) /\ r \in 1..Len(chatOf) /\ LineOf(r)' = LineOf(r) /\ LineOf(r) # LineOf(q)'
    <3>1. Live(r)
      BY <1>2, <2>1 DEF Live, Sound, Types
    <3>2. r \in 1..Len(chatOf)
      BY <3>1 DEF Live, Sound, Types, Unmade, Queues, Executing
    <3>3. LineOf(r)' = LineOf(r)
      BY <1>2, <3>2 DEF LineOf
    <3>4. CASE chatOf[r] = c
      <4>1. ~open[r]
        BY <1>2, <3>4 DEF Touched, OpenIsCurrent, Queues, NoQueue
      <4>2. Outlived(c)
        BY <3>1, <3>2, <3>4, <4>1, LenProperties DEF Live, Timed, Outlived, Sound, Types
      <4>3. line'[q] = outlived[c] + 1
        BY <1>2, <4>2
      <4>4. outlived \in [Chats -> 0..MaxQueues] /\ line \in Seq(0..MaxQueues) /\ r \in 1..Len(line)
        BY <3>2 DEF Sound, Types
      <4>5. outlived[c] \in Nat /\ line[r] \in Nat
        BY <4>4, BoundsAssumption
      <4>6. line[r] <= outlived[c]
        BY <3>2, <3>4 DEF Sound, Counted
      <4>7. line[r] # line'[q]
        BY <4>3, <4>5, <4>6
      <4>. QED BY <3>1, <3>2, <3>3, <4>7 DEF LineOf
    <3>5. CASE chatOf[r] # c
      BY <1>2, <3>1, <3>2, <3>3, <3>5 DEF LineOf
    <3>. QED BY <3>4, <3>5
  <2>2. SUFFICES ASSUME NEW r \in Queues, NEW u \in Queues, r # u, Live(r)', Live(u)'
                 PROVE  LineOf(r)' # LineOf(u)'
    BY DEF OneLive
  <2>3. CASE r # q /\ u # q
    BY <2>1, <2>2, <2>3 DEF OneLive
  <2>4. CASE r = q \/ u = q
    BY <2>1, <2>2, <2>4
  <2>. QED BY <2>3, <2>4
<1>. QED BY <1>1, <1>2, FoundOrMade

LEMMA OneLiveStep ==
  ASSUME Sound, Touched, Timed, OneLive, [Next]_vars
  PROVE  OneLive'
<1>. USE DEF Goto, tasks, channels, history, workers, process, Live, LineOf, Executing
<1>1. ASSUME NEW q \in Queues, Receive(q) PROVE OneLive'
  <2>1. open[q]
    BY <1>1 DEF Receive, Touched, ClosedIsEmpty
  <2>. QED BY <1>1, <2>1 DEF Receive, Sound, Types, OneLive
<1>2. ASSUME NEW q \in Queues,
             Exit(q) \/ GiveUp(q) \/ HandlerFails(q) \/ Answer(q) \/ Reply(q) \/ Touch(q) \/ Acquire(q)
      PROVE  OneLive'
  <2>1. /\ UNCHANGED <<chatOf, line, open>>
        /\ \/ \E v \in {"exit", "touch", "recv"} : pc' = [pc EXCEPT ![q] = v]
           \/ pc[q] \in Executing /\ \E v \in {"reply", "run"} : pc' = [pc EXCEPT ![q] = v]
    BY <1>2 DEF Exit, GiveUp, HandlerFails, Answer, Reply, Touch, Acquire
  <2>2. \A r \in Queues : Live(r)' => Live(r)
    BY <2>1 DEF Sound, Types
  <2>. QED BY <2>1, <2>2 DEF OneLive
<1>3. CASE Cleanup
  BY <1>3 DEF Cleanup, OneLive
<1>4. CASE \/ UNCHANGED vars \/ Send \/ Route \/ Tick \/ Signal \/ Stop
           \/ \E who \in {"submitter", "router"} : Return(who)
  BY <1>4 DEF vars, Send, Route, Tick, Signal, Stop, Return, OneLive
<1>. QED BY <1>1, <1>2, <1>3, <1>4, OneLiveSubmit DEF Next, Work

-----------------------------------------------------------------------------
\* Channels and workers hold tasks that were submitted to them; a worker stops
\* holding one when it has ended; the worker of an open queue lives.
Own ==
  /\ sending <= seq
  /\ \A t \in Tasks : taskSt[t] # "none" => taskQ[t] \in Queues
  /\ \A q \in Queues : /\ cur[q] <= seq /\ (cur[q] # NoTask => taskQ[cur[q]] = q)
                       /\ \A i \in DOMAIN buf[q] : buf[q][i] <= seq /\ taskQ[buf[q][i]] = q
                       /\ pc[q] = "touch" => taskSt[cur[q]] \in {"done", "failed"} \/ life = "stopped"
                       /\ open[q] => pc[q] \notin {"none", "exit"} \/ life = "stopped"

LEMMA OwnInit == Init => Own /\ NoTaskLost
  BY DEF Init, Own, NoTaskLost, NoTask

LEMMA OwnSubmit ==
  ASSUME Sound, Touched, Own, NoTaskLost, NEW c \in Chats, Submit(c)
  PROVE  Own' /\ NoTaskLost'
<1>. PICK q \in Queues : FindOrMake(c, q) /\ taskQ' = [taskQ EXCEPT ![seq + 1] = q]
  BY DEF Submit
<1>1. /\ seq \in Nat /\ seq + 1 \in Tasks /\ seq' = seq + 1 /\ sending = NoTask /\ sending' = seq + 1
      /\ taskSt' = [taskSt EXCEPT ![seq + 1] = "pending"]
      /\ UNCHANGED <<cur, life>>
  BY BoundsAssumption DEF Submit, Status, process, Sound, Types, Tasks
<1>2. UNCHANGED buf /\ pc'[q] = (IF open[q] THEN pc[q] ELSE "recv") /\ open'[q]
  BY Entered
<1>3. \A r \in Queues \ {q} : pc'[r] = pc[r] /\ open'[r] = open[r]
  BY Entered
<1>4. Own'
  <2>1. \A t \in 1..seq : taskQ'[t] = taskQ[t] /\ taskSt'[t] = taskSt[t]
    BY <1>1 DEF Sound, Types, Tasks
  <2>2. \A t \in Tasks : taskSt'[t] # "none" => taskQ'[t] \in Queues
    BY <1>1 DEF Own, Sound, Types
  <2>3. ASSUME NEW r \in Queues
        PROVE  /\ cur[r] <= seq' /\ (cur[r] # NoTask => taskQ'[cur[r]] = r)
               /\ pc'[r] = "touch" => taskSt'[cur[r]] \in {"done", "failed"} \/ life = "stopped"
    <3>1. CASE cur[r] = NoTask
      <4>1. pc'[r] # "touch"
        BY <1>2, <1>3, <3>1 DEF Sound, Held
      <4>2. seq \in Nat /\ seq' = seq + 1
        BY <1>1
      <4>3. cur[r] <= seq'
        BY <3>1, <4>2 DEF NoTask
      <4>. QED BY <3>1, <4>1, <4>3
    <3>2. CASE cur[r] # NoTask
      <4>1. cur[r] \in 1..seq
        BY <1>1, <3>2 DEF Own, Sound, Types, Tasks, NoTask
      <4>. QED BY <1>1, <1>2, <1>3, <2>1, <4>1 DEF Own
    <3>. QED BY <3>1, <3>2
  <2>4. ASSUME NEW r \in Queues, NEW i \in DOMAIN buf[r]
        PROVE  buf[r][i] <= seq' /\ taskQ'[buf[r][i]] = r
    <3>1. buf[r][i] \in 1..seq
      <4>1. buf[r] \in Seq(Tasks) /\ buf[r][i] <= seq
        BY DEF Own, Sound, Types
      <4>2. buf[r][i] \in Tasks
        BY <4>1, ElementOfSeq
      <4>. QED BY <1>1, <4>1, <4>2 DEF Tasks
    <3>. QED BY <1>1, <2>1, <3>1 DEF Own
  <2>5. \A r \in Queues : open'[r] => pc'[r] \notin {"none", "exit"} \/ life = "stopped"
    BY <1>2, <1>3 DEF Own
  <2>. QED BY <1>1, <1>2, <2>2, <2>3, <2>4, <2>5 DEF Own
<1>5. ASSUME NEW t \in Tasks, taskSt'[t] \in {"pending", "running"}, life' # "stopped"
      PROVE  InHand(t)' /\ pc'[taskQ'[t]] \notin {"none", "exit"}
  <2>1. CASE t = seq + 1
    BY <1>1, <1>2, <1>5, <2>1 DEF InHand, Own, Sound, Types
  <2>2. CASE t # seq + 1
    <3>1. taskSt'[t] = taskSt[t] /\ taskQ'[t] = taskQ[t]
      BY <1>1, <2>2 DEF Sound, Types
    <3>2. InHand(t) /\ pc[taskQ[t]] \notin {"none", "exit"} /\ t # NoTask
      BY <1>1, <1>5, <3>1 DEF NoTaskLost, Tasks, NoTask
    <3>3. InHand(t)'
      BY <1>1, <1>2, <3>1, <3>2 DEF InHand
    <3>4. pc'[taskQ[t]] \notin {"none", "exit"}
      BY <1>2, <1>3, <1>5, <3>1, <3>2 DEF Own
    <3>. QED BY <3>1, <3>3, <3>4
  <2>. QED BY <2>1, <2>2
<1>. QED BY <1>4, <1>5 DEF NoTaskLost

LEMMA OwnSend ==
  ASSUME Sound, Touched, Own, NoTaskLost, Send
  PROVE  Own' /\ NoTaskLost'
<1>. DEFINE q == taskQ[sending]
<1>1. /\ sending \in Tasks /\ q \in Queues /\ open[q] /\ sending' = NoTask /\ seq \in Nat
      /\ buf \in [Queues -> Seq(Tasks)] /\ buf[q] \in Seq(Tasks)
      /\ buf' = [buf EXCEPT ![q] = Append(buf[q], sending)]
      /\ UNCHANGED <<seq, taskSt, taskQ, open, pc, cur, life>>
  BY DEF Send, Sound, Types, Touched, RoomIsFresh, tasks, workers, process
<1>. HIDE DEF q
<1>2. /\ DOMAIN buf'[q] = DOMAIN buf[q] \cup {Len(buf[q]) + 1}
      /\ buf'[q][Len(buf[q]) + 1] = sending
      /\ \A i \in DOMAIN buf[q] : buf'[q][i] = buf[q][i]
      /\ \A r \in Queues \ {q} : buf'[r] = buf[r]
  BY <1>1, AppendProperties
<1>3. Own'
  <2>1. ASSUME NEW r \in Queues, NEW i \in DOMAIN buf'[r] PROVE buf'[r][i] <= seq /\ taskQ[buf'[r][i]] = r
    <3>1. CASE r = q /\ i = Len(buf[q]) + 1
      BY <1>1, <1>2, <3>1 DEF Own, q
    <3>2. CASE ~(r = q /\ i = Len(buf[q]) + 1)
      BY <1>1, <1>2, <3>2 DEF Own
    <3>. QED BY <3>1, <3>2
  <2>. QED BY <1>1, <2>1 DEF Own, NoTask
<1>4. ASSUME NEW t \in Tasks, taskQ[t] \in Queues, InHand(t) PROVE InHand(t)'
  <2>1. CASE t = sending
    BY <1>1, <1>2, <2>1 DEF InHand, q
  <2>2. CASE cur[taskQ[t]] = t
    BY <1>1, <2>2 DEF InHand
  <2>3. ASSUME NEW i \in DOMAIN buf[taskQ[t]], buf[taskQ[t]][i] = t PROVE InHand(t)'
    <3>1. CASE taskQ[t] = q
      BY <1>1, <1>2, <2>3, <3>1 DEF InHand
    <3>2. CASE taskQ[t] # q
      BY <1>1, <1>2, <1>4, <2>3, <3>2 DEF InHand
    <3>. QED BY <3>1, <3>2
  <2>. QED BY <1>4, <2>1, <2>2, <2>3 DEF InHand
<1>. QED BY <1>1, <1>3, <1>4 DEF NoTaskLost, Own

LEMMA OwnReceive ==
  ASSUME Sound, Touched, Own, NoTaskLost, NEW q \in Queues, Receive(q)
  PROVE  Own' /\ NoTaskLost'
<1>1. /\ pc[q] = "recv" /\ cur[q] = NoTask /\ pc' = [pc EXCEPT ![q] = "sem"]
      /\ buf[q] \in Seq(Tasks) /\ buf[q] # <<>> /\ buf \in [Queues -> Seq(Tasks)]
      /\ cur' = [cur EXCEPT ![q] = Head(buf[q])] /\ cur \in [Queues -> Tasks \cup {NoTask}]
      /\ buf' = [buf EXCEPT ![q] = Tail(buf[q])]
      /\ pc \in [Queues -> {"none", "recv", "touch", "exit"} \cup Executing]
      /\ UNCHANGED <<seq, taskSt, taskQ, open, sending, life>>
  BY DEF Receive, Goto, Sound, Types, Held, Executing, tasks, process
<1>2. /\ Head(buf[q]) = buf[q][1] /\ 1 \in DOMAIN buf[q]
      /\ \A i \in DOMAIN Tail(buf[q]) : i + 1 \in DOMAIN buf[q] /\ Tail(buf[q])[i] = buf[q][i + 1]
      /\ \A i \in DOMAIN buf[q] \ {1} : i - 1 \in DOMAIN Tail(buf[q]) /\ Tail(buf[q])[i - 1] = buf[q][i]
  BY <1>1, HeadTailProperties
<1>3. Own'
  <2>1. cur'[q] <= seq /\ taskQ[cur'[q]] = q
    BY <1>1, <1>2 DEF Own
  <2>2. ASSUME NEW r \in Queues, NEW i \in DOMAIN buf'[r] PROVE buf'[r][i] <= seq /\ taskQ[buf'[r][i]] = r
    <3>1. CASE r = q
      BY <1>1, <1>2, <2>2, <3>1 DEF Own
    <3>2. CASE r # q
      BY <1>1, <2>2, <3>2 DEF Own
    <3>. QED BY <3>1, <3>2
  <2>3. \A r \in Queues : /\ cur'[r] <= seq /\ (cur'[r] # NoTask => taskQ[cur'[r]] = r)
                          /\ pc'[r] = "touch" => taskSt[cur'[r]] \in {"done", "failed"} \/ life = "stopped"
                          /\ open[r] => pc'[r] \notin {"none", "exit"} \/ life = "stopped"
    BY <1>1, <2>1 DEF Own
  <2>. QED BY <1>1, <2>2, <2>3 DEF Own
<1>4. ASSUME NEW t \in Tasks, taskQ[t] \in Queues, InHand(t) PROVE InHand(t)'
  <2>1. CASE t = sending
    BY <1>1, <2>1 DEF InHand
  <2>2. CASE cur[taskQ[t]] = t
    BY <1>1, <1>4, <2>2 DEF InHand, Tasks, NoTask
  <2>3. ASSUME NEW i \in DOMAIN buf[taskQ[t]], buf[taskQ[t]][i] = t PROVE InHand(t)'
    <3>1. CASE taskQ[t] = q /\ i = 1
      BY <1>1, <1>2, <2>3, <3>1 DEF InHand
    <3>2. CASE taskQ[t] = q /\ i # 1
      <4>1. /\ i - 1 \in DOMAIN buf'[taskQ'[t]] /\ buf'[taskQ'[t]][i - 1] = t
        BY <1>1, <1>2, <2>3, <3>2
      <4>. QED BY <4>1 DEF InHand
    <3>3. CASE taskQ[t] # q
      BY <1>1, <1>4, <2>3, <3>3 DEF InHand
    <3>. QED BY <3>1, <3>2, <3>3
  <2>. QED BY <1>4, <2>1, <2>2, <2>3 DEF InHand
<1>. QED BY <1>1, <1>3, <1>4 DEF NoTaskLost, Own

\* An end of a task's own worker: the status it writes is of the task it holds.
LEMMA OwnWorker ==
  ASSUME Sound, Touched, Own, NoTaskLost, NEW q \in Queues,
         \/ Exit(q) \/ GiveUp(q) \/ HandlerFails(q) \/ Answer(q) \/ Reply(q) \/ Touch(q) \/ Acquire(q)
  PROVE  Own' /\ NoTaskLost'
<1>. USE DEF Goto, tasks, channels, history, workers, process
<1>0. /\ taskSt \in [Tasks -> {"none", "pending", "running", "done", "failed"}]
      /\ pc \in [Queues -> {"none", "recv", "touch", "exit"} \cup Executing]
      /\ cur \in [Queues -> Tasks \cup {NoTask}] /\ life \in {"up", "stopping", "stopped"}
      /\ seq \in Nat /\ NoTask \notin Tasks
  BY BoundsAssumption DEF Sound, Types, Tasks, NoTask
<1>1. CASE Exit(q)
  <2>1. pc[q] = "recv" /\ cur[q] = NoTask /\ pc' = [pc EXCEPT ![q] = "exit"]
        /\ UNCHANGED <<seq, taskSt, taskQ, buf, open, cur, sending, life>>
    BY <1>1 DEF Exit, Sound, Held, Executing
  <2>2. life = "stopped" \/ (buf[q] = <<>> /\ ~open[q])
    BY <1>1 DEF Exit, Over
  <2>3. ASSUME NEW t \in Tasks, taskQ[t] = q, InHand(t) PROVE life = "stopped"
    BY <1>0, <2>1, <2>2, <2>3 DEF InHand, Touched, NoSendOnClosed
  <2>. QED BY <1>0, <2>1, <2>2, <2>3 DEF Own, NoTaskLost, InHand
<1>2. CASE GiveUp(q)
  BY <1>0, <1>2 DEF GiveUp, Over, Own, NoTaskLost, InHand
<1>3. CASE HandlerFails(q) \/ Reply(q) \/ Acquire(q)
  <2>1. /\ cur[q] \in Tasks /\ taskQ[cur[q]] = q
        /\ pc[q] \in Executing /\ pc'[q] \in {"touch", "run"}
        /\ \A r \in Queues \ {q} : pc'[r] = pc[r]
        /\ pc'[q] = "touch" => taskSt'[cur[q]] \in {"done", "failed"}
        /\ \A t \in Tasks \ {cur[q]} : taskSt'[t] = taskSt[t]
        /\ taskSt[cur[q]] # "none" => taskQ[cur[q]] \in Queues
        /\ UNCHANGED <<seq, taskQ, buf, open, cur, sending, life>>
    BY <1>0, <1>3 DEF HandlerFails, Reply, Acquire, Status, Own, Sound, Held, Executing
  <2>2. Own'
    <3>1. \A r \in Queues \ {q} : cur[r] # NoTask => cur[r] # cur[q]
      BY <2>1 DEF Own
    <3>2. ASSUME NEW r \in Queues, pc'[r] = "touch"
          PROVE  taskSt'[cur[r]] \in {"done", "failed"} \/ life = "stopped"
      <4>1. CASE r = q
        BY <2>1, <3>2, <4>1
      <4>2. CASE r # q
        <5>1. cur[r] \in Tasks /\ pc[r] = "touch"
          BY <1>0, <2>1, <3>2, <4>2 DEF Sound, Held
        <5>. QED BY <2>1, <3>1, <4>2, <5>1, <1>0 DEF Own
      <4>. QED BY <4>1, <4>2
    <3>3. \A t \in Tasks : taskSt'[t] # "none" => taskQ[t] \in Queues
      BY <2>1 DEF Own
    <3>4. \A r \in Queues : open[r] => pc'[r] \notin {"none", "exit"} \/ life = "stopped"
      BY <2>1 DEF Own
    <3>. QED BY <2>1, <3>2, <3>3, <3>4 DEF Own
  <2>3. NoTaskLost'
    <3>1. SUFFICES ASSUME NEW t \in Tasks, taskSt'[t] \in {"pending", "running"}, life # "stopped"
                   PROVE  InHand(t)' /\ pc'[taskQ[t]] \notin {"none", "exit"}
      BY <2>1 DEF NoTaskLost
    <3>2. CASE t = cur[q]
      BY <2>1, <3>2 DEF InHand
    <3>3. CASE t # cur[q]
      <4>1. InHand(t) /\ pc[taskQ[t]] \notin {"none", "exit"} /\ taskQ[t] \in Queues
        BY <2>1, <3>1, <3>3 DEF NoTaskLost, Own
      <4>. QED BY <2>1, <4>1 DEF InHand
    <3>. QED BY <3>2, <3>3
  <2>. QED BY <2>2, <2>3
<1>4. CASE Answer(q)
  BY <1>0, <1>4 DEF Answer, Own, NoTaskLost, InHand
<1>5. CASE Touch(q)
  <2>1. /\ pc[q] = "touch" /\ pc' = [pc EXCEPT ![q] = "recv"] /\ cur' = [cur EXCEPT ![q] = NoTask]
        /\ UNCHANGED <<seq, taskSt, taskQ, buf, open, sending, life>>
    BY <1>5 DEF Touch
  <2>2. Own'
    BY <1>0, <2>1 DEF Own, NoTask
  <2>3. \A t \in Tasks : taskSt[t] \in {"pending", "running"} /\ life # "stopped" => cur[q] # t
    BY <2>1 DEF Own
  <2>. QED BY <1>0, <2>1, <2>2, <2>3 DEF NoTaskLost, InHand, Own
<1>. QED BY <1>1, <1>2, <1>3, <1>4, <1>5

LEMMA OwnRest ==
  ASSUME Sound, Own, NoTaskLost,
         \/ Route \/ Cleanup \/ Tick \/ Signal \/ Stop \/ UNCHANGED vars
         \/ \E who \in {"submitter", "router"} : Return(who)
  PROVE  Own' /\ NoTaskLost'
<1>. USE DEF tasks, channels, history, workers, process
<1>1. CASE Cleanup
  BY <1>1 DEF Cleanup, Own, NoTaskLost, InHand, Sound, Types
<1>2. CASE Signal \/ Stop
  BY <1>2 DEF Signal, Stop, Own, NoTaskLost, InHand
<1>3. CASE Route \/ Tick \/ UNCHANGED vars \/ \E who \in {"submitter", "router"} : Return(who)
  BY <1>3 DEF Route, Tick, Return, vars, Own, NoTaskLost, InHand
<1>. QED BY <1>1, <1>2, <1>3

LEMMA OwnStep == Sound /\ Touched /\ Own /\ NoTaskLost /\ [Next]_vars => Own' /\ NoTaskLost'
  BY OwnSubmit, OwnSend, OwnReceive, OwnWorker, OwnRest DEF Next, Work

(* A task that has not ended waits in a channel whose worker lives, or is  *)
(* held by its worker or by Submit: no sweep, no exit of a worker and no   *)
(* failure of a task drops another task.                                   *)
THEOREM QueueNoTaskLost == Spec => []NoTaskLost
BY SoundInit, SoundStep, TouchedInit, TouchedStep, OwnInit, OwnStep, PTL DEF Spec

-----------------------------------------------------------------------------
\* A task that was submitted belongs to a queue that was made.
Placed == \A t \in 1..seq : taskSt[t] # "none" /\ taskQ[t] \in 1..Len(chatOf)

LEMMA PlacedStep == ASSUME Sound, Touched, Placed, [Next]_vars PROVE Placed'
<1>. USE DEF Goto, Status, tasks, channels, history, workers, process
<1>1. ASSUME NEW c \in Chats, Submit(c) PROVE Placed'
  <2>. PICK q \in Queues : FindOrMake(c, q) /\ taskQ' = [taskQ EXCEPT ![seq + 1] = q]
    BY <1>1 DEF Submit
  <2>1. /\ seq \in Nat /\ seq' = seq + 1 /\ 1..seq' \subseteq Tasks
        /\ taskSt' = [taskSt EXCEPT ![seq + 1] = "pending"]
    BY <1>1, BoundsAssumption DEF Submit, Sound, Types, Tasks
  <2>2. chatOf \in Seq(Chats) /\ q \in 1..Len(chatOf') /\ Len(chatOf) <= Len(chatOf')
    <3>1. chatOf \in Seq(Chats) /\ Len(chatOf) \in Nat /\ q \in Nat \ {0}
      BY DEF Sound, Types, Queues
    <3>2. CASE q = current[c] /\ UNCHANGED chatOf
      BY <3>1, <3>2 DEF Touched, CurrentIsOpen, NoQueue
    <3>3. CASE q = Len(chatOf) + 1 /\ Len(chatOf') = q
      BY <3>1, <3>3
    <3>. QED BY <3>2, <3>3, FoundOrMade DEF Sound
  <2>3. ASSUME NEW t \in 1..seq' PROVE taskSt'[t] # "none" /\ taskQ'[t] \in 1..Len(chatOf')
    <3>1. /\ t \in Tasks /\ (t = seq + 1 \/ t \in 1..seq)
          /\ taskSt \in [Tasks -> {"none", "pending", "running", "done", "failed"}]
          /\ taskQ \in [Tasks -> Queues \cup {NoQueue}]
      BY <2>1, <2>3 DEF Sound, Types
    <3>2. CASE t = seq + 1
      BY <2>1, <2>2, <3>1, <3>2
    <3>3. CASE t \in 1..seq
      BY <2>1, <2>2, <3>1, <3>3 DEF Placed
    <3>. QED BY <3>1, <3>2, <3>3
  <2>. QED BY <2>3 DEF Placed
<1>2. ASSUME NEW q \in Queues, HandlerFails(q) \/ Reply(q) \/ Acquire(q) PROVE Placed'
  <2>1. /\ \E v \in {"running", "done", "failed"} : taskSt' = [taskSt EXCEPT ![cur[q]] = v]
        /\ taskSt \in [Tasks -> {"none", "pending", "running", "done", "failed"}]
        /\ 1..seq \subseteq Tasks /\ UNCHANGED <<seq, taskQ, chatOf>>
    BY <1>2, BoundsAssumption DEF HandlerFails, Reply, Acquire, Sound, Types, Tasks
  <2>. QED BY <2>1 DEF Placed
<1>3. ASSUME NEW q \in Queues, Receive(q) \/ Exit(q) \/ GiveUp(q) \/ Answer(q) \/ Touch(q)
      PROVE  Placed'
  BY <1>3 DEF Receive, Exit, GiveUp, Answer, Touch, Placed
<1>4. CASE \/ UNCHANGED vars \/ Send \/ Route \/ Cleanup \/ Tick \/ Signal \/ Stop
           \/ \E who \in {"submitter", "router"} : Return(who)
  BY <1>4 DEF vars, Send, Route, Cleanup, Tick, Signal, Stop, Return, Placed
<1>. QED BY <1>1, <1>2, <1>3, <1>4 DEF Next, Work

\* A channel holds its tasks in the order they were submitted, behind the one
\* its worker holds and before the one Submit is about to send.
Lined ==
  /\ \A q \in Queues : \A i \in DOMAIN buf[q] :
       cur[q] < buf[q][i] /\ \A j \in DOMAIN buf[q] : i < j => buf[q][i] < buf[q][j]
  /\ sending # NoTask => /\ sending = seq
                         /\ \A q \in Queues : cur[q] < seq /\ \A i \in DOMAIN buf[q] : buf[q][i] < seq

LEMMA LinedStep == ASSUME Sound, Touched, Own, Lined, [Next]_vars PROVE Lined'
<1>. USE DEF Goto, Status, tasks, channels, history, workers, process
<1>0. /\ buf \in [Queues -> Seq(Tasks)] /\ cur \in [Queues -> Tasks \cup {NoTask}]
      /\ seq \in Nat /\ Tasks \subseteq Nat \ {0} /\ NoTask = 0
      /\ \A q \in Queues : cur[q] \in Nat /\ \A i \in DOMAIN buf[q] : buf[q][i] \in Nat \ {0}
  BY BoundsAssumption, ElementOfSeq DEF Sound, Types, Tasks, NoTask
<1>1. ASSUME NEW c \in Chats, Submit(c) PROVE Lined'
  <2>. PICK q \in Queues : FindOrMake(c, q)
    BY <1>1 DEF Submit
  <2>1. UNCHANGED buf /\ UNCHANGED cur /\ seq' = seq + 1 /\ sending' = seq + 1
    BY <1>1, Entered DEF Submit
  <2>. QED BY <1>0, <2>1 DEF Lined, Own
<1>2. CASE Send
  <2>. DEFINE q == taskQ[sending]
  <2>1. /\ sending \in Tasks /\ q \in Queues /\ sending' = NoTask
        /\ buf' = [buf EXCEPT ![q] = Append(buf[q], sending)]
        /\ UNCHANGED <<seq, cur>>
    BY <1>2 DEF Send, Sound, Types, Touched, RoomIsFresh
  <2>. HIDE DEF q
  <2>2. /\ DOMAIN buf'[q] = DOMAIN buf[q] \cup {Len(buf[q]) + 1} /\ DOMAIN buf[q] = 1..Len(buf[q])
        /\ buf'[q][Len(buf[q]) + 1] = sending
        /\ \A i \in DOMAIN buf[q] : buf'[q][i] = buf[q][i]
        /\ \A r \in Queues \ {q} : buf'[r] = buf[r]
    BY <1>0, <2>1, AppendProperties
  <2>3. sending # NoTask
    BY <1>0, <2>1
  <2>4. cur[q] < sending /\ \A i \in DOMAIN buf[q] : buf[q][i] < sending
    BY <2>1, <2>3 DEF Lined
  <2>5. ASSUME NEW r \in Queues, NEW i \in DOMAIN buf'[r]
        PROVE cur[r] < buf'[r][i] /\ \A j \in DOMAIN buf'[r] : i < j => buf'[r][i] < buf'[r][j]
    <3>1. CASE r # q
      BY <2>2, <3>1 DEF Lined
    <3>2. CASE r = q /\ i = Len(buf[q]) + 1
      BY <2>2, <2>4, <3>2
    <3>3. CASE r = q /\ i \in DOMAIN buf[q]
      BY <1>0, <2>1, <2>2, <2>4, <3>3 DEF Lined
    <3>. QED BY <2>2, <3>1, <3>2, <3>3
  <2>. QED BY <2>1, <2>5 DEF Lined
<1>3. ASSUME NEW q \in Queues, Receive(q) PROVE Lined'
  <2>1. /\ buf[q] \in Seq(Tasks) /\ buf[q] # <<>>
        /\ cur' = [cur EXCEPT ![q] = Head(buf[q])] /\ buf' = [buf EXCEPT ![q] = Tail(buf[q])]
        /\ UNCHANGED <<seq, sending>>
    BY <1>0, <1>3 DEF Receive
  <2>2. /\ Head(buf[q]) = buf[q][1] /\ 1 \in DOMAIN buf[q]
        /\ \A i \in DOMAIN Tail(buf[q]) : /\ i \in Nat /\ 1 < i + 1
                                         /\ i + 1 \in DOMAIN buf[q] /\ Tail(buf[q])[i] = buf[q][i + 1]
    BY <2>1, HeadTailProperties
  <2>3. ASSUME NEW r \in Queues, NEW i \in DOMAIN buf'[r]
        PROVE cur'[r] < buf'[r][i] /\ \A j \in DOMAIN buf'[r] : i < j => buf'[r][i] < buf'[r][j]
    <3>1. CASE r # q
      BY <1>0, <2>1, <3>1 DEF Lined
    <3>2. CASE r = q
      BY <1>0, <2>1, <2>2, <3>2 DEF Lined
    <3>. QED BY <3>1, <3>2
  <2>4. ASSUME sending # NoTask, NEW r \in Queues
        PROVE cur'[r] < seq /\ \A i \in DOMAIN buf'[r] : buf'[r][i] < seq
    <3>1. CASE r # q
      BY <1>0, <2>1, <2>4, <3>1 DEF Lined
    <3>2. CASE r = q
      BY <1>0, <2>1, <2>2, <2>4, <3>2 DEF Lined
    <3>. QED BY <3>1, <3>2
  <2>. QED BY <2>1, <2>3, <2>4 DEF Lined
<1>4. ASSUME NEW q \in Queues, Touch(q) PROVE Lined'
  BY <1>0, <1>4 DEF Touch, Lined
<1>5. ASSUME NEW q \in Queues,
             Exit(q) \/ GiveUp(q) \/ HandlerFails(q) \/ Answer(q) \/ Reply(q) \/ Acquire(q)
      PROVE  Lined'
  BY <1>5 DEF Exit, GiveUp, HandlerFails, Answer, Reply, Acquire, Lined
<1>6. CASE \/ UNCHANGED vars \/ Route \/ Cleanup \/ Tick \/ Signal \/ Stop
           \/ \E who \in {"submitter", "router"} : Return(who)
  BY <1>6 DEF vars, Route, Cleanup, Tick, Signal, Stop, Return, Lined
<1>. QED BY <1>1, <1>2, <1>3, <1>4, <1>5, <1>6 DEF Next, Work

\* A task is pending until its worker has a slot, and running while it has it.
Statuses ==
  /\ sending # NoTask => taskSt[sending] = "pending"
  /\ \A q \in Queues : /\ \A i \in DOMAIN buf[q] : taskSt[buf[q][i]] = "pending"
                       /\ pc[q] = "sem" => taskSt[cur[q]] = "pending"
                       /\ pc[q] \in {"run", "reply"} => taskSt[cur[q]] = "running"

LEMMA StatusesStep == ASSUME Sound, Touched, Own, Lined, Statuses, [Next]_vars PROVE Statuses'
<1>. USE DEF Goto, Status, tasks, channels, history, workers, process
<1>0. /\ buf \in [Queues -> Seq(Tasks)] /\ cur \in [Queues -> Tasks \cup {NoTask}]
      /\ taskSt \in [Tasks -> {"none", "pending", "running", "done", "failed"}]
      /\ pc \in [Queues -> {"none", "recv", "touch", "exit"} \cup Executing]
      /\ seq \in Nat /\ Tasks \subseteq Nat \ {0} /\ NoTask = 0
      /\ \A q \in Queues : \A i \in DOMAIN buf[q] : buf[q][i] \in Tasks
      /\ \A q \in Queues : pc[q] \in Executing => cur[q] \in Tasks /\ taskQ[cur[q]] = q
  BY BoundsAssumption, ElementOfSeq DEF Sound, Types, Held, Own, Tasks, NoTask
<1>1. ASSUME NEW c \in Chats, Submit(c) PROVE Statuses'
  <2>. PICK q \in Queues : FindOrMake(c, q)
    BY <1>1 DEF Submit
  <2>1. /\ UNCHANGED buf /\ UNCHANGED cur /\ sending' = seq + 1 /\ seq + 1 \in Tasks
        /\ taskSt' = [taskSt EXCEPT ![seq + 1] = "pending"]
        /\ \A r \in Queues : pc'[r] = pc[r] \/ pc'[r] = "recv"
    BY <1>0, <1>1, Entered, BoundsAssumption DEF Submit, Tasks
  <2>2. \A t \in Tasks : t <= seq => taskSt'[t] = taskSt[t]
    BY <1>0, <2>1
  <2>3. \A r \in Queues : pc[r] \in Executing => taskSt'[cur[r]] = taskSt[cur[r]]
    BY <1>0, <2>2 DEF Own
  <2>4. \A r \in Queues : \A i \in DOMAIN buf[r] : taskSt'[buf[r][i]] = taskSt[buf[r][i]]
    BY <1>0, <2>2 DEF Own
  <2>. QED BY <1>0, <2>1, <2>3, <2>4 DEF Statuses, Executing
<1>2. CASE Send
  <2>. DEFINE q == taskQ[sending]
  <2>1. /\ sending \in Tasks /\ q \in Queues /\ sending' = NoTask
        /\ buf' = [buf EXCEPT ![q] = Append(buf[q], sending)]
        /\ UNCHANGED <<taskSt, pc, cur>>
    BY <1>2 DEF Send, Sound, Types, Touched, RoomIsFresh
  <2>. HIDE DEF q
  <2>2. /\ DOMAIN buf'[q] = DOMAIN buf[q] \cup {Len(buf[q]) + 1}
        /\ buf'[q][Len(buf[q]) + 1] = sending
        /\ \A i \in DOMAIN buf[q] : buf'[q][i] = buf[q][i]
        /\ \A r \in Queues \ {q} : buf'[r] = buf[r]
    BY <1>0, <2>1, AppendProperties
  <2>3. taskSt[sending] = "pending"
    BY <1>0, <2>1 DEF Statuses
  <2>4. \A r \in Queues : \A i \in DOMAIN buf'[r] : taskSt[buf'[r][i]] = "pending"
    BY <2>2, <2>3 DEF Statuses
  <2>. QED BY <2>1, <2>4 DEF Statuses
<1>3. ASSUME NEW q \in Queues, Receive(q) PROVE Statuses'
  <2>1. /\ buf[q] \in Seq(Tasks) /\ buf[q] # <<>>
        /\ cur' = [cur EXCEPT ![q] = Head(buf[q])] /\ buf' = [buf EXCEPT ![q] = Tail(buf[q])]
        /\ pc' = [pc EXCEPT ![q] = "sem"]
        /\ UNCHANGED <<taskSt, sending>>
    BY <1>0, <1>3 DEF Receive
  <2>2. /\ Head(buf[q]) = buf[q][1] /\ 1 \in DOMAIN buf[q]
        /\ \A i \in DOMAIN Tail(buf[q]) : i + 1 \in DOMAIN buf[q] /\ Tail(buf[q])[i] = buf[q][i + 1]
    BY <2>1, HeadTailProperties
  <2>3. taskSt[Head(buf[q])] = "pending" /\ \A i \in DOMAIN Tail(buf[q]) : taskSt[Tail(buf[q])[i]] = "pending"
    BY <2>2 DEF Statuses
  <2>. QED BY <1>0, <2>1, <2>3 DEF Statuses
<1>4. ASSUME NEW q \in Queues, HandlerFails(q) \/ Reply(q) \/ Acquire(q) PROVE Statuses'
  <2>1. /\ pc[q] \in Executing /\ UNCHANGED <<buf, cur, sending>>
        /\ \/ /\ pc' = [pc EXCEPT ![q] = "touch"]
              /\ \/ taskSt' = [taskSt EXCEPT ![cur[q]] = "failed"]
                 \/ taskSt' = [taskSt EXCEPT ![cur[q]] = "done"]
           \/ pc' = [pc EXCEPT ![q] = "run"] /\ taskSt' = [taskSt EXCEPT ![cur[q]] = "running"]
    BY <1>4 DEF HandlerFails, Reply, Acquire, Executing
  <2>2. cur[q] \in Tasks /\ taskQ[cur[q]] = q /\ \A t \in Tasks : t # cur[q] => taskSt'[t] = taskSt[t]
    BY <1>0, <2>1
  <2>3. sending # NoTask => sending \in Tasks /\ sending # cur[q]
    BY <1>0, <2>2 DEF Lined, Sound, Types
  <2>4. \A r \in Queues : \A i \in DOMAIN buf[r] : buf[r][i] # cur[q]
    <3>1. SUFFICES ASSUME NEW r \in Queues, NEW i \in DOMAIN buf[r], buf[r][i] = cur[q] PROVE FALSE
      OBVIOUS
    <3>2. r = q
      BY <2>2, <3>1 DEF Own
    <3>3. cur[q] < cur[q] /\ cur[q] \in Nat
      BY <1>0, <2>2, <3>1, <3>2 DEF Lined
    <3>. QED BY <3>3
  <2>5. \A r \in Queues \ {q} : pc[r] \in Executing => cur[r] # cur[q]
    BY <1>0, <2>1
  <2>9. \A r \in Queues \ {q} : pc'[r] = pc[r]
    BY <1>0, <2>1
  <2>6. pc'[q] = "touch" \/ (pc'[q] = "run" /\ taskSt'[cur[q]] = "running")
    BY <1>0, <2>1, <2>2
  <2>7. ASSUME NEW r \in Queues, NEW i \in DOMAIN buf[r] PROVE taskSt'[buf[r][i]] = "pending"
    <3>1. buf[r][i] \in Tasks /\ buf[r][i] # cur[q] /\ taskSt[buf[r][i]] = "pending"
      BY <1>0, <2>4 DEF Statuses
    <3>. QED BY <2>2, <3>1
  <2>8. \A r \in Queues \ {q} : pc[r] \in Executing => taskSt'[cur[r]] = taskSt[cur[r]]
    BY <1>0, <2>2, <2>5
  <2>. QED BY <2>1, <2>2, <2>3, <2>6, <2>7, <2>8, <2>9 DEF Statuses, Executing
<1>5. ASSUME NEW q \in Queues, Exit(q) \/ GiveUp(q) \/ Answer(q) PROVE Statuses'
  BY <1>0, <1>5 DEF Exit, GiveUp, Answer, Statuses
<1>6. ASSUME NEW q \in Queues, Touch(q) PROVE Statuses'
  BY <1>0, <1>6 DEF Touch, Statuses
<1>7. CASE \/ UNCHANGED vars \/ Route \/ Cleanup \/ Tick \/ Signal \/ Stop
           \/ \E who \in {"submitter", "router"} : Return(who)
  BY <1>7 DEF vars, Route, Cleanup, Tick, Signal, Stop, Return, Statuses
<1>. QED BY <1>1, <1>2, <1>3, <1>4, <1>5, <1>6, <1>7 DEF Next, Work

\* What a worker executes is the first of its line that has not ended: a task
\* in hand is in hand of a live queue, and a line has one.
LEMMA FirstOfLine ==
  ASSUME Sound, Touched, OneLive, Own, NoTaskLost, Placed, Lined, life # "stopped",
         NEW q \in Queues, pc[q] \in Executing, NEW s \in 1..seq, s < cur[q], SameLine(s, cur[q])
  PROVE  taskSt[s] \in {"done", "failed"}
<1>. DEFINE r == taskQ[s]
<1>1. s \in Tasks /\ s # NoTask /\ cur[q] # NoTask /\ taskQ[cur[q]] = q
  BY BoundsAssumption DEF Sound, Types, Held, Own, Tasks, NoTask
<1>2. SUFFICES ASSUME taskSt[s] \in {"pending", "running"} PROVE FALSE
  BY <1>1 DEF Placed, Sound, Types
<1>3. InHand(s) /\ r \in Queues
  BY <1>1, <1>2 DEF NoTaskLost, Own
<1>. HIDE DEF r
<1>4. Live(r)
  <2>1. CASE s = sending
    BY <1>1, <2>1 DEF Touched, NoSendOnClosed, Live, r
  <2>2. CASE \E i \in DOMAIN buf[r] : buf[r][i] = s
    BY <1>3, <2>2 DEF Touched, ClosedIsEmpty, Live
  <2>3. CASE cur[r] = s
    BY <1>1, <1>2, <1>3, <2>3 DEF Sound, Held, Own, Live
  <2>. QED BY <1>3, <2>1, <2>2, <2>3 DEF InHand, r
<1>5. r = q
  BY <1>1, <1>3, <1>4 DEF OneLive, Live, SameLine, r
<1>6. CASE s = sending
  BY <1>1, <1>6 DEF Lined, Sound, Types, Tasks
<1>7. CASE \E i \in DOMAIN buf[q] : buf[q][i] = s
  <2>1. cur[q] \in Tasks
    BY <1>1 DEF Sound, Types
  <2>. QED BY <1>7, <2>1 DEF Lined, Tasks
<1>8. CASE cur[q] = s
  BY <1>8
<1>. QED BY <1>3, <1>5, <1>6, <1>7, <1>8 DEF InHand, r

\* Submit adds a pending task behind the others, which it leaves alone.
LEMMA SubmitAppends ==
  ASSUME Sound, Placed, NEW c \in Chats, Submit(c)
  PROVE  /\ seq \in Nat /\ seq' = seq + 1 /\ taskSt'[seq + 1] = "pending"
         /\ \A t \in 1..seq : taskSt'[t] = taskSt[t] /\ LineOf(taskQ[t])' = LineOf(taskQ[t])
         /\ UNCHANGED <<outbound, sent, life, gone>>
<1>. PICK q \in Queues : FindOrMake(c, q) /\ taskQ' = [taskQ EXCEPT ![seq + 1] = q]
  BY DEF Submit
<1>1. /\ seq \in Nat /\ seq' = seq + 1 /\ 1..seq' \subseteq Tasks
      /\ taskSt' = [taskSt EXCEPT ![seq + 1] = "pending"] /\ UNCHANGED <<outbound, sent, life, gone>>
  BY BoundsAssumption DEF Submit, Status, process, Sound, Types, Tasks
<1>2. \A i \in 1..Len(chatOf) : chatOf'[i] = chatOf[i] /\ line'[i] = line[i]
  BY FoundOrMade
<1>3. taskSt'[seq + 1] = "pending" /\ \A t \in 1..seq : taskSt'[t] = taskSt[t] /\ taskQ'[t] = taskQ[t]
  BY <1>1 DEF Sound, Types
<1>4. \A t \in 1..seq : LineOf(taskQ[t])' = LineOf(taskQ[t])
  BY <1>2, <1>3 DEF Placed, LineOf
<1>. QED BY <1>1, <1>3, <1>4

\* A worker writes the status of the task it holds, which has not ended.
LEMMA WorkerWrites ==
  ASSUME Sound, Own, Statuses, NEW q \in Queues, HandlerFails(q) \/ Reply(q) \/ Acquire(q)
  PROVE  /\ pc[q] \in Executing /\ cur[q] \in 1..seq /\ taskSt[cur[q]] \in {"pending", "running"}
         /\ \A t \in 1..seq : t # cur[q] => taskSt'[t] = taskSt[t]
         /\ IF Reply(q)
            THEN taskSt'[cur[q]] = "done" /\ outbound' = Append(outbound, cur[q]) /\ UNCHANGED sent
            ELSE taskSt'[cur[q]] \in {"running", "failed"} /\ UNCHANGED <<outbound, sent>>
         /\ UNCHANGED <<seq, taskQ, chatOf, line, life, gone>>
<1>. USE DEF Goto, Status, tasks, channels, history, workers, process
<1>1. /\ pc[q] \in Executing /\ cur[q] \in 1..seq /\ taskSt[cur[q]] \in {"pending", "running"}
      /\ 1..seq \subseteq Tasks /\ seq \in Nat
      /\ taskSt \in [Tasks -> {"none", "pending", "running", "done", "failed"}]
  BY BoundsAssumption DEF HandlerFails, Reply, Acquire, Sound, Types, Held, Own, Statuses, Executing, Tasks, NoTask
<1>2. CASE Reply(q)
  BY <1>1, <1>2 DEF Reply
<1>3. CASE ~Reply(q)
  BY <1>1, <1>3 DEF HandlerFails, Acquire
<1>. QED BY <1>2, <1>3

LEMMA StartInOrderStep ==
  ASSUME Sound, Touched, OneLive, Own, NoTaskLost, Placed, Lined, Statuses, StartInOrder, [Next]_vars
  PROVE  StartInOrder'
<1>. USE DEF Goto, tasks, channels, history, workers, process
<1>1. ASSUME NEW c \in Chats, Submit(c) PROVE StartInOrder'
  BY <1>1, SubmitAppends DEF StartInOrder, SameLine, LineOf
<1>2. ASSUME NEW q \in Queues, HandlerFails(q) \/ Reply(q) \/ Acquire(q) PROVE StartInOrder'
  <2>1. /\ pc[q] \in Executing /\ taskSt[cur[q]] \in {"pending", "running"}
        /\ \A t \in 1..seq : t # cur[q] => taskSt'[t] = taskSt[t]
        /\ UNCHANGED <<seq, taskQ, chatOf, line, life>>
    BY <1>2, WorkerWrites
  <2>2. SUFFICES ASSUME NEW s \in 1..seq, NEW t \in 1..seq, s < t, SameLine(s, t), taskSt'[t] # "pending",
                        life # "stopped"
                 PROVE  taskSt'[s] \in {"done", "failed"}
    BY <2>1 DEF StartInOrder, SameLine, LineOf
  <2>3. taskSt[s] \in {"done", "failed"}
    <3>1. CASE t = cur[q]
      BY <2>1, <2>2, <3>1, FirstOfLine
    <3>2. CASE t # cur[q]
      BY <2>1, <2>2, <3>2 DEF StartInOrder
    <3>. QED BY <3>1, <3>2
  <2>. QED BY <2>1, <2>3
<1>3. ASSUME NEW q \in Queues, Receive(q) \/ Exit(q) \/ GiveUp(q) \/ Answer(q) \/ Touch(q)
      PROVE  StartInOrder'
  BY <1>3 DEF Receive, Exit, GiveUp, Answer, Touch, StartInOrder, SameLine, LineOf
<1>4. CASE \/ UNCHANGED vars \/ Send \/ Route \/ Cleanup \/ Tick \/ Signal \/ Stop
           \/ \E who \in {"submitter", "router"} : Return(who)
  BY <1>4 DEF vars, Send, Route, Cleanup, Tick, Signal, Stop, Return, StartInOrder, SameLine, LineOf
<1>. QED BY <1>1, <1>2, <1>3, <1>4 DEF Next, Work

-----------------------------------------------------------------------------
\* The reply of a task that is done waits on the bus or was routed; those of
\* one chat wait in the order of its tasks.
Bussed ==
  /\ \A t \in 1..seq : taskSt[t] = "done" => t \in sent \/ \E i \in DOMAIN outbound : outbound[i] = t
  /\ \A i \in DOMAIN outbound : outbound[i] \in 1..seq /\ taskSt[outbound[i]] = "done"
  /\ \A t \in sent : t \in 1..seq /\ taskSt[t] = "done"
  /\ life # "stopped" =>
       \A i, j \in DOMAIN outbound : i < j /\ SameLine(outbound[i], outbound[j]) => outbound[i] < outbound[j]
  /\ "router" \notin gone => life # "stopped"

\* What Route takes from the bus, and what it leaves.
LEMMA RouteTakes ==
  ASSUME Sound, Route
  PROVE  /\ 1 \in DOMAIN outbound /\ sent' = sent \cup {outbound[1]} /\ "router" \notin gone
         /\ \A i \in DOMAIN outbound' : /\ i \in Nat \ {0} /\ i + 1 \in DOMAIN outbound
                                        /\ outbound'[i] = outbound[i + 1]
         /\ \A i \in DOMAIN outbound : /\ i \in Nat /\ i >= 1
                                       /\ i # 1 => i - 1 \in DOMAIN outbound' /\ outbound'[i - 1] = outbound[i]
         /\ UNCHANGED <<seq, taskSt, taskQ, chatOf, line, life, gone>>
<1>1. outbound \in Seq(Tasks) /\ outbound # <<>>
  BY DEF Route, Sound, Types
<1>2. /\ Head(outbound) = outbound[1] /\ DOMAIN outbound = 1..Len(outbound) /\ Len(outbound) \in Nat \ {0}
      /\ DOMAIN Tail(outbound) = 1..Len(outbound) - 1
      /\ \A i \in 1..Len(outbound) - 1 : Tail(outbound)[i] = outbound[i + 1]
  BY <1>1, HeadTailProperties
<1>3. /\ sent' = sent \cup {Head(outbound)} /\ outbound' = Tail(outbound) /\ "router" \notin gone
      /\ UNCHANGED <<seq, taskSt, taskQ, chatOf, line, life, gone>>
  BY DEF Route, tasks, channels, history, process
<1>. QED BY <1>2, <1>3

LEMMA BussedStep ==
  ASSUME Sound, Own, Placed, Statuses, StartInOrder, Bussed, [Next]_vars
  PROVE  Bussed'
<1>. USE DEF Goto, tasks, channels, history, workers, process
<1>1. ASSUME NEW c \in Chats, Submit(c) PROVE Bussed'
  BY <1>1, SubmitAppends DEF Bussed, SameLine, LineOf
<1>2. ASSUME NEW q \in Queues, HandlerFails(q) \/ Acquire(q), ~Reply(q) PROVE Bussed'
  BY <1>2, WorkerWrites DEF Bussed, SameLine, LineOf
<1>3. ASSUME NEW q \in Queues, Reply(q) PROVE Bussed'
  <2>1. /\ cur[q] \in 1..seq /\ taskSt[cur[q]] \in {"pending", "running"} /\ taskSt'[cur[q]] = "done"
        /\ \A t \in 1..seq : t # cur[q] => taskSt'[t] = taskSt[t]
        /\ outbound' = Append(outbound, cur[q])
        /\ UNCHANGED <<seq, taskQ, chatOf, line, sent, life, gone>>
    BY <1>3, WorkerWrites
  <2>2. /\ DOMAIN outbound' = DOMAIN outbound \cup {Len(outbound) + 1}
        /\ DOMAIN outbound = 1..Len(outbound) /\ Len(outbound) \in Nat
        /\ outbound'[Len(outbound) + 1] = cur[q]
        /\ \A i \in DOMAIN outbound : outbound'[i] = outbound[i]
    BY <2>1, AppendProperties DEF Sound, Types
  <2>3. \A i \in DOMAIN outbound : outbound[i] # cur[q]
    BY <2>1 DEF Bussed
  <2>4. ASSUME life # "stopped", NEW i \in DOMAIN outbound', NEW j \in DOMAIN outbound', i < j,
               SameLine(outbound'[i], outbound'[j])
        PROVE  outbound'[i] < outbound'[j]
    <3>1. i \in DOMAIN outbound
      BY <2>2, <2>4
    <3>2. CASE j \in DOMAIN outbound
      BY <2>1, <2>2, <2>4, <3>1, <3>2 DEF Bussed, SameLine, LineOf
    <3>3. CASE j = Len(outbound) + 1
      <4>1. /\ outbound[i] \in 1..seq /\ taskSt[outbound[i]] = "done" /\ outbound[i] # cur[q]
            /\ SameLine(cur[q], outbound[i])
        BY <2>2, <2>3, <2>4, <3>1, <3>3 DEF Bussed, SameLine, LineOf
      <4>2. ~(cur[q] < outbound[i])
        BY <2>1, <2>4, <4>1 DEF StartInOrder
      <4>3. outbound[i] < cur[q]
        BY <2>1, <4>1, <4>2
      <4>. QED BY <2>2, <3>1, <3>3, <4>3
    <3>. QED BY <2>2, <3>2, <3>3
  <2>5. \A i \in DOMAIN outbound' : outbound'[i] \in 1..seq /\ taskSt'[outbound'[i]] = "done"
    BY <2>1, <2>2, <2>3 DEF Bussed
  <2>6. \A t \in 1..seq : taskSt'[t] = "done" => t \in sent \/ \E i \in DOMAIN outbound' : outbound'[i] = t
    BY <2>1, <2>2 DEF Bussed
  <2>7. \A t \in sent : t \in 1..seq /\ taskSt'[t] = "done"
    BY <2>1 DEF Bussed
  <2>. QED BY <2>1, <2>4, <2>5, <2>6, <2>7 DEF Bussed, SameLine, LineOf
<1>4. CASE Route
  <2>1. \A t \in 1..seq : taskSt[t] = "done" => t \in sent' \/ \E i \in DOMAIN outbound' : outbound'[i] = t
    BY <1>4, RouteTakes DEF Bussed
  <2>2. life # "stopped" =>
          \A i, j \in DOMAIN outbound' : i < j /\ SameLine(outbound'[i], outbound'[j]) => outbound'[i] < outbound'[j]
    BY <1>4, RouteTakes DEF Bussed
  <2>. QED BY <1>4, <2>1, <2>2, RouteTakes DEF Bussed, SameLine, LineOf
<1>5. ASSUME NEW q \in Queues, Receive(q) \/ Exit(q) \/ GiveUp(q) \/ Answer(q) \/ Touch(q)
      PROVE  Bussed'
  BY <1>5 DEF Receive, Exit, GiveUp, Answer, Touch, Bussed, SameLine, LineOf
<1>6. CASE \/ UNCHANGED vars \/ Send \/ Cleanup \/ Tick \/ Signal \/ Stop
           \/ \E who \in {"submitter", "router"} : Return(who)
  BY <1>6 DEF vars, Send, Cleanup, Tick, Signal, Stop, Return, Bussed, SameLine, LineOf
<1>. QED BY <1>1, <1>2, <1>3, <1>4, <1>5, <1>6 DEF Next, Work

LEMMA RepliesInOrderStep ==
  ASSUME Sound, Own, Placed, Statuses, StartInOrder, Bussed, RepliesInOrder, [Next]_vars
  PROVE  RepliesInOrder'
<1>. USE DEF Goto, tasks, channels, history, workers, process
<1>1. ASSUME NEW c \in Chats, Submit(c) PROVE RepliesInOrder'
  BY <1>1, SubmitAppends DEF RepliesInOrder, SameLine, LineOf, Bussed
<1>2. ASSUME NEW q \in Queues, HandlerFails(q) \/ Reply(q) \/ Acquire(q) PROVE RepliesInOrder'
  <2>1. /\ taskSt[cur[q]] \in {"pending", "running"}
        /\ \A t \in 1..seq : t # cur[q] => taskSt'[t] = taskSt[t]
        /\ UNCHANGED <<seq, taskQ, chatOf, line, sent>>
    BY <1>2, WorkerWrites
  <2>. QED BY <2>1 DEF RepliesInOrder, SameLine, LineOf
<1>3. CASE Route
  <2>1. SUFFICES ASSUME NEW s \in 1..seq, NEW t \in 1..seq, s < t, SameLine(s, t), t \in sent'
                 PROVE  s \in sent' \/ taskSt[s] = "failed"
    BY <1>3, RouteTakes DEF RepliesInOrder, SameLine, LineOf
  <2>2. CASE t \in sent
    BY <1>3, <2>1, <2>2, RouteTakes DEF RepliesInOrder
  <2>3. CASE t = outbound[1]
    <3>1. 1 \in DOMAIN outbound /\ life # "stopped" /\ taskSt[t] = "done"
      BY <1>3, <2>3, RouteTakes DEF Bussed
    <3>2. taskSt[s] \in {"done", "failed"}
      BY <2>1, <3>1 DEF StartInOrder
    <3>3. ASSUME NEW i \in DOMAIN outbound, outbound[i] = s PROVE FALSE
      <4>1. i \in Nat /\ 1 < i
        BY <1>3, <2>1, <2>3, <3>3, RouteTakes
      <4>2. t < s
        BY <2>1, <2>3, <3>1, <3>3, <4>1 DEF Bussed, SameLine, LineOf
      <4>. QED BY <2>1, <4>2
    <3>. QED BY <1>3, <3>2, <3>3, RouteTakes DEF Bussed
  <2>. QED BY <1>3, <2>1, <2>2, <2>3, RouteTakes
<1>4. ASSUME NEW q \in Queues, Receive(q) \/ Exit(q) \/ GiveUp(q) \/ Answer(q) \/ Touch(q)
      PROVE  RepliesInOrder'
  BY <1>4 DEF Receive, Exit, GiveUp, Answer, Touch, RepliesInOrder, SameLine, LineOf
<1>5. CASE \/ UNCHANGED vars \/ Send \/ Cleanup \/ Tick \/ Signal \/ Stop
           \/ \E who \in {"submitter", "router"} : Return(who)
  BY <1>5 DEF vars, Send, Cleanup, Tick, Signal, Stop, Return, RepliesInOrder, SameLine, LineOf
<1>. QED BY <1>1, <1>2, <1>3, <1>4, <1>5 DEF Next, Work

-----------------------------------------------------------------------------
(* The tasks of one line of a chat run one at a time and in order, and     *)
(* their replies leave in that order, through any number of queues made    *)
(* and dropped, however long tasks take.                                   *)
THEOREM QueueLineSerial == Spec => []LineSerial
<1>1. Init => /\ Timed /\ OneLive /\ Placed /\ Lined /\ Statuses /\ Bussed
              /\ StartInOrder /\ RepliesInOrder
  BY DEF Init, Timed, OneLive, Live, Placed, Lined, Statuses, Bussed, StartInOrder, RepliesInOrder, SameLine, Executing,
         NoTask
<1>2. Sound /\ Touched /\ Timed /\ OneLive /\ [Next]_vars => Timed' /\ OneLive'
  BY TimedStep, OneLiveStep
<1>3. Sound /\ Touched /\ Own /\ NoTaskLost /\ [Next]_vars => Own' /\ NoTaskLost'
  BY OwnStep
<1>4. Sound /\ Touched /\ Own /\ Placed /\ Lined /\ Statuses /\ [Next]_vars => Placed' /\ Lined' /\ Statuses'
  BY PlacedStep, LinedStep, StatusesStep
<1>5. /\ Sound /\ Touched /\ OneLive /\ Own /\ NoTaskLost /\ Placed /\ Lined /\ Statuses
      /\ Bussed /\ StartInOrder /\ RepliesInOrder /\ [Next]_vars
      => Bussed' /\ StartInOrder' /\ RepliesInOrder'
  BY StartInOrderStep, BussedStep, RepliesInOrderStep
<1>6. OneLive /\ StartInOrder /\ RepliesInOrder => LineSerial
  BY DEF OneLive, Live, OneInLine, LineSerial
<1>. QED
  BY SoundInit, SoundStep, TouchedInit, TouchedStep, OwnInit, <1>1, <1>2, <1>3, <1>4, <1>5, <1>6, PTL DEF Spec

-----------------------------------------------------------------------------
\* Refinement: a task is asked for when it is submitted, started with its slot,
\* and replied to by the router; everything else is a stutter.

\* The bus holds a reply once, and not again once it is out.
BusOnce ==
  \A i \in DOMAIN outbound :
    outbound[i] \notin sent /\ \A j \in DOMAIN outbound : outbound[i] = outbound[j] => i = j

LEMMA BusOnceStep ==
  ASSUME Sound, Own, Statuses, Placed, Bussed, BusOnce, [Next]_vars
  PROVE  BusOnce'
<1>. USE DEF Goto, tasks, channels, history, workers, process
<1>1. ASSUME NEW q \in Queues, Reply(q) PROVE BusOnce'
  <2>1. /\ taskSt[cur[q]] \in {"pending", "running"} /\ outbound' = Append(outbound, cur[q])
        /\ cur[q] \in 1..seq /\ UNCHANGED sent
    BY <1>1, WorkerWrites
  <2>2. /\ DOMAIN outbound' = DOMAIN outbound \cup {Len(outbound) + 1}
        /\ outbound'[Len(outbound) + 1] = cur[q]
        /\ \A i \in DOMAIN outbound : outbound'[i] = outbound[i]
    BY <2>1, AppendProperties, LenProperties, BoundsAssumption DEF Sound, Types, Tasks
  <2>3. cur[q] \notin sent /\ \A i \in DOMAIN outbound : outbound[i] # cur[q]
    BY <2>1 DEF Bussed
  <2>. QED BY <2>1, <2>2, <2>3 DEF BusOnce
<1>2. CASE Route
  <2>1. ASSUME NEW i \in DOMAIN outbound'
        PROVE  /\ outbound'[i] \notin sent'
               /\ \A j \in DOMAIN outbound' : outbound'[i] = outbound'[j] => i = j
    <3>1. i \in Nat /\ i + 1 \in DOMAIN outbound /\ i + 1 # 1 /\ outbound'[i] = outbound[i + 1]
      BY <1>2, RouteTakes
    <3>2. outbound[i + 1] # outbound[1]
      BY <1>2, <3>1, RouteTakes DEF BusOnce
    <3>. QED BY <1>2, <3>1, <3>2, RouteTakes DEF BusOnce
  <2>. QED BY <2>1 DEF BusOnce
<1>3. ASSUME NEW c \in Chats, Submit(c) PROVE BusOnce'
  BY <1>3, SubmitAppends DEF BusOnce
<1>4. ASSUME NEW q \in Queues, Receive(q) \/ Exit(q) \/ GiveUp(q) \/ Answer(q) \/ Touch(q)
             \/ HandlerFails(q) \/ Acquire(q)
      PROVE  BusOnce'
  BY <1>4 DEF Receive, Exit, GiveUp, Answer, Touch, HandlerFails, Acquire, BusOnce
<1>5. CASE \/ UNCHANGED vars \/ Send \/ Cleanup \/ Tick \/ Signal \/ Stop
           \/ \E who \in {"submitter", "router"} : Return(who)
  BY <1>5 DEF vars, Send, Cleanup, Tick, Signal, Stop, Return, BusOnce
<1>. QED BY <1>1, <1>2, <1>3, <1>4, <1>5 DEF Next, Work

\* A task has no status before it is submitted.
Unsubmitted == \A t \in Tasks : t > seq => taskSt[t] = "none"

LEMMA UnsubmittedStep ==
  ASSUME Sound, Own, Statuses, Unsubmitted, [Next]_vars
  PROVE  Unsubmitted'
<1>. USE DEF Goto, tasks, channels, history, workers, process
<1>1. ASSUME NEW q \in Queues, HandlerFails(q) \/ Reply(q) \/ Acquire(q) PROVE Unsubmitted'
  <2>1. /\ cur[q] \in 1..seq /\ UNCHANGED seq
        /\ \/ taskSt' = [taskSt EXCEPT ![cur[q]] = "failed"]
           \/ taskSt' = [taskSt EXCEPT ![cur[q]] = "done"]
           \/ taskSt' = [taskSt EXCEPT ![cur[q]] = "running"]
    BY <1>1, WorkerWrites DEF HandlerFails, Reply, Acquire, Status
  <2>2. /\ \A t \in Tasks : t > seq => t # cur[q]
        /\ taskSt \in [Tasks -> {"none", "pending", "running", "done", "failed"}]
    BY <2>1, BoundsAssumption DEF Sound, Types, Tasks
  <2>. QED BY <2>1, <2>2 DEF Unsubmitted
<1>2. ASSUME NEW c \in Chats, Submit(c) PROVE Unsubmitted'
  <2>1. /\ seq \in Nat /\ seq' = seq + 1 /\ taskSt' = [taskSt EXCEPT ![seq + 1] = "pending"]
        /\ taskSt \in [Tasks -> {"none", "pending", "running", "done", "failed"}]
    BY <1>2, BoundsAssumption DEF Submit, Status, Sound, Types
  <2>2. \A t \in Tasks : t \in Nat /\ (t > seq + 1 => t > seq /\ t # seq + 1)
    BY <2>1, BoundsAssumption DEF Tasks
  <2>. QED BY <2>1, <2>2 DEF Unsubmitted
<1>3. ASSUME NEW q \in Queues, Receive(q) \/ Exit(q) \/ GiveUp(q) \/ Answer(q) \/ Touch(q)
      PROVE  Unsubmitted'
  BY <1>3 DEF Receive, Exit, GiveUp, Answer, Touch, Unsubmitted
<1>4. CASE \/ UNCHANGED vars \/ Send \/ Route \/ Cleanup \/ Tick \/ Signal \/ Stop
           \/ \E who \in {"submitter", "router"} : Return(who)
  BY <1>4 DEF vars, Send, Route, Cleanup, Tick, Signal, Stop, Return, Unsubmitted
<1>. QED BY <1>1, <1>2, <1>3, <1>4 DEF Next, Work

\* What a step sees of the service.
Lines == Chats \X (0..MaxQueues)
Seen == /\ Asked \in Seq(Lines) /\ Len(Asked) = seq /\ DOMAIN Asked = 1..seq
        /\ \A t \in 1..seq : t \in Tasks /\ Asked[t] = LineOf(taskQ[t])

LEMMA SeenHolds == Sound /\ Placed => Seen
<1>. SUFFICES ASSUME Sound, Placed PROVE Seen
  OBVIOUS
<1>1. seq \in Nat /\ Asked \in [1..seq -> Lines] /\ \A t \in 1..seq : t \in Tasks
  <2>1. seq \in Nat /\ 1..seq \subseteq Tasks
    BY BoundsAssumption DEF Sound, Types, Tasks
  <2>2. ASSUME NEW t \in 1..seq PROVE LineOf(taskQ[t]) \in Lines
    <3>1. taskQ[t] \in 1..Len(chatOf) /\ taskQ[t] \in 1..Len(line)
      BY <2>2 DEF Placed, Sound, Types
    <3>2. chatOf[taskQ[t]] \in Chats /\ line[taskQ[t]] \in 0..MaxQueues
      BY <3>1, ElementOfSeq DEF Sound, Types
    <3>. QED BY <3>2 DEF LineOf, Lines
  <2>. QED BY <2>1, <2>2 DEF Asked
<1>2. Asked \in Seq(Lines)
  BY <1>1, SeqDef
<1>3. DOMAIN Asked = 1..Len(Asked) /\ Len(Asked) \in Nat
  BY <1>2, LenProperties
<1>4. DOMAIN Asked = 1..seq
  BY <1>1
<1>5. Len(Asked) = seq
  BY <1>1, <1>3, <1>4
<1>. QED BY <1>1, <1>2, <1>4, <1>5 DEF Seen, Asked

\* A step that asks for nothing leaves what was asked.
SameAsked == UNCHANGED <<seq, taskQ, chatOf, line>>

LEMMA AskedStays == ASSUME SameAsked PROVE UNCHANGED Asked
  BY DEF SameAsked, Asked, LineOf

LEMMA SubmitAsks ==
  ASSUME Sound, Touched, Placed, Unsubmitted, Seen, Seen', NEW c \in Chats, Submit(c)
  PROVE  \E l \in Lines : Service!Ask(l)
<1>. PICK q \in Queues : FindOrMake(c, q) /\ taskQ' = [taskQ EXCEPT ![seq + 1] = q]
  BY DEF Submit
<1>1. /\ seq \in Nat /\ seq' = seq + 1 /\ seq + 1 \in Tasks
      /\ taskSt' = [taskSt EXCEPT ![seq + 1] = "pending"] /\ UNCHANGED <<sent, life>>
      /\ taskQ \in [Tasks -> Queues \cup {NoQueue}]
  BY BoundsAssumption DEF Submit, Status, process, Sound, Types, Tasks
<1>. PICK l : l = Asked'[seq + 1]
  OBVIOUS
<1>2. l \in Lines
  BY <1>1, ElementOfSeq DEF Seen
<1>3. \A t \in 1..seq : Asked'[t] = Asked[t]
  BY <1>1, SubmitAppends DEF Seen
<1>5. Asked' = Append(Asked, l)
  <2>1. /\ Append(Asked, l) \in Seq(Lines) /\ Len(Append(Asked, l)) = seq + 1
        /\ \A t \in 1..seq : Append(Asked, l)[t] = Asked[t]
        /\ Append(Asked, l)[seq + 1] = l
    BY <1>2, AppendProperties DEF Seen
  <2>2. Asked' \in Seq(Lines) /\ Len(Asked') = seq + 1
    BY <1>1 DEF Seen
  <2>3. \A i \in 1..Len(Asked') : Asked'[i] = Append(Asked, l)[i]
    BY <1>1, <1>3, <2>1, <2>2
  <2>. QED BY <2>1, <2>2, <2>3, SeqEqual
<1>6. taskSt[seq + 1] = "none"
  BY <1>1, BoundsAssumption DEF Unsubmitted, Tasks
<1>7. \A S \in SUBSET {"running", "done", "failed"} : In(S)' = In(S)
  BY <1>1, <1>6 DEF In, Sound, Types
<1>8. Service!Ask(l)
  BY <1>1, <1>5, <1>7 DEF Service!Ask
<1>. QED BY <1>2, <1>8

LEMMA AcquireStarts ==
  ASSUME Sound, Touched, OneLive, Own, NoTaskLost, Placed, Lined, Statuses, Seen,
         NEW q \in Queues, Acquire(q)
  PROVE  \E m \in DOMAIN Asked : Service!Start(m)
<1>1. /\ pc[q] \in Executing /\ cur[q] \in 1..seq /\ UNCHANGED <<seq, taskQ, chatOf, line, sent, life>>
      /\ taskSt[cur[q]] = "pending" /\ taskSt' = [taskSt EXCEPT ![cur[q]] = "running"]
  BY WorkerWrites DEF Acquire, Status, Statuses
<1>. PICK m : m = cur[q]
  OBVIOUS
<1>2. m \in DOMAIN Asked /\ m \in Tasks /\ m \notin In({"running", "done", "failed"})
  BY <1>1 DEF Seen, In
<1>3. /\ In({"running", "done", "failed"})' = In({"running", "done", "failed"}) \cup {m}
      /\ In({"done"})' = In({"done"}) /\ In({"failed"})' = In({"failed"})
  BY <1>1, <1>2 DEF In, Sound, Types
<1>4. ASSUME life # "stopped", NEW n \in DOMAIN Asked, n < m, Asked[n] = Asked[m]
      PROVE  n \in In({"done"}) \cup In({"failed"})
  <2>1. n \in 1..seq /\ n \in Tasks /\ SameLine(n, cur[q])
    BY <1>2, <1>4 DEF Seen, SameLine, LineOf
  <2>2. taskSt[n] \in {"done", "failed"}
    BY <1>1, <1>4, <2>1, FirstOfLine
  <2>. QED BY <2>1, <2>2 DEF In
<1>5. UNCHANGED Asked
  BY <1>1, AskedStays DEF SameAsked
<1>6. Service!Start(m)
  BY <1>1, <1>2, <1>3, <1>4, <1>5 DEF Service!Start, Service!Earlier
<1>. QED BY <1>2, <1>6

LEMMA WorkerEnds ==
  ASSUME Sound, Own, Statuses, Seen, NEW q \in Queues, HandlerFails(q) \/ Reply(q)
  PROVE  \E m \in DOMAIN Asked : Service!End(m)
<1>1. /\ cur[q] \in 1..seq /\ taskSt[cur[q]] = "running" /\ UNCHANGED <<seq, taskQ, chatOf, line, sent, life>>
      /\ \/ taskSt' = [taskSt EXCEPT ![cur[q]] = "failed"]
         \/ taskSt' = [taskSt EXCEPT ![cur[q]] = "done"]
  BY WorkerWrites DEF HandlerFails, Reply, Status, Statuses
<1>. PICK m : m = cur[q]
  OBVIOUS
<1>2. /\ m \in DOMAIN Asked /\ m \in Tasks
      /\ m \in In({"running", "done", "failed"}) /\ m \notin In({"done"}) \cup In({"failed"})
  BY <1>1 DEF Seen, In
<1>3. /\ In({"running", "done", "failed"})' = In({"running", "done", "failed"})
      /\ \/ In({"done"})' = In({"done"}) \cup {m} /\ In({"failed"})' = In({"failed"})
         \/ In({"failed"})' = In({"failed"}) \cup {m} /\ In({"done"})' = In({"done"})
  <2>1. CASE taskSt' = [taskSt EXCEPT ![cur[q]] = "failed"]
    BY <1>1, <1>2, <2>1 DEF In, Sound, Types
  <2>2. CASE taskSt' = [taskSt EXCEPT ![cur[q]] = "done"]
    BY <1>1, <1>2, <2>2 DEF In, Sound, Types
  <2>. QED BY <1>1, <2>1, <2>2
<1>4. UNCHANGED Asked
  BY <1>1, AskedStays DEF SameAsked
<1>5. Service!End(m)
  BY <1>1, <1>2, <1>3, <1>4 DEF Service!End
<1>. QED BY <1>2, <1>5

LEMMA RouteReplies ==
  ASSUME Sound, Bussed, BusOnce, Seen, RepliesInOrder', Route
  PROVE  \E m \in DOMAIN Asked : Service!Reply(m)
<1>. PICK m : m = outbound[1]
  OBVIOUS
<1>1. /\ m \in 1..seq /\ taskSt[m] = "done" /\ m \notin sent /\ sent' = sent \cup {m}
      /\ UNCHANGED <<seq, taskSt, taskQ, chatOf, line, life>>
  BY RouteTakes DEF Bussed, BusOnce
<1>2. m \in DOMAIN Asked /\ m \in In({"done"})
  BY <1>1 DEF Seen, In
<1>3. ASSUME NEW n \in DOMAIN Asked, n < m, Asked[n] = Asked[m]
      PROVE  n \in sent \cup In({"failed"})
  <2>1. n \in 1..seq /\ n \in Tasks /\ Asked[n] = LineOf(taskQ[n]) /\ Asked[m] = LineOf(taskQ[m])
    BY <1>1, <1>2, <1>3 DEF Seen
  <2>2. SameLine(n, m)' /\ m \in sent' /\ seq' = seq
    BY <1>1, <1>3, <2>1 DEF SameLine, LineOf
  <2>3. n \in sent' \/ taskSt[n] = "failed"
    BY <1>1, <1>3, <2>1, <2>2 DEF RepliesInOrder
  <2>4. n # m
    BY <1>1, <1>3
  <2>. QED BY <1>1, <2>1, <2>3, <2>4 DEF In
<1>4. UNCHANGED Asked /\ \A S \in SUBSET {"running", "done", "failed"} : In(S)' = In(S)
  BY <1>1, AskedStays DEF SameAsked, In
<1>5. Service!Reply(m)
  BY <1>1, <1>2, <1>3, <1>4 DEF Service!Reply, Service!Earlier
<1>. QED BY <1>2, <1>5

\* What the chats see of the rest.
LEMMA OthersStutter ==
  ASSUME \/ UNCHANGED vars \/ Send \/ Cleanup \/ Tick \/ Signal
         \/ \E who \in {"submitter", "router"} : Return(who)
         \/ \E q \in Queues : Receive(q) \/ Exit(q) \/ GiveUp(q) \/ Answer(q) \/ Touch(q)
  PROVE  UNCHANGED Service!vars
<1>. USE DEF tasks, channels, history, workers, process
<1>1. /\ UNCHANGED <<seq, taskSt, taskQ, chatOf, line, sent>>
      /\ (life = "stopped")' = (life = "stopped")
  BY DEF vars, Send, Cleanup, Tick, Signal, Return, Receive, Exit, GiveUp, Answer, Touch
<1>2. UNCHANGED Asked /\ \A S \in SUBSET {"running", "done", "failed"} : In(S)' = In(S)
  BY <1>1, AskedStays DEF SameAsked, In
<1>. QED BY <1>1, <1>2 DEF Service!vars

LEMMA StopStops == ASSUME Stop PROVE Service!Stop
<1>1. UNCHANGED <<seq, taskSt, taskQ, chatOf, line, sent>> /\ life' = "stopped"
  BY DEF Stop, tasks, channels, history
<1>2. UNCHANGED Asked /\ \A S \in SUBSET {"running", "done", "failed"} : In(S)' = In(S)
  BY <1>1, AskedStays DEF SameAsked, In
<1>. QED BY <1>1, <1>2 DEF Service!Stop

(* However long tasks take, the queue implements ChatService to each line  *)
(* of a chat: each step of it is one the line was promised, or none.       *)
THEOREM QueueImplementsChatService == Spec => ServiceSpec
<1>1. Init => Service!Init
  <2>. SUFFICES ASSUME Init PROVE Service!Init
    OBVIOUS
  <2>1. Asked = <<>>
    BY DEF Init, Asked
  <2>2. \A S \in SUBSET {"running", "done", "failed"} : In(S) = {}
    BY DEF Init, In
  <2>. QED BY <2>1, <2>2 DEF Init, Service!Init
<1>2. /\ Sound /\ Touched /\ OneLive /\ Own /\ NoTaskLost /\ Placed /\ Lined /\ Statuses
      /\ Bussed /\ BusOnce /\ Unsubmitted /\ RepliesInOrder' /\ Seen /\ Seen' /\ [Next]_vars
      => [Service!Next]_Service!vars
  BY SubmitAsks, AcquireStarts, WorkerEnds, RouteReplies, OthersStutter, StopStops
     DEF Next, Work, Service!Next, Lines
<1>3. Init => /\ Timed /\ OneLive /\ Placed /\ Lined /\ Statuses /\ Bussed /\ BusOnce
              /\ Unsubmitted /\ StartInOrder /\ RepliesInOrder
  BY DEF Init, Timed, OneLive, Live, Placed, Lined, Statuses, Bussed, BusOnce, Unsubmitted, StartInOrder, RepliesInOrder,
         SameLine, Executing, NoTask
<1>4. Sound /\ Touched /\ Timed /\ OneLive /\ [Next]_vars => Timed' /\ OneLive'
  BY TimedStep, OneLiveStep
<1>5. Sound /\ Touched /\ Own /\ Placed /\ Lined /\ Statuses /\ [Next]_vars => Placed' /\ Lined' /\ Statuses'
  BY PlacedStep, LinedStep, StatusesStep
<1>6. /\ Sound /\ Touched /\ OneLive /\ Own /\ NoTaskLost /\ Placed /\ Lined /\ Statuses
      /\ Bussed /\ StartInOrder /\ RepliesInOrder /\ [Next]_vars
      => Bussed' /\ StartInOrder' /\ RepliesInOrder'
  BY StartInOrderStep, BussedStep, RepliesInOrderStep
<1>7. /\ Sound /\ Own /\ Placed /\ Statuses /\ Bussed /\ BusOnce /\ Unsubmitted /\ [Next]_vars
      => BusOnce' /\ Unsubmitted'
  BY BusOnceStep, UnsubmittedStep
<1>. QED
  BY SoundInit, SoundStep, TouchedInit, TouchedStep, OwnInit, OwnStep, SeenHolds,
     <1>1, <1>2, <1>3, <1>4, <1>5, <1>6, <1>7, PTL DEF Spec, ServiceSpec, Service!Spec

-----------------------------------------------------------------------------
(* The waiting has an end: a task that is not in its worker's hands waits  *)
(* for the worker, which waits for a slot, if at all; who has a slot waits *)
(* for the bus, if at all; and the bus is full for want of no one.         *)
LEMMA SlotTaken == ASSUME ~SlotFree PROVE \E q \in Queues : pc[q] \in {"run", "reply"}
<1>1. Running # {}
  BY FS_EmptySet, CapacityAssumption DEF SlotFree
<1>. QED BY <1>1 DEF Running

LEMMA WorkerGoesOn ==
  ASSUME Sound, NEW q \in Queues, pc[q] \notin {"none", "exit"}, pc[q] = "recv" => buf[q] # <<>>
  PROVE  outbound # <<>> \/ \E r \in Queues : GoesOn(r)
<1>1. outbound # <<>> \/ Len(outbound) < OutCap
  BY CapacityAssumption DEF Sound, Types
<1>2. ASSUME NEW r \in Queues, pc[r] \in {"run", "reply"}
      PROVE  outbound # <<>> \/ GoesOn(r)
  BY <1>1, <1>2 DEF GoesOn
<1>3. CASE pc[q] \in {"recv", "touch", "run", "reply"}
  BY <1>2, <1>3 DEF GoesOn
<1>4. CASE pc[q] = "sem"
  BY <1>2, <1>4, SlotTaken DEF GoesOn
<1>. QED BY <1>3, <1>4 DEF Sound, Types, Executing

\* The queue is stopped when the router has returned.
RouterFirst == "router" \notin gone => life # "stopped"

\* Slots, channels and bus, each bounded, cannot all wait for one another:
\* while a task has not ended, some goroutine goes on.
THEOREM QueueNeverStuck == Spec => []NeverStuck
<1>1. Sound /\ Touched /\ Own /\ NoTaskLost /\ RouterFirst => NeverStuck
  <2>. SUFFICES ASSUME Sound, Touched, Own, NoTaskLost, RouterFirst, "router" \notin gone,
                       NEW t \in Tasks, taskSt[t] \in {"pending", "running"}
                PROVE  \/ sending # NoTask /\ Room(taskQ[sending])
                       \/ outbound # <<>> \/ \E q \in Queues : GoesOn(q)
    BY DEF NeverStuck
  <2>. DEFINE q == taskQ[t]
  <2>1. q \in Queues /\ InHand(t) /\ pc[q] \notin {"none", "exit"} /\ t # NoTask
    BY DEF Own, NoTaskLost, RouterFirst, Tasks, NoTask
  <2>2. CASE pc[q] = "recv" /\ buf[q] = <<>>
    <3>1. t = sending
      BY <2>1, <2>2 DEF InHand, Sound, Held, Executing
    <3>. QED BY <2>1, <2>2, <3>1, CapacityAssumption DEF Room
  <2>3. CASE ~(pc[q] = "recv" /\ buf[q] = <<>>)
    <3>. HIDE DEF q
    <3>. QED BY <2>1, <2>3, WorkerGoesOn
  <2>. QED BY <2>2, <2>3
<1>2. Init => RouterFirst
  BY DEF Init, RouterFirst
<1>3. RouterFirst /\ [Next]_vars => RouterFirst'
  BY DEF RouterFirst, Next, vars, Submit, Send, Route, Cleanup, Tick, Work, Acquire, Receive, Exit, GiveUp, HandlerFails,
         Answer, Reply, Touch, Signal, Stop, Return, process
<1>. QED BY SoundInit, SoundStep, TouchedInit, TouchedStep, OwnInit, OwnStep, <1>1, <1>2, <1>3, PTL DEF Spec
=============================================================================
