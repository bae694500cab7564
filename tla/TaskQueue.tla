----------------------------- MODULE TaskQueue -----------------------------
(***************************************************************************)
(* The task queue of the fastclaw gateway (internal/taskqueue/queue.go)    *)
(* between its only submitter, the goroutine of processInbound             *)
(* (gateway/routing.go), and the router of the outbound bus                *)
(* (channels/manager.go).  Every chat gets a buffered channel and a worker *)
(* goroutine of its own, dropped once idle; a semaphore bounds the tasks   *)
(* that run at once.  A queue is a channel together with its worker: one   *)
(* chat may have had several.                                              *)
(*                                                                         *)
(* Time is a tick.  What a goroutine can do without waiting it does before *)
(* the next tick (Prompt).  A task takes as long as it likes: its own      *)
(* timeout is as long as a queue may be idle, and the wait for a slot and  *)
(* the wait for room on the bus come on top of it.  So a queue may be      *)
(* dropped under the task it works on, and the chat get another queue.     *)
(***************************************************************************)
EXTENDS Naturals, Sequences, FiniteSets

CONSTANTS Chats,
          MaxTasks, MaxQueues,    \* bounds: tasks submitted, queues created
          Cap, OutCap,            \* capacity of a chat channel, of the outbound bus (100)
          MaxConcurrent,          \* slots of the semaphore
          IdleTimeout,            \* ticks after which a queue is idle (5 minutes)
          MayStop                 \* does the process get a SIGTERM?

ASSUME CapacityAssumption == Cap \in Nat \ {0} /\ OutCap \in Nat \ {0} /\ MaxConcurrent \in Nat \ {0}
ASSUME BoundsAssumption == MaxTasks \in Nat /\ MaxQueues \in Nat \ {0}
ASSUME TimesAssumption == IdleTimeout \in Nat \ {0}

Tasks == 1..MaxTasks
Queues == 1..MaxQueues
NoQueue == 0
NoTask == 0

VARIABLES seq,       \* tasks submitted so far
          taskSt,    \* Task.Status
          taskQ,     \* the queue a task was submitted to
          chatOf,    \* the chats the queues were made for, in order
          current,   \* chatQueues: the queue of each chat
          buf, open, \* each queue's channel
          idle,      \* ticks since the queue's lastUsed
          pc, cur,   \* each worker, and the task it holds
          busy,      \* ticks since it received that task, up to IdleTimeout + 1
          sending,   \* the task Submit is about to send, or waits to send
          outbound,  \* the outbound bus
          sent,      \* tasks whose reply was handed to a channel
          outlived,  \* per chat: how often a queue was made beside a task that had
                     \* been with its worker for more than IdleTimeout
          line,      \* of each queue of chatOf: outlived when it was made
          life,      \* "up", "stopping" (context cancelled), "stopped" (Queue.Stop)
          gone       \* which of the submitter and the router have returned

tasks == <<seq, taskSt, taskQ>>
history == <<outlived, line>>
channels == <<chatOf, current, buf, open, history>>
workers == <<pc, cur, busy>>
process == <<life, gone>>
vars == <<tasks, channels, idle, workers, sending, outbound, sent, process>>

Init ==
  /\ seq = 0
  /\ taskSt = [t \in Tasks |-> "none"] /\ taskQ = [t \in Tasks |-> NoQueue]
  /\ chatOf = <<>> /\ current = [c \in Chats |-> NoQueue]
  /\ buf = [q \in Queues |-> <<>>] /\ open = [q \in Queues |-> FALSE]
  /\ idle = [q \in Queues |-> 0]
  /\ pc = [q \in Queues |-> "none"] /\ cur = [q \in Queues |-> NoTask]
  /\ busy = [q \in Queues |-> 0]
  /\ sending = NoTask
  /\ outbound = <<>> /\ sent = {}
  /\ outlived = [c \in Chats |-> 0] /\ line = <<>>
  /\ life = "up" /\ gone = {}

Executing == {"sem", "run", "reply"}     \* where a worker is in executeTask
Goto(q, next) == pc' = [pc EXCEPT ![q] = next]
Status(t, s) == taskSt' = [taskSt EXCEPT ![t] = s]
Running == {q \in Queues : pc[q] \in {"run", "reply"}}

-----------------------------------------------------------------------------
(* Submit, in two steps: under mu it records the task, finds or makes the  *)
(* queue of the chat and touches it; then, without mu, it sends.           *)

\* Mutant: a queue that exists is not touched.
NotTouched(q) == UNCHANGED idle
TouchQueue(q) == idle' = [idle EXCEPT ![q] = 0]

\* A task of the chat is still with the worker of a queue that was dropped.
Outlived(c) == \E r \in DOMAIN chatOf : chatOf[r] = c /\ pc[r] \in Executing /\ busy[r] > IdleTimeout

FindOrMake(c, q) ==
  IF current[c] # NoQueue
  THEN q = current[c] /\ UNCHANGED <<channels, pc>>
  ELSE /\ q = Len(chatOf) + 1
       /\ chatOf' = Append(chatOf, c)
       /\ current' = [current EXCEPT ![c] = q]
       /\ open' = [open EXCEPT ![q] = TRUE]
       /\ Goto(q, "recv")
       /\ outlived' = [outlived EXCEPT ![c] = IF Outlived(c) THEN @ + 1 ELSE @]
       /\ line' = Append(line, outlived'[c])
       /\ UNCHANGED buf

Submit(c) ==
  /\ "submitter" \notin gone /\ sending = NoTask /\ seq < MaxTasks
  /\ \E q \in Queues :
       /\ FindOrMake(c, q)
       /\ taskQ' = [taskQ EXCEPT ![seq + 1] = q]
       /\ TouchQueue(q)
  /\ seq' = seq + 1 /\ Status(seq + 1, "pending")
  /\ sending' = seq + 1
  /\ UNCHANGED <<cur, busy, outbound, sent, process>>

Room(q) == Len(buf[q]) < Cap

\* cq.ch <- task waits for room.  On a closed channel it would panic.
Send ==
  /\ sending # NoTask /\ Room(taskQ[sending]) /\ open[taskQ[sending]]
  /\ buf' = [buf EXCEPT ![taskQ[sending]] = Append(@, sending)]
  /\ sending' = NoTask
  /\ UNCHANGED <<tasks, chatOf, current, open, history, idle, workers, outbound, sent, process>>

-----------------------------------------------------------------------------
(* processChatQueue and executeTask.                                       *)

Receive(q) ==
  /\ pc[q] = "recv" /\ buf[q] # <<>>
  /\ cur' = [cur EXCEPT ![q] = Head(buf[q])]
  /\ buf' = [buf EXCEPT ![q] = Tail(@)]
  /\ busy' = [busy EXCEPT ![q] = 0]
  /\ Goto(q, "sem")
  /\ UNCHANGED <<tasks, chatOf, current, open, history, idle, sending, outbound, sent, process>>

\* Mutant: workers listen to the context of the gateway instead of the queue's.
Cancelled == life # "up"
Over == life = "stopped"

\* A closed channel is drained first; a stopped queue is left as it is.
Exit(q) ==
  /\ pc[q] = "recv"
  /\ (buf[q] = <<>> /\ ~open[q]) \/ Over
  /\ Goto(q, "exit")
  /\ UNCHANGED <<tasks, channels, idle, cur, busy, sending, outbound, sent, process>>

\* Mutant: a task that failed keeps its slot.
SlotLeaks == Cardinality(Running) + Cardinality({t \in Tasks : taskSt[t] = "failed"}) < MaxConcurrent
\* Mutant: one slot more than the semaphore has.
SlotExtra == Cardinality(Running) <= MaxConcurrent
SlotFree == Cardinality(Running) < MaxConcurrent

Acquire(q) ==
  /\ pc[q] = "sem" /\ SlotFree
  /\ Goto(q, "run") /\ Status(cur[q], "running")
  /\ UNCHANGED <<seq, taskQ, channels, idle, cur, busy, sending, outbound, sent, process>>

\* The queue was stopped: the task stays pending for ever.
GiveUp(q) ==
  /\ pc[q] = "sem" /\ Over
  /\ Goto(q, "touch")
  /\ UNCHANGED <<tasks, channels, idle, cur, busy, sending, outbound, sent, process>>

\* The handler of gateway.go: no user space or no such agent fails the task ...
HandlerFails(q) ==
  /\ pc[q] = "run"
  /\ Goto(q, "touch") /\ Status(cur[q], "failed")
  /\ UNCHANGED <<seq, taskQ, channels, idle, cur, busy, sending, outbound, sent, process>>

\* ... otherwise HandleMessage answers, an error text included,
Answer(q) ==
  /\ pc[q] = "run"
  /\ Goto(q, "reply")
  /\ UNCHANGED <<tasks, channels, idle, cur, busy, sending, outbound, sent, process>>

\* and the reply is put on the bus, waiting there whatever the context says.
Reply(q) ==
  /\ pc[q] = "reply" /\ Len(outbound) < OutCap
  /\ outbound' = Append(outbound, cur[q])
  /\ Goto(q, "touch") /\ Status(cur[q], "done")
  /\ UNCHANGED <<seq, taskQ, channels, idle, cur, busy, sending, sent, process>>

Touch(q) ==
  /\ pc[q] = "touch"
  /\ idle' = [idle EXCEPT ![q] = 0]
  /\ cur' = [cur EXCEPT ![q] = NoTask] /\ busy' = [busy EXCEPT ![q] = 0]
  /\ Goto(q, "recv")
  /\ UNCHANGED <<tasks, channels, sending, outbound, sent, process>>

\* routeOutbound: an unknown channel or a failed send is logged and forgotten.
Route ==
  /\ "router" \notin gone /\ outbound # <<>>
  /\ sent' = sent \cup {Head(outbound)} /\ outbound' = Tail(outbound)
  /\ UNCHANGED <<tasks, channels, idle, workers, sending, process>>

-----------------------------------------------------------------------------
(* cleanupIdleQueues, under mu: one sweep over all queues.                 *)

Unused(q) == idle[q] > IdleTimeout /\ buf[q] = <<>>

Dropped == {q \in Queues : open[q] /\ Unused(q)}

Cleanup ==
  /\ life # "stopped" /\ Dropped # {}
  /\ open' = [q \in Queues |-> open[q] /\ q \notin Dropped]
  /\ current' = [c \in Chats |-> IF current[c] \in Dropped THEN NoQueue ELSE current[c]]
  /\ UNCHANGED <<tasks, chatOf, buf, history, idle, workers, sending, outbound, sent, process>>

\* Nothing that need not wait is left to do.
Prompt ==
  /\ sending # NoTask => ~Room(taskQ[sending])
  /\ \A q \in Queues : pc[q] # "touch" /\ (pc[q] = "recv" => buf[q] = <<>>)

Tick ==
  /\ Prompt /\ life = "up"
  /\ \E q \in Queues : open[q]
  /\ idle' = [q \in Queues |-> IF open[q] /\ idle[q] <= IdleTimeout THEN idle[q] + 1 ELSE idle[q]]
  /\ busy' = [q \in Queues |-> IF pc[q] \in Executing /\ busy[q] <= IdleTimeout THEN busy[q] + 1 ELSE busy[q]]
  /\ UNCHANGED <<tasks, channels, pc, cur, sending, outbound, sent, process>>

-----------------------------------------------------------------------------
(* Gateway.Run: a signal cancels the context, the goroutines return when   *)
(* they next look at it, and once they have, the queue is stopped.         *)

Signal ==
  /\ MayStop /\ life = "up"
  /\ life' = "stopping"
  /\ UNCHANGED <<tasks, channels, idle, workers, sending, outbound, sent, gone>>

\* processInbound looks at its context only between two messages.
Return(who) ==
  /\ life = "stopping" /\ who \notin gone
  /\ who = "submitter" => sending = NoTask
  /\ gone' = gone \cup {who}
  /\ UNCHANGED <<tasks, channels, idle, workers, sending, outbound, sent, life>>

Stop ==
  /\ life = "stopping" /\ gone = {"submitter", "router"}
  /\ life' = "stopped"
  /\ UNCHANGED <<tasks, channels, idle, workers, sending, outbound, sent, gone>>

Work(q) == Receive(q) \/ Exit(q) \/ GiveUp(q) \/ HandlerFails(q) \/ Answer(q) \/ Reply(q) \/ Touch(q)

Next ==
  \/ \E c \in Chats : Submit(c)
  \/ Send \/ Route \/ Cleanup \/ Tick
  \/ \E q \in Queues : Work(q) \/ Acquire(q)
  \/ Signal \/ Stop
  \/ \E who \in {"submitter", "router"} : Return(who)

Spec == Init /\ [][Next]_vars

(* Goroutines run.  Those that wait for the semaphore get it in turn:      *)
(* blocked senders of a Go channel are served first come, first served.    *)
FairSpec ==
  /\ Spec
  /\ WF_vars(Send) /\ WF_vars(Route)
  /\ \A q \in Queues : WF_vars(Work(q)) /\ SF_vars(Acquire(q))

-----------------------------------------------------------------------------
\* Properties.

\* Every variable holds a value of its field, channels and semaphore within
\* their capacity.
TypeOK ==
  /\ seq \in 0..MaxTasks
  /\ taskSt \in [Tasks -> {"none", "pending", "running", "done", "failed"}]
  /\ taskQ \in [Tasks -> Queues \cup {NoQueue}]
  /\ chatOf \in Seq(Chats) /\ Len(chatOf) <= MaxQueues
  /\ current \in [Chats -> Queues \cup {NoQueue}]
  /\ buf \in [Queues -> Seq(Tasks)] /\ open \in [Queues -> BOOLEAN]
  /\ \A q \in Queues : Len(buf[q]) <= Cap
  /\ idle \in [Queues -> Nat] /\ busy \in [Queues -> Nat]
  /\ pc \in [Queues -> {"none", "recv", "touch", "exit"} \cup Executing]
  /\ cur \in [Queues -> Tasks \cup {NoTask}]
  /\ sending \in Tasks \cup {NoTask}
  /\ Cardinality(Running) <= MaxConcurrent
  /\ outbound \in Seq(Tasks) /\ Len(outbound) <= OutCap /\ sent \subseteq Tasks
  /\ outlived \in [Chats -> 0..MaxQueues] /\ line \in Seq(0..MaxQueues) /\ Len(line) = Len(chatOf)
  /\ life \in {"up", "stopping", "stopped"} /\ gone \subseteq {"submitter", "router"}

(* "Per-chat serialization": no two workers execute tasks of one chat at a *)
(* time.  A queue may be dropped while its worker executes a task; the     *)
(* next message of the chat then gets a queue and a worker beside it.      *)
OneAtATime ==
  \A q, r \in Queues : q # r /\ pc[q] \in Executing /\ pc[r] \in Executing => chatOf[q] # chatOf[r]

(* What the code keeps: the queues of a chat follow one another in lines,  *)
(* and a new line begins only with a queue that is made while a task of    *)
(* the chat has been with its worker for more than IdleTimeout.  No two    *)
(* tasks of a line hold or await a slot at a time, none starts before      *)
(* those submitted earlier have ended, and replies are handed to the       *)
(* channel in that order, also when queues were dropped and made anew.     *)
LineOf(q) == <<chatOf[q], line[q]>>
SameLine(s, t) == LineOf(taskQ[s]) = LineOf(taskQ[t])

OneInLine ==
  \A q, r \in Queues : q # r /\ pc[q] \in Executing /\ pc[r] \in Executing => LineOf(q) # LineOf(r)

StartInOrder ==
  \A s, t \in 1..seq : s < t /\ SameLine(s, t) /\ taskSt[t] # "pending" =>
    taskSt[s] \in {"done", "failed"} \/ life = "stopped"

RepliesInOrder ==
  \A s, t \in 1..seq : s < t /\ SameLine(s, t) /\ t \in sent => s \in sent \/ taskSt[s] = "failed"

LineSerial == OneInLine /\ StartInOrder /\ RepliesInOrder

Asked == [t \in 1..seq |-> LineOf(taskQ[t])]
In(S) == {t \in Tasks : taskSt[t] \in S}
Service == INSTANCE ChatService WITH
  Chats <- Chats \X (0..MaxQueues),
  asked <- Asked, started <- In({"running", "done", "failed"}), answered <- In({"done"}),
  failed <- In({"failed"}), replied <- sent, stopped <- life = "stopped"
\* To each line of a chat the queue is ChatService: in order, one at a time,
\* each once.
ServiceSpec == Service!Spec

\* Submit sends without the lock that cleanup closes under, yet never sends on
\* a closed channel, which would bring the whole gateway down.
NoSendOnClosed == sending # NoTask => open[taskQ[sending]]

\* No task is lost to a dropped queue: one that is pending waits in the channel
\* of a queue whose worker lives, or is held by its worker or by Submit.
InHand(t) ==
  \/ t = sending
  \/ \E i \in DOMAIN buf[taskQ[t]] : buf[taskQ[t]][i] = t
  \/ cur[taskQ[t]] = t
NoTaskLost == \A t \in Tasks : taskSt[t] \in {"pending", "running"} /\ life # "stopped" =>
                InHand(t) /\ pc[taskQ[t]] \notin {"none", "exit"}

(* Submit waits for a worker, workers for slots and for room on the bus,   *)
(* and the router for nobody: while a task has not ended, one of them goes *)
(* on, until the router has returned.                                      *)
GoesOn(q) ==
  \/ pc[q] = "recv" /\ buf[q] # <<>>
  \/ pc[q] = "sem" /\ SlotFree
  \/ pc[q] \in {"run", "touch"}
  \/ pc[q] = "reply" /\ Len(outbound) < OutCap
NeverStuck ==
  (\E t \in Tasks : taskSt[t] \in {"pending", "running"}) /\ "router" \notin gone =>
    (sending # NoTask /\ Room(taskQ[sending])) \/ outbound # <<>> \/ \E q \in Queues : GoesOn(q)

\* However the chats share slots and bus: every task ends, unless the process does.
Served == \A t \in Tasks : taskSt[t] = "pending" ~> (taskSt[t] \in {"done", "failed"} \/ life # "up")
=============================================================================
