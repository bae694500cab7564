---------------------------- MODULE ChatService ----------------------------
(***************************************************************************)
(* What the gateway's task queue promises a chat, each promise in one      *)
(* step: its messages are worked on one after the other in the order they  *)
(* came, each is answered or fails once, and the answers go out once and   *)
(* in that order.  A queue that is stopped may pass over messages.         *)
(* TaskQueue implements it for each line of a chat's queues, see           *)
(* LineSerial: a queue made beside a task that takes too long begins one.  *)
(***************************************************************************)
EXTENDS Naturals, Sequences

CONSTANT Chats

VARIABLES asked,      \* the chat of each message, in the order they came
          started,    \* messages worked on,
          answered,   \* that have an answer,
          failed,     \* or none,
          replied,    \* and whose answer went out
          stopped

vars == <<asked, started, answered, failed, replied, stopped>>

Init ==
  /\ asked = <<>> /\ stopped = FALSE
  /\ started = {} /\ answered = {} /\ failed = {} /\ replied = {}

Ask(c) ==
  /\ asked' = Append(asked, c)
  /\ UNCHANGED <<started, answered, failed, replied, stopped>>

Earlier(m) == {n \in DOMAIN asked : n < m /\ asked[n] = asked[m]}

Start(m) ==
  /\ m \notin started
  /\ Earlier(m) \subseteq answered \cup failed \/ stopped
  /\ started' = started \cup {m}
  /\ UNCHANGED <<asked, answered, failed, replied, stopped>>

End(m) ==
  /\ m \in started \ (answered \cup failed)
  /\ \/ answered' = answered \cup {m} /\ UNCHANGED failed
     \/ failed' = failed \cup {m} /\ UNCHANGED answered
  /\ UNCHANGED <<asked, started, replied, stopped>>

Reply(m) ==
  /\ m \in answered \ replied
  /\ Earlier(m) \subseteq replied \cup failed
  /\ replied' = replied \cup {m}
  /\ UNCHANGED <<asked, started, answered, failed, stopped>>

Stop == stopped' = TRUE /\ UNCHANGED <<asked, started, answered, failed, replied>>

Next ==
  \/ \E c \in Chats : Ask(c)
  \/ \E m \in DOMAIN asked : Start(m) \/ End(m) \/ Reply(m)
  \/ Stop

Spec == Init /\ [][Next]_vars
=============================================================================
