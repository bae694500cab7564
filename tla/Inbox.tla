------------------------------- MODULE Inbox -------------------------------
(***************************************************************************)
(* What return messages promise a user about one character: one message    *)
(* per day at most, and never more than UnreadCap of them unread.          *)
(* ReturnMessage implements it.                                            *)
(***************************************************************************)
EXTENDS FiniteSets, Naturals

CONSTANTS Windows, UnreadCap

VARIABLES unread, read      \* days whose message waits, or has been read

vars == <<unread, read>>

Init == unread = {} /\ read = {}

Deliver(w) ==
  /\ w \notin unread \cup read
  /\ Cardinality(unread) < UnreadCap
  /\ unread' = unread \cup {w}
  /\ UNCHANGED read

ReadAll == unread' = {} /\ read' = read \cup unread

Next == ReadAll \/ \E w \in Windows : Deliver(w)

Spec == Init /\ [][Next]_vars
=============================================================================
