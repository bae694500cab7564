------------------------------ MODULE Purchase ------------------------------
(***************************************************************************)
(* What buying points promises: an order the user paid for is credited,    *)
(* once, and no other order is.  Payment implements it.                    *)
(***************************************************************************)
CONSTANT Orders

VARIABLES paid,       \* orders the user paid for, at the payment channel
          credited    \* orders whose points are in the wallet

vars == <<paid, credited>>

Init == paid = {} /\ credited = {}

Pay(o) == o \notin paid /\ paid' = paid \cup {o} /\ UNCHANGED credited

Credit(o) ==
  /\ o \in paid \ credited
  /\ credited' = credited \cup {o}
  /\ UNCHANGED paid

Next == \E o \in Orders : Pay(o) \/ Credit(o)

Spec == Init /\ [][Next]_vars
FairSpec == Spec /\ \A o \in Orders : WF_vars(Credit(o))
=============================================================================
