------------------------------- MODULE MCTurn -------------------------------
(***************************************************************************)
(* ChatTurn under every fault, with one recovery run; and behind the fence *)
(* with two recovery runs that overlap.                                    *)
(***************************************************************************)
EXTENDS ChatTurn

CONSTANTS r1, r2

\* Bound: outside the fence the second recovery run never starts.
OneRunOutside == Fenced \/ rpc[r2] = "idle"

BoundedSpec == Init /\ [][Next /\ OneRunOutside']_vars
=============================================================================
