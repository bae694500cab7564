----------------------------- MODULE PaidReply -----------------------------
(***************************************************************************)
(* What a chat turn promises the user, each promise in one step: points    *)
(* are taken for an attempt at most once and only while there is no reply; *)
(* what was taken may be given back, unless it paid for the reply; and one *)
(* reply comes, paid for if it succeeded and free if the platform bears    *)
(* its cost.  ChatTurn implements it.                                      *)
(***************************************************************************)
CONSTANTS Attempts,
          Free        \* verdicts of replies the platform pays for

VARIABLES taken,      \* attempts the user was charged for
          returned,   \* attempts whose charge was given back
          replies     \* the reply of the turn, by the attempt that made it

vars == <<taken, returned, replies>>

Init == taken = {} /\ returned = {} /\ replies = {}

Take(a) ==
  /\ replies = {} /\ a \notin taken
  /\ taken' = taken \cup {a}
  /\ UNCHANGED <<returned, replies>>

PaysFor(r, a) == r.by = a /\ r.verdict = "success"

GiveBack(a) ==
  /\ a \in taken \ returned
  /\ \A r \in replies : ~PaysFor(r, a)
  /\ returned' = returned \cup {a}
  /\ UNCHANGED <<taken, replies>>

Kept(a) == a \in taken \ returned

Reply(a, v) ==
  /\ replies = {}
  /\ v = "success" => Kept(a)
  /\ v \in Free => a \in returned
  /\ v = "canned" => a \notin taken
  /\ replies' = {[by |-> a, verdict |-> v]}
  /\ UNCHANGED <<taken, returned>>

Next == \E a \in Attempts : \/ Take(a) \/ GiveBack(a)
                            \/ \E v \in Free \cup {"success", "canned"} : Reply(a, v)

Spec == Init /\ [][Next]_vars
=============================================================================
