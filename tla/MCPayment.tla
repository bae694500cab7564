----------------------------- MODULE MCPayment -----------------------------
(***************************************************************************)
(* Instances of Payment: one user, one or two orders, and prepay requests  *)
(* that overlap.                                                           *)
(***************************************************************************)
EXTENDS Payment

CONSTANTS u1, o1, o2

OwnerOfAll == [o \in Orders |-> u1]
PointsOfAll == [o \in Orders |-> IF o = o1 THEN 1 ELSE 2]

\* No step reads the claim of an idle request.
Observed == <<order, payments, deployed, at, shown, paid, wallet,
              [h \in {k \in Handlers : at[k] # "idle"} |-> claim[h]]>>
=============================================================================
