----------------------------- MODULE MCAccount -----------------------------
(***************************************************************************)
(* What a user has beside the conversation, in one instance: a wallet that *)
(* is charged, refunded, recharged and adjusted, the orders that recharge  *)
(* it, and the achievements and memories the effects of turns leave.  No   *)
(* statement is about two of them, so a behaviour runs one part; the       *)
(* others stay in an initial state.                                        *)
(*                                                                         *)
(* The wallet's calls: one user who recharges, is charged for a turn, gets *)
(* it back, and whom an administrator adjusts, with every key used by two  *)
(* handlers, and a second user whose adjustment reuses a key.              *)
(***************************************************************************)
EXTENDS Wallet, MCPayment, ChatEffects, Functions, TLC

CONSTANTS u2, a1, kOrder, kConsume, kNext, kRefund, kAdjust

Call(kind, u, k, of, amount, by) ==
  [kind |-> kind, user |-> u, key |-> k, of |-> of, amount |-> amount, by |-> by]

AllJobs == {Call("credit",  u1, kOrder,   kOrder,   2, NoAdmin),
            Call("consume", u1, kConsume, kConsume, 1, NoAdmin),
            Call("consume", u1, kNext,    kNext,    1, NoAdmin),
            Call("refund",  u1, kRefund,  kConsume, 1, NoAdmin),
            Call("adjust",  u1, kAdjust,  kAdjust, -1, a1),
            Call("adjust",  u1, kAdjust,  kAdjust, -2, a1),
            Call("adjust",  u2, kAdjust,  kAdjust,  1, a1)}

Old == {"old"}
Unsaid == {Old}   \* no suggestions while achievements are unlocked

VARIABLE part

Memories == INSTANCE ChatEffects WITH
              Effects <- {"memory"}, Contents <- {{"a"}, {"b"}, {"a", "b"}, Old}, MaxUnanswered <- 0

all == <<part, vars, orderVars, effectVars>>

AllInit ==
  /\ part \in {"wallet", "orders", "unlocks", "memories"}
  /\ Init /\ OrderInit /\ EffectInit
  /\ part # "orders" => deployed = Mock
  /\ part # "memories" => memories = {}

\* Bound: calls in all.
SomeCalls == FoldFunction(+, 0, calls') <= 4

\* Bound: the second order is prepaid once the first is settled, and from then
\* on nothing is deployed and requests no longer meet.
OneAfterTheOther ==
  payments'[o2] # <<>> =>
    /\ order'[o1] \in {"credited", "failed", "closed"}
    /\ deployed' = deployed
    /\ \E h \in Handlers : \A k \in Handlers \ {h} : at'[k] = "idle"

AllNext ==
  \/ part = "wallet" /\ Next /\ SomeCalls /\ UNCHANGED <<part, orderVars, effectVars>>
  \/ part = "orders" /\ OrderNext /\ OneAfterTheOther /\ UNCHANGED <<part, vars, effectVars>>
  \/ part = "unlocks" /\ EffectNext /\ UNCHANGED <<part, vars, orderVars>>
  \/ part = "memories" /\ Memories!EffectNext /\ UNCHANGED <<part, vars, orderVars>>

AllSpec == AllInit /\ [][AllNext]_all

Symmetry == Permutations(Procs) \cup Permutations(Handlers)
AllObserved == IF part = "orders" THEN <<part, Observed>> ELSE <<part, vars, effectVars>>

-----------------------------------------------------------------------------
\* Every variable of the four parts holds a value of its field.
AllTypeOK ==
  TypeOK /\ OrderTypeOK /\ IF part = "memories" THEN Memories!EffectTypeOK ELSE EffectTypeOK
=============================================================================
