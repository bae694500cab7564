----------------------------- MODULE MCSettles ------------------------------
(***************************************************************************)
(* What must happen in the end, in one instance: a turn comes to rest with *)
(* its charge settled, an order that was paid for is credited, and the     *)
(* inbox of return messages fills up.  No statement is about two of them,  *)
(* so a behaviour runs one part; the others stay in an initial state.      *)
(***************************************************************************)
EXTENDS ReturnMessage

CONSTANTS r1, u1, o1, h1, h2, h3, aggregate, NoOne

VARIABLES part,
          status, attempt, lease, replied, bond, usage, chargeSt, refundSt,
          consumed, refunded, asking, wpc, verdict, rpc, rrow,
          order, payments, deployed, at, claim, shown, paid, points, book

Turn == INSTANCE ChatTurn WITH
          MaxAttempts <- 2, ClientId <- TRUE, Recoverers <- {r1},
          FaultSets <- {{"crash", "wallet", "mark", "db"}},
          faults <- {"crash", "wallet", "mark", "db"}, pc <- wpc

Buying == INSTANCE Payment WITH
            Orders <- {o1}, Buyers <- {u1},
            Owner <- [o \in {o1} |-> u1], Points <- [o \in {o1} |-> 2],
            Handlers <- {h1, h2, h3}, Providers <- {aggregate}, Mock <- "mock"

turn == <<status, attempt, lease, replied, bond, usage, chargeSt, refundSt, consumed, refunded,
          asking, wpc, verdict, rpc, rrow>>
buying == <<order, payments, deployed, at, claim, shown, paid, points, book>>
all == <<part, vars, turn, buying>>

AllInit ==
  /\ part \in {"turn", "order", "inbox"}
  /\ Init /\ Turn!Init /\ Buying!OrderInit
  /\ part # "inbox" => session

InTurn(A) == part = "turn" /\ A /\ UNCHANGED <<part, vars, buying>>
InOrder(A) == part = "order" /\ A /\ UNCHANGED <<part, vars, turn>>
InInbox(A) == part = "inbox" /\ A /\ UNCHANGED <<part, turn, buying>>

AllNext == InTurn(Turn!Next) \/ InOrder(Buying!OrderNext) \/ InInbox(Next)

(* The fairness of the FairSpec of ChatTurn, Payment and ReturnMessage.  As *)
(* a behaviour runs one part, a condition of one part and a condition of    *)
(* another may be one; any caller's sweeps are enough.                      *)
TurnFair ==
  /\ WF_all(InTurn(Turn!ExpireLease))
  /\ WF_all(InTurn(Turn!Work(1))) /\ WF_all(InTurn(Turn!Work(2)))
  /\ WF_all(InTurn(Turn!Recover(r1)))
OrderFair == WF_all(InOrder(Buying!NotifySuccess(o1, "exact")))
InboxFair ==
  /\ \A c \in Callers : WF_all(InInbox(Prepare(c)))
  /\ WF_all(InInbox(\E c \in Callers, w \in Windows : Refuse(c, w)))
Repeated ==
  /\ SF_all(InTurn(Turn!RecoverList(r1, 1)) \/ InInbox(\E c \in Callers : Sweep(c)))
  /\ SF_all(InTurn(Turn!RecoverList(r1, 2)) \/ InInbox(\E c \in Callers, w \in Windows : Enter(c, w)))
  /\ SF_all(InTurn(Turn!Settle(r1)) \/ InInbox(\E c \in Callers, w \in Windows : AppendToSession(c, w)))
  /\ SF_all(InTurn(Turn!RecoverRefund(r1)) \/ InInbox(\E c \in Callers, w \in Windows : Commit(c, w)))

AllSpec == AllInit /\ [][AllNext]_all /\ TurnFair /\ OrderFair /\ InboxFair /\ Repeated

\* See the properties of these names of ChatTurn and Payment.
NothingKeptForNothing == Turn!NothingKeptForNothing
PurchaseFairSpec == Buying!PurchaseFairSpec

\* See FillsUp of ReturnMessage: in the part of the inbox.
InboxFillsUp == part = "inbox" => FillsUp
=============================================================================
