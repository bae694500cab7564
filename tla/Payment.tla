------------------------------ MODULE Payment ------------------------------
(***************************************************************************)
(* Buying points (modules/payments, app/api/orders, app/api/payments): an  *)
(* order is created, a payment row is claimed under the order's row lock,  *)
(* the channel creates its credential outside that lock, and signed        *)
(* notices of the channel settle the order and credit the wallet.          *)
(*                                                                         *)
(* claimPayment and processPaymentNotify lock the order row first and hold *)
(* it to the end, so each is one action; the two updates that follow the   *)
(* call of the channel take no lock of the order and are actions of their  *)
(* own.  The wallet is Ledger, which Wallet implements: consumption and    *)
(* adjustments, which move the same balance, are left to those modules.    *)
(***************************************************************************)
EXTENDS Integers, Sequences

CONSTANTS Orders, Buyers,
          Owner, Points,     \* user_id and points_amount of each order
          Handlers,          \* requests to POST /api/orders/:id/prepay
          Providers, Mock,   \* payment channels a deployment may configure
          NoOne

ASSUME OwnersAssumption == Owner \in [Orders -> Buyers]
ASSUME PointsAssumption == Points \in [Orders -> Nat \ {0}]
ASSUME ProvidersAssumption == Providers # {}

VARIABLES order,      \* orders.status
          payments,   \* payments rows of each order, oldest first
          deployed,   \* config.paymentProvider
          at, claim,  \* each prepay request after its claim: next step, row
          shown,      \* payment rows whose credential a user was given
          paid,       \* orders paid for at the channel
          points, book    \* the wallet

request == <<at, claim>>
wallet == <<points, book>>
orderVars == <<order, payments, deployed, request, shown, paid, wallet>>

\* The row creditWalletInTransaction inserts, with key credit_order_<id>.
CreditKey(o) == o
Credit(o) == [user |-> Owner[o], type |-> "recharge", key |-> CreditKey(o),
              amount |-> Points[o], by |-> NoOne]

Wallet == INSTANCE Ledger WITH
            Users <- Buyers, Postings <- {Credit(o) : o \in Orders}, balance <- points

\* creditWalletInTransaction: once per key.
CreditOrder(o) ==
  IF Wallet!Keyed(CreditKey(o)) THEN UNCHANGED wallet ELSE Wallet!Post(Credit(o))

Active(o) == {i \in DOMAIN payments[o] : payments[o][i].active}

OrderInit ==
  /\ order = [o \in Orders |-> "none"]
  /\ payments = [o \in Orders |-> <<>>]
  /\ deployed \in Providers
  /\ at = [h \in Handlers |-> "idle"]
  /\ claim \in [Handlers -> {<<o, 1>> : o \in Orders}]
  /\ shown = [o \in Orders |-> {}]
  /\ paid = {}
  /\ Wallet!Init

CreateOrder(o) ==
  /\ order[o] = "none"
  /\ order' = [order EXCEPT ![o] = "created"]
  /\ UNCHANGED <<payments, deployed, request, shown, paid, wallet>>

\* A deployment with another PAYMENT_PROVIDER.
Redeploy ==
  /\ deployed' \in Providers \ {deployed}
  /\ UNCHANGED <<order, payments, request, shown, paid, wallet>>

-----------------------------------------------------------------------------
\* claimPayment: refused unless the order is created or in prepay.

Prepayable(o) == order[o] \in {"created", "prepay_created"}
Start(h, o, i) == at' = [at EXCEPT ![h] = "call"] /\ claim' = [claim EXCEPT ![h] = <<o, i>>]

NewPayment == [provider |-> deployed, prepared |-> FALSE, verify |-> "creating",
               status |-> "pending", active |-> TRUE, fresh |-> TRUE]

\* No active payment: insert one.
FirstClaim(h, o) ==
  /\ at[h] = "idle"
  /\ order[o] = "created" /\ Active(o) = {}
  /\ payments' = [payments EXCEPT ![o] = Append(@, NewPayment)]
  /\ order' = [order EXCEPT ![o] = "prepay_created"]
  /\ Start(h, o, Len(payments[o]) + 1)
  /\ UNCHANGED <<deployed, shown, paid, wallet>>

\* An active payment with a credential: replay it.
Reuse(h, o) ==
  /\ at[h] = "idle"
  /\ Prepayable(o)
  /\ \E i \in Active(o) :
       /\ payments[o][i].prepared /\ payments[o][i].provider = deployed
       /\ shown' = [shown EXCEPT ![o] = @ \cup {i}]
  /\ UNCHANGED <<order, payments, deployed, request, paid, wallet>>

\* One without: its creation failed, or has been running for a minute.
MayTakeOver(p) ==
  p.verify = "provider_result_unknown" \/ (p.verify = "creating" /\ ~p.fresh)

TakeOver(h, o) ==
  /\ at[h] = "idle"
  /\ Prepayable(o)
  /\ \E i \in Active(o) :
       LET p == payments[o][i] IN
       /\ ~p.prepared /\ p.provider = deployed /\ MayTakeOver(p)
       /\ payments' = [payments EXCEPT ![o][i] = [@ EXCEPT !.verify = "creating", !.fresh = TRUE]]
       /\ Start(h, o, i)
  /\ UNCHANGED <<order, deployed, shown, paid, wallet>>

\* CREATING_PAYMENT_STALE_MS passes since the row was updated.
GrowStale(o) ==
  /\ \E i \in DOMAIN payments[o] :
       /\ payments[o][i].fresh
       /\ payments' = [payments EXCEPT ![o][i] = [@ EXCEPT !.fresh = FALSE]]
  /\ UNCHANGED <<order, deployed, request, shown, paid, wallet>>

-----------------------------------------------------------------------------
\* createOrReusePrepayment after its claim.

Proceed(h, next) == at' = [at EXCEPT ![h] = next] /\ UNCHANGED claim

\* The channel creates the credential of this row (its id is the channel's
\* idempotency key), or the call fails or times out.
CallProvider(h) ==
  /\ at[h] = "call"
  /\ Proceed(h, "save") \/ Proceed(h, "unknown")
  /\ UNCHANGED <<order, payments, deployed, shown, paid, wallet>>

\* Store it, unless the row has moved on; the answer is 'ready' either way.
Stored(p) == [p EXCEPT !.prepared = TRUE, !.verify = "pending", !.fresh = TRUE]

StoreRow(o, i) == IF payments[o][i].verify = "creating"
                  THEN [payments EXCEPT ![o][i] = Stored(@)]
                  ELSE payments

SavePrepay(h) ==
  LET o == claim[h][1]
      i == claim[h][2]
  IN
  /\ at[h] = "save"
  /\ payments' = StoreRow(o, i)
  /\ shown' = [shown EXCEPT ![o] = @ \cup {i}]
  /\ Proceed(h, "idle")
  /\ UNCHANGED <<order, deployed, paid, wallet>>

\* That statement throws inside the try block, its write done or not.
SaveFails(h) ==
  /\ at[h] = "save"
  /\ payments' \in {payments, StoreRow(claim[h][1], claim[h][2])}
  /\ Proceed(h, "unknown")
  /\ UNCHANGED <<order, deployed, shown, paid, wallet>>

\* Mutant: a failed call gives the payment up.
GiveUp(p) == [p EXCEPT !.verify = "provider_result_unknown", !.active = FALSE]
\* The catch block: whatever the row says by now.
ResultUnknown(p) == [p EXCEPT !.verify = "provider_result_unknown", !.fresh = TRUE]

MarkUnknown(h) ==
  /\ at[h] = "unknown"
  /\ payments' = [payments EXCEPT ![claim[h][1]][claim[h][2]] = ResultUnknown(@)]
  /\ Proceed(h, "idle")
  /\ UNCHANGED <<order, deployed, shown, paid, wallet>>

\* The process dies, or the catch block's statement fails.
Vanish(h) ==
  /\ at[h] # "idle"
  /\ Proceed(h, "idle")
  /\ UNCHANGED <<order, payments, deployed, shown, paid, wallet>>

-----------------------------------------------------------------------------
\* The channel.

\* The user pays with a credential; with the mock channel by asking for it.
Pay(o) ==
  /\ o \notin paid
  /\ shown[o] # {} \/ (deployed = Mock /\ \E i \in DOMAIN payments[o] : payments[o][i].provider = Mock)
  /\ paid' = paid \cup {o}
  /\ UNCHANGED <<order, payments, deployed, request, shown, wallet>>

\* findPaymentForUpdate: the latest row of the configured channel.
OfChannel(o) == {i \in DOMAIN payments[o] : payments[o][i].provider = deployed}
LatestPayment(o, i) == i \in OfChannel(o) /\ \A k \in OfChannel(o) : k <= i

MarkPayment(o, i, s) ==
  payments' = [payments EXCEPT ![o][i] =
                 [@ EXCEPT !.status = s, !.verify = "passed", !.active = FALSE, !.fresh = TRUE]]

\* Mutant: the amount of the notice is not compared.
AnyAmount(amount) == amount # "zero"
\* A success names the whole amount, and the route refuses amounts of zero.
PaidInFull(amount) == amount = "exact"

\* Mutant: what was reported failed or cancelled stays so.
StillOpen(o) == order[o] = "prepay_created"
Creditable(o) == order[o] # "credited"

(* processSuccessfulNotify.  A signed notice is about a payment the channel *)
(* took; it may come twice, and after notices of attempts that failed.      *)
NotifySuccess(o, amount) ==
  /\ o \in paid \/ amount # "exact"
  /\ order[o] # "none"
  /\ PaidInFull(amount) /\ Creditable(o)
  /\ \E i \in DOMAIN payments[o] : LatestPayment(o, i) /\ MarkPayment(o, i, "success")
  /\ CreditOrder(o)
  /\ order' = [order EXCEPT ![o] = "credited"]
  /\ UNCHANGED <<deployed, request, shown, paid>>

\* Mutant: a late failure notice reopens a credited order as failed.
MayFailAlways(o) == order[o] # "none"
MayFail(o) == order[o] \notin {"none", "credited"}
\* Mutant: a failed order may be prepaid again.
ReopenAfter(status) == IF status = "failed" THEN "created" ELSE "closed"
OrderAfter(status) == IF status = "failed" THEN "failed" ELSE "closed"

\* processUnsuccessfulNotify; an amount of zero is not compared.
NotifyFailure(o, status, amount) ==
  /\ MayFail(o) /\ amount \in {"exact", "zero"}
  /\ \E i \in DOMAIN payments[o] : LatestPayment(o, i) /\ MarkPayment(o, i, status)
  /\ order' = [order EXCEPT ![o] = OrderAfter(status)]
  /\ UNCHANGED <<deployed, request, shown, paid, wallet>>

-----------------------------------------------------------------------------
Amounts == {"exact", "zero", "other"}

Prepay(h) ==
  \/ \E o \in Orders : FirstClaim(h, o) \/ Reuse(h, o) \/ TakeOver(h, o)
  \/ CallProvider(h) \/ SavePrepay(h) \/ SaveFails(h) \/ MarkUnknown(h) \/ Vanish(h)

Notice(o) ==
  \E amount \in Amounts :
    \/ NotifySuccess(o, amount)
    \/ \E status \in {"failed", "cancelled"} : NotifyFailure(o, status, amount)

OrderNext ==
  \/ Redeploy
  \/ \E h \in Handlers : Prepay(h)
  \/ \E o \in Orders : CreateOrder(o) \/ GrowStale(o) \/ Pay(o) \/ Notice(o)

OrderSpec == OrderInit /\ [][OrderNext]_orderVars

(* The channel repeats the notice of a payment until it is acknowledged.   *)
OrderFairSpec == OrderSpec /\ \A o \in Orders : WF_orderVars(NotifySuccess(o, "exact"))

-----------------------------------------------------------------------------
\* Properties.

PaymentRow == [provider : Providers, prepared : BOOLEAN,
               verify : {"creating", "pending", "provider_result_unknown", "passed"},
               status : {"pending", "success", "failed", "cancelled"},
               active : BOOLEAN, fresh : BOOLEAN]

BookRow == [type : {"recharge"}, key : Orders, amount : Nat, by : {NoOne}, after : Nat]

\* Every variable holds a value of its column, and requests hold real rows.
OrderTypeOK ==
  /\ order \in [Orders -> {"none", "created", "prepay_created", "credited", "failed", "closed"}]
  /\ payments \in [Orders -> Seq(PaymentRow)]
  /\ deployed \in Providers
  /\ at \in [Handlers -> {"idle", "call", "save", "unknown"}]
  /\ claim \in [Handlers -> Orders \X Nat]
  /\ \A h \in Handlers : at[h] # "idle" => claim[h][2] \in DOMAIN payments[claim[h][1]]
  /\ \A o \in Orders : shown[o] \subseteq DOMAIN payments[o]
  /\ shown \in [Orders -> SUBSET Nat]
  /\ paid \subseteq Orders
  /\ points \in [Buyers -> Nat]
  /\ book \in [Buyers -> Seq(BookRow)]

\* "At most one active payment record; every successful answer refers to the
\* same credential", however many requests ask and whatever becomes of them.
OneCredential == \A o \in Orders : Len(payments[o]) <= 1

(* An order that entered prepay can still be paid for: its one active      *)
(* payment has a credential, or a later request may create it again.       *)
OpenOrderIsPayable ==
  \A o \in Orders :
    IF order[o] = "prepay_created"
    THEN \E i \in Active(o) :
           \/ payments[o][i].prepared
           \/ payments[o][i].verify \in {"creating", "provider_result_unknown"}
    ELSE Active(o) = {}

\* The order says credited exactly when its points are in the wallet, and
\* then the user paid: late, repeated and contradicting notices included.
CreditedExactly ==
  \A o \in Orders : /\ order[o] = "credited" <=> Wallet!Keyed(CreditKey(o))
                    /\ order[o] = "credited" => o \in paid

(* "Order and payment states can be reconciled": the payment of a credited *)
(* order says that its notice was verified.                                *)
CreditedIsVerified ==
  \A o \in Orders : order[o] = "credited" =>
    \E i \in DOMAIN payments[o] : payments[o][i].status = "success" /\ payments[o][i].verify = "passed"

(* Whatever notices came before, the success notice of an order that was   *)
(* paid for and is not credited is accepted and credits it, as long as the *)
(* channel of its payment is the configured one.                           *)
PaidIsCreditable ==
  \A o \in paid : Creditable(o) =>
    /\ order[o] # "none" /\ ~Wallet!Keyed(CreditKey(o))
    /\ payments[o] # <<>>
    /\ \A i \in DOMAIN payments[o] : payments[o][i].provider = deployed => LatestPayment(o, i)

CreditedOrders == {o \in Orders : Wallet!Keyed(CreditKey(o))}
Bought == INSTANCE Purchase WITH credited <- CreditedOrders
\* Buying points implements Purchase: credited once, and only when paid for.
PurchaseSpec == Bought!Spec
\* ... and, the channel repeating its notices, whenever paid for.
PurchaseFairSpec == Bought!FairSpec
=============================================================================
