--------------------------- MODULE PaymentProofs ---------------------------
(***************************************************************************)
(* Theorems about Payment, for any number of orders, users, channels and   *)
(* requests.  The argument: an order has no payment row until its first    *)
(* claim, and from then on exactly one, active until a notice settles the  *)
(* order; and the order row and the wallet row change in one transaction.  *)
(***************************************************************************)
EXTENDS Payment, TLAPS

Settled(o) == order[o] \in {"credited", "failed", "closed"}

\* The life of an order and of its payment row.
OrderInv ==
  \A o \in Orders :
    /\ order[o] \in {"none", "created"} => payments[o] = <<>>
    /\ order[o] = "prepay_created" \/ Settled(o) => Len(payments[o]) = 1
    /\ order[o] = "prepay_created" =>
         /\ payments[o][1].active
         /\ payments[o][1].prepared \/ payments[o][1].verify \in {"creating", "provider_result_unknown"}
    /\ Settled(o) => ~payments[o][1].active

Inv == OrderTypeOK /\ OrderInv /\ CreditedExactly

-----------------------------------------------------------------------------
\* Crediting an order adds its key to the book, and no other.
LEMMA CreditAddsKey ==
  ASSUME OrderTypeOK, NEW o \in Orders, CreditOrder(o)
  PROVE  /\ \A k \in Orders : Wallet!Keyed(k)' <=> Wallet!Keyed(k) \/ k = o
         /\ points' \in [Buyers -> Nat]
         /\ book' \in [Buyers -> Seq(BookRow)]
<1>1. CASE Wallet!Keyed(o)
  BY <1>1 DEF CreditOrder, wallet, CreditKey, OrderTypeOK, Wallet!Keyed
<1>2. CASE ~Wallet!Keyed(o)
  <2> DEFINE u == Owner[o]
             row == Wallet!RowOf(Credit(o), points[u] + Points[o])
  <2>1. u \in Buyers /\ Points[o] \in Nat
    BY OwnersAssumption, PointsAssumption
  <2>2. Wallet!Post(Credit(o))
    BY <1>2 DEF CreditOrder, CreditKey
  <2>3. /\ Credit(o).user = u /\ Wallet!Signed(Credit(o)) = Points[o]
        /\ row = [type |-> "recharge", key |-> o, amount |-> Points[o], by |-> NoOne,
                  after |-> points[u] + Points[o]]
    BY DEF Credit, CreditKey, Wallet!Signed, Wallet!RowOf
  <2>4. /\ points' = [points EXCEPT ![u] = points[u] + Points[o]]
        /\ book' = [book EXCEPT ![u] = Append(book[u], row)]
    BY <2>2, <2>3 DEF Wallet!Post
  <2>5. points[u] + Points[o] \in Nat
    BY <2>1 DEF OrderTypeOK
  <2>6. row \in BookRow
    BY <2>1, <2>3, <2>5 DEF BookRow
  <2>7. points' \in [Buyers -> Nat] /\ book' \in [Buyers -> Seq(BookRow)]
    BY <2>1, <2>4, <2>5, <2>6 DEF OrderTypeOK
  <2>8. book[u] \in Seq(BookRow)
    BY <2>1 DEF OrderTypeOK
  <2>9. /\ book'[u] = Append(book[u], row)
        /\ \A v \in Buyers \ {u} : book'[v] = book[v]
    BY <2>1, <2>4 DEF OrderTypeOK
  <2> HIDE DEF row, u
  <2>10. /\ DOMAIN book'[u] = DOMAIN book[u] \cup {Len(book[u]) + 1}
         /\ book'[u][Len(book[u]) + 1] = row
         /\ \A i \in DOMAIN book[u] : book'[u][i] = book[u][i]
    BY <2>6, <2>8, <2>9
  <2>11. ASSUME NEW k \in Orders PROVE Wallet!Keyed(k)' => Wallet!Keyed(k) \/ k = o
    <3>1. SUFFICES ASSUME NEW v \in Buyers, NEW i \in DOMAIN book'[v], book'[v][i].key = k
                   PROVE  Wallet!Keyed(k) \/ k = o
      BY DEF Wallet!Keyed
    <3>2. CASE v = u
      BY <3>1, <3>2, <2>3, <2>10 DEF Wallet!Keyed
    <3>3. CASE v # u
      BY <3>1, <3>3, <2>9 DEF Wallet!Keyed
    <3> QED BY <3>2, <3>3
  <2>12. ASSUME NEW k \in Orders, Wallet!Keyed(k) PROVE Wallet!Keyed(k)'
    <3>0. PICK v \in Buyers : \E i \in DOMAIN book[v] : book[v][i].key = k
      BY <2>12 DEF Wallet!Keyed
    <3>1. PICK i \in DOMAIN book[v] : book[v][i].key = k
      BY <3>0
    <3>2. CASE v = u
      BY <3>1, <3>2, <2>10 DEF Wallet!Keyed
    <3>3. CASE v # u
      BY <3>1, <3>3, <2>9 DEF Wallet!Keyed
    <3> QED BY <3>2, <3>3
  <2>13. Wallet!Keyed(o)'
    BY <2>1, <2>3, <2>10 DEF Wallet!Keyed, u
  <2> QED BY <2>7, <2>11, <2>12, <2>13
<1> QED BY <1>1, <1>2

LEMMA InvInit == OrderInit => Inv
<1> SUFFICES ASSUME OrderInit PROVE Inv
  OBVIOUS
<1>1. \A k \in Orders : ~Wallet!Keyed(k)
  BY DEF OrderInit, Wallet!Init, Wallet!Keyed
<1>2. OrderTypeOK
  BY DEF OrderInit, Wallet!Init, OrderTypeOK
<1>3. OrderInv
  BY DEF OrderInit, OrderInv, Settled
<1>4. CreditedExactly
  BY <1>1 DEF OrderInit, CreditedExactly, CreditKey
<1> QED BY <1>2, <1>3, <1>4 DEF Inv

-----------------------------------------------------------------------------
\* Rewriting one payment row disturbs no other row and no request.
LEMMA RowUpdate ==
  ASSUME OrderTypeOK, NEW o \in Orders, NEW i \in DOMAIN payments[o], NEW r \in PaymentRow,
         payments' = [payments EXCEPT ![o][i] = r]
  PROVE  /\ payments' \in [Orders -> Seq(PaymentRow)]
         /\ \A q \in Orders : DOMAIN payments'[q] = DOMAIN payments[q] /\ Len(payments'[q]) = Len(payments[q])
         /\ payments'[o][i] = r
         /\ \A q \in Orders : \A k \in DOMAIN payments[q] :
              q # o \/ k # i => payments'[q][k] = payments[q][k]
<1>1. payments[o] \in Seq(PaymentRow)
  BY DEF OrderTypeOK
<1>2. /\ payments'[o] = [payments[o] EXCEPT ![i] = r]
      /\ \A q \in Orders \ {o} : payments'[q] = payments[q]
      /\ DOMAIN payments' = Orders
  BY DEF OrderTypeOK
<1>3. /\ payments'[o] \in Seq(PaymentRow)
      /\ DOMAIN payments'[o] = DOMAIN payments[o] /\ Len(payments'[o]) = Len(payments[o])
      /\ payments'[o][i] = r
      /\ \A k \in DOMAIN payments[o] : k # i => payments'[o][k] = payments[o][k]
  BY <1>1, <1>2
<1>4. payments' \in [Orders -> Seq(PaymentRow)]
  BY <1>2, <1>3 DEF OrderTypeOK
<1> QED BY <1>2, <1>3, <1>4

\* What an order's status and the wallet say of it, when neither credits it.
LEMMA SameCredit ==
  ASSUME CreditedExactly, book' = book, paid \subseteq paid',
         \A o \in Orders : order'[o] = "credited" <=> order[o] = "credited"
  PROVE  CreditedExactly'
<1>1. \A o \in Orders : Wallet!Keyed(o)' <=> Wallet!Keyed(o)
  BY DEF Wallet!Keyed
<1> QED BY <1>1 DEF CreditedExactly, CreditKey

\* Of an order with a payment row there is one, and requests hold it.
LEMMA OneRow ==
  ASSUME Inv, NEW o \in Orders, NEW i \in DOMAIN payments[o]
  PROVE  i = 1 /\ Len(payments[o]) = 1 /\ order[o] \notin {"none", "created"}
<1>1. payments[o] \in Seq(PaymentRow) /\ payments[o] # <<>>
  BY DEF Inv, OrderTypeOK
<1>2. Len(payments[o]) = 1
  BY <1>1 DEF Inv, OrderInv, OrderTypeOK, Settled
<1> QED BY <1>1, <1>2 DEF Inv, OrderInv

\* A row rewritten while its order is left alone keeps the invariant, if it
\* stays as active as it was and a request may still use it.
LEMMA RowRewritten ==
  ASSUME Inv, NEW o \in Orders, NEW i \in DOMAIN payments[o], NEW r \in PaymentRow,
         payments' = [payments EXCEPT ![o][i] = r],
         r.active = payments[o][i].active,
         r.active => r.prepared \/ r.verify \in {"creating", "provider_result_unknown"},
         order' = order
  PROVE  OrderInv'
<1>1. i = 1
  BY OneRow
<1>2. SUFFICES ASSUME NEW q \in Orders
      PROVE /\ order[q] \in {"none", "created"} => payments'[q] = <<>>
            /\ order[q] = "prepay_created" \/ order[q] \in {"credited", "failed", "closed"} => Len(payments'[q]) = 1
            /\ order[q] = "prepay_created" =>
                 /\ payments'[q][1].active
                 /\ payments'[q][1].prepared \/ payments'[q][1].verify \in {"creating", "provider_result_unknown"}
            /\ order[q] \in {"credited", "failed", "closed"} => ~payments'[q][1].active
  BY DEF OrderInv, Settled
<1>3. CASE q = o
  <2>1. Len(payments'[o]) = Len(payments[o]) /\ payments'[o][1] = r
    BY <1>1, RowUpdate DEF Inv
  <2> QED BY <1>1, <1>3, <2>1, OneRow DEF Inv, OrderInv, Settled
<1>4. CASE q # o
  <2>1. payments'[q] = payments[q]
    BY <1>4 DEF Inv, OrderTypeOK
  <2> QED BY <2>1 DEF Inv, OrderInv, Settled
<1> QED BY <1>3, <1>4

\* A notice settles the order and deactivates its payment.
LEMMA RowSettled ==
  ASSUME Inv, NEW o \in Orders, NEW i \in DOMAIN payments[o],
         NEW s \in {"success", "failed", "cancelled"}, MarkPayment(o, i, s),
         NEW t \in {"credited", "failed", "closed"}, order' = [order EXCEPT ![o] = t]
  PROVE  /\ OrderInv'
         /\ order' \in [Orders -> {"none", "created", "prepay_created", "credited", "failed", "closed"}]
         /\ payments' \in [Orders -> Seq(PaymentRow)]
         /\ \A q \in Orders : DOMAIN payments'[q] = DOMAIN payments[q]
<1> DEFINE r == [payments[o][i] EXCEPT !.status = s, !.verify = "passed", !.active = FALSE, !.fresh = TRUE]
<1>1. payments[o] \in Seq(PaymentRow) /\ i \in DOMAIN payments[o]
  BY DEF Inv, OrderTypeOK
<1>2. payments[o][i] \in PaymentRow
  BY <1>1
<1>3. r \in PaymentRow /\ r.active = FALSE
  BY <1>2 DEF PaymentRow
<1>4. payments' = [payments EXCEPT ![o][i] = r]
  BY DEF MarkPayment
<1>5. i = 1 /\ Len(payments[o]) = 1
  BY OneRow
<1> HIDE DEF r
<1>6. /\ payments' \in [Orders -> Seq(PaymentRow)]
      /\ \A q \in Orders : DOMAIN payments'[q] = DOMAIN payments[q] /\ Len(payments'[q]) = Len(payments[q])
      /\ payments'[o][1] = r
  BY <1>3, <1>4, <1>5, RowUpdate DEF Inv
<1>7. order'[o] = t /\ \A q \in Orders \ {o} : order'[q] = order[q] /\ payments'[q] = payments[q]
  BY <1>4 DEF Inv, OrderTypeOK
<1>8. OrderInv'
  <2>1. SUFFICES ASSUME NEW q \in Orders
        PROVE /\ order'[q] \in {"none", "created"} => payments'[q] = <<>>
              /\ order'[q] = "prepay_created" \/ order'[q] \in {"credited", "failed", "closed"} => Len(payments'[q]) = 1
              /\ order'[q] = "prepay_created" =>
                   /\ payments'[q][1].active
                   /\ payments'[q][1].prepared \/ payments'[q][1].verify \in {"creating", "provider_result_unknown"}
              /\ order'[q] \in {"credited", "failed", "closed"} => ~payments'[q][1].active
    BY DEF OrderInv, Settled
  <2>2. CASE q = o
    BY <1>3, <1>5, <1>6, <1>7, <2>2
  <2>3. CASE q # o
    BY <1>7, <2>3 DEF Inv, OrderInv, Settled
  <2> QED BY <2>2, <2>3
<1>9. order' \in [Orders -> {"none", "created", "prepay_created", "credited", "failed", "closed"}]
  BY DEF Inv, OrderTypeOK
<1> QED BY <1>6, <1>8, <1>9

-----------------------------------------------------------------------------
LEMMA InvStep == Inv /\ [OrderNext]_orderVars => Inv'
<1> SUFFICES ASSUME Inv, [OrderNext]_orderVars PROVE Inv'
  OBVIOUS
<1> USE DEF Inv
<1>0. \A o \in Orders : \A i \in DOMAIN payments[o] : payments[o][i] \in PaymentRow
  BY DEF OrderTypeOK
<1>1. CASE Redeploy
  <2>1. OrderTypeOK' /\ OrderInv' /\ CreditedExactly'
    BY <1>1, SameCredit DEF Redeploy, OrderTypeOK, OrderInv, Settled, request, wallet
  <2> QED BY <2>1
<1>2. ASSUME NEW o \in Orders, CreateOrder(o) PROVE Inv'
  <2>1. OrderTypeOK'
    BY <1>2 DEF CreateOrder, OrderTypeOK, request, wallet
  <2>2. OrderInv'
    BY <1>2 DEF CreateOrder, OrderTypeOK, OrderInv, Settled
  <2>3. CreditedExactly'
    <3>1. \A q \in Orders : order'[q] = "credited" <=> order[q] = "credited"
      BY <1>2 DEF CreateOrder, OrderTypeOK
    <3> QED BY <1>2, <3>1, SameCredit DEF CreateOrder, wallet
  <2> QED BY <2>1, <2>2, <2>3
<1>3. ASSUME NEW h \in Handlers, NEW o \in Orders, FirstClaim(h, o) PROVE Inv'
  <2>1. payments[o] = <<>> /\ order[o] = "created"
    BY <1>3 DEF FirstClaim, OrderInv
  <2>2. NewPayment \in PaymentRow /\ NewPayment.active /\ NewPayment.verify = "creating"
    BY DEF NewPayment, PaymentRow, OrderTypeOK
  <2>3. /\ payments' = [payments EXCEPT ![o] = <<NewPayment>>]
        /\ order' = [order EXCEPT ![o] = "prepay_created"]
        /\ claim' = [claim EXCEPT ![h] = <<o, 1>>] /\ at' = [at EXCEPT ![h] = "call"]
        /\ UNCHANGED <<deployed, shown, paid, wallet>>
    BY <1>3, <2>1 DEF FirstClaim, Start, OrderTypeOK
  <2>4. <<NewPayment>> \in Seq(PaymentRow) /\ Len(<<NewPayment>>) = 1 /\ DOMAIN <<NewPayment>> = {1}
    BY <2>2
  <2>5. /\ payments'[o] = <<NewPayment>> /\ \A q \in Orders \ {o} : payments'[q] = payments[q]
        /\ payments' \in [Orders -> Seq(PaymentRow)]
    BY <2>3, <2>4 DEF OrderTypeOK
  <2>6. \A k \in Handlers : at'[k] # "idle" => claim'[k][2] \in DOMAIN payments'[claim'[k][1]]
    <3>1. SUFFICES ASSUME NEW k \in Handlers, at'[k] # "idle"
                   PROVE  claim'[k][2] \in DOMAIN payments'[claim'[k][1]]
      OBVIOUS
    <3>2. CASE k = h
      BY <2>3, <2>4, <2>5, <3>2 DEF OrderTypeOK
    <3>3. CASE k # h
      <4>1. claim'[k] = claim[k] /\ at[k] # "idle"
        BY <2>3, <3>1, <3>3 DEF OrderTypeOK
      <4>2. claim[k][1] \in Orders /\ claim[k][2] \in DOMAIN payments[claim[k][1]]
        BY <4>1 DEF OrderTypeOK
      <4>3. claim[k][1] # o
        BY <2>1, <4>2
      <4> QED BY <2>5, <4>1, <4>2, <4>3
    <3> QED BY <3>2, <3>3
  <2>7. OrderTypeOK'
    BY <2>1, <2>3, <2>4, <2>5, <2>6 DEF OrderTypeOK, wallet
  <2>8. OrderInv'
    BY <2>2, <2>3, <2>4, <2>5 DEF OrderInv, Settled, OrderTypeOK
  <2>9. CreditedExactly'
    <3>1. \A q \in Orders : order'[q] = "credited" <=> order[q] = "credited"
      BY <2>1, <2>3 DEF OrderTypeOK
    <3> QED BY <2>3, <3>1, SameCredit DEF wallet
  <2> QED BY <2>7, <2>8, <2>9
<1>4. ASSUME NEW h \in Handlers, NEW o \in Orders, Reuse(h, o) PROVE Inv'
  <2>1. OrderTypeOK'
    BY <1>4 DEF Reuse, Active, OrderTypeOK, request, wallet
  <2>2. OrderInv' /\ CreditedExactly'
    BY <1>4, SameCredit DEF Reuse, OrderInv, Settled, wallet
  <2> QED BY <2>1, <2>2
<1>5. ASSUME NEW h \in Handlers, NEW o \in Orders, TakeOver(h, o) PROVE Inv'
  <2>1. PICK i \in Active(o) :
          /\ ~payments[o][i].prepared
          /\ payments' = [payments EXCEPT ![o][i] = [@ EXCEPT !.verify = "creating", !.fresh = TRUE]]
          /\ Start(h, o, i)
    BY <1>5 DEF TakeOver
  <2> DEFINE r == [payments[o][i] EXCEPT !.verify = "creating", !.fresh = TRUE]
  <2>2. i \in DOMAIN payments[o] /\ i = 1
    BY OneRow DEF Active
  <2>0. payments[o][i] \in PaymentRow
    BY <1>0, <2>2
  <2>3. r \in PaymentRow /\ r.active = payments[o][i].active /\ r.verify = "creating"
    BY <2>0 DEF PaymentRow
  <2>4. payments' = [payments EXCEPT ![o][i] = r]
    BY <2>1
  <2> HIDE DEF r
  <2>5. OrderInv'
    BY <1>5, <2>2, <2>3, <2>4, RowRewritten DEF TakeOver
  <2>6. OrderTypeOK'
    BY <1>5, <2>1, <2>2, <2>3, <2>4, RowUpdate DEF TakeOver, OrderTypeOK, Start, wallet
  <2>7. CreditedExactly'
    BY <1>5, SameCredit DEF TakeOver, wallet
  <2> QED BY <2>5, <2>6, <2>7
<1>6. ASSUME NEW o \in Orders, GrowStale(o) PROVE Inv'
  <2>1. PICK i \in DOMAIN payments[o] :
          payments' = [payments EXCEPT ![o][i] = [@ EXCEPT !.fresh = FALSE]]
    BY <1>6 DEF GrowStale
  <2> DEFINE r == [payments[o][i] EXCEPT !.fresh = FALSE]
  <2>2. i = 1 /\ order[o] \notin {"none", "created"}
    BY OneRow
  <2>0. payments[o][i] \in PaymentRow
    BY <1>0, <2>1
  <2>3. /\ r \in PaymentRow /\ r.active = payments[o][i].active /\ r.verify = payments[o][i].verify
        /\ r.prepared = payments[o][i].prepared
    BY <2>0 DEF PaymentRow
  <2>4. payments' = [payments EXCEPT ![o][i] = r]
    BY <2>1
  <2> HIDE DEF r
  <2>5. r.active => r.prepared \/ r.verify \in {"creating", "provider_result_unknown"}
    BY <2>2, <2>3 DEF OrderInv, Settled, OrderTypeOK
  <2>6. OrderInv'
    BY <1>6, <2>3, <2>4, <2>5, RowRewritten DEF GrowStale
  <2>7. OrderTypeOK'
    BY <1>6, <2>3, <2>4, RowUpdate DEF GrowStale, OrderTypeOK, request, wallet
  <2>8. CreditedExactly'
    BY <1>6, SameCredit DEF GrowStale, wallet
  <2> QED BY <2>6, <2>7, <2>8
<1>7. ASSUME NEW h \in Handlers, CallProvider(h) \/ Vanish(h) PROVE Inv'
  <2>1. OrderTypeOK'
    BY <1>7 DEF CallProvider, Vanish, Proceed, OrderTypeOK, wallet
  <2>2. OrderInv' /\ CreditedExactly'
    BY <1>7, SameCredit DEF CallProvider, Vanish, Proceed, OrderInv, Settled, wallet
  <2> QED BY <2>1, <2>2
<1>8. ASSUME NEW h \in Handlers, SavePrepay(h) \/ SaveFails(h) PROVE Inv'
  <2> DEFINE o == claim[h][1]
             i == claim[h][2]
             r == Stored(payments[o][i])
  <2>7. at[h] = "save"
    BY <1>8 DEF SavePrepay, SaveFails
  <2>1. o \in Orders /\ i \in DOMAIN payments[o]
    BY <2>7 DEF OrderTypeOK
  <2>2. /\ shown' \in {shown, [shown EXCEPT ![o] = @ \cup {i}]}
        /\ at' \in {[at EXCEPT ![h] = "idle"], [at EXCEPT ![h] = "unknown"]}
        /\ claim' = claim /\ UNCHANGED <<order, deployed, paid, wallet>>
        /\ payments' = payments \/ payments' = [payments EXCEPT ![o][i] = r]
    <3>1. CASE SavePrepay(h)
      BY <3>1 DEF SavePrepay, StoreRow, Proceed
    <3>2. CASE SaveFails(h)
      BY <3>2 DEF SaveFails, StoreRow, Proceed
    <3> QED BY <1>8, <3>1, <3>2
  <2>8. /\ at' \in [Handlers -> {"idle", "call", "save", "unknown"}]
        /\ \A k \in Handlers : at'[k] # "idle" => at[k] # "idle"
    BY <2>2, <2>7 DEF OrderTypeOK
  <2>9. /\ shown' \in [Orders -> SUBSET Nat]
        /\ \A q \in Orders : shown'[q] \subseteq DOMAIN payments[q]
    <3>1. CASE shown' = shown
      BY <3>1 DEF OrderTypeOK
    <3>2. CASE shown' = [shown EXCEPT ![o] = @ \cup {i}]
      <4>1. i \in Nat
        BY <2>1 DEF OrderTypeOK
      <4> QED BY <2>1, <3>2, <4>1 DEF OrderTypeOK
    <3> QED BY <2>2, <3>1, <3>2
  <2>0. payments[o][i] \in PaymentRow
    BY <1>0, <2>1
  <2>3. r \in PaymentRow /\ r.active = payments[o][i].active /\ r.prepared
    BY <2>0 DEF PaymentRow, Stored
  <2> HIDE DEF r
  <2>4. CASE payments' = payments
    <3>1. OrderTypeOK'
      BY <2>2, <2>4, <2>8, <2>9 DEF OrderTypeOK, wallet
    <3>2. OrderInv' /\ CreditedExactly'
      BY <2>2, <2>4, SameCredit DEF OrderInv, Settled, wallet
    <3> QED BY <3>1, <3>2
  <2>5. CASE payments' = [payments EXCEPT ![o][i] = r]
    <3> HIDE DEF o, i
    <3>1. OrderInv'
      BY <2>1, <2>2, <2>3, <2>5, RowRewritten
    <3>2. /\ payments' \in [Orders -> Seq(PaymentRow)]
          /\ \A q \in Orders : DOMAIN payments'[q] = DOMAIN payments[q]
      BY <2>1, <2>3, <2>5, RowUpdate
    <3>4. OrderTypeOK'
      BY <2>2, <2>8, <2>9, <3>2 DEF OrderTypeOK, wallet
    <3>5. CreditedExactly'
      BY <2>2, SameCredit DEF wallet
    <3> QED BY <3>1, <3>4, <3>5
  <2> QED BY <2>2, <2>4, <2>5
<1>9. ASSUME NEW h \in Handlers, MarkUnknown(h) PROVE Inv'
  <2> DEFINE o == claim[h][1]
             i == claim[h][2]
             r == ResultUnknown(payments[o][i])
  <2>1. o \in Orders /\ i \in DOMAIN payments[o]
    BY <1>9 DEF MarkUnknown, OrderTypeOK
  <2>2. /\ at' = [at EXCEPT ![h] = "idle"] /\ claim' = claim
        /\ UNCHANGED <<order, deployed, shown, paid, wallet>>
        /\ payments' = [payments EXCEPT ![o][i] = r]
    BY <1>9 DEF MarkUnknown, Proceed
  <2>0. payments[o][i] \in PaymentRow
    BY <1>0, <2>1
  <2>3. /\ r \in PaymentRow /\ r.active = payments[o][i].active
        /\ r.verify = "provider_result_unknown"
    BY <2>0 DEF PaymentRow, ResultUnknown
  <2> HIDE DEF r, o, i
  <2>4. OrderInv'
    BY <2>1, <2>2, <2>3, RowRewritten
  <2>5. OrderTypeOK'
    BY <2>1, <2>2, <2>3, RowUpdate DEF OrderTypeOK, wallet
  <2>6. CreditedExactly'
    BY <2>2, SameCredit DEF wallet
  <2> QED BY <2>4, <2>5, <2>6
<1>10. ASSUME NEW o \in Orders, Pay(o) PROVE Inv'
  <2>1. OrderTypeOK'
    BY <1>10 DEF Pay, OrderTypeOK, request, wallet
  <2>2. OrderInv' /\ CreditedExactly'
    BY <1>10, SameCredit DEF Pay, OrderInv, Settled, wallet
  <2> QED BY <2>1, <2>2
<1>11. ASSUME NEW o \in Orders, NEW amount \in Amounts, NotifySuccess(o, amount) PROVE Inv'
  <2>1. o \in paid /\ CreditOrder(o) /\ order' = [order EXCEPT ![o] = "credited"]
    BY <1>11 DEF NotifySuccess, PaidInFull
  <2>2. PICK i \in DOMAIN payments[o] : MarkPayment(o, i, "success")
    BY <1>11 DEF NotifySuccess
  <2>3. /\ OrderInv'
        /\ order' \in [Orders -> {"none", "created", "prepay_created", "credited", "failed", "closed"}]
        /\ payments' \in [Orders -> Seq(PaymentRow)]
        /\ \A q \in Orders : DOMAIN payments'[q] = DOMAIN payments[q]
    BY <2>1, <2>2, RowSettled
  <2>4. OrderTypeOK'
    BY <1>11, <2>1, <2>3, CreditAddsKey DEF NotifySuccess, OrderTypeOK, request
  <2>5. CreditedExactly'
    <3>1. \A k \in Orders : Wallet!Keyed(k)' <=> Wallet!Keyed(k) \/ k = o
      BY <2>1, CreditAddsKey
    <3>2. \A k \in Orders : order'[k] = "credited" <=> order[k] = "credited" \/ k = o
      BY <2>1 DEF OrderTypeOK
    <3> QED BY <1>11, <2>1, <3>1, <3>2 DEF CreditedExactly, CreditKey, NotifySuccess
  <2> QED BY <2>3, <2>4, <2>5
<1>12. ASSUME NEW o \in Orders, NEW amount \in Amounts, NEW status \in {"failed", "cancelled"},
              NotifyFailure(o, status, amount)
       PROVE  Inv'
  <2>1. /\ order[o] # "credited" /\ order' = [order EXCEPT ![o] = OrderAfter(status)]
        /\ OrderAfter(status) \in {"failed", "closed"}
    BY <1>12 DEF NotifyFailure, MayFail, OrderAfter
  <2>2. PICK i \in DOMAIN payments[o] : MarkPayment(o, i, status)
    BY <1>12 DEF NotifyFailure
  <2>3. /\ OrderInv'
        /\ order' \in [Orders -> {"none", "created", "prepay_created", "credited", "failed", "closed"}]
        /\ payments' \in [Orders -> Seq(PaymentRow)]
        /\ \A q \in Orders : DOMAIN payments'[q] = DOMAIN payments[q]
    BY <2>1, <2>2, RowSettled
  <2>4. OrderTypeOK'
    BY <1>12, <2>1, <2>3 DEF NotifyFailure, OrderTypeOK, request, wallet
  <2>5. CreditedExactly'
    <3>1. \A q \in Orders : order'[q] = "credited" <=> order[q] = "credited"
      BY <2>1 DEF OrderTypeOK
    <3> QED BY <1>12, <3>1, SameCredit DEF NotifyFailure, wallet
  <2> QED BY <2>3, <2>4, <2>5
<1>13. CASE UNCHANGED orderVars
  <2>1. OrderTypeOK' /\ OrderInv' /\ CreditedExactly'
    BY <1>13, SameCredit DEF orderVars, request, wallet, OrderTypeOK, OrderInv, Settled
  <2> QED BY <2>1
<1> QED
  BY <1>1, <1>2, <1>3, <1>4, <1>5, <1>6, <1>7, <1>8, <1>9, <1>10, <1>11, <1>12, <1>13
     DEF OrderNext, Prepay, Notice

LEMMA InvHolds == OrderSpec => []Inv
BY InvInit, InvStep, PTL DEF OrderSpec

-----------------------------------------------------------------------------
\* Every column, request and wallet row keeps its type.
THEOREM PaymentTypeOK == OrderSpec => []OrderTypeOK
<1>1. Inv => OrderTypeOK
  BY DEF Inv
<1> QED BY InvHolds, <1>1, PTL

\* However many prepay requests overlap, fail or vanish, an order has one
\* payment row, so every credential a user is given is of that row.
THEOREM PaymentOneCredential == OrderSpec => []OneCredential
<1>1. Inv => OneCredential
  <2>1. SUFFICES ASSUME Inv, NEW o \in Orders PROVE Len(payments[o]) <= 1
    BY DEF OneCredential
  <2>2. order[o] \in {"none", "created"} \/ order[o] = "prepay_created" \/ Settled(o)
    BY <2>1 DEF Inv, OrderTypeOK, Settled
  <2>3. payments[o] = <<>> \/ Len(payments[o]) = 1
    BY <2>1, <2>2 DEF Inv, OrderInv
  <2>4. CASE payments[o] = <<>>
    BY <2>4
  <2>5. CASE Len(payments[o]) = 1
    BY <2>5
  <2> QED BY <2>3, <2>4, <2>5
<1> QED BY InvHolds, <1>1, PTL

\* An order in prepay always has an active payment that is, or can again be,
\* given a credential; an order that is not has none.
THEOREM PaymentOpenOrderIsPayable == OrderSpec => []OpenOrderIsPayable
<1>1. Inv => OpenOrderIsPayable
  <2>1. SUFFICES ASSUME Inv, NEW o \in Orders
        PROVE IF order[o] = "prepay_created"
              THEN \E i \in Active(o) :
                     \/ payments[o][i].prepared
                     \/ payments[o][i].verify \in {"creating", "provider_result_unknown"}
              ELSE Active(o) = {}
    BY DEF OpenOrderIsPayable
  <2>2. CASE order[o] = "prepay_created"
    BY <2>1, <2>2 DEF Inv, OrderInv, Active, OrderTypeOK
  <2>3. CASE order[o] # "prepay_created"
    BY <2>1, <2>3, OneRow DEF Inv, OrderInv, Active, OrderTypeOK, Settled
  <2> QED BY <2>2, <2>3
<1> QED BY InvHolds, <1>1, PTL

\* Late, repeated and contradicting notices leave an order credited exactly
\* when its points are in the wallet, and then it was paid for.
THEOREM PaymentCreditedExactly == OrderSpec => []CreditedExactly
<1>1. Inv => CreditedExactly
  BY DEF Inv
<1> QED BY InvHolds, <1>1, PTL

\* Buying points is Purchase: one credit for one payment.
THEOREM PaymentImplementsPurchase == OrderSpec => PurchaseSpec
<1>1. OrderInit => Bought!Init
  BY DEF OrderInit, Wallet!Init, Wallet!Keyed, Bought!Init, CreditedOrders
<1>2. Inv /\ [OrderNext]_orderVars => [Bought!Next]_Bought!vars
  <2> SUFFICES ASSUME Inv, [OrderNext]_orderVars PROVE [Bought!Next]_Bought!vars
    OBVIOUS
  <2>1. ASSUME NEW o \in Orders, Pay(o) PROVE Bought!Pay(o)
    <3>1. CreditedOrders' = CreditedOrders
      BY <2>1 DEF Pay, wallet, CreditedOrders, Wallet!Keyed, CreditKey
    <3> QED BY <2>1, <3>1 DEF Pay, Bought!Pay
  <2>2. ASSUME NEW o \in Orders, NEW amount \in Amounts, NotifySuccess(o, amount) PROVE Bought!Credit(o)
    <3>1. o \in paid /\ order[o] # "credited" /\ CreditOrder(o) /\ paid' = paid
      BY <2>2 DEF NotifySuccess, PaidInFull, Creditable
    <3>2. \A k \in Orders : Wallet!Keyed(k)' <=> Wallet!Keyed(k) \/ k = o
      BY <3>1, CreditAddsKey DEF Inv
    <3>3. CreditedOrders' = CreditedOrders \cup {o}
      BY <3>2 DEF CreditedOrders, CreditKey
    <3>4. o \notin CreditedOrders
      BY <3>1 DEF CreditedOrders, Inv, CreditedExactly
    <3> QED BY <3>1, <3>3, <3>4 DEF Bought!Credit
  <2>3. ASSUME UNCHANGED <<paid, book>> PROVE UNCHANGED Bought!vars
    BY <2>3 DEF Bought!vars, CreditedOrders, Wallet!Keyed, CreditKey
  <2> QED
    BY <2>1, <2>2, <2>3
       DEF OrderNext, Prepay, Notice, Bought!Next, orderVars, wallet, Redeploy, CreateOrder, FirstClaim, Reuse,
           TakeOver, GrowStale, CallProvider, SavePrepay, SaveFails, MarkUnknown, Vanish, NotifyFailure
<1> QED BY <1>1, <1>2, InvHolds, PTL DEF OrderSpec, PurchaseSpec, Bought!Spec

-----------------------------------------------------------------------------
\* Who pays has seen a credential, or named a payment row of the mock channel:
\* the order has been claimed, and it stays claimed.
PaidIsClaimed == \A o \in paid : order[o] \notin {"none", "created"}

LEMMA PaidIsClaimedStep == Inv /\ PaidIsClaimed /\ [OrderNext]_orderVars => PaidIsClaimed'
<1> SUFFICES ASSUME Inv, PaidIsClaimed, [OrderNext]_orderVars PROVE PaidIsClaimed'
  OBVIOUS
<1>1. ASSUME NEW o \in Orders, Pay(o) PROVE PaidIsClaimed'
  <2>1. \E i \in DOMAIN payments[o] : TRUE
    BY <1>1 DEF Pay, Inv, OrderTypeOK
  <2>2. order[o] \notin {"none", "created"}
    BY <2>1, OneRow
  <2> QED BY <1>1, <2>2 DEF Pay, PaidIsClaimed
<1>2. ASSUME paid' = paid, order' = order PROVE PaidIsClaimed'
  BY <1>2 DEF PaidIsClaimed
<1>3. ASSUME paid' = paid, NEW o \in Orders, NEW s, order' = [order EXCEPT ![o] = s],
             s \in {"none", "created"} => order[o] \in {"none", "created"}
      PROVE  PaidIsClaimed'
  BY <1>3 DEF PaidIsClaimed, Inv, OrderTypeOK
<1>4. ASSUME NEW o \in Orders, CreateOrder(o) PROVE PaidIsClaimed'
  BY <1>4, <1>3 DEF CreateOrder
<1>5. ASSUME NEW h \in Handlers, NEW o \in Orders, FirstClaim(h, o) PROVE PaidIsClaimed'
  BY <1>5, <1>3 DEF FirstClaim
<1>6. ASSUME NEW o \in Orders, NEW amount \in Amounts, NotifySuccess(o, amount) PROVE PaidIsClaimed'
  BY <1>6, <1>3 DEF NotifySuccess
<1>7. ASSUME NEW o \in Orders, NEW amount \in Amounts, NEW status \in {"failed", "cancelled"},
             NotifyFailure(o, status, amount)
      PROVE  PaidIsClaimed'
  BY <1>7, <1>3 DEF NotifyFailure, OrderAfter
<1> QED
  BY <1>1, <1>2, <1>4, <1>5, <1>6, <1>7
     DEF OrderNext, Prepay, Notice, orderVars, Redeploy, Reuse, TakeOver, GrowStale, CallProvider, SavePrepay,
         SaveFails, MarkUnknown, Vanish

\* The success notice of an order that was paid for is accepted until it has
\* credited the order, late, repeated and contradicting notices included.
THEOREM PaymentPaidIsCreditable == OrderSpec => []PaidIsCreditable
<1>1. OrderInit => PaidIsClaimed
  BY DEF OrderInit, PaidIsClaimed
<1>2. Inv /\ PaidIsClaimed => PaidIsCreditable
  <2>1. SUFFICES ASSUME Inv, PaidIsClaimed, NEW o \in paid, Creditable(o)
        PROVE /\ order[o] # "none" /\ ~Wallet!Keyed(CreditKey(o))
              /\ payments[o] # <<>>
              /\ \A i \in DOMAIN payments[o] : payments[o][i].provider = deployed => LatestPayment(o, i)
    BY DEF PaidIsCreditable
  <2>2. o \in Orders /\ order[o] \notin {"none", "created", "credited"}
    BY <2>1 DEF Inv, OrderTypeOK, PaidIsClaimed, Creditable
  <2>3. order[o] = "prepay_created" \/ Settled(o)
    BY <2>1, <2>2 DEF Inv, OrderTypeOK, Settled
  <2>4. Len(payments[o]) = 1 /\ payments[o] \in Seq(PaymentRow)
    BY <2>1, <2>2, <2>3 DEF Inv, OrderInv, OrderTypeOK
  <2>5. 1 \in DOMAIN payments[o] /\ \A k \in DOMAIN payments[o] : k = 1
    BY <2>4
  <2>6. \A i \in DOMAIN payments[o] : payments[o][i].provider = deployed => LatestPayment(o, i)
    BY <2>4, <2>5 DEF LatestPayment, OfChannel
  <2>7. ~Wallet!Keyed(CreditKey(o))
    BY <2>1, <2>2 DEF Inv, CreditedExactly
  <2> QED BY <2>2, <2>4, <2>6, <2>7
<1> QED BY <1>1, <1>2, InvHolds, PaidIsClaimedStep, PTL DEF OrderSpec
=============================================================================
