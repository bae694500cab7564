------------------------------- MODULE Ledger -------------------------------
(***************************************************************************)
(* What the wallet module promises its callers, with no transaction,       *)
(* lock or process in sight: points move by postings, each idempotency     *)
(* key is posted at most once, a posting carries the balance it leads to,  *)
(* and no posting leads below zero.  Wallet implements it.                 *)
(***************************************************************************)
EXTENDS Integers, Sequences

CONSTANTS Users,      \* wallet owners
          Postings    \* [user, type, key, amount, by] records that may be posted

VARIABLES balance,    \* wallet_accounts.balance_points of each user
          book        \* wallet_transactions of each user, in commit order

vars == <<balance, book>>

\* The signed effect of a posting: 'consume' rows store a positive amount.
Signed(e) == IF e.type = "consume" THEN -e.amount ELSE e.amount

\* The row a posting leaves behind.
RowOf(e, after) ==
  [type |-> e.type, key |-> e.key, amount |-> e.amount, by |-> e.by, after |-> after]

Keyed(k) == \E u \in Users : \E i \in DOMAIN book[u] : book[u][i].key = k

Init == /\ balance = [u \in Users |-> 0]
        /\ book = [u \in Users |-> <<>>]

Post(e) ==
  LET after == balance[e.user] + Signed(e) IN
  /\ ~Keyed(e.key)
  /\ after >= 0
  /\ balance' = [balance EXCEPT ![e.user] = after]
  /\ book' = [book EXCEPT ![e.user] = Append(@, RowOf(e, after))]

Next == \E e \in Postings : Post(e)

Spec == Init /\ [][Next]_vars
=============================================================================
