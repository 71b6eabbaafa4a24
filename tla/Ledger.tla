------------------------------- MODULE Ledger -------------------------------
(***************************************************************************)
(* What the checkout promises, without carts, requests, caches or locks: a *)
(* stock, and the orders that were sold from it.                           *)
(***************************************************************************)
EXTENDS Naturals

CONSTANTS
    Goods,  \* what is sold
    Orders  \* names of orders

VARIABLES
    stock,  \* pieces of each good that are left
    sales   \* placed order -> the pieces it holds

ledger == <<stock, sales>>

Pieces == [Goods -> Nat]

LedgerInit ==
    /\ stock \in Pieces
    /\ DOMAIN sales = {}

\* Order o is placed: what it holds leaves the stock, at least one piece.
Deduct(o) ==
    /\ stock' \in Pieces
    /\ DOMAIN sales' = DOMAIN sales \cup {o}
    /\ sales'[o] \in Pieces
    /\ \A g \in Goods : sales'[o][g] + stock'[g] = stock[g]
    /\ \E g \in Goods : sales'[o][g] > 0
    /\ \A x \in DOMAIN sales \ {o} : sales'[x] = sales[x]

\* An order is sold once.
Sell(o) == o \notin DOMAIN sales /\ Deduct(o)

\* Orders disappear, the others stay what they are; nothing comes back.
Cancel ==
    /\ stock' = stock
    /\ DOMAIN sales' \subseteq DOMAIN sales
    /\ \A x \in DOMAIN sales' : sales'[x] = sales[x]

\* What orders hold changes, or they disappear.
Amend ==
    /\ stock' = stock
    /\ DOMAIN sales' \subseteq DOMAIN sales

LedgerNext == Cancel \/ \E o \in Orders : Sell(o)

\* What is kept for buyers who wait for an answer before they ask again.
LedgerSpec == LedgerInit /\ [][LedgerNext]_ledger

OpenNext == Amend \/ \E o \in Orders : Deduct(o)

\* What is kept whatever buyers, caches and workers do: an order may be
\* edited or sold again, but no piece leaves the stock without an order and
\* none is sold that is not there.
OpenLedgerSpec == LedgerInit /\ [][OpenNext]_ledger

============================================================================
