--------------------------- MODULE CheckoutLedger ---------------------------
(***************************************************************************)
(* The checkout keeps the ledger: the stock is the column quantity, the    *)
(* sales are the orders that are not carts, with their rows.               *)
(***************************************************************************)
EXTENDS Checkout

PlacedOrders == {o \in OrderIds : Placed(o)}
Sales == [o \in PlacedOrders |-> LinesOf(o)]

L == INSTANCE Ledger WITH
        Goods <- InfoIds, Orders <- OrderIds, stock <- Stock, sales <- Sales

\* One request at a time: orders are sold once, stay what they were when
\* they were placed, and disappear only without giving anything back.
KeepsLedger == L!LedgerSpec

\* Every interleaving: the stock moves with an order and never runs short.
KeepsOpenLedger == L!OpenLedgerSpec

============================================================================
