------------------------------ MODULE MCBrowse ------------------------------
(***************************************************************************)
(* Small instances of Browse: a product, two offers, two shops.  A tick is *)
(* five minutes.                                                           *)
(***************************************************************************)
EXTENDS Browse, TLC

CONSTANTS p1, s1, s2

\* products.product is kept for 15 minutes, products.productinfo for 5.
Lifetimes == ("list" :> 3) @@ ("detail" :> 1)

Ask(s, low, high) == [shop |-> s, min |-> low, max |-> high]

\* A shop and two bounds, each of which a price may meet exactly; a shop and
\* a lower bound.
InRange == {Ask(s1, 1, 2)}
AtLeast == {Ask(s1, 2, NoRow)}

============================================================================
