----------------------------- MODULE MCCheckout -----------------------------
(***************************************************************************)
(* Small instances of Checkout: a shop with one or two products, and two   *)
(* requests, of one buyer (two tabs) or of two.                            *)
(***************************************************************************)
EXTENDS CheckoutLedger, TLC

CONSTANTS u1, u2, s1, s2, c1, c2, r1, r2

\* One buyer with two tabs, or a buyer per connection.
OneTab    == (r1 :> u1)
TwoTabs   == (r1 :> u1) @@ (r2 :> u1)
TwoBuyers == (r1 :> u1) @@ (r2 :> u2)

\* The owners of the addresses.
OneOwner  == (c1 :> u1)
BothOwned == (c1 :> u1) @@ (c2 :> u1)
TwoOwners == (c1 :> u1) @@ (c2 :> u2)

\* One product, of two pieces or of one; two products of two shops.
OneProduct  == <<[shop |-> s1, quantity |-> 2]>>
LastPiece   == <<[shop |-> s1, quantity |-> 1]>>
TwoProducts == <<[shop |-> s1, quantity |-> 2], [shop |-> s2, quantity |-> 1]>>

\* The two buyers are alike.
AlikeBuyers ==
    {(u1 :> u2) @@ (u2 :> u1) @@ (c1 :> c2) @@ (c2 :> c1)
        @@ (r1 :> r2) @@ (r2 :> r1)}

============================================================================
