--------------------------- MODULE MCProcurement ---------------------------
(***************************************************************************)
(* Small instances of Procurement: a buyer, a shop with one product, and   *)
(* one or two imports that replace it.                                     *)
(***************************************************************************)
EXTENDS Procurement, TLC

CONSTANTS u1, c1, r1

OneTab    == (r1 :> u1)
OneOwner  == (c1 :> u1)
InStock   == <<[shop |-> 1, quantity |-> 2], NoRow, NoRow>>
Phone     == [name |-> "phone", category |-> 1]
OnSale    == <<Phone>>
OneShop   == <<[name |-> "A", user |-> NoRow]>>
Good      == [category |-> 1, name |-> "phone", external |-> 1,
              quantity |-> 1, parameter |-> "colour"]
Listing(gs) == [shop |-> "A", categories |-> {1}, goods |-> gs]
PriceList == <<Listing(<<Good>>)>>
\* The second list names its good twice.
TwoLists  == <<Listing(<<Good>>), Listing(<<Good, Good>>)>>
ByFile    == [j \in Jobs |-> "file"]
ForFirst  == [j \in Jobs |-> 1]

============================================================================
