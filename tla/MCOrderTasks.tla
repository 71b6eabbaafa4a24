---------------------------- MODULE MCOrderTasks ----------------------------
(***************************************************************************)
(* A small instance of OrderTasks: two orders that the API has placed, of   *)
(* one product, and three tasks.                                           *)
(***************************************************************************)
EXTENDS OrderTasks, TLC

CONSTANTS u1, s1, c1, c2, t1, t2, t3

BothOwned == (c1 :> u1) @@ (c2 :> u1)
Placing(c) == [user |-> u1, state |-> "new", contact |-> c]

\* An order of two pieces and one of one piece of a product.
TwoOrders == <<Placing(c1), Placing(c2)>>
TwoItems  == <<[order |-> 1, info |-> 1, quantity |-> 2],
               [order |-> 2, info |-> 1, quantity |-> 1]>>
InStock   == <<[shop |-> s1, quantity |-> 3]>>

============================================================================
