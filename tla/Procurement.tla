---------------------------- MODULE Procurement ----------------------------
(***************************************************************************)
(* Buyers and imports on one database: the cart and the confirmation of    *)
(* module Checkout beside the imports of module Import.  They share the    *)
(* tables and the locks of module Store; a job writes while no transaction *)
(* of a buyer holds SHARED, and what it deletes cascades into carts and    *)
(* orders.                                                                 *)
(***************************************************************************)
EXTENDS Checkout, Import

\* The tables agree when the run starts: each product info has its product
\* and its shop.
ASSUME ProcurementAssumption ==
    \A p \in InfoIds :
        /\ (Catalogue[p] # NoRow) = (p \in DOMAIN FirstProducts)
        /\ Catalogue[p] # NoRow => Catalogue[p].shop \in DOMAIN FirstShops

catalogue == <<shop, category, product, label, nextInfo, parameter,
               described, at, retries, my>>
all       == <<vars, catalogue>>

ShopInit == Init /\ ImportInit

Buyers    == Next /\ UNCHANGED catalogue
Importers == ImportNext /\ UNCHANGED <<outside, handlers>>

\* A job meets a buyer's transaction.
LockedOut(j) == ImportLocked(j) /\ UNCHANGED <<outside, handlers>>

ShopNext == Buyers \/ Importers \/ \E j \in Jobs : LockedOut(j)

ShopSpec == ShopInit /\ [][ShopNext]_all

----------------------------------------------------------------------------
(* Properties. *)

\* What the two components promise when they run side by side: locks, keys
\* and stale rows of the requests, and the foreign keys of the catalogue.
SideBySide == HandlersConsistent /\ CatalogueIntegrity

\* The stock of a product that exists before and after a step moves only
\* with an order: an import replaces products and never adjusts one, and a
\* confirmation neither brings a deleted product back nor sells one that
\* was replaced under it.
StockIsReplacedOrSold ==
    [][\A p \in InfoIds : info'[p] # info[p] =>
          \/ /\ info[p] = NoRow /\ p = nextInfo
             /\ \E j \in Jobs : at[j] = "create_info"
          \/ /\ info'[p] = NoRow
             /\ \E j \in Jobs : at[j] = "delete" /\ p \in my[j].ids
          \/ \E o \in OrderIds :
                /\ Placed(o)'
                /\ Stock'[p] + LinesOf(o)'[p] = Stock[p]]_all

\* The buyer can open the orders they placed and finds in them what they
\* ordered.
OrdersKeepTheirGoods ==
    [][\A o \in OrderIds : Placed(o) /\ Placed(o)' =>
          LinesOf(o)' = LinesOf(o)]_all

============================================================================
