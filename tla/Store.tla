------------------------------- MODULE Store -------------------------------
(***************************************************************************)
(* The database under the procurement service: the tables that the cart,   *)
(* the checkout and the catalogue import share, the constraints SQLite     *)
(* enforces on them, and the locks of SQLite's rollback journal (the       *)
(* configured engine, config/settings.py).  A table is a function from     *)
(* primary keys to rows; NoRow is the value of a key that has no row.      *)
(* Primary keys are AUTOINCREMENT: a key is given out once and never again.*)
(***************************************************************************)
EXTENDS Naturals, FiniteSets

CONSTANTS
    Users,        \* users_user: the accounts that can sign in
    Shops,        \* shops_shop
    Contacts,     \* primary keys of orders_contact
    OwnerOf,      \* the user a contact belongs to
    Connections,  \* database connections, one per thread of the service
    MaxOrders,    \* the largest primary key of orders_order
    MaxItems,     \* the largest primary key of orders_orderitem
    MaxInfos,     \* the largest primary key of products_productinfo
    NoRow         \* no such row, SQL NULL

VARIABLES
    order,      \* orders_order
    nextOrder,  \* the next AUTOINCREMENT key of orders_order
    item,       \* orders_orderitem
    nextItem,   \* the next AUTOINCREMENT key of orders_orderitem
    info,       \* products_productinfo, the stock of the shops
    contact,    \* orders_contact: the life of every delivery address
    accepting,  \* shops_shop.state: does the shop take orders
    shared,     \* connections whose open transaction holds a SHARED lock
    reserved    \* the connection whose open transaction holds RESERVED

orders == <<order, nextOrder>>
items  == <<item, nextItem>>
goods  == <<info, accepting>>
tables == <<orders, items, goods, contact>>
locks  == <<shared, reserved>>

----------------------------------------------------------------------------
(* Rows. *)

OrderIds == 1 .. MaxOrders
ItemIds  == 1 .. MaxItems
InfoIds  == 1 .. MaxInfos

States == {"basket", "new", "confirmed", "assembled", "sent", "delivered",
           "canceled"}

OrderRow == [user : Users, state : States, contact : Contacts \cup {NoRow}]
ItemRow  == [order : OrderIds, info : InfoIds, quantity : Nat \ {0}]
InfoRow  == [shop : Shops, quantity : Nat]

ASSUME StoreAssumption ==
    /\ OwnerOf \in [Contacts -> Users]
    /\ MaxOrders \in Nat
    /\ MaxItems \in Nat
    /\ MaxInfos \in Nat
    /\ NoRow \notin Contacts \cup Nat \cup OrderRow \cup ItemRow \cup InfoRow

StoreTypeOK ==
    /\ order \in [OrderIds -> OrderRow \cup {NoRow}]
    /\ nextOrder \in 1 .. MaxOrders + 1
    /\ item \in [ItemIds -> ItemRow \cup {NoRow}]
    /\ nextItem \in 1 .. MaxItems + 1
    /\ info \in [InfoIds -> InfoRow \cup {NoRow}]
    /\ contact \in [Contacts -> {"unborn", "live", "deleted"}]
    /\ accepting \in [Shops -> BOOLEAN]
    /\ shared \subseteq Connections
    /\ reserved \subseteq shared

----------------------------------------------------------------------------
(* Queries. *)

\* Mutated: the query forgets a filter.
OrdersOf(u) == {o \in OrderIds : order[o] # NoRow /\ order[o].user = u}
BasketsOfAnyone(u) ==
    {o \in OrderIds : order[o] # NoRow /\ order[o].state = "basket"}
RowsOfAnyOrder(o) == {k \in ItemIds : item[k] # NoRow}

\* The orders that stand for the cart of user u.
Baskets(u) ==
    {o \in OrderIds : /\ order[o] # NoRow
                      /\ order[o].user = u
                      /\ order[o].state = "basket"}

\* The rows of order o, and those of them for product info p.
Rows(o)    == {k \in ItemIds : item[k] # NoRow /\ item[k].order = o}
Line(o, p) == {k \in Rows(o) : item[k].info = p}

\* How many pieces of p order o asks for.
Quantity(o, p) ==
    IF Line(o, p) = {} THEN 0 ELSE item[CHOOSE k \in Line(o, p) : TRUE].quantity

Placed(o) == order[o] # NoRow /\ order[o].state # "basket"

----------------------------------------------------------------------------
(* Constraints: the foreign keys of orders_orderitem and its               *)
(* unique_order_item.                                                      *)

ReferencesExist(o, p) == order[o] # NoRow /\ info[p] # NoRow

\* Mutated: unique_order_item is not declared.
MayInsertTwice(o, p) == ReferencesExist(o, p)

MayInsertItem(o, p) == ReferencesExist(o, p) /\ Line(o, p) = {}

----------------------------------------------------------------------------
(* Locks.  A transaction holds SHARED from its first SELECT to its end and *)
(* takes RESERVED at its first write; a commit, and a write outside any    *)
(* transaction, need that no other connection holds SHARED.                *)

CanWrite == shared = {}
CanUpgrade == reserved = {}
CanCommit(c) == shared \subseteq {c}

EndTransaction(c) ==
    /\ shared' = shared \ {c}
    /\ reserved' = reserved \ {c}

============================================================================
