------------------------------- MODULE Browse -------------------------------
(***************************************************************************)
(* The public catalogue (products/views.py): the list of products with its *)
(* filters and the page of a product, beside imports, buyers and partners  *)
(* who change what they show.  Both come from the cache when it knows      *)
(* them.  A change is told to Redis after its commit, or never: an error   *)
(* of Redis is ignored, and a reader may store late what was read before   *)
(* the change.  What bounds the age of an answer is its lifetime.          *)
(***************************************************************************)
EXTENDS Naturals, FiniteSets

CONSTANTS
    Products,  \* products_product
    Shops,
    MaxInfos,  \* bound: product infos that are ever created
    Prices,
    MaxStock,  \* bound: pieces of one product info
    Filters,   \* the filters that are asked for
    Lasts,     \* "list", "detail" -> the lifetime of an answer, in ticks
    NoRow

\* Keys of products_productinfo: AUTOINCREMENT gives none out twice.
Infos == 1 .. MaxInfos

\* The query parameters of a list; NoRow: not given.
Filter == [shop : Shops \cup {NoRow}, min : Prices \cup {NoRow},
           max : Prices \cup {NoRow}]

ASSUME BrowseAssumption ==
    /\ Prices \subseteq Nat
    /\ MaxInfos \in Nat /\ MaxStock \in Nat
    /\ Filters \subseteq Filter
    /\ Lasts \in [{"list", "detail"} -> Nat \ {0}]
    /\ NoRow \notin Nat \cup Shops

VARIABLES
    offer,    \* products_productinfo
    nextInfo, \* its next key
    open,     \* shops_shop.state
    cache,    \* what was asked for -> what Redis would answer, or NoRow
    owed,     \* product infos that were changed, or whose shop was, and of
              \* which Redis is still to be told
    since     \* history: product info -> ticks since its last change of
              \* which Redis was not told

shelf == <<offer, nextInfo, open>>
browseVars == <<shelf, cache, owed, since>>

List(f) == [of |-> "list", filter |-> f]
Page(p) == [of |-> "detail", product |-> p]
Queries == {List(f) : f \in Filters} \cup {Page(p) : p \in Products}

Offer == [product : Products, shop : Shops, price : Prices,
          quantity : 0 .. MaxStock]

\* After so many ticks no answer is left that was given before.
Long == IF Lasts["list"] < Lasts["detail"] THEN Lasts["detail"]
        ELSE Lasts["list"]

\* p.product_infos: what a join of the product with its offers ranges over.
OffersOf(p) == {i \in Infos : offer[i] # NoRow /\ offer[i].product = p}
OffersIn(s) == {i \in Infos : offer[i] # NoRow /\ offer[i].shop = s}

BrowseInit ==
    /\ offer = [i \in Infos |-> NoRow] /\ nextInfo = 1
    /\ open = [s \in Shops |-> TRUE]
    /\ cache = [q \in Queries |-> NoRow]
    /\ owed = {}
    /\ since = [i \in Infos |-> Long]

----------------------------------------------------------------------------
(* What others change, and how the cache hears of it. *)

Change(infos) ==
    /\ owed' = owed \cup infos
    /\ since' = [i \in Infos |-> IF i \in infos THEN 0 ELSE since[i]]
    /\ UNCHANGED cache

\* An import creates its offers,
Create(row) ==
    /\ nextInfo \in Infos
    /\ offer' = [offer EXCEPT ![nextInfo] = row]
    /\ nextInfo' = nextInfo + 1
    /\ Change({nextInfo})
    /\ UNCHANGED open

\* and deletes those of the last one.
Delete(i) ==
    /\ offer[i] # NoRow
    /\ offer' = [offer EXCEPT ![i] = NoRow]
    /\ Change({i})
    /\ UNCHANGED <<nextInfo, open>>

\* A confirmation or the administrator saves what is left in stock.
Restock(i, quantity) ==
    /\ offer[i] # NoRow
    /\ offer' = [offer EXCEPT ![i].quantity = quantity]
    /\ Change({i})
    /\ UNCHANGED <<nextInfo, open>>

\* PartnerState.post.
Switch(s) ==
    /\ open' = [open EXCEPT ![s] = ~ @]
    /\ Change(OffersIn(s))
    /\ UNCHANGED <<offer, nextInfo>>

\* Redis is told.  It drops the answers that a change touches; that it drops
\* the others as well, here, is an abstraction: what it spares is bounded by
\* its lifetime.
Invalidation ==
    /\ owed # {}
    /\ owed' = {}
    /\ cache' = [q \in Queries |-> NoRow]
    /\ since' = [i \in Infos |-> IF i \in owed THEN Long ELSE since[i]]
    /\ UNCHANGED shelf

\* Redis cannot be reached, or a reader stores now what was read before the
\* change (no tick lies between its reading and its storing).
LoseInvalidation ==
    /\ owed # {}
    /\ owed' = {}
    /\ UNCHANGED <<shelf, cache, since>>

\* An answer is a tick older, or has reached its lifetime.
Older(q) ==
    IF cache[q] = NoRow \/ cache[q].age + 1 >= Lasts[q.of] THEN NoRow
    ELSE [cache[q] EXCEPT !.age = @ + 1]

\* Five minutes pass.
Tick ==
    /\ cache' = [q \in Queries |-> Older(q)]
    /\ since' = [i \in Infos |-> IF since[i] < Long THEN since[i] + 1 ELSE Long]
    /\ UNCHANGED <<shelf, owed>>

\* Mutated: every answer from the cache prolongs its lifetime.
ReplySliding(q, fromTables) ==
    /\ cache' = [cache EXCEPT ![q] =
                    [found |-> IF cache[q] # NoRow THEN cache[q].found
                               ELSE fromTables,
                     age |-> 0]]
    /\ UNCHANGED <<shelf, owed, since>>

\* A query is answered by Redis, or by the tables for both of them.
Reply(q, fromTables) ==
    /\ cache[q] = NoRow
    /\ cache' = [cache EXCEPT ![q] = [found |-> fromTables, age |-> 0]]
    /\ UNCHANGED <<shelf, owed, since>>

----------------------------------------------------------------------------
(* GET /products/. *)

\* Mutated: price__lt.
Cheaper(i, f) == f.max # NoRow => offer[i].price < f.max

\* One filter() of the chain each, and each joins product_infos anew.
FromShop(i, f) == f.shop # NoRow => offer[i].shop = f.shop
NotCheaper(i, f) == f.min # NoRow => offer[i].price >= f.min
NotDearer(i, f) == f.max # NoRow => offer[i].price <= f.max

\* get_queryset.  The join of a filter that is not given is not made, so that
\* a product nobody offers is listed as long as no filter is.
Listed(f) ==
    {p \in Products :
        /\ f.shop # NoRow => \E i \in OffersOf(p) : FromShop(i, f)
        /\ f.min # NoRow => \E i \in OffersOf(p) : NotCheaper(i, f)
        /\ f.max # NoRow => \E i \in OffersOf(p) : NotDearer(i, f)}

ProductList(f) == Reply(List(f), Listed(f))

----------------------------------------------------------------------------
(* GET /products/<id>/. *)

\* Mutated: what is sold out is shown.
OfOpenShops(p) == {i \in OffersOf(p) : open[offer[i].shop]}

\* The offers of shops that take orders, with something in stock.
Available(p) == {i \in OffersOf(p) : open[offer[i].shop] /\ offer[i].quantity > 0}

ProductDetail(p) == Reply(Page(p), Available(p))

----------------------------------------------------------------------------

BrowseNext ==
    \/ \E row \in Offer : Create(row)
    \/ \E i \in Infos : Delete(i) \/ \E n \in 0 .. MaxStock : Restock(i, n)
    \/ \E s \in Shops : Switch(s)
    \/ Invalidation \/ LoseInvalidation
    \/ Tick
    \/ \E f \in Filters : ProductList(f)
    \/ \E p \in Products : ProductDetail(p)

BrowseSpec == BrowseInit /\ [][BrowseNext]_browseVars

\* Time passes; nothing is assumed of readers and writers.
FairBrowseSpec == BrowseSpec /\ WF_browseVars(Tick)

----------------------------------------------------------------------------
(* Properties. *)

\* What a visitor is shown who asks now.
FromTables(q) == IF q.of = "list" THEN Listed(q.filter) ELSE Available(q.product)
Shown(q) == IF cache[q] # NoRow THEN cache[q].found ELSE FromTables(q)

\* Redis was told of the last change of i, or an answer to q that was given
\* before it is gone.
Heard(i, q) == since[i] >= Lasts[q.of]

\* Offer i is what the list was asked for, the bounds included.
Meets(i, f) ==
    /\ offer[i] # NoRow
    /\ f.shop # NoRow => offer[i].shop = f.shop
    /\ f.min # NoRow => f.min <= offer[i].price
    /\ f.max # NoRow => offer[i].price <= f.max

\* CartView.post accepts a piece of product info i.
CartAccepts(i) ==
    /\ offer[i] # NoRow
    /\ open[offer[i].shop]
    /\ 1 <= offer[i].quantity

\* Lost invalidations or not, a list misses no product with an offer that is
\* as it was asked for and has not changed for the lifetime of an answer.
ListComplete ==
    \A f \in Filters, i \in Infos :
        Meets(i, f) /\ Heard(i, List(f)) => offer[i].product \in Shown(List(f))

\* Of the offers that have not changed for the lifetime of an answer, the
\* page of a product shows those that can be put into a cart, and no other.
ShownIsSold ==
    \A p \in Products, i \in Infos :
        Heard(i, Page(p)) =>
            (i \in Shown(Page(p)) <=> CartAccepts(i) /\ offer[i].product = p)

\* Whatever Redis has missed, an answer that is out of date is not given for
\* ever, even if it is asked for again and again and changes go on.
StaleEnds ==
    \A q \in Queries : Shown(q) # FromTables(q) ~> Shown(q) = FromTables(q)

----------------------------------------------------------------------------
(* What the code says and does not keep. *)

\* The filters of a list are conditions on one offer: a product that is
\* listed for a shop and a range of prices is sold there at such a price.
ListedFits ==
    \A f \in Filters : f.shop # NoRow =>
        \A p \in Listed(f) : \E i \in OffersOf(p) : Meets(i, f)

============================================================================
