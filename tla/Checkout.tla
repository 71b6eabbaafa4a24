------------------------------ MODULE Checkout ------------------------------
(***************************************************************************)
(* The buyer's side of the service: the cart (cart/views.py), the          *)
(* delivery addresses and the confirmation of an order (orders/views.py),  *)
(* with the partner's switch that opens and closes a shop.                 *)
(*                                                                         *)
(* A request runs on a thread with a connection of its own.  The handlers  *)
(* of the cart run in autocommit mode, so each of their statements is a    *)
(* step; the confirmation is one transaction: its reads share a snapshot   *)
(* (one step), its first write takes the RESERVED lock, its commit makes   *)
(* all its writes visible.  basketCache is cacheops' cache of the query    *)
(* "the orders of user u in state basket", which only the confirmation     *)
(* reads.                                                                  *)
(***************************************************************************)
EXTENDS Store, FiniteSetsExt

CONSTANTS
    Requests,     \* the connections that serve buyers, one request each
    Issuer,       \* the buyer that sends the requests of a connection
    Catalogue,    \* products_productinfo when the run starts
    MaxQuantity,  \* bound: the largest quantity of one row
    CacheFaults,  \* may an invalidation be lost, may Redis drop a key
    StaleCatalogue, \* may the cached catalogue be older than the tables
    MayCrash,     \* may a worker die
    Miss          \* the cache has no entry

Quantities == 1 .. MaxQuantity

ASSUME CheckoutAssumption ==
    /\ Requests \subseteq Connections /\ IsFiniteSet(Requests)
    /\ Issuer \in [Requests -> Users]
    /\ Catalogue \in [InfoIds -> InfoRow \cup {NoRow}]
    /\ MaxQuantity \in Nat
    /\ CacheFaults \in BOOLEAN
    /\ StaleCatalogue \in BOOLEAN
    /\ MayCrash \in BOOLEAN
    /\ \A found \in SUBSET OrderIds : Miss # found

VARIABLES
    basketCache,  \* user -> Miss, or the set of orders the cached query found
    mailed,       \* orders whose confirmation e-mail has been handed over
    pc,           \* request -> where its handler stands
    loc           \* request -> the local variables of its handler

outside  == <<basketCache, mailed>>
handlers == <<pc, loc>>
vars     == <<tables, locks, outside, handlers>>

NoPieces == [p \in InfoIds |-> 0]

\* The handler's locals: cart; product_info and quantity of the body;
\* cart_item (key); the orders a deletion collected; contact; cart_items
\* by product (lines) and the stock read with them (seen).
Blank == [op |-> "none", cart |-> NoRow, info |-> NoRow, quantity |-> 0,
          key |-> NoRow, orders |-> {}, contact |-> NoRow,
          lines |-> NoPieces, seen |-> NoPieces]

Local == [op : {"none", "add", "view", "change", "remove", "clear",
                "confirm", "forget"},
          cart : OrderIds \cup {NoRow}, info : InfoIds \cup {NoRow},
          quantity : Nat, key : ItemIds \cup {NoRow},
          orders : SUBSET OrderIds, contact : Contacts \cup {NoRow},
          lines : [InfoIds -> Nat], seen : [InfoIds -> Nat]]

InTransaction == {"confirm_write", "confirm_commit"}

Places == InTransaction \cup
          {"idle", "get_cart", "create_cart", "invalidate", "item",
           "insert_item", "save_item", "delete_item", "delete_contact"}

Init ==
    /\ order = [o \in OrderIds |-> NoRow] /\ nextOrder = 1
    /\ item = [k \in ItemIds |-> NoRow] /\ nextItem = 1
    /\ info = Catalogue
    /\ contact = [c \in Contacts |-> "unborn"]
    /\ accepting = [s \in Shops |-> TRUE]
    /\ shared = {} /\ reserved = {}
    /\ basketCache = [u \in Users |-> Miss]
    /\ mailed = {}
    /\ pc = [r \in Requests |-> "idle"]
    /\ loc = [r \in Requests |-> Blank]

----------------------------------------------------------------------------
(* Steps shared by the handlers. *)

\* The handler goes on at `place' with the locals l.
Goto(r, place, l) ==
    /\ pc' = [pc EXCEPT ![r] = place]
    /\ loc' = [loc EXCEPT ![r] = l]

\* The response, a success or an error, has been sent.
Finish(r) == Goto(r, "idle", Blank)

\* At a place of an autocommit handler that writes.
Writes(r, place) == pc[r] = place /\ CanWrite

\* Mutated: an empty cart does not count.
GetCartWithRows(r) ==
    LET found == {o \in Baskets(Issuer[r]) : Rows(o) # {}} IN
    /\ pc[r] = "get_cart"
    /\ \/ found = {} /\ Goto(r, "create_cart", loc[r])
       \/ \E o \in found : Goto(r, "item", [loc[r] EXCEPT !.cart = o])
    /\ UNCHANGED <<tables, locks, outside>>

\* get_cart: the uncached get of get_or_create.  Two baskets raise
\* MultipleObjectsReturned, which nothing catches.
GetCart(r) ==
    LET found == Baskets(Issuer[r]) IN
    /\ pc[r] = "get_cart"
    /\ \/ found = {} /\ Goto(r, "create_cart", loc[r])
       \/ \E o \in found : /\ found = {o}
                           /\ Goto(r, "item", [loc[r] EXCEPT !.cart = o])
       \/ \E o, p \in found : o # p /\ Finish(r)
    /\ UNCHANGED <<tables, locks, outside>>

\* get_cart: the create of get_or_create, which looks for no basket again.
\* When the keys of the bound are used up the request is dropped here.
CreateCart(r) ==
    /\ Writes(r, "create_cart")
    /\ \/ /\ nextOrder \in OrderIds
          /\ order' = [order EXCEPT ![nextOrder] =
                 [user |-> Issuer[r], state |-> "basket", contact |-> NoRow]]
          /\ nextOrder' = nextOrder + 1
          /\ Goto(r, "invalidate", [loc[r] EXCEPT !.cart = nextOrder])
       \/ /\ nextOrder \notin OrderIds
          /\ Finish(r)
          /\ UNCHANGED orders
    /\ UNCHANGED <<items, goods, contact, locks, outside>>

\* Where a saved basket leads: the confirmation answers, the cart goes on.
AfterInvalidation(r) ==
    IF loc[r].op = "confirm" THEN Finish(r) ELSE Goto(r, "item", loc[r])

\* The write of an order in state basket drops the cached query once its
\* transaction has committed.
Invalidate(r) ==
    /\ pc[r] = "invalidate"
    /\ basketCache' = [basketCache EXCEPT ![Issuer[r]] = Miss]
    /\ AfterInvalidation(r)
    /\ UNCHANGED <<tables, locks, mailed>>

\* Redis did not get the invalidation: cacheops degrades without an error.
LoseInvalidation(r) ==
    /\ CacheFaults
    /\ pc[r] = "invalidate"
    /\ AfterInvalidation(r)
    /\ UNCHANGED <<tables, locks, outside>>

----------------------------------------------------------------------------
(* The cart. *)

\* GET, PATCH and DELETE reach get_cart before they look at anything.
Arrive(r, op) ==
    /\ pc[r] = "idle"
    /\ Goto(r, "get_cart", [Blank EXCEPT !.op = op])
    /\ UNCHANGED <<tables, locks, outside>>

\* The shop of p takes orders and its stock covers q pieces: now, or in a
\* cached answer, which may be as old as the start.
Offered(p, q) ==
    \/ info[p] # NoRow /\ accepting[info[p].shop] /\ q <= info[p].quantity
    \/ StaleCatalogue /\ Catalogue[p] # NoRow /\ q <= Catalogue[p].quantity

\* POST checks the product first, against the pieces that are added, not
\* those already in the cart.
Add(r, p, q) ==
    /\ pc[r] = "idle"
    /\ Offered(p, q)
    /\ Goto(r, "get_cart",
            [Blank EXCEPT !.op = "add", !.info = p, !.quantity = q])
    /\ UNCHANGED <<tables, locks, outside>>

\* The handler is past get_cart and serves `op'.
Serves(r, op) == pc[r] = "item" /\ loc[r].op = op

ViewItems(r) ==
    /\ Serves(r, "view")
    /\ Finish(r)
    /\ UNCHANGED <<tables, locks, outside>>

\* POST goes on with cart_item, whose quantity it read: the sum it will
\* save.  A sum beyond the bound drops the request.
AddTo(r, k) ==
    LET sum == item[k].quantity + loc[r].quantity IN
    IF sum \in Quantities
    THEN Goto(r, "save_item", [loc[r] EXCEPT !.key = k, !.quantity = sum])
    ELSE Finish(r)

\* POST: the get of OrderItem.get_or_create.
GetItem(r) ==
    LET found == Line(loc[r].cart, loc[r].info) IN
    /\ Serves(r, "add")
    /\ \/ found = {} /\ Goto(r, "insert_item", loc[r])
       \/ \E k \in found : AddTo(r, k)
    /\ UNCHANGED <<tables, locks, outside>>

\* POST: the create of OrderItem.get_or_create.  If a row with the same
\* order and product came first, the INSERT fails and the winner's row is
\* read; if the order or the product is gone the request fails.
InsertItem(r) ==
    LET o == loc[r].cart
        p == loc[r].info
    IN
    /\ Writes(r, "insert_item")
    /\ \/ /\ MayInsertItem(o, p)
          /\ nextItem \in ItemIds
          /\ item' = [item EXCEPT ![nextItem] =
                 [order |-> o, info |-> p, quantity |-> loc[r].quantity]]
          /\ nextItem' = nextItem + 1
          /\ Finish(r)
       \/ /\ \E k \in Line(o, p) : AddTo(r, k)
          /\ UNCHANGED items
       \/ /\ ~ ReferencesExist(o, p) \/ nextItem \notin ItemIds
          /\ Line(o, p) = {}
          /\ Finish(r)
          /\ UNCHANGED items
    /\ UNCHANGED <<orders, goods, contact, locks, outside>>

\* PATCH: read the row and its stock, check the new quantity.  The other
\* outcomes are answers that change nothing.
ChangeItem(r) ==
    /\ Serves(r, "change")
    /\ \/ \E k \in Rows(loc[r].cart), q \in Quantities :
             /\ q <= info[item[k].info].quantity
             /\ Goto(r, "save_item",
                     [loc[r] EXCEPT !.key = k, !.info = item[k].info,
                                    !.quantity = q])
       \/ Finish(r)
    /\ UNCHANGED <<tables, locks, outside>>

\* save(): UPDATE every column of the row; when no row was hit, INSERT it
\* again under its old key.
SaveItem(r) ==
    LET k == loc[r].key IN
    /\ Writes(r, "save_item")
    /\ item' = IF item[k] # NoRow \/ MayInsertItem(loc[r].cart, loc[r].info)
               THEN [item EXCEPT ![k] = [order    |-> loc[r].cart,
                                         info     |-> loc[r].info,
                                         quantity |-> loc[r].quantity]]
               ELSE item
    /\ Finish(r)
    /\ UNCHANGED <<orders, nextItem, goods, contact, locks, outside>>

\* The item table without the rows in keys.
Without(keys) == [k \in ItemIds |-> IF k \in keys THEN NoRow ELSE item[k]]

\* DELETE with an id: read the row, if the cart has it ...
PickItem(r) ==
    /\ Serves(r, "remove")
    /\ \/ \E k \in Rows(loc[r].cart) :
             Goto(r, "delete_item",
                  [loc[r] EXCEPT !.key = k, !.info = item[k].info])
       \/ Finish(r)
    /\ UNCHANGED <<tables, locks, outside>>

\* ... and delete it by its key.
DeleteItem(r) ==
    /\ Writes(r, "delete_item")
    /\ item' = Without({loc[r].key})
    /\ Finish(r)
    /\ UNCHANGED <<orders, nextItem, goods, contact, locks, outside>>

\* Mutated: clearing the cart deletes the cart.
ClearItemsAndCart(r) ==
    /\ Serves(r, "clear")
    /\ CanWrite
    /\ item' = Without(Rows(loc[r].cart))
    /\ order' = [order EXCEPT ![loc[r].cart] = NoRow]
    /\ Finish(r)
    /\ UNCHANGED <<nextOrder, nextItem, goods, contact, locks, outside>>

\* DELETE without an id: no signal listens to rows of carts, so Django
\* deletes what belongs to the cart at that moment in one statement.
ClearItems(r) ==
    /\ Serves(r, "clear")
    /\ CanWrite
    /\ item' = Without(Rows(loc[r].cart))
    /\ Finish(r)
    /\ UNCHANGED <<orders, nextItem, goods, contact, locks, outside>>

----------------------------------------------------------------------------
(* The confirmation of an order. *)

\* Order.objects.get(user=user, state='basket') goes through the cache,
\* which keeps whatever the query returned.
BasketsSeen(u) == IF basketCache[u] = Miss THEN Baskets(u) ELSE basketCache[u]

\* Mutated: the stock is not checked.
HasRows(o) == Rows(o) # {}

\* The order has rows and the stock covers each of them.
Confirmable(o) ==
    /\ Rows(o) # {}
    /\ \A k \in Rows(o) : item[k].quantity <= info[item[k].info].quantity

\* The pieces order o asks for and the stock of every product.
LinesOf(o) == [p \in InfoIds |-> Quantity(o, p)]
Stock == [p \in InfoIds |-> IF info[p] = NoRow THEN 0 ELSE info[p].quantity]

\* Mutated: the view is not atomic.
NotAtomic(r) == UNCHANGED shared

\* The first SELECT of an atomic view opens its transaction.
Atomic(r) == shared' = shared \cup {r}

\* The reads of ConfirmOrderView.post: an address of the buyer, the cart,
\* its rows, the stock.
ConfirmRead(r, c, o) ==
    LET u == Issuer[r] IN
    /\ pc[r] = "idle"
    /\ contact[c] = "live" /\ OwnerOf[c] = u
    /\ BasketsSeen(u) = {o}
    /\ Confirmable(o)
    /\ basketCache' = [basketCache EXCEPT ![u] = {o}]
    /\ Atomic(r)
    /\ Goto(r, "confirm_write",
            [Blank EXCEPT !.op = "confirm", !.cart = o, !.contact = c,
                          !.lines = LinesOf(o), !.seen = Stock])
    /\ UNCHANGED <<tables, reserved, mailed>>

\* The same reads when the answer is an error: no cart, two carts, an
\* empty cart, too little stock.  What they leave is the cached query.
ConfirmReject(r, c) ==
    LET u == Issuer[r] IN
    /\ pc[r] = "idle"
    /\ contact[c] = "live" /\ OwnerOf[c] = u
    /\ \A o \in OrderIds : BasketsSeen(u) = {o} => ~ Confirmable(o)
    /\ basketCache' = [basketCache EXCEPT ![u] = BasketsSeen(u)]
    /\ UNCHANGED <<tables, locks, mailed, handlers>>

\* cart.save() and the writes of the stock stay inside the transaction; the
\* e-mail, which may fail without an error, is sent before the commit.
ConfirmWrite(r, sent) ==
    /\ pc[r] = "confirm_write"
    /\ CanUpgrade
    /\ reserved' = {r}
    /\ mailed' = IF sent THEN mailed \cup {loc[r].cart} ELSE mailed
    /\ Goto(r, "confirm_commit", loc[r])
    /\ UNCHANGED <<tables, shared, basketCache>>

\* Mutated: the pieces are deducted by the view and once more by a task.
DeductedTwice(l) ==
    [p \in InfoIds |-> IF l.lines[p] = 0 THEN info[p]
                       ELSE [info[p] EXCEPT !.quantity =
                                l.seen[p] - 2 * l.lines[p]]]

\* The stock the confirmation writes: what it read less what it sells.
Deducted(l) ==
    [p \in InfoIds |-> IF l.lines[p] = 0 THEN info[p]
                       ELSE [info[p] EXCEPT !.quantity = l.seen[p] - l.lines[p]]]

\* Mutated: queryset.update() instead of save() sends no signal.
UpdateInvalidates(o) == FALSE

\* cart.save() invalidates the cached query if the row was a basket.
SaveInvalidates(o) == order[o].state = "basket"

\* COMMIT.
ConfirmCommit(r) ==
    LET o == loc[r].cart IN
    /\ pc[r] = "confirm_commit"
    /\ CanCommit(r)
    /\ order' = [order EXCEPT ![o] = [user |-> Issuer[r], state |-> "new",
                                      contact |-> loc[r].contact]]
    /\ info' = Deducted(loc[r])
    /\ IF SaveInvalidates(o) THEN Goto(r, "invalidate", loc[r]) ELSE Finish(r)
    /\ EndTransaction(r)
    /\ UNCHANGED <<nextOrder, items, contact, accepting, outside>>

----------------------------------------------------------------------------
(* Delivery addresses and the partner's switch. *)

CreateContact(c) ==
    /\ contact[c] = "unborn"
    /\ CanWrite
    /\ contact' = [contact EXCEPT ![c] = "live"]
    /\ UNCHANGED <<orders, items, goods, locks, outside, handlers>>

\* DELETE of an address: on_delete=CASCADE collects the orders sent to it
\* ...
CollectContact(r, c) ==
    /\ pc[r] = "idle"
    /\ contact[c] = "live" /\ OwnerOf[c] = Issuer[r]
    /\ Goto(r, "delete_contact",
            [Blank EXCEPT !.op = "forget", !.contact = c,
                          !.orders = {o \in OrderIds : order[o] # NoRow
                                                   /\ order[o].contact = c}])
    /\ UNCHANGED <<tables, locks, outside>>

\* Mutated: the foreign key of an order to its address is not checked.
OrphansAllowed(l) == TRUE

\* No order that came after the collection refers to the address.
LeavesNoOrphan(l) ==
    \A o \in OrderIds \ l.orders : order[o] # NoRow =>
        order[o].contact # l.contact

\* ... and deletes them in one transaction, with the rows they have by
\* then, unless the foreign key of another order objects.
DeleteContact(r) ==
    LET l == loc[r] IN
    /\ Writes(r, "delete_contact")
    /\ IF LeavesNoOrphan(l)
       THEN /\ contact' = [contact EXCEPT ![l.contact] = "deleted"]
            /\ order' = [o \in OrderIds |->
                            IF o \in l.orders THEN NoRow ELSE order[o]]
            /\ item' = Without(UNION {Rows(o) : o \in l.orders})
       ELSE UNCHANGED <<contact, order, item>>
    /\ Finish(r)
    /\ UNCHANGED <<nextOrder, nextItem, goods, locks, outside>>

\* The values a client can send for "state", and Python's bool() of them.
RawStates == {"true", "false", "'true'", "'false'", "''"}
Truth(raw) == raw \notin {"false", "''"}

PartnerState(s, raw) ==
    /\ CanWrite
    /\ accepting' = [accepting EXCEPT ![s] = Truth(raw)]
    /\ UNCHANGED <<orders, items, info, contact, locks, outside, handlers>>

----------------------------------------------------------------------------
(* Failures. *)

\* The transaction is rolled back and the request is over.
Abort(r) ==
    /\ EndTransaction(r)
    /\ Finish(r)
    /\ UNCHANGED <<tables, outside>>

\* A statement of an autocommit handler that writes finds a reader or
\* another writer.
WaitsInVain(r) ==
    /\ \/ pc[r] \in {"create_cart", "insert_item", "save_item",
                     "delete_item", "delete_contact"}
       \/ Serves(r, "clear")
    /\ ~ CanWrite

\* Mutated: a transaction waits for its locks for ever.
LockedOutsideTransactions(r) == WaitsInVain(r) /\ Abort(r)

\* "database is locked": a reader that wants to write while another
\* connection is writing is refused at once; every other write waits for
\* the readers to leave, for 5 seconds at most.
Locked(r) ==
    /\ \/ pc[r] = "confirm_write" /\ ~ CanUpgrade
       \/ pc[r] = "confirm_commit" /\ ~ CanCommit(r)
       \/ WaitsInVain(r)
    /\ Abort(r)

\* The worker dies.  Between a commit and the invalidation that is a lost
\* invalidation.
Crash(r) ==
    /\ MayCrash
    /\ pc[r] # "idle"
    /\ pc[r] = "invalidate" => CacheFaults
    /\ Abort(r)

\* The entry's time is up (5 minutes).
CacheExpire(u) ==
    /\ basketCache[u] # Miss
    /\ basketCache' = [basketCache EXCEPT ![u] = Miss]
    /\ UNCHANGED <<tables, locks, mailed, handlers>>

----------------------------------------------------------------------------

\* A step of a handler under way.
Step(r) ==
    \/ GetCart(r) \/ CreateCart(r) \/ Invalidate(r) \/ LoseInvalidation(r)
    \/ ViewItems(r) \/ GetItem(r) \/ InsertItem(r) \/ ChangeItem(r)
    \/ SaveItem(r) \/ PickItem(r) \/ DeleteItem(r) \/ ClearItems(r)
    \/ \E sent \in BOOLEAN : ConfirmWrite(r, sent)
    \/ ConfirmCommit(r) \/ DeleteContact(r) \/ Locked(r)

\* A request arrives.
Request(r) ==
    \/ \E op \in {"view", "change", "remove", "clear"} : Arrive(r, op)
    \/ \E p \in InfoIds, q \in Quantities : Add(r, p, q)
    \/ \E c \in Contacts, o \in OrderIds : ConfirmRead(r, c, o)
    \/ \E c \in Contacts : ConfirmReject(r, c) \/ CollectContact(r, c)

Next ==
    \/ \E r \in Requests : Request(r) \/ Step(r) \/ Crash(r)
    \/ \E c \in Contacts : CreateContact(c)
    \/ \E s \in Shops, raw \in RawStates : PartnerState(s, raw)
    \/ \E u \in Users : CacheExpire(u)

Spec == Init /\ [][Next]_vars

\* A thread that has work to do runs: its statements return or time out.
Fairness == \A r \in Requests : WF_vars(Step(r))

FairSpec == Spec /\ Fairness

----------------------------------------------------------------------------
(* Properties. *)

\* Types.
CheckoutTypeOK ==
    /\ StoreTypeOK
    /\ basketCache \in [Users -> {Miss} \cup SUBSET OrderIds]
    /\ mailed \subseteq OrderIds
    /\ pc \in [Requests -> Places]
    /\ loc \in [Requests -> Local]

\* The locks belong to the transactions under way, one of which may write.
LocksHeld ==
    /\ shared = {r \in Requests : pc[r] \in InTransaction}
    /\ reserved = {r \in Requests : pc[r] = "confirm_commit"}
    /\ \A r, t \in reserved : r = t

\* A primary key is given out once.
KeysFresh ==
    /\ \A o \in OrderIds : order[o] # NoRow => o < nextOrder
    /\ \A k \in ItemIds : item[k] # NoRow => k < nextItem

\* The handler holds a row of a cart that it read and will write.
HasRow(r) == pc[r] \in {"save_item", "delete_item"}

\* The locals a handler needs at its place are set.
LocalsSet(r) ==
    LET l == loc[r] IN
    /\ pc[r] \notin {"idle", "get_cart", "create_cart", "delete_contact"} =>
          l.cart \in OrderIds
    /\ l.op = "add" => l.info \in InfoIds /\ l.quantity \in Quantities
    /\ pc[r] = "insert_item" => l.op = "add"
    /\ pc[r] = "save_item" => l.quantity \in Quantities
    /\ HasRow(r) =>
          l.info \in InfoIds /\ l.key \in ItemIds /\ l.key < nextItem
    /\ pc[r] \in InTransaction \cup {"delete_contact"} => l.contact \in Contacts

LocalsFit == \A r \in Requests : LocalsSet(r)

\* The row a stale save or deletion will write is gone, or still of the
\* order and the product it was read with; the holders of one row agree on
\* them.
StaleRowsFit ==
    \A r \in Requests : HasRow(r) => LET l == loc[r] IN
        /\ item[l.key] # NoRow =>
              item[l.key].order = l.cart /\ item[l.key].info = l.info
        /\ \A t \in Requests : HasRow(t) /\ loc[t].key = l.key =>
              loc[t].cart = l.cart /\ loc[t].info = l.info

\* What the handlers hold, locks and stale rows, fits the database although
\* other requests wrote to it meanwhile.
HandlersConsistent == LocksHeld /\ KeysFresh /\ LocalsFit /\ StaleRowsFit

\* What request r has read for its confirmation is true now.
Current(r) ==
    LET l == loc[r] IN
    /\ order[l.cart] # NoRow
    /\ l.lines = LinesOf(l.cart)
    /\ l.seen = Stock
    /\ \A p \in InfoIds : l.lines[p] <= l.seen[p]
    /\ contact[l.contact] = "live" /\ OwnerOf[l.contact] = Issuer[r]

\* What a confirmation has read stays true until it commits: no other
\* request changes the rows it sells, the stock it deducts them from, or
\* the address, and the stock suffices.
SnapshotCurrent ==
    \A r \in Requests : pc[r] \in InTransaction => Current(r)

\* The foreign keys and unique_order_item hold through cascades, stale
\* saves and re-inserted rows, and a placed order has an address that
\* exists and is its buyer's.
Integrity ==
    /\ \A k \in ItemIds : item[k] # NoRow =>
          /\ ReferencesExist(item[k].order, item[k].info)
          /\ Line(item[k].order, item[k].info) = {k}
    /\ \A o \in OrderIds : order[o] # NoRow =>
          /\ Placed(o) => order[o].contact # NoRow
          /\ order[o].contact # NoRow =>
                /\ contact[order[o].contact] = "live"
                /\ OwnerOf[order[o].contact] = order[o].user

\* Order o is, or was, an order of buyer u.
BelongsTo(o, u) == o < nextOrder /\ (order[o] # NoRow => order[o].user = u)

\* Buyers stay apart: what the cache answers to a buyer, what their
\* confirmation sells and what their deletion of an address collects are
\* their own orders.
Ownership ==
    /\ \A u \in Users : basketCache[u] # Miss =>
          \A o \in basketCache[u] : BelongsTo(o, u)
    /\ \A r \in Requests :
          /\ pc[r] \in InTransaction => BelongsTo(loc[r].cart, Issuer[r])
          /\ \A o \in loc[r].orders : BelongsTo(o, Issuer[r])

\* The stock of the shops moves only when an order is placed, by exactly
\* the pieces that order holds at that moment.
StockMovesWithAnOrder ==
    [][info' # info =>
         \E o \in OrderIds :
            /\ Placed(o)'
            /\ \A p \in InfoIds :
                  Stock'[p] + LinesOf(o)'[p] = Stock[p]]_vars

\* A placed order is never a cart again, never changes its buyer, and
\* disappears only when a request of its buyer deletes an address.
PlacedIsFinal ==
    [][\A o \in OrderIds : Placed(o) =>
          \/ Placed(o)' /\ order'[o].user = order[o].user
          \/ \E r \in Requests : /\ Issuer[r] = order[o].user
                                 /\ pc[r] = "delete_contact" /\ pc'[r] = "idle"
                                 /\ o \in loc[r].orders]_vars

\* Handler r works on order o as on the cart of its buyer.
Holds(r, o) ==
    /\ \/ pc[r] \in {"item", "insert_item", "save_item", "delete_item"}
       \/ pc[r] = "invalidate" /\ loc[r].op # "confirm"
    /\ loc[r].cart = o

\* An order that is placed while no request of the cart holds it is left
\* alone from then on, by tabs that stand still for any time included: its
\* rows never change and no request takes it for a cart.
FrozenOnceReleased ==
    [][\A o \in OrderIds :
          Placed(o) /\ Placed(o)' /\ (\A r \in Requests : ~ Holds(r, o)) =>
             LinesOf(o)' = LinesOf(o) /\ (\A r \in Requests : ~ Holds(r, o)')]_vars

\* get_or_create looks and inserts in two statements: a buyer has as many
\* carts as requests under way at most, those about to be made included.
CartsBounded ==
    \A u \in Users :
        LET own == {r \in Requests : Issuer[r] = u}
        IN  Cardinality(Baskets(u))
                + Cardinality({r \in own : pc[r] = "create_cart"})
            <= Cardinality(own)

\* What the cache answers for the cart of u is what the database says, or
\* an invalidation is still to come.
Covered(u) ==
    \/ basketCache[u] \in {Miss, Baskets(u)}
    \/ \E r \in Requests : Issuer[r] = u /\ pc[r] = "invalidate"

\* The cached cart goes stale only with an invalidation that Redis or the
\* worker has lost: no order of reads, fills, commits and expiries beside
\* each other leaves an old answer behind.
StaleOnlyByLoss ==
    [][\A u \in Users : Covered(u) /\ ~ Covered(u)' =>
          \E r \in Requests :
             /\ Issuer[r] = u
             /\ pc[r] = "invalidate" /\ pc'[r] # "invalidate"
             /\ basketCache'[u] = basketCache[u]]_vars

\* Every request is answered: no two handlers wait for each other's locks.
Answered == \A r \in Requests : pc[r] # "idle" ~> pc[r] = "idle"

----------------------------------------------------------------------------
(* Properties of buyers that send one request at a time. *)

\* get_cart finds or creates "the" cart: a buyer never has two.
SingleBasket == \A u \in Users : \A o, p \in Baskets(u) : o = p

\* What a buyer ordered stays what was ordered: the handlers of the cart
\* change carts only.
PlacedFrozen ==
    [][\A o \in OrderIds : Placed(o) /\ Placed(o)' =>
          LinesOf(o)' = LinesOf(o)]_vars

\* Pieces leave the stock only for a cart that becomes an order in the same
\* step: nothing is sold twice.
SoldOnce ==
    [][info' # info => \E o \in OrderIds : ~ Placed(o) /\ Placed(o)']_vars

\* The cached query says what the database says, except between the commit
\* of a basket and its invalidation.
CacheCoherent == \A u \in Users : Covered(u)

\* The pieces of p that each placed order holds, and all of them together.
Held(p) == [o \in OrderIds |-> IF Placed(o) THEN Quantity(o, p) ELSE 0]
Ordered(p) == SumFunction(Held(p))

\* The stock and the placed orders add up to the stock of the start; an
\* order that vanished with its address gives nothing back.
Conservation ==
    \A p \in InfoIds : Catalogue[p] # NoRow =>
        /\ Stock[p] + Ordered(p) <= Catalogue[p].quantity
        /\ (\A c \in Contacts : contact[c] # "deleted") =>
              Stock[p] + Ordered(p) = Catalogue[p].quantity

----------------------------------------------------------------------------
(* What the documents and texts of the service say and the code does not   *)
(* keep (besides the properties above when one buyer sends two requests at *)
(* a time).                                                                *)

\* "Ваш заказ успешно оформлен": an order whose confirmation was mailed is
\* placed, or about to be.
MailedIsPlaced ==
    \A o \in mailed : order[o] # NoRow /\ order[o].state = "basket" =>
        \E r \in Requests : pc[r] = "confirm_commit" /\ loc[r].cart = o

\* A partner switches off the taking of orders: no order is placed that
\* has goods of a shop that is closed.
ClosedShopSellsNothing ==
    [][\A o \in OrderIds : ~ Placed(o) /\ Placed(o)' =>
          \A k \in Rows(o) : accepting[info[item[k].info].shop]]_vars

\* The buyer can open the orders they placed: a placed order stays.
PlacedStays == [][\A o \in OrderIds : Placed(o) => Placed(o)']_vars

============================================================================
