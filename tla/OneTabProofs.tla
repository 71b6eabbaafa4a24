---------------------------- MODULE OneTabProofs ----------------------------
(***************************************************************************)
(* Theorems about buyers that send one request at a time.  Such a buyer's  *)
(* orders, and the rows of them, are written by the one request under way, *)
(* whatever the requests of other buyers do meanwhile: what it has read    *)
(* about them is true until it writes.  Cart and cached query need no lock *)
(* then.  At the end, the closed ledger, and the sum of stock and orders.  *)
(***************************************************************************)
EXTENDS TabsProofs

\* Each buyer has one request under way at most.
OneRequestEach == \A r, t \in Requests : Issuer[r] = Issuer[t] => r = t

----------------------------------------------------------------------------
(* What a request knows of its buyer's orders. *)

\* The handler holds the cart and will write to it.
AtCart(r) ==
    \/ pc[r] \in {"item", "insert_item", "save_item", "delete_item"}
    \/ pc[r] = "invalidate" /\ loc[r].op # "confirm"

\* What request r has read is true.
Knows(r) ==
    LET l == loc[r] IN
    /\ pc[r] = "create_cart" => Baskets(Issuer[r]) = {}
    /\ AtCart(r) => l.cart \in Baskets(Issuer[r])
    /\ pc[r] \in InTransaction => l.op = "confirm"
    /\ HasRow(r) => item[l.key] # NoRow /\ item[l.key].order = l.cart
    /\ pc[r] = "delete_contact" =>
          \A o \in l.orders : Placed(o) /\ order[o].user = Issuer[r]

TabInv ==
    /\ IInv
    /\ Ownership
    /\ SingleBasket
    /\ CartsUnaddressed
    /\ \A r \in Requests : Knows(r)

\* With a cache that loses nothing a confirmation sells a cart, too.
CacheInv ==
    /\ TabInv
    /\ CacheCoherent
    /\ \A r \in Requests : pc[r] \in InTransaction =>
          loc[r].cart \in Baskets(Issuer[r])

TabFacts == SingleBasket /\ CartsUnaddressed /\ \A r \in Requests : Knows(r)

----------------------------------------------------------------------------
(* What one request does leaves true what the others know. *)

\* A step that writes orders of buyer u and rows of them at most.
OnlyOf(u) ==
    /\ \A o \in OrderIds :
          \/ order'[o] = order[o]
          \/ /\ order[o] # NoRow => order[o].user = u
             /\ order'[o] # NoRow => order'[o].user = u
    /\ \A k \in ItemIds :
          \/ item'[k] = item[k] \/ item[k] = NoRow
          \/ order[item[k].order].user = u

\* The carts of the other buyers stay.
LEMMA OtherBaskets ==
    ASSUME NEW u, OnlyOf(u), NEW v, v # u
    PROVE  Baskets(v)' = Baskets(v)
  BY DEF OnlyOf, Baskets

\* What the request of another buyer knows stays true.
LEMMA OthersKnow ==
    ASSUME TabInv, NEW r \in Requests, NEW t \in Requests,
           Issuer[t] # Issuer[r], OnlyOf(Issuer[r]),
           UNCHANGED <<pc[t], loc[t]>>
    PROVE  Knows(t)'
  <1>1. /\ pc'[t] = pc[t] /\ loc'[t] = loc[t] /\ loc[t] \in Local
        /\ Baskets(Issuer[t])' = Baskets(Issuer[t])
        /\ Knows(t) /\ LocalsSet(t)
    BY OtherBaskets
    DEF TabInv, IInv, CheckoutTypeOK, HandlersConsistent, LocalsFit
  <1>2. /\ pc'[t] = "create_cart" => Baskets(Issuer[t])' = {}
        /\ AtCart(t)' => loc'[t].cart \in Baskets(Issuer[t])'
        /\ AtCart(t) => loc[t].cart \in Baskets(Issuer[t])
        /\ pc'[t] \in InTransaction => loc'[t].op = "confirm"
    BY <1>1 DEF Knows, AtCart
  <1>3. ASSUME NEW k \in ItemIds, item[k] # NoRow,
               order[item[k].order].user = Issuer[t]
        PROVE  item'[k] = item[k]
    BY <1>3 DEF OnlyOf
  <1>4. ASSUME HasRow(t)
        PROVE  item'[loc[t].key] # NoRow /\ item'[loc[t].key].order = loc[t].cart
    <2>1. /\ loc[t].key \in ItemIds /\ item[loc[t].key] # NoRow
          /\ item[loc[t].key].order = loc[t].cart
      BY <1>1, <1>4 DEF Knows, LocalsSet
    <2>2. order[loc[t].cart].user = Issuer[t]
      BY <1>2, <1>4 DEF AtCart, HasRow, Baskets
    <2> QED
      BY <1>3, <2>1, <2>2
  <1>5. ASSUME pc[t] = "delete_contact"
        PROVE  \A o \in loc[t].orders : Placed(o)' /\ order'[o].user = Issuer[t]
    <2>1. /\ \A o \in loc[t].orders : Placed(o) /\ order[o].user = Issuer[t]
          /\ loc[t].orders \subseteq OrderIds
      BY <1>1, <1>5 DEF Knows, Local
    <2>2. \A o \in loc[t].orders : order'[o] = order[o]
      BY <2>1 DEF OnlyOf, Placed
    <2> QED
      BY <2>1, <2>2 DEF Placed
  <1>6. HasRow(t)' => HasRow(t)
    BY <1>1 DEF HasRow
  <1> QED
    BY <1>1, <1>2, <1>4, <1>5, <1>6 DEF Knows

\* A step of request r.
LEMMA StepOfOne ==
    ASSUME TabInv, OneRequestEach, NEW r \in Requests,
           pc' = [pc EXCEPT ![r] = pc'[r]], loc' = [loc EXCEPT ![r] = loc'[r]],
           OnlyOf(Issuer[r]), Knows(r)',
           \A o, p \in Baskets(Issuer[r])' : o = p, CartsUnaddressed'
    PROVE  TabFacts'
  <1>1. ASSUME NEW t \in Requests, t # r PROVE Knows(t)'
    <2>1. Issuer[t] # Issuer[r] /\ UNCHANGED <<pc[t], loc[t]>>
      BY <1>1 DEF OneRequestEach, TabInv, IInv, CheckoutTypeOK
    <2> QED
      BY <2>1, OthersKnow
  <1>2. ASSUME NEW u \in Users, u # Issuer[r] PROVE Baskets(u)' = Baskets(u)
    BY <1>2, OtherBaskets
  <1>3. SingleBasket'
    BY <1>2 DEF TabInv, SingleBasket
  <1> QED
    BY <1>1, <1>3 DEF TabFacts

\* A step of request r that does not write to the orders and their rows.
LEMMA QuietStep ==
    ASSUME TabInv, OneRequestEach, NEW r \in Requests,
           pc' = [pc EXCEPT ![r] = pc'[r]], loc' = [loc EXCEPT ![r] = loc'[r]],
           UNCHANGED <<order, item>>, Knows(r)'
    PROVE  TabFacts'
  <1>1. OnlyOf(Issuer[r]) /\ Baskets(Issuer[r])' = Baskets(Issuer[r])
    BY DEF OnlyOf, Baskets
  <1>2. CartsUnaddressed' /\ Issuer[r] \in Users
    BY CheckoutAssumption DEF CartsUnaddressed, Basket, TabInv
  <1>3. \A o, p \in Baskets(Issuer[r]) : o = p
    BY <1>2 DEF TabInv, SingleBasket
  <1> QED
    BY <1>1, <1>2, <1>3, StepOfOne

\* A request that is over, or has not looked at anything yet.
LEMMA RestStep ==
    ASSUME TabInv, OneRequestEach, NEW r \in Requests, NEW l,
           NEW place \in {"idle", "get_cart"}, Goto(r, place, l),
           UNCHANGED <<order, item>>
    PROVE  TabFacts'
  <1>1. /\ pc'[r] = place
        /\ pc' = [pc EXCEPT ![r] = pc'[r]] /\ loc' = [loc EXCEPT ![r] = loc'[r]]
    BY GotoSets DEF TabInv, IInv
  <1>2. Knows(r)'
    BY <1>1 DEF Knows, AtCart, HasRow, InTransaction
  <1> QED
    BY <1>1, <1>2, QuietStep

LEMMA EndStep ==
    ASSUME TabInv, OneRequestEach, NEW r \in Requests, Finish(r),
           UNCHANGED <<order, item>>
    PROVE  TabFacts'
  BY RestStep DEF Finish

----------------------------------------------------------------------------
(* The steps that read. *)

\* get_cart finds the cart of the buyer, or that there is none.
LEMMA GetCartKnows ==
    ASSUME TabInv, OneRequestEach, NEW r \in Requests, GetCart(r)
    PROVE  TabFacts'
  <1>0. /\ CheckoutTypeOK /\ loc[r] \in Local
        /\ UNCHANGED <<order, item>> /\ Baskets(Issuer[r])' = Baskets(Issuer[r])
    BY DEF GetCart, TabInv, IInv, CheckoutTypeOK, tables, orders, items, Baskets
  <1>1. CASE Baskets(Issuer[r]) = {} /\ Goto(r, "create_cart", loc[r])
    <2>1. /\ pc'[r] = "create_cart" /\ pc' = [pc EXCEPT ![r] = pc'[r]]
          /\ loc' = [loc EXCEPT ![r] = loc'[r]]
      BY <1>0, <1>1, GotoSets
    <2>2. Knows(r)'
      BY <1>0, <1>1, <2>1 DEF Knows, AtCart, HasRow, InTransaction
    <2> QED
      BY <1>0, <2>1, <2>2, QuietStep
  <1>2. ASSUME NEW o \in Baskets(Issuer[r]),
               Goto(r, "item", [loc[r] EXCEPT !.cart = o])
        PROVE  TabFacts'
    <2> DEFINE l == [loc[r] EXCEPT !.cart = o]
    <2>1. l.cart = o
      BY <1>0 DEF Local
    <2>2. /\ pc'[r] = "item" /\ pc' = [pc EXCEPT ![r] = pc'[r]]
          /\ loc'[r] = l /\ loc' = [loc EXCEPT ![r] = loc'[r]]
      BY <1>0, <1>2, GotoSets
    <2> HIDE DEF l
    <2>3. Knows(r)'
      BY <1>0, <2>1, <2>2 DEF Knows, AtCart, HasRow, InTransaction
    <2> QED
      BY <1>0, <2>2, <2>3, QuietStep
  <1>3. CASE Finish(r)
    BY <1>0, <1>3, EndStep
  <1> QED
    BY <1>1, <1>2, <1>3 DEF GetCart

\* The invalidation, done or lost, leads the cart on.
LEMMA InvalidationKnows ==
    ASSUME TabInv, OneRequestEach, NEW r \in Requests,
           Invalidate(r) \/ LoseInvalidation(r)
    PROVE  TabFacts'
  <1>0. /\ CheckoutTypeOK /\ pc[r] = "invalidate" /\ Knows(r)
        /\ UNCHANGED <<order, item>> /\ Baskets(Issuer[r])' = Baskets(Issuer[r])
        /\ AfterInvalidation(r)
    BY DEF Invalidate, LoseInvalidation, TabInv, IInv, tables, orders, items,
           Baskets
  <1>1. CASE loc[r].op = "confirm"
    BY <1>0, <1>1, EndStep DEF AfterInvalidation
  <1>2. CASE loc[r].op # "confirm"
    <2>1. Goto(r, "item", loc[r]) /\ loc[r].cart \in Baskets(Issuer[r])
      BY <1>0, <1>2 DEF AfterInvalidation, Knows, AtCart
    <2>2. /\ pc'[r] = "item" /\ pc' = [pc EXCEPT ![r] = pc'[r]]
          /\ loc'[r] = loc[r] /\ loc' = [loc EXCEPT ![r] = loc'[r]]
      BY <1>0, <2>1, GotoSets
    <2>3. Knows(r)'
      BY <1>0, <2>1, <2>2 DEF Knows, AtCart, HasRow, InTransaction
    <2> QED
      BY <1>0, <2>2, <2>3, QuietStep
  <1> QED
    BY <1>1, <1>2

\* POST on a row of the cart reads the row it will save.
LEMMA AddToKnows ==
    ASSUME TabInv, OneRequestEach, NEW r \in Requests,
           loc[r].cart \in Baskets(Issuer[r]), UNCHANGED <<order, item>>,
           NEW k \in Line(loc[r].cart, loc[r].info), AddTo(r, k)
    PROVE  TabFacts'
  <1> DEFINE sum == item[k].quantity + loc[r].quantity
             l == [loc[r] EXCEPT !.key = k, !.quantity = sum]
  <1>0. /\ CheckoutTypeOK /\ loc[r] \in Local
        /\ item[k] # NoRow /\ item[k].order = loc[r].cart
        /\ Baskets(Issuer[r])' = Baskets(Issuer[r])
    BY DEF TabInv, IInv, CheckoutTypeOK, Line, Rows, Baskets
  <1>1. CASE Goto(r, "save_item", l)
    <2>1. l.key = k /\ l.cart = loc[r].cart
      BY <1>0 DEF Local
    <2>2. /\ pc'[r] = "save_item" /\ pc' = [pc EXCEPT ![r] = pc'[r]]
          /\ loc'[r] = l /\ loc' = [loc EXCEPT ![r] = loc'[r]]
      BY <1>0, <1>1, GotoSets
    <2> HIDE DEF l
    <2>3. Knows(r)'
      BY <1>0, <2>1, <2>2 DEF Knows, AtCart, HasRow, InTransaction
    <2> QED
      BY <2>2, <2>3, QuietStep
  <1>2. CASE Finish(r)
    BY <1>2, EndStep
  <1> QED
    BY <1>1, <1>2 DEF AddTo

\* The other reads of the cart.
LEMMA ItemReadsKnow ==
    ASSUME TabInv, OneRequestEach, NEW r \in Requests,
           ViewItems(r) \/ GetItem(r) \/ ChangeItem(r) \/ PickItem(r)
    PROVE  TabFacts'
  <1>0. /\ CheckoutTypeOK /\ loc[r] \in Local /\ pc[r] = "item"
        /\ UNCHANGED <<order, item>> /\ Baskets(Issuer[r])' = Baskets(Issuer[r])
        /\ loc[r].cart \in Baskets(Issuer[r])
    <2>1. pc[r] = "item" /\ UNCHANGED <<order, item>>
      BY DEF ViewItems, GetItem, ChangeItem, PickItem, Serves, tables, orders,
             items
    <2>2. CheckoutTypeOK /\ loc[r] \in Local /\ Knows(r)
      BY DEF TabInv, IInv, CheckoutTypeOK
    <2> QED
      BY <2>1, <2>2 DEF Knows, AtCart, Baskets
  <1>1. CASE Finish(r)
    BY <1>0, <1>1, EndStep
  <1>2. CASE \E k \in Line(loc[r].cart, loc[r].info) : AddTo(r, k)
    BY <1>0, <1>2, AddToKnows
  <1>3. CASE Goto(r, "insert_item", loc[r])
    <2>1. /\ pc'[r] = "insert_item" /\ pc' = [pc EXCEPT ![r] = pc'[r]]
          /\ loc'[r] = loc[r] /\ loc' = [loc EXCEPT ![r] = loc'[r]]
      BY <1>0, <1>3, GotoSets
    <2>2. Knows(r)'
      BY <1>0, <2>1 DEF Knows, AtCart, HasRow, InTransaction
    <2> QED
      BY <1>0, <2>1, <2>2, QuietStep
  <1>4. ASSUME NEW k \in Rows(loc[r].cart), NEW q,
               Goto(r, "save_item",
                    [loc[r] EXCEPT !.key = k, !.info = item[k].info,
                                   !.quantity = q])
        PROVE  TabFacts'
    <2> DEFINE l == [loc[r] EXCEPT !.key = k, !.info = item[k].info,
                                   !.quantity = q]
    <2>1. /\ l.key = k /\ l.cart = loc[r].cart
          /\ item[k] # NoRow /\ item[k].order = loc[r].cart
      BY <1>0 DEF Local, Rows
    <2>2. /\ pc'[r] = "save_item" /\ pc' = [pc EXCEPT ![r] = pc'[r]]
          /\ loc'[r] = l /\ loc' = [loc EXCEPT ![r] = loc'[r]]
      BY <1>0, <1>4, GotoSets
    <2> HIDE DEF l
    <2>3. Knows(r)'
      BY <1>0, <2>1, <2>2 DEF Knows, AtCart, HasRow, InTransaction
    <2> QED
      BY <1>0, <2>2, <2>3, QuietStep
  <1>5. ASSUME NEW k \in Rows(loc[r].cart),
               Goto(r, "delete_item",
                    [loc[r] EXCEPT !.key = k, !.info = item[k].info])
        PROVE  TabFacts'
    <2> DEFINE l == [loc[r] EXCEPT !.key = k, !.info = item[k].info]
    <2>1. /\ l.key = k /\ l.cart = loc[r].cart
          /\ item[k] # NoRow /\ item[k].order = loc[r].cart
      BY <1>0 DEF Local, Rows
    <2>2. /\ pc'[r] = "delete_item" /\ pc' = [pc EXCEPT ![r] = pc'[r]]
          /\ loc'[r] = l /\ loc' = [loc EXCEPT ![r] = loc'[r]]
      BY <1>0, <1>5, GotoSets
    <2> HIDE DEF l
    <2>3. Knows(r)'
      BY <1>0, <2>1, <2>2 DEF Knows, AtCart, HasRow, InTransaction
    <2> QED
      BY <1>0, <2>2, <2>3, QuietStep
  <1>6. CASE ViewItems(r)
    BY <1>1, <1>6 DEF ViewItems
  <1>7. CASE GetItem(r)
    BY <1>2, <1>3, <1>7 DEF GetItem
  <1>8. CASE ChangeItem(r)
    BY <1>1, <1>4, <1>8 DEF ChangeItem
  <1>9. CASE PickItem(r)
    BY <1>1, <1>5, <1>9 DEF PickItem
  <1> QED
    BY <1>6, <1>7, <1>8, <1>9

\* The steps of a confirmation before its commit.
LEMMA ConfirmKnows ==
    ASSUME TabInv, OneRequestEach, NEW r \in Requests,
           \/ \E c \in Contacts, o \in OrderIds : ConfirmRead(r, c, o)
           \/ \E sent \in BOOLEAN : ConfirmWrite(r, sent)
    PROVE  TabFacts'
  <1>0. /\ CheckoutTypeOK /\ Knows(r) /\ UNCHANGED <<order, item>>
    BY DEF ConfirmRead, ConfirmWrite, TabInv, IInv, tables, orders, items
  <1>1. ASSUME NEW place \in InTransaction, NEW l, Goto(r, place, l),
               l.op = "confirm"
        PROVE  TabFacts'
    <2>1. /\ pc'[r] = place /\ pc' = [pc EXCEPT ![r] = pc'[r]]
          /\ loc'[r] = l /\ loc' = [loc EXCEPT ![r] = loc'[r]]
      BY <1>0, <1>1, GotoSets
    <2>2. Knows(r)'
      BY <1>0, <1>1, <2>1 DEF Knows, AtCart, HasRow, InTransaction
    <2> QED
      BY <1>0, <2>1, <2>2, QuietStep
  <1>2. ASSUME NEW c \in Contacts, NEW o \in OrderIds, ConfirmRead(r, c, o)
        PROVE  TabFacts'
    <2> DEFINE l == [Blank EXCEPT !.op = "confirm", !.cart = o, !.contact = c,
                                  !.lines = LinesOf(o), !.seen = Stock]
    <2>1. l.op = "confirm"
      BY DEF Blank
    <2>2. Goto(r, "confirm_write", l)
      BY <1>2 DEF ConfirmRead
    <2> HIDE DEF l
    <2> QED
      BY <1>1, <2>1, <2>2 DEF InTransaction
  <1>3. ASSUME NEW sent \in BOOLEAN, ConfirmWrite(r, sent) PROVE TabFacts'
    BY <1>0, <1>1, <1>3 DEF ConfirmWrite, Knows, InTransaction
  <1> QED
    BY <1>2, <1>3

\* The deletion of an address collects placed orders of its owner.
LEMMA CollectContactKnows ==
    ASSUME TabInv, OneRequestEach, NEW r \in Requests, NEW c \in Contacts,
           CollectContact(r, c)
    PROVE  TabFacts'
  <1> DEFINE sentTo == {o \in OrderIds : order[o] # NoRow /\ order[o].contact = c}
             l == [Blank EXCEPT !.op = "forget", !.contact = c,
                                !.orders = sentTo]
  <1>0. /\ CheckoutTypeOK /\ Integrity /\ CartsUnaddressed
        /\ UNCHANGED <<order, item>> /\ OwnerOf[c] = Issuer[r]
    BY DEF CollectContact, TabInv, IInv, tables, orders, items
  <1>1. l.orders = sentTo
    BY DEF Blank
  <1>2. /\ pc'[r] = "delete_contact" /\ pc' = [pc EXCEPT ![r] = pc'[r]]
        /\ loc'[r] = l /\ loc' = [loc EXCEPT ![r] = loc'[r]]
    BY <1>0, GotoSets DEF CollectContact
  <1>3. ASSUME NEW o \in sentTo
        PROVE  Placed(o) /\ order[o].user = Issuer[r]
    BY <1>0, NoRowIsNoValue DEF CartsUnaddressed, Basket, Placed, Integrity
  <1> HIDE DEF l, sentTo
  <1>5. Knows(r)'
    BY <1>0, <1>1, <1>2, <1>3 DEF Knows, AtCart, HasRow, InTransaction, Placed
  <1> QED
    BY <1>0, <1>2, <1>5, QuietStep

----------------------------------------------------------------------------
(* The steps that write. *)

\* A buyer who has no cart gets one.
LEMMA CreateCartKnows ==
    ASSUME TabInv, OneRequestEach, NEW r \in Requests, CreateCart(r)
    PROVE  TabFacts'
  <1> DEFINE row == [user |-> Issuer[r], state |-> "basket", contact |-> NoRow]
             l == [loc[r] EXCEPT !.cart = nextOrder]
  <1>0. /\ CheckoutTypeOK /\ KeysFresh /\ loc[r] \in Local
        /\ order \in [OrderIds -> OrderRow \cup {NoRow}]
        /\ CartsUnaddressed /\ UNCHANGED item /\ Baskets(Issuer[r]) = {}
    BY DEF CreateCart, Writes, TabInv, IInv, CheckoutTypeOK, StoreTypeOK,
           HandlersConsistent, Knows, items
  <1>1. CASE Finish(r) /\ UNCHANGED orders
    BY <1>0, <1>1, EndStep DEF orders
  <1>2. CASE /\ nextOrder \in OrderIds /\ order' = [order EXCEPT ![nextOrder] = row]
             /\ Goto(r, "invalidate", l)
    <2>1. order[nextOrder] = NoRow
      BY <1>0, <1>2 DEF KeysFresh, OrderIds
    <2>2. row \in OrderRow
      BY CheckoutAssumption DEF OrderRow, States
    <2>3. row # NoRow /\ row.user = Issuer[r] /\ row.state = "basket"
          /\ row.contact = NoRow
      BY <2>2, NoRowIsNoValue
    <2>4. l.cart = nextOrder
      BY <1>0 DEF Local
    <2>5. /\ pc'[r] = "invalidate" /\ pc' = [pc EXCEPT ![r] = pc'[r]]
          /\ loc'[r] = l /\ loc' = [loc EXCEPT ![r] = loc'[r]]
      BY <1>0, <1>2, GotoSets
    <2> HIDE DEF row, l
    <2>6. \A o \in OrderIds :
             order'[o] = IF o = nextOrder THEN row ELSE order[o]
      BY <1>0, <1>2
    <2>7. Baskets(Issuer[r])' = {nextOrder}
      BY <1>0, <1>2, <2>3, <2>6 DEF Baskets
    <2>8. OnlyOf(Issuer[r])
      BY <1>0, <2>1, <2>3, <2>6 DEF OnlyOf
    <2>9. CartsUnaddressed'
      BY <1>0, <2>3, <2>6 DEF CartsUnaddressed, Basket
    <2>10. Knows(r)'
      BY <2>4, <2>5, <2>7 DEF Knows, AtCart, HasRow, InTransaction
    <2> QED
      BY <2>5, <2>7, <2>8, <2>9, <2>10, StepOfOne
  <1> QED
    BY <1>1, <1>2 DEF CreateCart

\* A request ends by writing rows of its buyer's carts and nothing else.
LEMMA CartWritten ==
    ASSUME TabInv, OneRequestEach, NEW r \in Requests, Finish(r),
           UNCHANGED order,
           \A k \in ItemIds :
              \/ item'[k] = item[k] \/ item[k] = NoRow
              \/ order[item[k].order].user = Issuer[r]
    PROVE  TabFacts'
  <1>1. /\ pc'[r] = "idle" /\ pc' = [pc EXCEPT ![r] = pc'[r]]
        /\ loc' = [loc EXCEPT ![r] = loc'[r]]
    BY GotoSets DEF TabInv, IInv, Finish
  <1>2. OnlyOf(Issuer[r]) /\ Baskets(Issuer[r])' = Baskets(Issuer[r])
    BY DEF OnlyOf, Baskets
  <1>3. Knows(r)'
    BY <1>1 DEF Knows, AtCart, HasRow, InTransaction
  <1>4. CartsUnaddressed' /\ Issuer[r] \in Users
    BY CheckoutAssumption DEF CartsUnaddressed, Basket, TabInv
  <1>5. \A o, p \in Baskets(Issuer[r]) : o = p
    BY <1>4 DEF TabInv, SingleBasket
  <1> QED
    BY <1>1, <1>2, <1>3, <1>4, <1>5, StepOfOne

\* What the handlers of the cart write.
LEMMA ItemWritesKnow ==
    ASSUME TabInv, OneRequestEach, NEW r \in Requests,
           InsertItem(r) \/ SaveItem(r) \/ DeleteItem(r) \/ ClearItems(r)
    PROVE  TabFacts'
  <1>0. /\ CheckoutTypeOK /\ KeysFresh /\ Knows(r) /\ LocalsSet(r)
        /\ UNCHANGED order /\ loc[r].cart \in Baskets(Issuer[r])
        /\ item \in [ItemIds -> ItemRow \cup {NoRow}]
    BY DEF InsertItem, SaveItem, DeleteItem, ClearItems, Writes, Serves, TabInv,
           IInv, LocalsFit, HandlersConsistent, CheckoutTypeOK, StoreTypeOK,
           Knows, AtCart, orders
  <1>1. order[loc[r].cart].user = Issuer[r]
    BY <1>0 DEF Baskets
  <1>2. CASE InsertItem(r)
    <2>1. CASE UNCHANGED items
      <3>1. \/ Finish(r)
            \/ \E k \in Line(loc[r].cart, loc[r].info) : AddTo(r, k)
        BY <1>2 DEF InsertItem
      <3> QED
        BY <1>0, <2>1, <3>1, AddToKnows, EndStep DEF items
    <2>2. ASSUME NEW row, nextItem \in ItemIds, Finish(r),
                 item' = [item EXCEPT ![nextItem] = row]
          PROVE  TabFacts'
      <3>1. item[nextItem] = NoRow
        BY <1>0, <2>2 DEF KeysFresh, ItemIds
      <3>2. \A k \in ItemIds : item'[k] = item[k] \/ item[k] = NoRow
        BY <1>0, <2>2, <3>1
      <3> QED
        BY <1>0, <2>2, <3>2, CartWritten
    <2> QED
      BY <1>2, <2>1, <2>2 DEF InsertItem
  <1>3. CASE SaveItem(r)
    <2>1. item[loc[r].key].order = loc[r].cart /\ loc[r].key \in ItemIds
      BY <1>0, <1>3 DEF SaveItem, Writes, Knows, HasRow, LocalsSet
    <2>2. \A k \in ItemIds : k # loc[r].key => item'[k] = item[k]
      BY <1>0, <1>3 DEF SaveItem
    <2>3. Finish(r)
      BY <1>3 DEF SaveItem
    <2> QED
      BY <1>0, <1>1, <2>1, <2>2, <2>3, CartWritten
  <1>4. CASE DeleteItem(r)
    <2>1. item[loc[r].key].order = loc[r].cart /\ loc[r].key \in ItemIds
      BY <1>0, <1>4 DEF DeleteItem, Writes, Knows, HasRow, LocalsSet
    <2>2. \A k \in ItemIds : k # loc[r].key => item'[k] = item[k]
      BY <1>4 DEF DeleteItem, Without
    <2>3. Finish(r)
      BY <1>4 DEF DeleteItem
    <2> QED
      BY <1>0, <1>1, <2>1, <2>2, <2>3, CartWritten
  <1>5. CASE ClearItems(r)
    <2>1. \A k \in ItemIds :
             item'[k] = item[k] \/ item[k].order = loc[r].cart
      BY <1>5 DEF ClearItems, Without, Rows
    <2>2. Finish(r)
      BY <1>5 DEF ClearItems
    <2> QED
      BY <1>0, <1>1, <2>1, <2>2, CartWritten
  <1> QED
    BY <1>2, <1>3, <1>4, <1>5

\* A commit makes an order of one cart, and gives none to anybody.
LEMMA ConfirmCommitKnows ==
    ASSUME TabInv, OneRequestEach, NEW r \in Requests, ConfirmCommit(r)
    PROVE  TabFacts'
  <1> DEFINE row == [user |-> Issuer[r], state |-> "new",
                     contact |-> loc[r].contact]
  <1>0. /\ CheckoutTypeOK /\ Knows(r) /\ CartsUnaddressed /\ SingleBasket
        /\ order \in [OrderIds -> OrderRow \cup {NoRow}]
        /\ UNCHANGED item /\ order' = [order EXCEPT ![loc[r].cart] = row]
        /\ pc[r] = "confirm_commit"
    BY DEF ConfirmCommit, TabInv, IInv, CheckoutTypeOK, StoreTypeOK, items
  <1>1. order[loc[r].cart] # NoRow => order[loc[r].cart].user = Issuer[r]
    BY <1>0 DEF TabInv, Ownership, BelongsTo, InTransaction
  <1>2. row.user = Issuer[r] /\ row.state = "new"
    OBVIOUS
  <1> HIDE DEF row
  <1>3. \A o \in OrderIds :
           order'[o] = IF o = loc[r].cart THEN row ELSE order[o]
    BY <1>0
  <1>4. OnlyOf(Issuer[r])
    BY <1>0, <1>1, <1>2, <1>3 DEF OnlyOf
  <1>5. CartsUnaddressed'
    BY <1>0, <1>2, <1>3 DEF CartsUnaddressed, Basket
  <1>6. Baskets(Issuer[r])' \subseteq Baskets(Issuer[r])
    BY <1>2, <1>3 DEF Baskets
  <1>7. \A o, p \in Baskets(Issuer[r])' : o = p
    BY <1>0, <1>6, CheckoutAssumption DEF SingleBasket
  <1>8. loc[r].op = "confirm" /\ (Goto(r, "invalidate", loc[r]) \/ Finish(r))
    BY <1>0 DEF ConfirmCommit, Knows, InTransaction
  <1>9. CASE Goto(r, "invalidate", loc[r])
    <2>1. /\ pc'[r] = "invalidate" /\ pc' = [pc EXCEPT ![r] = pc'[r]]
          /\ loc'[r] = loc[r] /\ loc' = [loc EXCEPT ![r] = loc'[r]]
      BY <1>0, <1>9, GotoSets
    <2>2. Knows(r)'
      BY <1>8, <2>1 DEF Knows, AtCart, HasRow, InTransaction
    <2> QED
      BY <1>4, <1>5, <1>7, <2>1, <2>2, StepOfOne
  <1>10. CASE Finish(r)
    <2>1. /\ pc'[r] = "idle" /\ pc' = [pc EXCEPT ![r] = pc'[r]]
          /\ loc' = [loc EXCEPT ![r] = loc'[r]]
      BY <1>0, <1>10, GotoSets DEF Finish
    <2>2. Knows(r)'
      BY <2>1 DEF Knows, AtCart, HasRow, InTransaction
    <2> QED
      BY <1>4, <1>5, <1>7, <2>1, <2>2, StepOfOne
  <1> QED
    BY <1>8, <1>9, <1>10

\* With an address its owner's placed orders go, and no cart.
LEMMA DeleteContactKnows ==
    ASSUME TabInv, OneRequestEach, NEW r \in Requests, DeleteContact(r)
    PROVE  TabFacts'
  <1>0. /\ CheckoutTypeOK /\ Knows(r) /\ CartsUnaddressed /\ SingleBasket
        /\ pc[r] = "delete_contact" /\ Finish(r)
        /\ loc[r].orders \subseteq OrderIds
    BY DEF DeleteContact, Writes, TabInv, IInv, CheckoutTypeOK, Local
  <1>1. CASE UNCHANGED <<order, item>>
    BY <1>0, <1>1, EndStep
  <1>2. CASE /\ order' = [o \in OrderIds |->
                             IF o \in loc[r].orders THEN NoRow ELSE order[o]]
             /\ item' = Without(UNION {Rows(o) : o \in loc[r].orders})
    <2>1. \A o \in loc[r].orders : order[o].user = Issuer[r]
      BY <1>0 DEF Knows
    <2>2. OnlyOf(Issuer[r])
      <3>1. \A k \in ItemIds :
               item'[k] = item[k] \/ item[k].order \in loc[r].orders
        BY <1>2 DEF Without, Rows
      <3> QED
        BY <1>2, <2>1, <3>1 DEF OnlyOf
    <2>3. CartsUnaddressed' /\ Baskets(Issuer[r])' \subseteq Baskets(Issuer[r])
      BY <1>0, <1>2 DEF CartsUnaddressed, Basket, Baskets
    <2>4. \A o, p \in Baskets(Issuer[r])' : o = p
      BY <1>0, <2>3, CheckoutAssumption DEF SingleBasket
    <2>5. /\ pc'[r] = "idle" /\ pc' = [pc EXCEPT ![r] = pc'[r]]
          /\ loc' = [loc EXCEPT ![r] = loc'[r]]
      BY <1>0, GotoSets DEF Finish
    <2>6. Knows(r)'
      BY <2>5 DEF Knows, AtCart, HasRow, InTransaction
    <2> QED
      BY <2>2, <2>3, <2>4, <2>5, <2>6, StepOfOne
  <1> QED
    BY <1>1, <1>2 DEF DeleteContact

----------------------------------------------------------------------------
(* Every step. *)

\* Steps that touch neither a handler nor an order.
LEMMA OutsideStep ==
    ASSUME TabInv, UNCHANGED <<order, item, pc, loc>>
    PROVE  TabFacts'
  BY DEF TabInv, TabFacts, SingleBasket, CartsUnaddressed, Basket, Knows, AtCart,
         HasRow, Baskets, Placed

LEMMA InitTab == Init => TabInv
  <1> SUFFICES ASSUME Init PROVE TabInv
    OBVIOUS
  <1>1. SingleBasket /\ CartsUnaddressed /\ \A r \in Requests : Knows(r)
    BY DEF Init, SingleBasket, CartsUnaddressed, Basket, Knows, AtCart, HasRow,
           Baskets, InTransaction
  <1> QED
    BY <1>1, InitIInv, InitOwnership DEF TabInv

LEMMA NextTab ==
    ASSUME OneRequestEach, TabInv, [Next]_vars
    PROVE  TabInv'
  <1>1. ASSUME NEW r \in Requests, Request(r) PROVE TabFacts'
    <2>1. ASSUME NEW op, Arrive(r, op) PROVE TabFacts'
      BY <2>1, RestStep DEF Arrive, tables, orders, items
    <2>2. ASSUME NEW p, NEW q, Add(r, p, q) PROVE TabFacts'
      BY <2>2, RestStep DEF Add, tables, orders, items
    <2>3. ASSUME NEW c, ConfirmReject(r, c) PROVE TabFacts'
      BY <2>3, OutsideStep DEF ConfirmReject, tables, orders, items, handlers
    <2> QED
      BY <1>1, <2>1, <2>2, <2>3, ConfirmKnows, CollectContactKnows DEF Request
  <1>2. ASSUME NEW r \in Requests, Abort(r) PROVE TabFacts'
    BY <1>2, EndStep DEF Abort, tables, orders, items
  <1>3. ASSUME NEW r \in Requests, Step(r) PROVE TabFacts'
    BY <1>2, <1>3, GetCartKnows, CreateCartKnows, InvalidationKnows,
       ItemReadsKnow, ItemWritesKnow, ConfirmKnows, ConfirmCommitKnows,
       DeleteContactKnows
    DEF Step, Locked
  <1>4. ASSUME \/ \E c \in Contacts : CreateContact(c)
               \/ \E s \in Shops, raw \in RawStates : PartnerState(s, raw)
               \/ \E u \in Users : CacheExpire(u)
               \/ UNCHANGED vars
        PROVE  TabFacts'
    BY <1>4, OutsideStep
    DEF CreateContact, PartnerState, CacheExpire, vars, tables, orders, items,
        handlers
  <1>5. TabFacts'
    BY <1>1, <1>2, <1>3, <1>4 DEF Next, Crash
  <1>6. IInv'
    BY NextIInv DEF TabInv
  <1>7. Ownership'
    BY NextOwnership, StutterOwnership DEF TabInv
  <1> QED
    BY <1>5, <1>6, <1>7 DEF TabInv, TabFacts

\* What the request of a buyer has read about the buyer's cart, rows and
\* addresses is still true when it writes (cart/views.py, orders/views.py).
THEOREM TabInvariant ==
    ASSUME OneRequestEach
    PROVE  Spec => []TabInv
  <1>1. TabInv /\ [Next]_vars => TabInv'
    BY NextTab
  <1> QED
    BY <1>1, InitTab, PTL DEF Spec

----------------------------------------------------------------------------
(* What was ordered stays. *)

\* The row under key k stays, or it is neither before nor after a row of an
\* order that is placed before and after.
Spared(k) ==
    \/ item'[k] = item[k]
    \/ /\ item[k] # NoRow =>
             ~ Placed(item[k].order) \/ order'[item[k].order] = NoRow
       /\ item'[k] # NoRow => ~ Placed(item'[k].order)

\* An order asks for what it asked for when its rows stay.
LEMMA LinesKept ==
    ASSUME NEW o \in OrderIds, Placed(o), Placed(o)',
           \A k \in ItemIds : Spared(k)
    PROVE  LinesOf(o)' = LinesOf(o)
  <1>1. \A k \in ItemIds : Kept(k, o)
    BY DEF Spared, Kept, Placed
  <1> QED
    BY <1>1, RowsKept

\* The handlers of the cart write rows of carts ...
LEMMA ItemWritesSpare ==
    ASSUME TabInv, NEW r \in Requests,
           InsertItem(r) \/ SaveItem(r) \/ DeleteItem(r) \/ ClearItems(r),
           NEW k \in ItemIds
    PROVE  Spared(k)
  <1> DEFINE row == [order |-> loc[r].cart, info |-> loc[r].info,
                     quantity |-> loc[r].quantity]
  <1>0. /\ KeysFresh /\ Knows(r) /\ LocalsSet(r) /\ ~ Placed(loc[r].cart)
        /\ item \in [ItemIds -> ItemRow \cup {NoRow}]
    BY DEF InsertItem, SaveItem, DeleteItem, ClearItems, Writes, Serves, TabInv,
           IInv, LocalsFit, HandlersConsistent, CheckoutTypeOK, StoreTypeOK,
           Knows, AtCart, Baskets, Placed
  <1>1. row.order = loc[r].cart
    OBVIOUS
  <1> HIDE DEF row
  <1>2. CASE InsertItem(r)
    <2>1. CASE UNCHANGED items
      BY <2>1 DEF items, Spared
    <2>2. CASE nextItem \in ItemIds /\ item' = [item EXCEPT ![nextItem] = row]
      <3>1. item[nextItem] = NoRow
        BY <1>0, <2>2 DEF KeysFresh, ItemIds
      <3>2. item'[k] = IF k = nextItem THEN row ELSE item[k]
        BY <1>0, <2>2
      <3> QED
        BY <1>0, <1>1, <3>1, <3>2 DEF Spared
    <2> QED
      BY <1>2, <2>1, <2>2 DEF InsertItem, row
  <1>3. CASE SaveItem(r)
    <2>1. item[loc[r].key] # NoRow /\ item[loc[r].key].order = loc[r].cart
      BY <1>0, <1>3 DEF SaveItem, Writes, Knows, HasRow
    <2>2. item' = [item EXCEPT ![loc[r].key] = row]
      BY <1>3, <2>1 DEF SaveItem, row
    <2>3. item'[k] = IF k = loc[r].key THEN row ELSE item[k]
      BY <1>0, <2>2
    <2> QED
      BY <1>0, <1>1, <2>1, <2>3 DEF Spared
  <1>4. CASE DeleteItem(r)
    <2>1. item[loc[r].key].order = loc[r].cart
      BY <1>0, <1>4 DEF DeleteItem, Writes, Knows, HasRow
    <2>2. item'[k] = IF k = loc[r].key THEN NoRow ELSE item[k]
      BY <1>4 DEF DeleteItem, Without
    <2> QED
      BY <1>0, <2>1, <2>2 DEF Spared
  <1>5. CASE ClearItems(r)
    <2>1. \/ item'[k] = item[k]
          \/ item[k].order = loc[r].cart /\ item'[k] = NoRow
      BY <1>5 DEF ClearItems, Without, Rows
    <2> QED
      BY <1>0, <2>1 DEF Spared
  <1> QED
    BY <1>2, <1>3, <1>4, <1>5

\* ... and an address takes rows of the orders that go with it.
LEMMA DeleteContactSpares ==
    ASSUME TabInv, NEW r \in Requests, DeleteContact(r), NEW k \in ItemIds
    PROVE  Spared(k)
  <1>1. CASE UNCHANGED <<contact, order, item>>
    BY <1>1 DEF Spared
  <1>2. CASE /\ order' = [o \in OrderIds |->
                             IF o \in loc[r].orders THEN NoRow ELSE order[o]]
             /\ item' = Without(UNION {Rows(o) : o \in loc[r].orders})
    <2>1. loc[r].orders \subseteq OrderIds
      BY DEF TabInv, IInv, CheckoutTypeOK, Local
    <2>2. \A o \in loc[r].orders : order'[o] = NoRow
      BY <1>2, <2>1
    <2>3. \/ item'[k] = item[k]
          \/ item[k].order \in loc[r].orders /\ item'[k] = NoRow
      BY <1>2 DEF Without, Rows
    <2> QED
      BY <2>1, <2>2, <2>3 DEF Spared, Placed
  <1> QED
    BY <1>1, <1>2 DEF DeleteContact

LEMMA NextSpares ==
    ASSUME TabInv, Next, NEW k \in ItemIds
    PROVE  Spared(k)
  <1>1. CASE item' = item
    BY <1>1 DEF Spared
  <1>2. CASE \E r \in Requests : Request(r) \/ Crash(r)
    BY <1>1, <1>2
    DEF Request, Arrive, Add, ConfirmRead, ConfirmReject, CollectContact,
        Crash, Abort, tables, items
  <1>3. ASSUME NEW r \in Requests, Step(r) PROVE Spared(k)
    BY <1>1, <1>3, ItemWritesSpare, DeleteContactSpares
    DEF Step, GetCart, CreateCart, Invalidate, LoseInvalidation, ViewItems,
        GetItem, ChangeItem, PickItem, ConfirmWrite, ConfirmCommit,
        Locked, Abort, tables, items
  <1> QED
    BY <1>1, <1>2, <1>3
    DEF Next, CreateContact, PartnerState, CacheExpire, tables, items

----------------------------------------------------------------------------
(* A cache that loses nothing. *)

\* The cached queries stay coherent when the orders stay, an entry changes
\* to what the database says, and whoever has to invalidate still has to.
LEMMA CoherenceKept ==
    ASSUME CacheCoherent, order' = order,
           \A u \in Users :
              basketCache'[u] \in {Miss, basketCache[u], Baskets(u)},
           \A t \in Requests : pc[t] = "invalidate" => pc'[t] = "invalidate"
    PROVE  CacheCoherent'
  <1>1. \A u : Baskets(u)' = Baskets(u)
    BY DEF Baskets
  <1> QED
    BY <1>1 DEF CacheCoherent, Covered

\* The carts that confirmations sell stay while no other confirmation
\* begins and the orders stay.
LEMMA SoldCartsStay ==
    ASSUME CacheInv, NoneBegins, order' = order
    PROVE  \A t \in Requests : pc'[t] \in InTransaction =>
              loc'[t].cart \in Baskets(Issuer[t])'
  <1>1. \A u : Baskets(u)' = Baskets(u)
    BY DEF Baskets
  <1> QED
    BY <1>1 DEF CacheInv, NoneBegins

\* A step of r that is not a confirmation's last leaves the duties of the
\* others.
LEMMA DutiesStay ==
    ASSUME CheckoutTypeOK, NEW r \in Requests, pc[r] # "invalidate",
           NEW place, NEW l, Goto(r, place, l)
    PROVE  \A t \in Requests : pc[t] = "invalidate" => pc'[t] = "invalidate"
  BY DEF Goto, CheckoutTypeOK

\* The steps that change no order and, when the cache loses nothing, drop
\* no entry that is owed.
LEMMA QuietCoherence ==
    ASSUME CacheInv, ~ CacheFaults, Next, order' = order,
           \A r \in Requests : ~ Invalidate(r)
    PROVE  CacheCoherent'
  <1>0. /\ CheckoutTypeOK /\ CacheCoherent
        /\ basketCache \in [Users -> {Miss} \cup SUBSET OrderIds]
    BY DEF CacheInv, TabInv, IInv, CheckoutTypeOK
  <1> DEFINE Stays == \A t \in Requests :
                         pc[t] = "invalidate" => pc'[t] = "invalidate"
             Fresh == \A u \in Users :
                         basketCache'[u] \in {Miss, basketCache[u], Baskets(u)}
  <1>1. ASSUME NEW r \in Requests, Request(r) PROVE Stays /\ Fresh
    <2>1. ASSUME NEW op, Arrive(r, op) PROVE Stays /\ Fresh
      BY <1>0, <2>1, DutiesStay DEF Arrive, outside
    <2>2. ASSUME NEW p, NEW q, Add(r, p, q) PROVE Stays /\ Fresh
      BY <1>0, <2>2, DutiesStay DEF Add, outside
    <2>3. ASSUME NEW c, NEW o, ConfirmRead(r, c, o) PROVE Stays /\ Fresh
      <3>1. Stays
        BY <1>0, <2>3, DutiesStay DEF ConfirmRead
      <3>2. {o} \in {basketCache[Issuer[r]], Baskets(Issuer[r])}
        BY <2>3 DEF ConfirmRead, BasketsSeen
      <3>3. basketCache' = [basketCache EXCEPT ![Issuer[r]] = {o}]
        BY <2>3 DEF ConfirmRead
      <3> QED
        BY <1>0, <3>1, <3>2, <3>3
    <2>4. ASSUME NEW c, ConfirmReject(r, c) PROVE Stays /\ Fresh
      <3>1. BasketsSeen(Issuer[r])
               \in {basketCache[Issuer[r]], Baskets(Issuer[r])}
        BY DEF BasketsSeen
      <3>2. /\ basketCache' = [basketCache EXCEPT ![Issuer[r]] =
                                  BasketsSeen(Issuer[r])]
            /\ pc' = pc
        BY <2>4 DEF ConfirmReject, handlers
      <3> QED
        BY <1>0, <3>1, <3>2
    <2>5. ASSUME NEW c, CollectContact(r, c) PROVE Stays /\ Fresh
      BY <1>0, <2>5, DutiesStay DEF CollectContact, outside
    <2> QED
      BY <1>1, <2>1, <2>2, <2>3, <2>4, <2>5 DEF Request
  <1>2. ASSUME NEW r \in Requests, pc[r] # "invalidate", UNCHANGED outside,
               NEW place, NEW l, Goto(r, place, l)
        PROVE  Stays /\ Fresh
    BY <1>0, <1>2, DutiesStay DEF outside
  <1>3. ASSUME NEW r \in Requests, Step(r) \/ Crash(r) PROVE Stays /\ Fresh
    <2>1. CASE Locked(r) \/ Crash(r)
      BY <1>2, <2>1 DEF Locked, WaitsInVain, Serves, Crash, Abort, Finish
    <2>2. CASE GetCart(r) \/ ViewItems(r) \/ PickItem(r) \/ ChangeItem(r)
      BY <1>2, <2>2
      DEF GetCart, ViewItems, PickItem, ChangeItem, Serves, Finish
    <2>3. CASE GetItem(r) \/ InsertItem(r)
      BY <1>2, <2>3 DEF GetItem, InsertItem, Serves, Writes, AddTo, Finish
    <2>4. CASE \/ SaveItem(r) \/ DeleteItem(r) \/ ClearItems(r)
               \/ DeleteContact(r)
      BY <1>2, <2>4
      DEF SaveItem, DeleteItem, ClearItems, DeleteContact, Writes, Serves,
          Finish
    <2>5. CASE CreateCart(r) \/ ConfirmCommit(r)
      BY <1>2, <2>5 DEF CreateCart, ConfirmCommit, Writes, Finish
    <2>6. ASSUME NEW sent \in BOOLEAN, ConfirmWrite(r, sent)
          PROVE  Stays /\ Fresh
      BY <1>0, <2>6, DutiesStay DEF ConfirmWrite
    <2>7. ~ Invalidate(r) /\ ~ LoseInvalidation(r)
      BY DEF LoseInvalidation
    <2> QED
      BY <1>3, <2>1, <2>2, <2>3, <2>4, <2>5, <2>6, <2>7 DEF Step
  <1>4. ASSUME \/ \E c \in Contacts : CreateContact(c)
               \/ \E s \in Shops, raw \in RawStates : PartnerState(s, raw)
               \/ \E u \in Users : CacheExpire(u)
        PROVE  Stays /\ Fresh
    BY <1>0, <1>4
    DEF CreateContact, PartnerState, CacheExpire, outside, handlers
  <1>5. Stays /\ Fresh
    BY <1>1, <1>3, <1>4 DEF Next
  <1> QED
    BY <1>0, <1>5, CoherenceKept

\* A buyer's entry is owed, or the carts of the others stay.
LEMMA OwedEntry ==
    ASSUME CacheInv, OneRequestEach, NEW r \in Requests,
           \A v : v # Issuer[r] => Baskets(v)' = Baskets(v),
           \A v \in Users : v # Issuer[r] => basketCache'[v] = basketCache[v],
           \A t \in Requests : t # r => pc'[t] = pc[t],
           \/ pc'[r] = "invalidate"
           \/ basketCache'[Issuer[r]] = Miss
           \/ /\ basketCache'[Issuer[r]] = basketCache[Issuer[r]]
              /\ Baskets(Issuer[r])' = Baskets(Issuer[r])
              /\ pc[r] # "invalidate"
    PROVE  CacheCoherent'
  <1>1. ASSUME NEW u \in Users
        PROVE  \/ basketCache'[u] \in {Miss, Baskets(u)'}
               \/ \E t \in Requests : Issuer[t] = u /\ pc'[t] = "invalidate"
    <2>1. CASE u # Issuer[r]
      <3>1. \/ basketCache[u] \in {Miss, Baskets(u)}
            \/ \E t \in Requests : Issuer[t] = u /\ pc[t] = "invalidate"
        BY DEF CacheInv, CacheCoherent, Covered
      <3> QED
        BY <2>1, <3>1
    <2>2. CASE u = Issuer[r]
      <3>1. \/ basketCache[u] \in {Miss, Baskets(u)}
            \/ \E t \in Requests : Issuer[t] = u /\ pc[t] = "invalidate"
        BY DEF CacheInv, CacheCoherent, Covered
      <3> QED
        BY <2>2, <3>1 DEF OneRequestEach
    <2> QED
      BY <2>1, <2>2
  <1> QED
    BY <1>1 DEF CacheCoherent, Covered

\* The steps that drop an entry, or write to orders.
LEMMA WritesCohere ==
    ASSUME CacheInv, OneRequestEach, NEW r \in Requests,
           \/ Invalidate(r) \/ CreateCart(r) \/ ConfirmCommit(r)
           \/ DeleteContact(r)
    PROVE  CacheCoherent'
  <1>0. /\ CheckoutTypeOK /\ KeysFresh /\ Issuer[r] \in Users /\ Knows(r)
        /\ order \in [OrderIds -> OrderRow \cup {NoRow}]
        /\ basketCache \in [Users -> {Miss} \cup SUBSET OrderIds]
        /\ loc[r].orders \subseteq OrderIds
    BY CheckoutAssumption
    DEF CacheInv, TabInv, IInv, HandlersConsistent, CheckoutTypeOK, StoreTypeOK,
        Local
  <1>1. CASE Invalidate(r)
    <2>1. /\ \A v : Baskets(v)' = Baskets(v)
          /\ basketCache' = [basketCache EXCEPT ![Issuer[r]] = Miss]
          /\ pc' = [pc EXCEPT ![r] = pc'[r]]
      BY <1>0, <1>1, GotoSets
      DEF Invalidate, AfterInvalidation, Finish, tables, orders, Baskets
    <2> QED
      BY <1>0, <2>1, OwedEntry DEF CheckoutTypeOK
  <1>2. CASE CreateCart(r)
    <2> DEFINE row == [user |-> Issuer[r], state |-> "basket",
                       contact |-> NoRow]
    <2>1. row.user = Issuer[r]
      OBVIOUS
    <2>2. /\ pc[r] # "invalidate" /\ UNCHANGED basketCache
          /\ pc' = [pc EXCEPT ![r] = pc'[r]]
      BY <1>0, <1>2, GotoSets DEF CreateCart, Writes, Finish, outside
    <2>3. CASE UNCHANGED orders
      <3>1. \A v : Baskets(v)' = Baskets(v)
        BY <2>3 DEF orders, Baskets
      <3> QED
        BY <1>0, <2>2, <3>1, OwedEntry DEF CheckoutTypeOK
    <2>4. CASE /\ nextOrder \in OrderIds
               /\ order' = [order EXCEPT ![nextOrder] = row]
               /\ pc'[r] = "invalidate"
      <3> HIDE DEF row
      <3>1. order[nextOrder] = NoRow
        BY <1>0, <2>4 DEF KeysFresh, OrderIds
      <3>2. \A o \in OrderIds :
               order'[o] = IF o = nextOrder THEN row ELSE order[o]
        BY <1>0, <2>4
      <3>3. \A v : v # Issuer[r] => Baskets(v)' = Baskets(v)
        BY <2>1, <3>1, <3>2 DEF Baskets
      <3> QED
        BY <1>0, <2>2, <2>4, <3>3, OwedEntry DEF CheckoutTypeOK
    <2> QED
      BY <1>0, <1>2, <2>3, <2>4, GotoSets DEF CreateCart
  <1>3. CASE ConfirmCommit(r)
    <2> DEFINE row == [user |-> Issuer[r], state |-> "new",
                       contact |-> loc[r].contact]
    <2>1. row.user = Issuer[r] /\ order' = [order EXCEPT ![loc[r].cart] = row]
      BY <1>3 DEF ConfirmCommit
    <2> HIDE DEF row
    <2>2. loc[r].cart \in Baskets(Issuer[r])
      BY <1>3 DEF ConfirmCommit, CacheInv, InTransaction
    <2>3. SaveInvalidates(loc[r].cart)
      BY <2>2 DEF SaveInvalidates, Baskets
    <2>4. /\ pc'[r] = "invalidate" /\ pc' = [pc EXCEPT ![r] = pc'[r]]
          /\ UNCHANGED basketCache
      BY <1>0, <1>3, <2>3, GotoSets DEF ConfirmCommit, outside
    <2>5. \A o \in OrderIds :
             order'[o] = IF o = loc[r].cart THEN row ELSE order[o]
      BY <1>0, <2>1
    <2>6. \A v : v # Issuer[r] => Baskets(v)' = Baskets(v)
      BY <2>1, <2>2, <2>5 DEF Baskets
    <2> QED
      BY <1>0, <2>4, <2>6, OwedEntry DEF CheckoutTypeOK
  <1>4. CASE DeleteContact(r)
    <2>1. /\ pc[r] = "delete_contact" /\ UNCHANGED basketCache
          /\ pc' = [pc EXCEPT ![r] = pc'[r]]
      BY <1>0, <1>4, GotoSets DEF DeleteContact, Writes, Finish, outside
    <2>2. \A o \in OrderIds :
             order'[o] = order[o] \/ (Placed(o) /\ order'[o] = NoRow)
      BY <1>0, <1>4, <2>1 DEF DeleteContact, Knows
    <2>3. \A v : Baskets(v)' = Baskets(v)
      BY <2>2 DEF Baskets, Placed
    <2> QED
      BY <1>0, <2>1, <2>3, OwedEntry DEF CheckoutTypeOK
  <1> QED
    BY <1>1, <1>2, <1>3, <1>4

\* Every step keeps the cached queries coherent.
LEMMA NextCoherent ==
    ASSUME CacheInv, OneRequestEach, ~ CacheFaults, Next
    PROVE  CacheCoherent'
  BY QuietCoherence, WritesCohere, OrderWriters

\* With a coherent cache a confirmation reads a cart, and it stays one.
LEMMA ConfirmReadFindsCart ==
    ASSUME CacheInv, OneRequestEach, NEW r \in Requests, NEW c \in Contacts,
           NEW o \in OrderIds, ConfirmRead(r, c, o)
    PROVE  \A t \in Requests : pc'[t] \in InTransaction =>
              loc'[t].cart \in Baskets(Issuer[t])'
  <1> DEFINE l == [Blank EXCEPT !.op = "confirm", !.cart = o, !.contact = c,
                                !.lines = LinesOf(o), !.seen = Stock]
  <1>0. /\ CheckoutTypeOK /\ Issuer[r] \in Users /\ pc[r] = "idle"
        /\ \A v : Baskets(v)' = Baskets(v)
    BY CheckoutAssumption
    DEF CacheInv, TabInv, IInv, ConfirmRead, tables, orders, Baskets
  <1>1. BasketsSeen(Issuer[r]) = Baskets(Issuer[r])
    BY <1>0 DEF BasketsSeen, CacheInv, CacheCoherent, Covered, OneRequestEach
  <1>2. o \in Baskets(Issuer[r])
    BY <1>1 DEF ConfirmRead
  <1>3. l.cart = o
    BY DEF Blank
  <1>4. Goto(r, "confirm_write", l)
    BY DEF ConfirmRead
  <1> HIDE DEF l
  <1>5. /\ loc'[r] = l
        /\ \A t \in Requests : t # r => pc'[t] = pc[t] /\ loc'[t] = loc[t]
    BY <1>0, <1>4 DEF Goto, CheckoutTypeOK
  <1> QED
    BY <1>0, <1>2, <1>3, <1>5 DEF CacheInv

\* Every step keeps what the confirmations sell.
LEMMA NextSoldCarts ==
    ASSUME CacheInv, OneRequestEach, Next
    PROVE  \A t \in Requests : pc'[t] \in InTransaction =>
              loc'[t].cart \in Baskets(Issuer[t])'
  <1>0. IInv /\ CheckoutTypeOK
    BY DEF CacheInv, TabInv, IInv
  <1>1. CASE \E r \in Requests, c \in Contacts, o \in OrderIds :
                ConfirmRead(r, c, o)
    BY <1>1, ConfirmReadFindsCart
  <1>2. CASE NoneBegins /\ order' = order
    BY <1>2, SoldCartsStay
  <1>3. ASSUME NoneBegins, NEW r \in Requests,
               CreateCart(r) \/ DeleteContact(r)
        PROVE  \A t \in Requests : pc'[t] \notin InTransaction
    BY <1>0, <1>3, WritersAreAlone
    DEF CreateCart, DeleteContact, Writes, NoneBegins
  <1>4. ASSUME NoneBegins, NEW r \in Requests, ConfirmCommit(r)
        PROVE  \A t \in Requests : pc'[t] \notin InTransaction
    <2>1. pc'[r] \in {"invalidate", "idle"}
      BY <1>0, <1>4, GotoSets DEF ConfirmCommit, Finish
    <2> QED
      BY <1>0, <1>4, <2>1, CommitsAreAlone
      DEF ConfirmCommit, NoneBegins, InTransaction
  <1> QED
    BY <1>0, <1>1, <1>2, <1>3, <1>4, OnlyConfirmReadBegins, OrderWriters

LEMMA NextCache ==
    ASSUME OneRequestEach, ~ CacheFaults, CacheInv, [Next]_vars
    PROVE  CacheInv'
  <1>1. TabInv'
    BY NextTab DEF CacheInv
  <1>2. CASE Next
    BY <1>1, <1>2, NextCoherent, NextSoldCarts DEF CacheInv
  <1>3. CASE UNCHANGED vars
    <2>1. UNCHANGED <<order, basketCache, pc, loc>>
      BY <1>3 DEF vars, tables, orders, outside, handlers
    <2> QED
      BY <1>1, <2>1 DEF CacheInv, CacheCoherent, Covered, Baskets
  <1> QED
    BY <1>2, <1>3

LEMMA InitCache == Init => CacheInv
  BY InitTab DEF Init, CacheInv, CacheCoherent, Covered, InTransaction

\* With a cache that loses nothing, what a confirmation sells is a cart
\* until it commits (orders/views.py, ConfirmOrderView.post).
THEOREM CacheInvariant ==
    ASSUME OneRequestEach, ~ CacheFaults
    PROVE  Spec => []CacheInv
  <1>1. CacheInv /\ [Next]_vars => CacheInv'
    BY NextCache
  <1> QED
    BY <1>1, InitCache, PTL DEF Spec

\* What a confirmation commits was a cart.
LEMMA CommitSellsCart ==
    ASSUME CacheInv, NEW r \in Requests, ConfirmCommit(r)
    PROVE  ~ Placed(loc[r].cart)
  BY DEF CacheInv, ConfirmCommit, InTransaction, Baskets, Placed

----------------------------------------------------------------------------
(* The closed ledger. *)

\* A commit sells an order that was not sold.
LEMMA CommitIsSale ==
    ASSUME CacheInv, CacheInv', Sells, NEW r \in Requests, ConfirmCommit(r)
    PROVE  L!LedgerNext
  <1>1. PICK o \in OrderIds : o = loc[r].cart /\ L!Deduct(o)
    BY CommitIsDeduct DEF CacheInv, TabInv
  <1>2. o \notin DOMAIN Sales
    BY <1>1, CommitSellsCart DEF Sales, PlacedOrders
  <1> QED
    BY <1>1, <1>2 DEF L!LedgerNext, L!Sell

\* Every other step lets orders disappear at most.
LEMMA RestIsCancel ==
    ASSUME TabInv, Next, \A r \in Requests : ~ ConfirmCommit(r)
    PROVE  L!Cancel
  <1>1. L!Amend
    BY RestAmends DEF TabInv
  <1>2. ASSUME NEW o \in DOMAIN Sales' PROVE Sales'[o] = Sales[o]
    <2>1. /\ o \in OrderIds /\ Placed(o) /\ Placed(o)'
          /\ o \in PlacedOrders /\ o \in PlacedOrders'
      BY <1>1 DEF L!Amend, Sales, PlacedOrders
    <2>2. LinesOf(o)' = LinesOf(o)
      BY <2>1, NextSpares, LinesKept
    <2> QED
      BY <2>1, <2>2 DEF Sales
  <1> QED
    BY <1>1, <1>2 DEF L!Cancel, L!Amend

LEMMA RestCancels ==
    ASSUME TabInv, Next, \A r \in Requests : ~ ConfirmCommit(r)
    PROVE  L!LedgerNext
  BY RestIsCancel DEF L!LedgerNext

\* The checkout keeps the ledger: an order is sold once, for at least one
\* piece, stays what it was when it was placed, and disappears only without
\* giving anything back (orders/views.py and cart/views.py together).
THEOREM CheckoutKeepsClosedLedger ==
    ASSUME OneRequestEach, ~ CacheFaults
    PROVE  Spec => KeepsLedger
  <1>1. CacheInv /\ CacheInv' /\ Sells /\ [Next]_vars =>
           [L!LedgerNext]_(L!ledger)
    BY CommitIsSale, RestCancels, StutterLedger DEF CacheInv
  <1>2. CacheInv => IInv
    BY DEF CacheInv, TabInv
  <1> QED
    BY <1>1, <1>2, InitLedger, InitSells, NextSells, CacheInvariant, PTL
    DEF Spec, KeepsLedger, L!LedgerSpec

----------------------------------------------------------------------------
(* Sums of functions over finite sets, as SumFunction folds them.          *)

\* The element that a sum over s takes first, and g holds the sums of f over
\* the subsets of S.
First(s) == CHOOSE x \in s : TRUE

Sums(g, f, S) ==
    g = [s \in SUBSET S |->
           IF s = {} THEN 0 ELSE f[First(s)] + g[s \ {First(s)}]]

\* What is wrong of some subset of a finite set is wrong of a smallest one.
LEMMA SmallestSet ==
    ASSUME NEW S, IsFiniteSet(S), NEW T, T \subseteq SUBSET S, T # {}
    PROVE  \E s \in T : \A t \in SUBSET S :
              t \subseteq s /\ t # s => t \notin T
  <1>1. SUBSET S = FiniteSubsetsOf(S)
    BY FS_FiniteSubsetsOfFinite
  <1>2. PICK s \in T : \A t \in T : ~ (<<t, s>> \in StrictSubsetOrdering(S))
    BY <1>1, WFMin, FS_StrictSubsetOrderingWellFounded
  <1>3. ASSUME NEW t \in T, t \subseteq s, t # s
        PROVE  <<t, s>> \in StrictSubsetOrdering(S)
    BY <1>3 DEF StrictSubsetOrdering
  <1>4. \A t \in SUBSET S : t \subseteq s /\ t # s => t \notin T
    BY <1>2, <1>3
  <1> QED
    BY <1>4

\* The first element of a set is in it.
LEMMA FirstIn ==
    ASSUME NEW s, s # {}
    PROVE  First(s) \in s
  BY DEF First

\* What Sums says of one set.
LEMMA SumsAt ==
    ASSUME NEW g, NEW f, NEW S, Sums(g, f, S), NEW s, s \subseteq S
    PROVE  /\ s = {} => g[s] = 0
           /\ s # {} => /\ g[s] = f[First(s)] + g[s \ {First(s)}]
                        /\ s \ {First(s)} \subseteq s /\ s \ {First(s)} # s
                        /\ First(s) \in s
  <1>1. g[s] = IF s = {} THEN 0 ELSE f[First(s)] + g[s \ {First(s)}]
    <2>1. s \in SUBSET S
      OBVIOUS
    <2>2. \A h : g = [x \in SUBSET S |-> h[x]] => g[s] = h[s]
      BY <2>1
    <2> QED
      BY <2>1 DEF Sums
  <1> QED
    BY <1>1, FirstIn

LEMMA SumsNone ==
    ASSUME NEW g, NEW f, NEW S, Sums(g, f, S)
    PROVE  g[{}] = 0
  BY SumsAt, {} \subseteq S

\* What is so of the empty set, and of a set if it is so of the set without
\* its first element, is so of every finite set.
LEMMA SetInduction ==
    ASSUME NEW S, IsFiniteSet(S), NEW T, {} \in T,
           \A s \in SUBSET S : s # {} /\ s \ {First(s)} \in T => s \in T
    PROVE  \A s \in SUBSET S : s \in T
  <1> DEFINE Bad == {s \in SUBSET S : s \notin T}
  <1>1. SUFFICES ASSUME Bad # {} PROVE FALSE
    OBVIOUS
  <1>2. PICK s \in Bad : \A t \in SUBSET S :
           t \subseteq s /\ t # s => t \notin Bad
    <2> Bad \subseteq SUBSET S
      OBVIOUS
    <2> HIDE DEF Bad
    <2> QED
      BY <1>1, SmallestSet
  <1>3. s \in SUBSET S /\ s \notin T
    OBVIOUS
  <1>4. s # {}
    BY <1>3
  <1>5. s \ {First(s)} \in T
    BY <1>2, <1>4, FirstIn
  <1> QED
    BY <1>3, <1>4, <1>5

\* The sums over the subsets of two sets agree where both are given.
LEMMA SumsAgree ==
    ASSUME NEW f, NEW S, IsFiniteSet(S), NEW A, NEW B,
           A \subseteq S, B \subseteq S,
           NEW g, Sums(g, f, A), NEW h, Sums(h, f, B)
    PROVE  \A s \in SUBSET S : s \subseteq A /\ s \subseteq B => g[s] = h[s]
  <1> DEFINE Good == {s \in SUBSET S :
                        s \subseteq A /\ s \subseteq B => g[s] = h[s]}
  <1>1. {} \in Good
    BY SumsNone
  <1>2. ASSUME NEW s \in SUBSET S, s # {}, s \ {First(s)} \in Good
        PROVE  s \in Good
    BY <1>2, SumsAt
  <1>3. \A s \in SUBSET S : s \in Good
    <2> HIDE DEF Good
    <2> QED
      BY <1>1, <1>2, SetInduction
  <1> QED
    BY <1>3

\* A finite set has them.
LEMMA SumsExist ==
    ASSUME NEW f, NEW S, IsFiniteSet(S)
    PROVE  \E g : Sums(g, f, S)
  <1> DEFINE Bad == {s \in SUBSET S : \A g : ~ Sums(g, f, s)}
  <1>1. SUFFICES ASSUME Bad # {} PROVE FALSE
    OBVIOUS
  <1>2. PICK s \in Bad : \A t \in SUBSET S :
           t \subseteq s /\ t # s => t \notin Bad
    <2> Bad \subseteq SUBSET S
      OBVIOUS
    <2> HIDE DEF Bad
    <2> QED
      BY <1>1, SmallestSet
  <1> DEFINE W(t) == CHOOSE g : Sums(g, f, t)
             rest == s \ {First(s)}
             g == [t \in SUBSET s |->
                     IF t = {} THEN 0
                     ELSE IF t = s THEN f[First(s)] + W(rest)[rest]
                     ELSE W(t)[t]]
  <1>3. ASSUME NEW t \in SUBSET s, t # s PROVE Sums(W(t), f, t)
    <2>1. t \in SUBSET S /\ t \notin Bad
      BY <1>2, <1>3
    <2>2. \E w : Sums(w, f, t)
      BY <2>1
    <2> QED
      BY <2>2
  <1> HIDE DEF W
  <1>4. ASSUME NEW t \in SUBSET s, t # {}
        PROVE  g[t] = f[First(t)] + g[t \ {First(t)}]
    <2> DEFINE u == t \ {First(t)}
    <2>1. u \in SUBSET s /\ u # s /\ u \subseteq t /\ u # t
      BY <1>4, FirstIn
    <2>2. g[u] = W(u)[u]
      BY <1>3, <2>1, SumsAt
    <2>3. CASE t = s
      BY <1>4, <2>2, <2>3
    <2>4. CASE t # s
      <3>1. Sums(W(t), f, t) /\ Sums(W(u), f, u)
        BY <1>3, <2>1, <2>4
      <3>2. W(t)[t] = f[First(t)] + W(t)[u]
        BY <1>4, <3>1, SumsAt
      <3>3. W(t)[u] = W(u)[u]
        <4> HIDE DEF u, Bad
        <4> t \subseteq S /\ u \subseteq S
          BY <2>1 DEF Bad
        <4> QED
          BY <2>1, <3>1, SumsAgree
      <3>4. g[t] = W(t)[t]
        BY <1>4, <2>4
      <3> QED
        BY <2>2, <3>2, <3>3, <3>4
    <2> QED
      BY <2>3, <2>4
  <1>5. g[{}] = 0
    OBVIOUS
  <1>6. Sums(g, f, s)
    <2>1. \A t \in SUBSET s : g[t] = IF t = {} THEN 0
                                     ELSE f[First(t)] + g[t \ {First(t)}]
      BY <1>4, <1>5
    <2>2. g = [t \in SUBSET s |-> g[t]]
      OBVIOUS
    <2> HIDE DEF g
    <2> QED
      BY <2>1, <2>2 DEF Sums
  <1> QED
    BY <1>6

\* Sums of natural numbers.
LEMMA SumsNatural ==
    ASSUME NEW S, IsFiniteSet(S), NEW f \in [S -> Nat],
           NEW g, Sums(g, f, S)
    PROVE  \A s \in SUBSET S : g[s] \in Nat
  <1> DEFINE Good == {s \in SUBSET S : g[s] \in Nat}
  <1>1. {} \in Good
    BY SumsNone
  <1>2. ASSUME NEW s \in SUBSET S, s # {}, s \ {First(s)} \in Good
        PROVE  s \in Good
    BY <1>2, SumsAt
  <1>3. \A s \in SUBSET S : s \in Good
    <2> HIDE DEF Good
    <2> QED
      BY <1>1, <1>2, SetInduction
  <1> QED
    BY <1>3

\* The sum of all values of f, with the sums it is made of.
LEMMA SumIs ==
    ASSUME NEW S, IsFiniteSet(S), NEW f \in [S -> Nat]
    PROVE  \E g : /\ Sums(g, f, S)
                  /\ SumFunction(f) = g[S]
                  /\ \A s \in SUBSET S : g[s] \in Nat
  <1>1. SumFunction(f) = SumFunctionOnSet(f, S)
    BY DEF SumFunction
  <1>2. SumFunctionOnSet(f, S) = (CHOOSE g : Sums(g, f, S))[S]
    BY DEF SumFunctionOnSet, FoldFunctionOnSet, MapThenFoldSet, Sums, First
  <1>3. Sums(CHOOSE g : Sums(g, f, S), f, S)
    BY SumsExist
  <1> QED
    BY <1>1, <1>2, <1>3, SumsNatural

\* Nothing adds up to nothing.
LEMMA SumOfNothing ==
    ASSUME NEW S, IsFiniteSet(S), NEW f \in [S -> Nat], \A x \in S : f[x] = 0
    PROVE  SumFunction(f) = 0
  <1>1. PICK a : /\ Sums(a, f, S) /\ SumFunction(f) = a[S]
                 /\ \A s \in SUBSET S : a[s] \in Nat
    BY SumIs
  <1> DEFINE Good == {s \in SUBSET S : a[s] = 0}
  <1>2. {} \in Good
    BY <1>1, SumsNone
  <1>3. ASSUME NEW s \in SUBSET S, s # {}, s \ {First(s)} \in Good
        PROVE  s \in Good
    BY <1>1, <1>3, SumsAt
  <1>4. \A s \in SUBSET S : s \in Good
    <2> HIDE DEF Good
    <2> QED
      BY <1>2, <1>3, SetInduction
  <1> QED
    BY <1>1, <1>4

\* If no term grows, the sum does not.
LEMMA SumMonotone ==
    ASSUME NEW S, IsFiniteSet(S), NEW f \in [S -> Nat], NEW h \in [S -> Nat],
           \A x \in S : h[x] <= f[x]
    PROVE  SumFunction(h) <= SumFunction(f)
  <1>1. PICK a : /\ Sums(a, f, S) /\ SumFunction(f) = a[S]
                 /\ \A s \in SUBSET S : a[s] \in Nat
    BY SumIs
  <1>2. PICK b : /\ Sums(b, h, S) /\ SumFunction(h) = b[S]
                 /\ \A s \in SUBSET S : b[s] \in Nat
    BY SumIs
  <1> DEFINE Good == {s \in SUBSET S : b[s] <= a[s]}
  <1>3. {} \in Good
    BY <1>1, <1>2, SumsNone
  <1>4. ASSUME NEW s \in SUBSET S, s # {}, s \ {First(s)} \in Good
        PROVE  s \in Good
    <2>1. /\ a[s] = f[First(s)] + a[s \ {First(s)}]
          /\ b[s] = h[First(s)] + b[s \ {First(s)}]
          /\ First(s) \in S
      BY <1>1, <1>2, <1>4, SumsAt
    <2>2. /\ f[First(s)] \in Nat /\ h[First(s)] \in Nat
          /\ h[First(s)] <= f[First(s)]
      BY <2>1
    <2> QED
      BY <1>1, <1>2, <1>4, <2>1, <2>2
  <1>5. \A s \in SUBSET S : s \in Good
    <2> HIDE DEF Good
    <2> QED
      BY <1>3, <1>4, SetInduction
  <1> QED
    BY <1>1, <1>2, <1>5

\* If one term grows, from nothing, the sum grows as much.
LEMMA SumGrows ==
    ASSUME NEW S, IsFiniteSet(S), NEW f \in [S -> Nat], NEW h \in [S -> Nat],
           NEW o \in S, f[o] = 0, \A x \in S \ {o} : h[x] = f[x]
    PROVE  SumFunction(h) = SumFunction(f) + h[o]
  <1>1. PICK a : /\ Sums(a, f, S) /\ SumFunction(f) = a[S]
                 /\ \A s \in SUBSET S : a[s] \in Nat
    BY SumIs
  <1>2. PICK b : /\ Sums(b, h, S) /\ SumFunction(h) = b[S]
                 /\ \A s \in SUBSET S : b[s] \in Nat
    BY SumIs
  <1> DEFINE Good == {s \in SUBSET S :
                        b[s] = a[s] + (IF o \in s THEN h[o] ELSE 0)}
  <1>3. {} \in Good
    BY <1>1, <1>2, SumsNone
  <1>4. ASSUME NEW s \in SUBSET S, s # {}, s \ {First(s)} \in Good
        PROVE  s \in Good
    <2>1. /\ a[s] = f[First(s)] + a[s \ {First(s)}]
          /\ b[s] = h[First(s)] + b[s \ {First(s)}]
          /\ First(s) \in S /\ First(s) \in s
      BY <1>1, <1>2, <1>4, SumsAt
    <2>2. f[First(s)] \in Nat /\ h[First(s)] \in Nat
      BY <2>1
    <2>3. a[s \ {First(s)}] \in Nat /\ b[s \ {First(s)}] \in Nat
      BY <1>1, <1>2
    <2>4. CASE First(s) = o
      BY <1>4, <2>1, <2>2, <2>3, <2>4
    <2>5. CASE First(s) # o
      BY <1>4, <2>1, <2>2, <2>3, <2>5
    <2> QED
      BY <2>4, <2>5
  <1>5. \A s \in SUBSET S : s \in Good
    <2> HIDE DEF Good
    <2> QED
      BY <1>3, <1>4, SetInduction
  <1> QED
    BY <1>1, <1>2, <1>5

----------------------------------------------------------------------------
(* Stock and orders add up. *)

\* What the orders hold of p, read off the ledger.
LEMMA HeldIsSold ==
    ASSUME CheckoutTypeOK, NEW p \in InfoIds
    PROVE  /\ Held(p) \in [OrderIds -> Nat]
           /\ \A o \in OrderIds :
                 Held(p)[o] = IF o \in DOMAIN Sales THEN Sales[o][p] ELSE 0
  <1>1. ASSUME NEW o \in OrderIds
        PROVE  Quantity(o, p) \in Nat /\ Quantity(o, p) = LinesOf(o)[p]
    BY LinesTyped DEF LinesOf
  <1>2. DOMAIN Sales = PlacedOrders
    BY DEF Sales
  <1> QED
    BY <1>1, <1>2 DEF Held, Sales, PlacedOrders

\* The same of the next state.
LEMMA HeldIsSoldNext ==
    ASSUME NEW p \in InfoIds
    PROVE  /\ Held(p)' = [o \in OrderIds |-> Held(p)'[o]]
           /\ \A o \in OrderIds :
                 Held(p)'[o] = IF o \in DOMAIN Sales' THEN Sales'[o][p] ELSE 0
  <1>1. \A o \in OrderIds : LinesOf(o)'[p] = Quantity(o, p)'
    BY DEF LinesOf
  <1>2. DOMAIN Sales' = PlacedOrders'
    BY DEF Sales
  <1> QED
    BY <1>1, <1>2 DEF Held, Sales, PlacedOrders

\* Orders that disappear make the sum smaller.
LEMMA CancelLessens ==
    ASSUME CheckoutTypeOK, NEW p \in InfoIds, L!Cancel
    PROVE  /\ Ordered(p) \in Nat /\ Ordered(p)' \in Nat
           /\ Ordered(p)' <= Ordered(p)
           /\ DOMAIN Sales' = DOMAIN Sales => Ordered(p)' = Ordered(p)
  <1>1. PICK f, h : f = Held(p) /\ h = Held(p)'
    OBVIOUS
  <1>2. Ordered(p) = SumFunction(f) /\ Ordered(p)' = SumFunction(h)
    BY <1>1 DEF Ordered
  <1>3. f \in [OrderIds -> Nat]
    BY <1>1, HeldIsSold
  <1>4. ASSUME NEW o \in OrderIds
        PROVE  /\ h[o] = f[o] \/ h[o] = 0
               /\ DOMAIN Sales' = DOMAIN Sales => h[o] = f[o]
    BY <1>1, HeldIsSold, HeldIsSoldNext DEF L!Cancel
  <1>5. h = [o \in OrderIds |-> h[o]] /\ h \in [OrderIds -> Nat]
    BY <1>1, <1>3, <1>4, HeldIsSoldNext
  <1>6. \A o \in OrderIds : h[o] <= f[o]
    BY <1>3, <1>4
  <1>7. DOMAIN Sales' = DOMAIN Sales => h = f
    BY <1>3, <1>4, <1>5
  <1>8. /\ SumFunction(f) \in Nat /\ SumFunction(h) \in Nat
        /\ SumFunction(h) <= SumFunction(f)
    BY <1>3, <1>5, <1>6, FiniteOrders, SumIs, SumMonotone
  <1> QED
    BY <1>2, <1>7, <1>8

\* An order that is sold makes the sum larger by what leaves the stock.
LEMMA SellAdds ==
    ASSUME CheckoutTypeOK, NEW p \in InfoIds, NEW o \in OrderIds, L!Sell(o)
    PROVE  /\ Ordered(p) \in Nat /\ Ordered(p)' \in Nat
           /\ Stock[p] \in Nat /\ Stock'[p] \in Nat
           /\ Stock'[p] + Ordered(p)' = Stock[p] + Ordered(p)
  <1>1. PICK f, h : f = Held(p) /\ h = Held(p)'
    OBVIOUS
  <1>2. Ordered(p) = SumFunction(f) /\ Ordered(p)' = SumFunction(h)
    BY <1>1 DEF Ordered
  <1>3. f \in [OrderIds -> Nat] /\ f[o] = 0
    BY <1>1, HeldIsSold DEF L!Sell
  <1>4. /\ h[o] = Sales'[o][p] /\ h[o] \in Nat
        /\ h[o] + Stock'[p] = Stock[p] /\ Stock'[p] \in Nat
    BY <1>1, HeldIsSoldNext DEF L!Sell, L!Deduct, L!Pieces
  <1>5. ASSUME NEW x \in OrderIds \ {o} PROVE h[x] = f[x]
    <2>1. x \in DOMAIN Sales' <=> x \in DOMAIN Sales
      BY DEF L!Sell, L!Deduct
    <2>2. x \in DOMAIN Sales => Sales'[x] = Sales[x]
      BY DEF L!Sell, L!Deduct
    <2> QED
      BY <1>1, <2>1, <2>2, HeldIsSold, HeldIsSoldNext
  <1>6. h \in [OrderIds -> Nat]
    <2>1. h = [x \in OrderIds |-> h[x]]
      BY <1>1, HeldIsSoldNext
    <2>2. \A x \in OrderIds : h[x] \in Nat
      BY <1>3, <1>4, <1>5
    <2> QED
      BY <2>1, <2>2
  <1>7. /\ SumFunction(h) = SumFunction(f) + h[o]
        /\ SumFunction(f) \in Nat /\ SumFunction(h) \in Nat
    BY <1>3, <1>5, <1>6, FiniteOrders, SumIs, SumGrows
  <1>8. Stock[p] \in Nat
    BY StockTyped
  <1> QED
    BY <1>2, <1>4, <1>7, <1>8

\* As long as no address is deleted no order disappears.
LEMMA NoneDisappears ==
    ASSUME TabInv, Next, \A r \in Requests : ~ ConfirmCommit(r),
           \A c \in Contacts : contact'[c] # "deleted"
    PROVE  /\ \A c \in Contacts : contact[c] # "deleted"
           /\ DOMAIN Sales' = DOMAIN Sales
  <1>0. /\ CheckoutTypeOK /\ LocalsFit /\ KeysFresh
        /\ contact \in [Contacts -> {"unborn", "live", "deleted"}]
        /\ order \in [OrderIds -> OrderRow \cup {NoRow}]
    BY DEF TabInv, IInv, HandlersConsistent, CheckoutTypeOK, StoreTypeOK
  <1>1. ASSUME NEW r \in Requests, DeleteContact(r)
        PROVE  UNCHANGED <<contact, order>>
    <2>1. loc[r].contact \in Contacts
      BY <1>0, <1>1 DEF LocalsFit, LocalsSet, DeleteContact, Writes
    <2> QED
      BY <1>0, <1>1, <2>1 DEF DeleteContact
  <1>2. ASSUME NEW r \in Requests, CreateCart(r), NEW o \in OrderIds, Placed(o)
        PROVE  Placed(o)'
    <2>1. \/ order' = order
          \/ \E row : order' = [order EXCEPT ![nextOrder] = row]
      BY <1>2 DEF CreateCart, orders
    <2>2. order[o] # NoRow /\ nextOrder \in Nat /\ o < nextOrder
      BY <1>0, <1>2 DEF KeysFresh, Placed, CheckoutTypeOK, StoreTypeOK
    <2>3. o # nextOrder
      BY <2>2
    <2>4. order'[o] = order[o]
      BY <1>0, <2>1, <2>3
    <2> QED
      BY <1>2, <2>4 DEF Placed
  <1>3. \A o \in OrderIds : Placed(o) => Placed(o)'
    <2>1. CASE order' = order
      BY <2>1 DEF Placed
    <2>2. CASE order' # order
      BY <1>1, <1>2, <2>2, OrderWriters
    <2> QED
      BY <2>1, <2>2
  <1>4. L!Amend
    BY RestAmends DEF TabInv
  <1>5. DOMAIN Sales' = DOMAIN Sales
    <2>1. DOMAIN Sales = PlacedOrders /\ DOMAIN Sales' = PlacedOrders'
      BY DEF Sales
    <2>2. PlacedOrders \subseteq PlacedOrders'
      BY <1>3 DEF PlacedOrders
    <2> QED
      BY <1>4, <2>1, <2>2 DEF L!Amend
  <1>6. contact' = contact \/ \E c \in Contacts : CreateContact(c)
    <2>1. CASE \E r \in Requests : Request(r) \/ Crash(r)
      BY <2>1
      DEF Request, Arrive, Add, ConfirmRead, ConfirmReject, CollectContact,
          Crash, Abort, tables
    <2>2. CASE \E r \in Requests : Step(r)
      BY <1>1, <2>2
      DEF Step, GetCart, CreateCart, Invalidate, LoseInvalidation, ViewItems,
          GetItem, InsertItem, ChangeItem, SaveItem, PickItem, DeleteItem,
          ClearItems, ConfirmWrite, Locked, Abort, tables
    <2> QED
      BY <2>1, <2>2 DEF Next, PartnerState, CacheExpire, tables
  <1>7. ASSUME NEW c \in Contacts, contact[c] = "deleted"
        PROVE  contact'[c] = "deleted"
    BY <1>0, <1>6, <1>7 DEF CreateContact
  <1> QED
    BY <1>5, <1>7

LEMMA InitConserves == Init => Conservation
  <1> SUFFICES ASSUME Init, NEW p \in InfoIds, Catalogue[p] # NoRow
               PROVE  Stock[p] + Ordered(p) = Catalogue[p].quantity
                      /\ Catalogue[p].quantity \in Nat
    BY DEF Conservation
  <1>1. CheckoutTypeOK
    BY InitIInv DEF IInv
  <1>2. Held(p) \in [OrderIds -> Nat] /\ \A o \in OrderIds : Held(p)[o] = 0
    BY <1>1, HeldIsSold DEF Init, Held, Placed
  <1>3. Ordered(p) = 0
    BY <1>2, FiniteOrders, SumOfNothing DEF Ordered
  <1>4. Stock[p] = Catalogue[p].quantity
    BY DEF Init, Stock
  <1>5. Stock[p] \in Nat
    BY <1>1, StockTyped
  <1> QED
    BY <1>3, <1>4, <1>5

LEMMA NextConserves ==
    ASSUME CacheInv, CacheInv', Sells, Conservation, [Next]_vars
    PROVE  Conservation'
  <1>0. CheckoutTypeOK /\ IInv /\ TabInv
    BY DEF CacheInv, TabInv, IInv
  <1>1. ASSUME NEW p \in InfoIds, Catalogue[p] # NoRow
        PROVE  /\ Stock[p] + Ordered(p) <= Catalogue[p].quantity
               /\ (\A c \in Contacts : contact[c] # "deleted") =>
                     Stock[p] + Ordered(p) = Catalogue[p].quantity
               /\ Catalogue[p].quantity \in Nat /\ Stock[p] \in Nat
    BY <1>0, <1>1, StockTyped, CheckoutAssumption DEF Conservation, InfoRow
  <1>2. ASSUME NEW r \in Requests, ConfirmCommit(r) PROVE Conservation'
    <2>1. PICK o \in OrderIds : L!Sell(o)
      <3>1. PICK o \in OrderIds : o = loc[r].cart /\ L!Deduct(o)
        BY <1>0, <1>2, CommitIsDeduct DEF CacheInv, TabInv
      <3>2. o \notin DOMAIN Sales
        BY <1>2, <3>1, CommitSellsCart DEF Sales, PlacedOrders
      <3> QED
        BY <3>1, <3>2 DEF L!Sell
    <2>2. contact' = contact
      BY <1>2 DEF ConfirmCommit
    <2>3. ASSUME NEW p \in InfoIds, Catalogue[p] # NoRow
          PROVE  Stock'[p] + Ordered(p)' = Stock[p] + Ordered(p)
      BY <1>0, <2>1, SellAdds
    <2> QED
      BY <1>1, <2>2, <2>3 DEF Conservation
  <1>3. CASE Next /\ \A r \in Requests : ~ ConfirmCommit(r)
    <2>1. L!Cancel
      BY <1>0, <1>3, RestIsCancel
    <2>2. ASSUME NEW p \in InfoIds, Catalogue[p] # NoRow
          PROVE  /\ Stock'[p] + Ordered(p)' <= Catalogue[p].quantity
                 /\ (\A c \in Contacts : contact'[c] # "deleted") =>
                       Stock'[p] + Ordered(p)' = Catalogue[p].quantity
      <3>1. /\ Ordered(p) \in Nat /\ Ordered(p)' \in Nat
            /\ Ordered(p)' <= Ordered(p)
            /\ DOMAIN Sales' = DOMAIN Sales => Ordered(p)' = Ordered(p)
        BY <1>0, <2>1, CancelLessens
      <3>2. Stock' = Stock
        BY <2>1 DEF L!Cancel
      <3>3. (\A c \in Contacts : contact'[c] # "deleted") =>
               /\ \A c \in Contacts : contact[c] # "deleted"
               /\ DOMAIN Sales' = DOMAIN Sales
        BY <1>0, <1>3, NoneDisappears
      <3> QED
        BY <1>1, <2>2, <3>1, <3>2, <3>3
    <2> QED
      BY <2>2 DEF Conservation
  <1>4. CASE UNCHANGED vars
    <2>1. UNCHANGED <<order, item, info, contact>>
      BY <1>4 DEF vars, tables, orders, items, goods
    <2>2. Stock' = Stock /\ \A p \in InfoIds : Ordered(p)' = Ordered(p)
      BY <2>1, StockUnchanged
      DEF Ordered, Held, Placed, Quantity, Line, Rows
    <2> QED
      BY <2>1, <2>2 DEF Conservation
  <1> QED
    BY <1>2, <1>3, <1>4

\* Stock and orders add up: what the shops had is in stock or in a placed
\* order, to the piece, until an order vanishes with its address, and never
\* is there more of it than there was (orders/views.py,
\* ConfirmOrderView.post, beside every handler that changes an order).
THEOREM StockAndOrdersAddUp ==
    ASSUME OneRequestEach, ~ CacheFaults
    PROVE  Spec => []Conservation
  <1>1. CacheInv /\ CacheInv' /\ Sells /\ Conservation /\ [Next]_vars =>
           Conservation'
    BY NextConserves
  <1>2. CacheInv => IInv
    BY DEF CacheInv, TabInv
  <1> QED
    BY <1>1, <1>2, InitConserves, InitSells, NextSells, CacheInvariant, PTL
    DEF Spec

=============================================================================
