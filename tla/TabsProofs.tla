----------------------------- MODULE TabsProofs -----------------------------
(***************************************************************************)
(* Theorems about any number of requests of a buyer at once (two tabs, a   *)
(* double click), a cache that may lose invalidations and workers that may *)
(* die: the checkout implements the open ledger, a buyer's carts are       *)
(* bounded by the requests under way, a placed order that no handler holds *)
(* stays what it is, and the cached cart goes stale by a loss only.        *)
(***************************************************************************)
EXTENDS CheckoutProofs, CheckoutLedger, FiniteSetTheorems

----------------------------------------------------------------------------
(* A confirmation sells something. *)

\* A confirmation on its way to the commit holds at least one piece.
Sells == \A r \in Requests : pc[r] \in InTransaction =>
            \E p \in InfoIds : loc[r].lines[p] > 0

\* No transaction begins and those that are open keep their locals.
NoneBegins ==
    \A t \in Requests : pc'[t] \in InTransaction =>
        pc[t] \in InTransaction /\ loc'[t] = loc[t]

\* A request that goes on outside a transaction begins none.
LEMMA GoesOn ==
    ASSUME CheckoutTypeOK, NEW r \in Requests, NEW place, NEW l,
           place \notin InTransaction, Goto(r, place, l)
    PROVE  NoneBegins
  BY DEF Goto, CheckoutTypeOK, NoneBegins

\* Nor does one that ends.
LEMMA Ends ==
    ASSUME CheckoutTypeOK, NEW r \in Requests, Finish(r)
    PROVE  NoneBegins
  <1>1. "idle" \notin InTransaction
    BY DEF InTransaction
  <1> QED
    BY <1>1, GoesOn DEF Finish

\* The steps that begin no transaction are all but the reads of a
\* confirmation.
LEMMA OnlyConfirmReadBegins ==
    ASSUME CheckoutTypeOK, Next,
           \A r \in Requests, c \in Contacts, o \in OrderIds :
              ~ ConfirmRead(r, c, o)
    PROVE  NoneBegins
  <1>0. pc \in [Requests -> Places] /\ loc \in [Requests -> Local]
    BY DEF CheckoutTypeOK
  <1>1. ASSUME NEW r \in Requests, Request(r) PROVE NoneBegins
    <2>1. ASSUME NEW op, Arrive(r, op) PROVE NoneBegins
      BY <2>1, GoesOn DEF Arrive, InTransaction
    <2>2. ASSUME NEW p, NEW q, Add(r, p, q) PROVE NoneBegins
      BY <2>2, GoesOn DEF Add, InTransaction
    <2>3. ASSUME NEW c, ConfirmReject(r, c) PROVE NoneBegins
      BY <2>3 DEF ConfirmReject, handlers, NoneBegins
    <2>4. ASSUME NEW c, CollectContact(r, c) PROVE NoneBegins
      BY <2>4, GoesOn DEF CollectContact, InTransaction
    <2> QED
      BY <1>1, <2>1, <2>2, <2>3, <2>4 DEF Request
  <1>2. ASSUME NEW r \in Requests, Step(r) PROVE NoneBegins
    <2>1. CASE GetCart(r) \/ CreateCart(r)
      <3>1. CASE GetCart(r)
        BY <3>1, <1>0 DEF GetCart, Finish, Goto, InTransaction, NoneBegins
      <3>2. CASE CreateCart(r)
        BY <3>2, <1>0 DEF CreateCart, Finish, Goto, InTransaction, NoneBegins
      <3> QED
        BY <2>1, <3>1, <3>2
    <2>2. CASE Invalidate(r) \/ LoseInvalidation(r)
      BY <2>2, GoesOn, Ends
      DEF Invalidate, LoseInvalidation, AfterInvalidation, InTransaction
    <2>3. CASE ViewItems(r) \/ PickItem(r) \/ ChangeItem(r)
      BY <2>3, <1>0
      DEF ViewItems, PickItem, ChangeItem, Finish, Goto, InTransaction,
          NoneBegins
    <2>4. CASE GetItem(r) \/ InsertItem(r)
      BY <2>4, <1>0
      DEF GetItem, InsertItem, AddTo, Finish, Goto, InTransaction, NoneBegins
    <2>5. CASE \/ SaveItem(r) \/ DeleteItem(r) \/ ClearItems(r)
               \/ DeleteContact(r) \/ Locked(r)
      BY <2>5, Ends
      DEF SaveItem, DeleteItem, ClearItems, DeleteContact, Locked, Abort
    <2>6. ASSUME NEW sent \in BOOLEAN, ConfirmWrite(r, sent) PROVE NoneBegins
      BY <2>6 DEF ConfirmWrite, Goto, CheckoutTypeOK, InTransaction, NoneBegins
    <2>7. CASE ConfirmCommit(r)
      BY <2>7, GoesOn, Ends DEF ConfirmCommit, InTransaction
    <2> QED
      BY <1>2, <2>1, <2>2, <2>3, <2>4, <2>5, <2>6, <2>7 DEF Step
  <1>3. ASSUME NEW r \in Requests, Crash(r) PROVE NoneBegins
    BY <1>3, Ends DEF Crash, Abort
  <1> QED
    BY <1>1, <1>2, <1>3
    DEF Next, CreateContact, PartnerState, CacheExpire, handlers, NoneBegins

\* A cart that can be confirmed has a row, and a row has a piece.
LEMMA ConfirmReadSells ==
    ASSUME CheckoutTypeOK, Sells, NEW r \in Requests, NEW c \in Contacts,
           NEW o \in OrderIds, ConfirmRead(r, c, o)
    PROVE  Sells'
  <1> DEFINE l == [Blank EXCEPT !.op = "confirm", !.cart = o, !.contact = c,
                                !.lines = LinesOf(o), !.seen = Stock]
  <1>1. l.lines = LinesOf(o)
    BY BlankTyped DEF Local
  <1>2. Goto(r, "confirm_write", l)
    BY DEF ConfirmRead
  <1> HIDE DEF l
  <1>3. PICK k \in ItemIds : item[k] # NoRow /\ item[k].order = o
    BY DEF ConfirmRead, Confirmable, Rows
  <1>4. item[k] \in ItemRow
    BY <1>3 DEF CheckoutTypeOK, StoreTypeOK
  <1>5. PICK p \in InfoIds : p = item[k].info
    BY <1>4 DEF ItemRow
  <1>6. PICK x \in Line(o, p) : x = CHOOSE y \in Line(o, p) : TRUE
    BY <1>3, <1>5 DEF Line, Rows
  <1>7. item[x] \in ItemRow
    BY DEF Line, Rows, CheckoutTypeOK, StoreTypeOK
  <1>8. LinesOf(o)[p] = item[x].quantity
    BY <1>6 DEF LinesOf, Quantity
  <1>9. LinesOf(o)[p] > 0
    BY <1>7, <1>8 DEF ItemRow
  <1>10. loc'[r] = l /\ pc' = [pc EXCEPT ![r] = "confirm_write"]
         /\ \A t \in Requests : t # r => loc'[t] = loc[t]
    BY <1>2 DEF Goto, CheckoutTypeOK
  <1>11. ASSUME NEW t \in Requests, pc'[t] \in InTransaction
         PROVE  \E g \in InfoIds : loc'[t].lines[g] > 0
    <2>1. CASE t = r
      BY <2>1, <1>1, <1>9, <1>10
    <2>2. CASE t # r
      BY <2>2, <1>10, <1>11 DEF Sells, CheckoutTypeOK
    <2> QED
      BY <2>1, <2>2
  <1> QED
    BY <1>11 DEF Sells

\* Every step keeps that.
LEMMA NextSells ==
    IInv /\ Sells /\ [Next]_vars => Sells'
  <1> SUFFICES ASSUME IInv, Sells, [Next]_vars PROVE Sells'
    OBVIOUS
  <1>0. CheckoutTypeOK
    BY DEF IInv
  <1>1. CASE Next
    <2>1. CASE \E r \in Requests, c \in Contacts, o \in OrderIds :
                  ConfirmRead(r, c, o)
      BY <2>1, <1>0, ConfirmReadSells
    <2>2. CASE \A r \in Requests, c \in Contacts, o \in OrderIds :
                  ~ ConfirmRead(r, c, o)
      <3>1. NoneBegins
        BY <1>0, <1>1, <2>2, OnlyConfirmReadBegins
      <3> QED
        BY <3>1 DEF NoneBegins, Sells
    <2> QED
      BY <2>1, <2>2
  <1>2. CASE UNCHANGED vars
    BY <1>2 DEF vars, handlers, Sells
  <1> QED
    BY <1>1, <1>2

----------------------------------------------------------------------------
(* The refinement. *)

\* The empty shop is an empty ledger.
LEMMA InitLedger == Init => L!LedgerInit
  <1> SUFFICES ASSUME Init PROVE L!LedgerInit
    OBVIOUS
  <1>1. Stock \in [InfoIds -> Nat]
    BY InitIInv, StockTyped DEF IInv
  <1>2. PlacedOrders = {}
    BY DEF Init, PlacedOrders, Placed
  <1> QED
    BY <1>1, <1>2 DEF L!LedgerInit, L!Pieces, Sales

\* A commit deducts what the order holds.
LEMMA CommitIsDeduct ==
    ASSUME IInv, IInv', Sells, NEW r \in Requests, ConfirmCommit(r)
    PROVE  \E o \in OrderIds : o = loc[r].cart /\ L!Deduct(o)
  <1>0. /\ CheckoutTypeOK /\ order \in [OrderIds -> OrderRow \cup {NoRow}]
        /\ CheckoutTypeOK'
    BY DEF IInv, CheckoutTypeOK, StoreTypeOK
  <1>1. PICK o \in OrderIds :
           /\ o = loc[r].cart /\ Placed(o)'
           /\ loc[r].lines = LinesOf(o)
           /\ LinesOf(o)' = LinesOf(o)
           /\ \A p \in InfoIds : Stock'[p] + LinesOf(o)'[p] = Stock[p]
    BY CommitDeducts
  <1>2. LinesOf(o) \in [InfoIds -> Nat]
    BY <1>0, LinesTyped
  <1>3. PICK g \in InfoIds : LinesOf(o)[g] > 0
    BY <1>1 DEF Sells, ConfirmCommit, InTransaction
  <1>4. ASSUME NEW x \in OrderIds, x # o
        PROVE  Placed(x)' = Placed(x) /\ LinesOf(x)' = LinesOf(x)
    <2>1. order'[x] = order[x]
      BY <1>0, <1>1, <1>4 DEF ConfirmCommit
    <2> QED
      BY <2>1, RowsUnchanged DEF Placed, ConfirmCommit, items
  <1>5. PlacedOrders' = PlacedOrders \cup {o}
    BY <1>1, <1>4 DEF PlacedOrders
  <1>6. Stock' \in [InfoIds -> Nat]
    <2>1. ASSUME NEW p \in InfoIds, info'[p] # NoRow
          PROVE  info'[p].quantity \in Nat
      BY <2>1, <1>0 DEF CheckoutTypeOK, StoreTypeOK, InfoRow
    <2> QED
      BY <2>1 DEF Stock
  <1>7. /\ DOMAIN Sales = PlacedOrders /\ DOMAIN Sales' = PlacedOrders'
        /\ Sales'[o] = LinesOf(o)
        /\ \A x \in PlacedOrders \ {o} : Sales'[x] = Sales[x]
    BY <1>1, <1>4, <1>5 DEF Sales, PlacedOrders
  <1>8. \A p \in InfoIds : Sales'[o][p] + Stock'[p] = Stock[p]
    BY <1>0, <1>1, <1>2, <1>6, <1>7, StockTyped
  <1> QED
    BY <1>1, <1>2, <1>3, <1>5, <1>6, <1>7, <1>8 DEF L!Deduct, L!Pieces

\* Every other step leaves the stock alone and places no order.
LEMMA RestAmends ==
    ASSUME IInv, Next, \A r \in Requests : ~ ConfirmCommit(r)
    PROVE  L!Amend
  <1>0. /\ CheckoutTypeOK /\ KeysFresh
        /\ order \in [OrderIds -> OrderRow \cup {NoRow}]
    BY DEF IInv, HandlersConsistent, CheckoutTypeOK, StoreTypeOK
  <1>1. UNCHANGED info /\ (order' = order
                           \/ \E r \in Requests : CreateCart(r)
                           \/ \E q \in Requests : DeleteContact(q))
    <2>1. CASE \E r \in Requests : Request(r) \/ Crash(r)
      BY <2>1
      DEF Request, Arrive, Add, ConfirmRead, ConfirmReject, CollectContact,
          Crash, Abort, tables, orders, goods
    <2>2. CASE \E r \in Requests : Step(r)
      BY <2>2
      DEF Step, GetCart, CreateCart, Invalidate, LoseInvalidation, ViewItems,
          GetItem, InsertItem, ChangeItem, SaveItem, PickItem, DeleteItem,
          ClearItems, ConfirmWrite, DeleteContact, Locked, Abort, tables, orders, goods
    <2> QED
      BY <2>1, <2>2
      DEF Next, CreateContact, PartnerState, CacheExpire, tables, orders, goods
  <1>2. Stock' = Stock
    BY <1>1, StockUnchanged
  <1>3. ASSUME NEW o \in OrderIds, Placed(o)' PROVE Placed(o)
    <2>1. CASE order' = order
      BY <2>1, <1>3 DEF Placed
    <2>2. ASSUME NEW r \in Requests, CreateCart(r) PROVE Placed(o)
      <3>1. PICK row : row = [user |-> Issuer[r], state |-> "basket",
                              contact |-> NoRow]
        OBVIOUS
      <3>2. row.state = "basket"
        BY <3>1
      <3>3. order' = order \/ order' = [order EXCEPT ![nextOrder] = row]
        BY <2>2, <3>1 DEF CreateCart, orders
      <3>4. order'[o] = order[o] \/ order'[o] = row
        BY <3>3, <1>0
      <3> QED
        BY <3>2, <3>4, <1>3 DEF Placed
    <2>3. ASSUME NEW r \in Requests, DeleteContact(r) PROVE Placed(o)
      <3>1. order'[o] = order[o] \/ order'[o] = NoRow
        BY <2>3 DEF DeleteContact
      <3> QED
        BY <3>1, <1>3 DEF Placed
    <2> QED
      BY <1>1, <2>1, <2>2, <2>3
  <1>4. PlacedOrders' \subseteq PlacedOrders
    BY <1>3 DEF PlacedOrders
  <1>5. DOMAIN Sales = PlacedOrders /\ DOMAIN Sales' = PlacedOrders'
    BY DEF Sales
  <1> QED
    BY <1>2, <1>4, <1>5 DEF L!Amend

\* Nothing that keeps all variables writes to the ledger.
LEMMA StutterLedger ==
    ASSUME UNCHANGED vars
    PROVE  UNCHANGED L!ledger
  <1>1. UNCHANGED <<order, item, info>>
    BY DEF vars, tables, orders, items, goods
  <1>2. Stock' = Stock
    BY <1>1, StockUnchanged
  <1>3. PlacedOrders' = PlacedOrders
    BY <1>1 DEF PlacedOrders, Placed
  <1>4. Sales' = Sales
    BY <1>1, <1>3, RowsUnchanged DEF Sales, PlacedOrders
  <1> QED
    BY <1>2, <1>4 DEF L!ledger

\* At the start no confirmation is under way.
LEMMA InitSells == Init => Sells
  BY DEF Init, Sells, InTransaction

\* The checkout keeps the open ledger: whatever buyers, the cache and the
\* workers do, no piece leaves the stock without an order that holds it,
\* no order is placed without its pieces leaving the stock, and none is
\* sold that is not there (orders/views.py, ConfirmOrderView.post).
THEOREM CheckoutKeepsLedger == Spec => KeepsOpenLedger
  <1>1. IInv /\ IInv' /\ Sells /\ [Next]_vars => [L!OpenNext]_(L!ledger)
    <2> SUFFICES ASSUME IInv, IInv', Sells, [Next]_vars
                 PROVE  [L!OpenNext]_(L!ledger)
      OBVIOUS
    <2>1. CASE \E r \in Requests : ConfirmCommit(r)
      BY <2>1, CommitIsDeduct DEF L!OpenNext
    <2>2. CASE Next /\ \A r \in Requests : ~ ConfirmCommit(r)
      BY <2>2, RestAmends DEF L!OpenNext
    <2>3. CASE UNCHANGED vars
      BY <2>3, StutterLedger
    <2> QED
      BY <2>1, <2>2, <2>3
  <1> QED
    BY <1>1, InitLedger, InitSells, NextSells, Inductive, PTL
    DEF Spec, KeepsOpenLedger, L!OpenLedgerSpec

----------------------------------------------------------------------------
(* Any number of requests of one buyer at once. *)

\* A handler moves by a step of its own.
LEMMA OwnMoves ==
    ASSUME CheckoutTypeOK, Next, NEW t \in Requests
    PROVE  \/ pc'[t] = pc[t] /\ loc'[t] = loc[t]
           \/ Request(t) \/ Step(t) \/ Crash(t)
  <1>1. ASSUME NEW r \in Requests, t # r, NEW place, NEW l, Goto(r, place, l)
        PROVE  pc'[t] = pc[t] /\ loc'[t] = loc[t]
    BY <1>1 DEF Goto, CheckoutTypeOK
  <1>2. ASSUME NEW r \in Requests, t # r, Request(r)
        PROVE  pc'[t] = pc[t] /\ loc'[t] = loc[t]
    BY <1>1, <1>2
    DEF Request, Arrive, Add, ConfirmRead, ConfirmReject, CollectContact,
        handlers
  <1>3. ASSUME NEW r \in Requests, t # r, Step(r) \/ Crash(r)
        PROVE  pc'[t] = pc[t] /\ loc'[t] = loc[t]
    <2>1. CASE GetCart(r) \/ CreateCart(r) \/ Invalidate(r) \/ LoseInvalidation(r)
      BY <1>1, <1>3, <2>1
      DEF GetCart, CreateCart, Invalidate, LoseInvalidation, AfterInvalidation,
          Finish
    <2>2. CASE ViewItems(r) \/ GetItem(r) \/ InsertItem(r) \/ ChangeItem(r)
      BY <1>1, <1>3, <2>2
      DEF ViewItems, GetItem, InsertItem, ChangeItem, AddTo, Finish
    <2>3. CASE SaveItem(r) \/ PickItem(r) \/ DeleteItem(r) \/ ClearItems(r)
      BY <1>1, <1>3, <2>3 DEF SaveItem, PickItem, DeleteItem, ClearItems, Finish
    <2>4. CASE \/ \E sent \in BOOLEAN : ConfirmWrite(r, sent)
               \/ ConfirmCommit(r) \/ DeleteContact(r) \/ Locked(r) \/ Crash(r)
      BY <1>1, <1>3, <2>4
      DEF ConfirmWrite, ConfirmCommit, DeleteContact, Locked, Crash, Abort,
          Finish
    <2> QED
      BY <1>3, <2>1, <2>2, <2>3, <2>4 DEF Step
  <1> QED
    BY <1>2, <1>3
    DEF Next, CreateContact, PartnerState, CacheExpire, handlers

\* The steps that write to orders.
LEMMA OrderWriters ==
    ASSUME Next, order' # order
    PROVE  \E r \in Requests :
              CreateCart(r) \/ ConfirmCommit(r) \/ DeleteContact(r)
  <1>1. CASE \E r \in Requests : Request(r) \/ Crash(r)
    BY <1>1
    DEF Request, Arrive, Add, ConfirmRead, ConfirmReject, CollectContact,
        Crash, Abort, tables, orders
  <1>2. CASE \E r \in Requests : Step(r)
    BY <1>2
    DEF Step, GetCart, Invalidate, LoseInvalidation, ViewItems,
        GetItem, InsertItem, ChangeItem, SaveItem, PickItem, DeleteItem,
        ClearItems, ConfirmWrite, Locked, Abort, tables, orders
  <1> QED
    BY <1>1, <1>2
    DEF Next, CreateContact, PartnerState, CacheExpire, tables, orders

\* Order o is a cart.
Basket(o) == order[o] # NoRow /\ order[o].state = "basket"

\* A cart has no address yet.
CartsUnaddressed == \A o \in OrderIds : Basket(o) => order[o].contact = NoRow

\* What request r has read for good.
Remembers(r) ==
    /\ pc[r] \in InTransaction => loc[r].op = "confirm"
    /\ pc[r] = "delete_contact" => \A o \in loc[r].orders : ~ Basket(o)

\* The invariant of any number of tabs.
TabsInv ==
    /\ IInv
    /\ Ownership
    /\ CartsUnaddressed
    /\ \A r \in Requests : Remembers(r)

\* A cart that was none before is new and has no address.
LEMMA NewCarts ==
    ASSUME CheckoutTypeOK, Next, NEW o \in OrderIds, Basket(o)'
    PROVE  \/ order'[o] = order[o]
           \/ /\ o = nextOrder /\ order'[o].contact = NoRow
              /\ \E r \in Requests :
                    CreateCart(r) /\ pc'[r] = "invalidate" /\ loc'[r].cart = o
                    /\ order'[o].user = Issuer[r]
  <1>0. order \in [OrderIds -> OrderRow \cup {NoRow}]
    BY DEF CheckoutTypeOK, StoreTypeOK
  <1>1. ASSUME NEW r \in Requests, CreateCart(r), order'[o] # order[o]
        PROVE  /\ o = nextOrder /\ order'[o].contact = NoRow
               /\ pc'[r] = "invalidate" /\ loc'[r].cart = o
               /\ order'[o].user = Issuer[r]
    <2> DEFINE row == [user |-> Issuer[r], state |-> "basket",
                       contact |-> NoRow]
               l == [loc[r] EXCEPT !.cart = nextOrder]
    <2>1. /\ order' = [order EXCEPT ![nextOrder] = row]
          /\ Goto(r, "invalidate", l)
      BY <1>1 DEF CreateCart, orders
    <2>2. row.contact = NoRow /\ row.user = Issuer[r]
      OBVIOUS
    <2>3. l.cart = nextOrder
      BY DEF CheckoutTypeOK, Local
    <2> HIDE DEF row, l
    <2>4. pc'[r] = "invalidate" /\ loc'[r] = l
      BY <2>1, GotoSets
    <2> QED
      BY <1>0, <1>1, <2>1, <2>2, <2>3, <2>4
  <1>2. ASSUME NEW r \in Requests, ConfirmCommit(r) PROVE order'[o] = order[o]
    <2>1. PICK row : /\ row.state = "new"
                     /\ order' = [order EXCEPT ![loc[r].cart] = row]
      BY <1>2 DEF ConfirmCommit
    <2>2. o # loc[r].cart
      BY <1>0, <2>1 DEF Basket
    <2> QED
      BY <1>0, <2>1, <2>2
  <1>3. ASSUME NEW r \in Requests, DeleteContact(r) PROVE order'[o] = order[o]
    BY <1>0, <1>3 DEF DeleteContact, Basket
  <1> QED
    BY <1>1, <1>2, <1>3, OrderWriters

\* What a handler remembers stays true.
LEMMA NextRemembers ==
    ASSUME TabsInv, Next, NEW t \in Requests
    PROVE  Remembers(t)'
  <1>0. /\ CheckoutTypeOK /\ Integrity /\ loc[t] \in Local
        /\ order \in [OrderIds -> OrderRow \cup {NoRow}]
    BY DEF TabsInv, IInv, CheckoutTypeOK, StoreTypeOK
  <1>1. ASSUME NEW o \in OrderIds, o < nextOrder, ~ Basket(o)
        PROVE  ~ Basket(o)'
    <2>1. order'[o] = order[o] => Basket(o)' = Basket(o)
      BY DEF Basket
    <2>2. o # nextOrder
      BY <1>1 DEF OrderIds
    <2> QED
      BY <1>0, <1>1, <2>1, <2>2, NewCarts
  <1>2. CASE pc'[t] = pc[t] /\ loc'[t] = loc[t]
    <2>1. \A o \in loc[t].orders : o \in OrderIds /\ o < nextOrder
      BY <1>0 DEF TabsInv, Ownership, BelongsTo, Local
    <2> QED
      BY <1>1, <1>2, <2>1 DEF TabsInv, Remembers
  <1>3. ASSUME NEW place, NEW l, Goto(t, place, l),
               place \notin InTransaction, place # "delete_contact"
        PROVE  Remembers(t)'
    BY <1>0, <1>3, GotoSets DEF Remembers
  <1>4. CASE Request(t)
    <2>1. ASSUME NEW c \in Contacts, CollectContact(t, c) PROVE Remembers(t)'
      <3> DEFINE sentTo == {o \in OrderIds : order[o] # NoRow
                                         /\ order[o].contact = c}
                 l == [Blank EXCEPT !.op = "forget", !.contact = c,
                                    !.orders = sentTo]
      <3>1. Goto(t, "delete_contact", l)
        BY <2>1 DEF CollectContact
      <3>2. l.orders = sentTo
        BY DEF Blank
      <3>3. \A o \in sentTo : ~ Basket(o)
        BY NoRowIsNoValue DEF TabsInv, CartsUnaddressed
      <3>4. UNCHANGED order
        BY <2>1 DEF CollectContact, tables, orders
      <3> HIDE DEF l, sentTo
      <3>5. pc'[t] = "delete_contact" /\ loc'[t] = l
        BY <1>0, <3>1, GotoSets
      <3> QED
        BY <3>2, <3>3, <3>4, <3>5 DEF Remembers, InTransaction, Basket
    <2>2. ASSUME NEW c \in Contacts, NEW o \in OrderIds, ConfirmRead(t, c, o)
          PROVE  Remembers(t)'
      <3> DEFINE l == [Blank EXCEPT !.op = "confirm", !.cart = o, !.contact = c,
                                    !.lines = LinesOf(o), !.seen = Stock]
      <3>1. Goto(t, "confirm_write", l) /\ l.op = "confirm"
        BY <2>2 DEF ConfirmRead, Blank
      <3> HIDE DEF l
      <3> QED
        BY <1>0, <3>1, GotoSets DEF Remembers, InTransaction
    <2>3. ASSUME NEW c \in Contacts, ConfirmReject(t, c) PROVE Remembers(t)'
      BY <1>2, <2>3 DEF ConfirmReject, handlers
    <2>4. ASSUME NEW op, Arrive(t, op) PROVE Remembers(t)'
      BY <1>3, <2>4 DEF Arrive, InTransaction
    <2>5. ASSUME NEW p, NEW q, Add(t, p, q) PROVE Remembers(t)'
      BY <1>3, <2>5 DEF Add, InTransaction
    <2> QED
      BY <1>4, <2>1, <2>2, <2>3, <2>4, <2>5 DEF Request
  <1>5. CASE Step(t) \/ Crash(t)
    <2>0. CASE Finish(t)
      BY <1>3, <2>0 DEF Finish, InTransaction
    <2>1. CASE GetCart(t) \/ CreateCart(t)
      <3>1. CASE GetCart(t)
        <4>1. ASSUME NEW l, Goto(t, "item", l) PROVE Remembers(t)'
          BY <1>3, <4>1 DEF InTransaction
        <4>2. CASE Goto(t, "create_cart", loc[t])
          BY <1>3, <4>2 DEF InTransaction
        <4> QED
          BY <2>0, <3>1, <4>1, <4>2 DEF GetCart
      <3>2. CASE CreateCart(t)
        BY <1>3, <2>0, <3>2 DEF CreateCart, InTransaction
      <3> QED
        BY <2>1, <3>1, <3>2
    <2>2. CASE \/ Invalidate(t) \/ LoseInvalidation(t) \/ ViewItems(t)
               \/ ClearItems(t) \/ DeleteItem(t) \/ SaveItem(t)
      <3>1. Finish(t) \/ Goto(t, "item", loc[t])
        BY <2>2
        DEF Invalidate, LoseInvalidation, AfterInvalidation, ViewItems,
            ClearItems, DeleteItem, SaveItem
      <3> QED
        BY <1>3, <2>0, <3>1 DEF InTransaction
    <2>3. CASE \/ GetItem(t) \/ InsertItem(t) \/ ChangeItem(t) \/ PickItem(t)
      <3>1. ASSUME NEW k, AddTo(t, k) PROVE Remembers(t)'
        BY <1>3, <2>0, <3>1 DEF AddTo, InTransaction
      <3>2. CASE GetItem(t)
        BY <1>3, <3>1, <3>2 DEF GetItem, InTransaction
      <3>3. CASE InsertItem(t)
        BY <2>0, <3>1, <3>3 DEF InsertItem
      <3>4. CASE ChangeItem(t)
        <4>1. ASSUME NEW l, Goto(t, "save_item", l) PROVE Remembers(t)'
          BY <1>3, <4>1 DEF InTransaction
        <4> QED
          BY <2>0, <3>4, <4>1 DEF ChangeItem
      <3>5. CASE PickItem(t)
        <4>1. ASSUME NEW l, Goto(t, "delete_item", l) PROVE Remembers(t)'
          BY <1>3, <4>1 DEF InTransaction
        <4> QED
          BY <2>0, <3>5, <4>1 DEF PickItem
      <3> QED
        BY <2>3, <3>2, <3>3, <3>4, <3>5
    <2>4. CASE \E sent \in BOOLEAN : ConfirmWrite(t, sent)
      <3>1. Goto(t, "confirm_commit", loc[t]) /\ loc[t].op = "confirm"
        BY <2>4 DEF ConfirmWrite, TabsInv, Remembers, InTransaction
      <3> QED
        BY <1>0, <3>1, GotoSets DEF Remembers, InTransaction
    <2>5. CASE ConfirmCommit(t) \/ DeleteContact(t) \/ Locked(t) \/ Crash(t)
      BY <1>3, <2>0, <2>5
      DEF ConfirmCommit, DeleteContact, Locked, Crash, Abort, InTransaction
    <2> QED
      BY <1>5, <2>1, <2>2, <2>3, <2>4, <2>5 DEF Step
  <1> QED
    BY <1>0, <1>2, <1>4, <1>5, OwnMoves

LEMMA InitTabs == Init => TabsInv
  BY InitIInv, InitOwnership
  DEF Init, TabsInv, CartsUnaddressed, Basket, Remembers, InTransaction

LEMMA NextTabs == TabsInv /\ [Next]_vars => TabsInv'
  <1> SUFFICES ASSUME TabsInv, [Next]_vars PROVE TabsInv'
    OBVIOUS
  <1>1. IInv' /\ Ownership'
    BY NextIInv, NextOwnership, StutterOwnership DEF TabsInv
  <1>2. CASE Next
    <2>1. CheckoutTypeOK
      BY DEF TabsInv, IInv
    <2>2. ASSUME NEW o \in OrderIds, Basket(o)'
          PROVE  order'[o].contact = NoRow
      <3>1. order'[o] = order[o] => Basket(o)
        BY <2>2 DEF Basket
      <3> QED
        BY <1>2, <2>1, <2>2, <3>1, NewCarts DEF TabsInv, CartsUnaddressed
    <2> QED
      BY <1>1, <1>2, <2>2, NextRemembers DEF TabsInv, CartsUnaddressed
  <1>3. CASE UNCHANGED vars
    <2>1. UNCHANGED <<order, pc, loc>>
      BY <1>3 DEF vars, tables, orders, handlers
    <2> QED
      BY <1>1, <2>1 DEF TabsInv, CartsUnaddressed, Basket, Remembers
  <1> QED
    BY <1>2, <1>3

\* However many requests of a buyer are under way, a cart has no address,
\* the deletion of an address collects no cart, and the locals of a
\* confirmation are a confirmation's (cart/views.py, orders/views.py).
THEOREM TabsInvariant == Spec => []TabsInv
  BY InitTabs, NextTabs, PTL DEF Spec

----------------------------------------------------------------------------
(* How many carts a buyer can have. *)

\* The requests of buyer u, and those of them about to create a cart.
Own(u) == {r \in Requests : Issuer[r] = u}
Creating(u) == {r \in Own(u) : pc[r] = "create_cart"}

\* The keys of orders are finitely many.
LEMMA FiniteOrders == IsFiniteSet(OrderIds)
  BY StoreAssumption, FS_Interval DEF OrderIds

LEMMA FiniteTabs ==
    ASSUME NEW u
    PROVE  /\ IsFiniteSet(Own(u)) /\ IsFiniteSet(Creating(u))
           /\ IsFiniteSet(Baskets(u)) /\ Cardinality(Own(u)) \in Nat
           /\ Cardinality(Creating(u)) \in Nat
           /\ Cardinality(Baskets(u)) \in Nat
  <1>1. IsFiniteSet(Own(u))
    BY CheckoutAssumption, FS_Subset DEF Own
  <1>2. IsFiniteSet(Creating(u))
    BY <1>1, FS_Subset DEF Creating
  <1>3. IsFiniteSet(Baskets(u))
    BY FiniteOrders, FS_Subset DEF Baskets
  <1> QED
    BY <1>1, <1>2, <1>3, FS_CardinalityType

\* Only get_cart leads to the creation of a cart, having found none.
LEMMA CreationBegins ==
    ASSUME CheckoutTypeOK, Next, NEW t \in Requests, pc'[t] = "create_cart"
    PROVE  \/ pc[t] = "create_cart"
           \/ GetCart(t) /\ Baskets(Issuer[t]) = {}
  <1>1. ASSUME NEW place, NEW l, Goto(t, place, l) PROVE place = "create_cart"
    BY <1>1, GotoSets
  <1>2. ~ Finish(t)
    BY <1>1 DEF Finish
  <1>3. CASE Request(t)
    <2>1. ASSUME NEW c, ConfirmReject(t, c) PROVE pc[t] = "create_cart"
      BY <2>1 DEF ConfirmReject, handlers
    <2> QED
      BY <1>1, <1>3, <2>1
      DEF Request, Arrive, Add, ConfirmRead, CollectContact
  <1>4. CASE Step(t) \/ Crash(t)
    <2>1. ~ ViewItems(t) /\ ~ SaveItem(t) /\ ~ DeleteItem(t) /\ ~ ClearItems(t)
          /\ ~ DeleteContact(t) /\ ~ Locked(t) /\ ~ Crash(t)
      BY <1>2
      DEF ViewItems, SaveItem, DeleteItem, ClearItems, DeleteContact, Locked,
          Crash, Abort
    <2>2. ~ Invalidate(t) /\ ~ LoseInvalidation(t)
      BY <1>1, <1>2 DEF Invalidate, LoseInvalidation, AfterInvalidation
    <2>3. ~ ChangeItem(t) /\ ~ PickItem(t)
      BY <1>1, <1>2 DEF ChangeItem, PickItem
    <2>4. \A k : ~ AddTo(t, k)
      BY <1>1, <1>2 DEF AddTo
    <2>5. ~ GetItem(t) /\ ~ InsertItem(t)
      BY <1>1, <1>2, <2>4 DEF GetItem, InsertItem
    <2>6. ~ ConfirmCommit(t) /\ \A sent \in BOOLEAN : ~ ConfirmWrite(t, sent)
      BY <1>1, <1>2 DEF ConfirmCommit, ConfirmWrite
    <2>7. CASE CreateCart(t)
      BY <2>7 DEF CreateCart, Writes
    <2>8. CASE GetCart(t)
      BY <1>1, <1>2, <2>8 DEF GetCart
    <2> QED
      BY <1>4, <2>1, <2>2, <2>3, <2>5, <2>6, <2>7, <2>8 DEF Step
  <1> QED
    BY <1>3, <1>4, OwnMoves

LEMMA NextCartsBounded ==
    ASSUME TabsInv, CartsBounded, Next
    PROVE  CartsBounded'
  <1>0. CheckoutTypeOK /\ pc \in [Requests -> Places] /\ KeysFresh
    BY DEF TabsInv, IInv, CheckoutTypeOK, HandlersConsistent
  <1> SUFFICES ASSUME NEW u \in Users
               PROVE  Cardinality(Baskets(u)') + Cardinality(Creating(u)')
                         <= Cardinality(Own(u))
    BY DEF CartsBounded, Own, Creating
  <1>1. Cardinality(Baskets(u)) + Cardinality(Creating(u))
           <= Cardinality(Own(u))
    BY DEF CartsBounded, Own, Creating
  <1>2. ASSUME NEW A \in SUBSET Baskets(u), NEW B \in SUBSET Creating(u)
        PROVE  Cardinality(A) + Cardinality(B) <= Cardinality(Own(u))
    <2>1. /\ IsFiniteSet(A) /\ Cardinality(A) <= Cardinality(Baskets(u))
          /\ IsFiniteSet(B) /\ Cardinality(B) <= Cardinality(Creating(u))
      BY FiniteTabs, FS_Subset
    <2>2. Cardinality(A) \in Nat /\ Cardinality(B) \in Nat
      BY <2>1, FS_CardinalityType
    <2> QED
      BY <1>1, <2>1, <2>2, FiniteTabs
  \* Nobody begins to create a cart for u.
  <1>3. CASE Creating(u)' \subseteq Creating(u)
    <2>1. CASE \A o \in Baskets(u)' : order'[o] = order[o]
      <3>1. Baskets(u)' \subseteq Baskets(u)
        BY <2>1 DEF Baskets
      <3> QED
        BY <1>2, <1>3, <3>1
    <2>2. ASSUME NEW o \in Baskets(u)', order'[o] # order[o]
          PROVE  Cardinality(Baskets(u)') + Cardinality(Creating(u)')
                    <= Cardinality(Own(u))
      <3>1. o \in OrderIds /\ Basket(o)' /\ order'[o].user = u
        BY DEF Baskets, Basket
      <3>2. PICK r \in Requests :
               /\ o = nextOrder /\ CreateCart(r) /\ pc'[r] = "invalidate"
               /\ Issuer[r] = u
        BY <1>0, <2>2, <3>1, NewCarts
      <3>3. r \in Creating(u) /\ r \notin Creating(u)'
        BY <3>2 DEF CreateCart, Writes, Creating, Own
      <3>4. /\ Baskets(u)' \ {o} \in SUBSET Baskets(u)
        <4>1. ASSUME NEW x \in Baskets(u)', x # o PROVE x \in Baskets(u)
          <5>1. order'[x] = order[x]
            BY <1>0, <3>2, <4>1, NewCarts DEF Baskets, Basket
          <5> QED
            BY <4>1, <5>1 DEF Baskets
        <4> QED
          BY <4>1
      <3>5. /\ IsFiniteSet(Baskets(u)') /\ IsFiniteSet(Creating(u)')
            /\ Cardinality(Baskets(u)') \in Nat
            /\ Cardinality(Creating(u)') \in Nat
        <4>1. IsFiniteSet(Baskets(u)') /\ IsFiniteSet(Creating(u)')
          BY <1>3, FiniteOrders, FiniteTabs, FS_Subset DEF Baskets
        <4> QED
          BY <4>1, FS_CardinalityType
      <3>6. Cardinality(Baskets(u)' \ {o}) = Cardinality(Baskets(u)') - 1
        BY <2>2, <3>5, FS_RemoveElement
      <3>7. Cardinality(Creating(u)' \cup {r}) = Cardinality(Creating(u)') + 1
        BY <3>3, <3>5, FS_AddElement
      <3>8. Creating(u)' \cup {r} \in SUBSET Creating(u)
        BY <1>3, <3>3
      <3>9. Cardinality(Baskets(u)' \ {o}) + Cardinality(Creating(u)' \cup {r})
               <= Cardinality(Own(u))
        BY <1>2, <3>4, <3>8
      <3> QED
        BY <3>5, <3>6, <3>7, <3>9, FiniteTabs
    <2> QED
      BY <2>1, <2>2
  \* Somebody does, having found that there is none.
  <1>4. ASSUME NEW t \in Creating(u)', t \notin Creating(u)
        PROVE  Cardinality(Baskets(u)') + Cardinality(Creating(u)')
                  <= Cardinality(Own(u))
    <2>1. GetCart(t) /\ Baskets(u) = {}
      BY <1>0, <1>4, CreationBegins DEF Creating, Own
    <2>2. Baskets(u)' = {}
      BY <2>1 DEF GetCart, tables, orders, Baskets
    <2>3. Creating(u)' \in SUBSET Own(u)
      BY DEF Creating, Own
    <2>4. /\ Cardinality(Creating(u)') <= Cardinality(Own(u))
          /\ Cardinality(Creating(u)') \in Nat
      BY <2>3, FiniteTabs, FS_Subset, FS_CardinalityType
    <2> QED
      BY <2>2, <2>4, FS_EmptySet
  <1> QED
    BY <1>3, <1>4

\* The race of get_or_create is bounded: nothing in the code looks for a
\* cart again before it creates one and nothing in the database forbids a
\* second, but however the requests of a buyer and of others interleave,
\* whatever crashes or is lost, a buyer never has more carts than they had
\* requests under way at once (cart/views.py, get_cart).
THEOREM CartsStayBounded == Spec => []CartsBounded
  <1>1. Init => CartsBounded
    <2> SUFFICES ASSUME Init, NEW u \in Users
                 PROVE  Cardinality(Baskets(u)) + Cardinality(Creating(u))
                           <= Cardinality(Own(u))
      BY DEF CartsBounded, Own, Creating
    <2>1. Baskets(u) = {} /\ Creating(u) = {}
      BY DEF Init, Baskets, Creating, Own
    <2> QED
      BY <2>1, FS_EmptySet, FiniteTabs
  <1>2. TabsInv /\ CartsBounded /\ [Next]_vars => CartsBounded'
    <2>1. ASSUME CartsBounded, UNCHANGED vars PROVE CartsBounded'
      <3>1. UNCHANGED <<order, pc>>
        BY <2>1 DEF vars, tables, orders, handlers
      <3> QED
        BY <2>1, <3>1 DEF CartsBounded, Baskets
    <2> QED
      BY <2>1, NextCartsBounded
  <1> QED
    BY <1>1, <1>2, TabsInvariant, PTL DEF Spec

----------------------------------------------------------------------------
(* An order that no handler of the cart holds stays what it is.            *)

\* The row under key k stays, or is none of order o, before and after.
Kept(k, o) ==
    \/ item'[k] = item[k]
    \/ /\ item[k] # NoRow => item[k].order # o
       /\ item'[k] # NoRow => item'[k].order # o

\* An order asks for what it asked for when its rows stay.
LEMMA RowsKept ==
    ASSUME NEW o \in OrderIds, \A k \in ItemIds : Kept(k, o)
    PROVE  LinesOf(o)' = LinesOf(o)
  <1>1. Rows(o)' = Rows(o) /\ \A k \in Rows(o) : item'[k] = item[k]
    BY DEF Rows, Kept
  <1>2. \A p \in InfoIds : Line(o, p)' = Line(o, p)
    BY <1>1 DEF Line
  <1>3. ASSUME NEW p \in InfoIds PROVE Quantity(o, p)' = Quantity(o, p)
    <2>1. CASE Line(o, p) = {}
      BY <1>2, <2>1 DEF Quantity
    <2>2. CASE Line(o, p) # {}
      <3>1. PICK k \in Line(o, p) : k = CHOOSE x \in Line(o, p) : TRUE
        BY <2>2
      <3>2. item'[k] = item[k]
        BY <1>1, <3>1 DEF Line
      <3>3. k = CHOOSE x \in Line(o, p)' : TRUE
        BY <1>2, <3>1
      <3> QED
        BY <1>2, <2>2, <3>1, <3>2, <3>3 DEF Quantity
    <2> QED
      BY <2>1, <2>2
  <1> QED
    BY <1>3 DEF LinesOf

\* The handlers of the cart write rows of the order they hold ...
LEMMA ItemWritesKeep ==
    ASSUME IInv, NEW r \in Requests, NEW o \in OrderIds, ~ Holds(r, o),
           InsertItem(r) \/ SaveItem(r) \/ DeleteItem(r) \/ ClearItems(r),
           NEW k \in ItemIds
    PROVE  Kept(k, o)
  <1> DEFINE row == [order |-> loc[r].cart, info |-> loc[r].info,
                     quantity |-> loc[r].quantity]
  <1>0. /\ KeysFresh /\ StaleRowsFit /\ LocalsSet(r) /\ loc[r].cart # o
        /\ item \in [ItemIds -> ItemRow \cup {NoRow}]
    <2>1. loc[r].cart # o
      BY DEF InsertItem, SaveItem, DeleteItem, ClearItems, Writes, Serves, Holds
    <2> QED
      BY <2>1
      DEF IInv, HandlersConsistent, LocalsFit, CheckoutTypeOK, StoreTypeOK
  <1>1. row.order # o
    BY <1>0
  <1> HIDE DEF row
  <1>2. CASE InsertItem(r)
    <2>1. CASE UNCHANGED items
      BY <2>1 DEF items, Kept
    <2>2. CASE nextItem \in ItemIds /\ item' = [item EXCEPT ![nextItem] = row]
      <3>1. item[nextItem] = NoRow
        BY <1>0, <2>2 DEF KeysFresh, ItemIds
      <3>2. item'[k] = IF k = nextItem THEN row ELSE item[k]
        BY <1>0, <2>2
      <3> QED
        BY <1>1, <3>1, <3>2 DEF Kept
    <2> QED
      BY <1>2, <2>1, <2>2 DEF InsertItem, row
  <1>3. CASE SaveItem(r)
    <2>1. item[loc[r].key] # NoRow => item[loc[r].key].order # o
      BY <1>0, <1>3 DEF SaveItem, Writes, StaleRowsFit, HasRow
    <2>2. item' = item \/ item' = [item EXCEPT ![loc[r].key] = row]
      BY <1>3 DEF SaveItem, row
    <2>3. item'[k] = item[k] \/ (k = loc[r].key /\ item'[k] = row)
      BY <1>0, <2>2
    <2> QED
      BY <1>1, <2>1, <2>3 DEF Kept
  <1>4. CASE DeleteItem(r)
    <2>1. item[loc[r].key] # NoRow => item[loc[r].key].order # o
      BY <1>0, <1>4 DEF DeleteItem, Writes, StaleRowsFit, HasRow
    <2>2. item'[k] = IF k = loc[r].key THEN NoRow ELSE item[k]
      BY <1>4 DEF DeleteItem, Without
    <2> QED
      BY <2>1, <2>2 DEF Kept
  <1>5. CASE ClearItems(r)
    <2>1. \/ item'[k] = item[k]
          \/ item[k].order = loc[r].cart /\ item'[k] = NoRow
      BY <1>5 DEF ClearItems, Without, Rows
    <2> QED
      BY <1>0, <2>1 DEF Kept
  <1> QED
    BY <1>2, <1>3, <1>4, <1>5

\* ... and the deletion of an address those of the orders it deletes.
LEMMA DeleteContactKeeps ==
    ASSUME CheckoutTypeOK, NEW r \in Requests, NEW o \in OrderIds, Placed(o)',
           DeleteContact(r), NEW k \in ItemIds
    PROVE  Kept(k, o)
  <1>1. CASE UNCHANGED item
    BY <1>1 DEF Kept
  <1>2. CASE /\ order' = [x \in OrderIds |->
                             IF x \in loc[r].orders THEN NoRow ELSE order[x]]
             /\ item' = Without(UNION {Rows(x) : x \in loc[r].orders})
    <2>1. o \notin loc[r].orders
      BY <1>2 DEF Placed
    <2>2. \/ item'[k] = item[k]
          \/ item[k].order \in loc[r].orders /\ item'[k] = NoRow
      BY <1>2 DEF Without, Rows
    <2> QED
      BY <2>1, <2>2 DEF Kept
  <1> QED
    BY <1>1, <1>2 DEF DeleteContact

\* Every step keeps the rows of a placed order that no handler holds.
LEMMA NextKeeps ==
    ASSUME IInv, Next, NEW o \in OrderIds, Placed(o)',
           \A r \in Requests : ~ Holds(r, o), NEW k \in ItemIds
    PROVE  Kept(k, o)
  <1>0. CheckoutTypeOK
    BY DEF IInv
  <1>1. CASE item' = item
    BY <1>1 DEF Kept
  <1>2. CASE \E r \in Requests : Request(r) \/ Crash(r)
    BY <1>1, <1>2
    DEF Request, Arrive, Add, ConfirmRead, ConfirmReject, CollectContact,
        Crash, Abort, tables, items
  <1>3. ASSUME NEW r \in Requests, Step(r) PROVE Kept(k, o)
    BY <1>0, <1>1, <1>3, ItemWritesKeep, DeleteContactKeeps
    DEF Step, GetCart, CreateCart, Invalidate, LoseInvalidation, ViewItems,
        GetItem, ChangeItem, PickItem, ConfirmWrite, ConfirmCommit, Locked,
        Abort, tables, items
  <1> QED
    BY <1>1, <1>2, <1>3
    DEF Next, CreateContact, PartnerState, CacheExpire, tables, items

\* A handler comes to hold an order as the cart it looked up or created.
LEMMA HoldsCarts ==
    ASSUME TabsInv, Next, NEW o \in OrderIds, NEW t \in Requests,
           ~ Holds(t, o), Holds(t, o)'
    PROVE  ~ Placed(o)
  <1>0. /\ CheckoutTypeOK /\ loc[t] \in Local /\ KeysFresh /\ Remembers(t)
    BY DEF TabsInv, IInv, CheckoutTypeOK, HandlersConsistent
  <1>1. /\ pc'[t] \in {"item", "insert_item", "save_item", "delete_item",
                      "invalidate"}
        /\ pc'[t] = "invalidate" => loc'[t].op # "confirm"
        /\ loc'[t].cart = o
    BY DEF Holds
  <1>2. ASSUME NEW place, NEW l, Goto(t, place, l)
        PROVE  /\ place \in {"item", "insert_item", "save_item",
                             "delete_item", "invalidate"}
               /\ place = "invalidate" => l.op # "confirm"
               /\ l.cart = o
    BY <1>0, <1>1, <1>2, GotoSets
  <1>3. ~ Finish(t)
    <2>1. "idle" \notin {"item", "insert_item", "save_item", "delete_item",
                        "invalidate"}
      OBVIOUS
    <2> QED
      BY <1>2, <2>1 DEF Finish
  \* A handler that goes on with its cart held it.
  <1>4. ASSUME NEW place, NEW l, Goto(t, place, l), l.cart = loc[t].cart,
               \/ pc[t] \in {"item", "insert_item", "save_item", "delete_item"}
               \/ pc[t] = "invalidate" /\ loc[t].op # "confirm"
        PROVE  FALSE
    BY <1>2, <1>4 DEF Holds
  <1>5. ~ Request(t)
    <2>1. \A op : ~ Arrive(t, op)
      <3>1. "get_cart" \notin {"item", "insert_item", "save_item",
                              "delete_item", "invalidate"}
        OBVIOUS
      <3> QED
        BY <1>2, <3>1 DEF Arrive
    <2>2. \A p, q : ~ Add(t, p, q)
      <3>1. "get_cart" \notin {"item", "insert_item", "save_item",
                              "delete_item", "invalidate"}
        OBVIOUS
      <3> QED
        BY <1>2, <3>1 DEF Add
    <2>3. \A c, x : ~ ConfirmRead(t, c, x)
      <3>1. "confirm_write" \notin {"item", "insert_item", "save_item",
                                   "delete_item", "invalidate"}
        OBVIOUS
      <3> QED
        BY <1>2, <3>1 DEF ConfirmRead
    <2>4. \A c : ~ CollectContact(t, c)
      <3>1. "delete_contact" \notin {"item", "insert_item", "save_item",
                                    "delete_item", "invalidate"}
        OBVIOUS
      <3> QED
        BY <1>2, <3>1 DEF CollectContact
    <2>5. \A c : ~ ConfirmReject(t, c)
      BY DEF ConfirmReject, handlers, Holds
    <2> QED
      BY <2>1, <2>2, <2>3, <2>4, <2>5 DEF Request
  <1>6. CASE GetCart(t)
    <2>1. CASE Goto(t, "create_cart", loc[t])
      <3>1. "create_cart" \notin {"item", "insert_item", "save_item",
                                 "delete_item", "invalidate"}
        OBVIOUS
      <3> QED
        BY <1>2, <2>1, <3>1
    <2>2. ASSUME NEW x \in Baskets(Issuer[t]),
                 Goto(t, "item", [loc[t] EXCEPT !.cart = x])
          PROVE  o = x
      BY <1>0, <1>2, <2>2 DEF Local
    <2> QED
      BY <1>3, <1>6, <2>1, <2>2 DEF GetCart, Baskets, Placed
  <1>7. CASE CreateCart(t)
    <2>1. Goto(t, "invalidate", [loc[t] EXCEPT !.cart = nextOrder])
      BY <1>3, <1>7 DEF CreateCart
    <2>2. o = nextOrder
      BY <1>0, <1>2, <2>1 DEF Local
    <2> QED
      BY <1>0, <2>2 DEF KeysFresh, Placed, OrderIds
  <1>8. ~ Invalidate(t) /\ ~ LoseInvalidation(t)
    BY <1>3, <1>4 DEF Invalidate, LoseInvalidation, AfterInvalidation
  <1>9. ASSUME NEW k PROVE ~ (AddTo(t, k) /\ pc[t] \in {"item", "insert_item"})
    <2> DEFINE l == [loc[t] EXCEPT !.key = k, !.quantity =
                                      item[k].quantity + loc[t].quantity]
    <2>1. l.cart = loc[t].cart
      BY <1>0 DEF Local
    <2>2. AddTo(t, k) => Finish(t) \/ Goto(t, "save_item", l)
      BY DEF AddTo
    <2> QED
      BY <1>3, <1>4, <2>1, <2>2
  <1>10. ~ GetItem(t) /\ ~ InsertItem(t)
    <2>1. ~ GetItem(t)
      BY <1>4, <1>9 DEF GetItem, Serves
    <2>2. ~ InsertItem(t)
      BY <1>3, <1>9 DEF InsertItem, Writes
    <2> QED
      BY <2>1, <2>2
  <1>11. ~ ChangeItem(t)
    <2>1. ASSUME NEW k, NEW q,
                 Goto(t, "save_item", [loc[t] EXCEPT !.key = k,
                         !.info = item[k].info, !.quantity = q]), pc[t] = "item"
          PROVE  FALSE
      <3>1. [loc[t] EXCEPT !.key = k, !.info = item[k].info,
                           !.quantity = q].cart = loc[t].cart
        BY <1>0 DEF Local
      <3> QED
        BY <1>4, <2>1, <3>1
    <2> QED
      BY <1>3, <2>1 DEF ChangeItem, Serves
  <1>12. ~ PickItem(t)
    <2>1. ASSUME NEW k,
                 Goto(t, "delete_item", [loc[t] EXCEPT !.key = k,
                         !.info = item[k].info]), pc[t] = "item"
          PROVE  FALSE
      <3>1. [loc[t] EXCEPT !.key = k, !.info = item[k].info].cart = loc[t].cart
        BY <1>0 DEF Local
      <3> QED
        BY <1>4, <2>1, <3>1
    <2> QED
      BY <1>3, <2>1 DEF PickItem, Serves
  <1>13. ~ ConfirmCommit(t) /\ \A sent \in BOOLEAN : ~ ConfirmWrite(t, sent)
    <2>1. ~ ConfirmCommit(t)
      <3>1. ConfirmCommit(t) => loc[t].op = "confirm"
        BY <1>0 DEF ConfirmCommit, Remembers, InTransaction
      <3>2. ConfirmCommit(t) => Finish(t) \/ Goto(t, "invalidate", loc[t])
        BY DEF ConfirmCommit
      <3> QED
        BY <1>2, <1>3, <3>1, <3>2
    <2>2. ASSUME NEW sent \in BOOLEAN PROVE ~ ConfirmWrite(t, sent)
      <3>1. "confirm_commit" \notin {"item", "insert_item", "save_item",
                                    "delete_item", "invalidate"}
        OBVIOUS
      <3> QED
        BY <1>2, <3>1 DEF ConfirmWrite
    <2> QED
      BY <2>1, <2>2
  <1>14. /\ ~ ViewItems(t) /\ ~ SaveItem(t) /\ ~ DeleteItem(t)
         /\ ~ ClearItems(t) /\ ~ DeleteContact(t) /\ ~ Locked(t) /\ ~ Crash(t)
    BY <1>3
    DEF ViewItems, SaveItem, DeleteItem, ClearItems, DeleteContact, Locked,
        Crash, Abort
  <1>15. pc'[t] # pc[t] \/ loc'[t] # loc[t]
    BY DEF Holds
  <1> QED
    BY <1>0, <1>5, <1>6, <1>7, <1>8, <1>10, <1>11, <1>12, <1>13, <1>14, <1>15,
       OwnMoves DEF Step

\* What a buyer ordered stays what was ordered once the handlers that took
\* it for the cart are through with it: the handlers look at the state of
\* an order once and then write to its rows by key, yet none of them reaches
\* an order that it did not hold when the order was placed, whatever other
\* tabs, buyers, the cache and the workers do (cart/views.py).
THEOREM ReleasedOrdersStayFrozen == Spec => FrozenOnceReleased
  <1> DEFINE Free(o) == \A r \in Requests : ~ Holds(r, o)
  <1>1. ASSUME TabsInv, Next, NEW o \in OrderIds, Placed(o), Placed(o)', Free(o)
        PROVE  LinesOf(o)' = LinesOf(o) /\ Free(o)'
    <2>1. LinesOf(o)' = LinesOf(o)
      BY <1>1, NextKeeps, RowsKept DEF TabsInv
    <2> QED
      BY <1>1, <2>1, HoldsCarts
  <1> HIDE DEF Free
  <1>2. TabsInv /\ [Next]_vars =>
           [\A o \in OrderIds : Placed(o) /\ Placed(o)' /\ Free(o) =>
               LinesOf(o)' = LinesOf(o) /\ Free(o)']_vars
    BY <1>1
  <1>3. TabsInv /\ [Next]_vars =>
           [\A o \in OrderIds :
               Placed(o) /\ Placed(o)' /\ (\A r \in Requests : ~ Holds(r, o)) =>
                  LinesOf(o)' = LinesOf(o)
                  /\ (\A r \in Requests : ~ Holds(r, o)')]_vars
    BY <1>2 DEF Free
  <1> QED
    BY <1>3, TabsInvariant, PTL DEF Spec, FrozenOnceReleased

----------------------------------------------------------------------------
(* How the cached cart goes stale. *)

\* An entry expires, stays, or is filled with what the database says.
LEMMA EntryFilled ==
    ASSUME CheckoutTypeOK, Next, NEW u \in Users
    PROVE  \/ basketCache'[u] \in {Miss, basketCache[u]}
           \/ basketCache'[u] = Baskets(u) /\ order' = order
  <1>0. basketCache \in [Users -> {Miss} \cup SUBSET OrderIds]
    BY DEF CheckoutTypeOK
  <1>1. CASE UNCHANGED basketCache
    BY <1>1
  <1>2. ASSUME NEW r \in Requests, Request(r)
        PROVE  \/ basketCache'[u] \in {Miss, basketCache[u]}
               \/ basketCache'[u] = Baskets(u) /\ order' = order
    <2>1. ASSUME order' = order,
                 basketCache' = [basketCache EXCEPT ![Issuer[r]] =
                                    BasketsSeen(Issuer[r])]
          PROVE  \/ basketCache'[u] \in {Miss, basketCache[u]}
                 \/ basketCache'[u] = Baskets(u) /\ order' = order
      <3>1. BasketsSeen(Issuer[r])
               \in {basketCache[Issuer[r]], Baskets(Issuer[r])}
        BY DEF BasketsSeen
      <3> QED
        BY <1>0, <2>1, <3>1
    <2> QED
      BY <1>1, <1>2, <2>1
      DEF Request, Arrive, Add, ConfirmRead, ConfirmReject, CollectContact,
          outside, tables, orders
  <1>3. ASSUME NEW r \in Requests, Step(r) \/ Crash(r)
        PROVE  basketCache'[u] \in {Miss, basketCache[u]}
    <2>1. CASE Invalidate(r)
      BY <1>0, <2>1 DEF Invalidate
    <2> QED
      BY <1>1, <1>3, <2>1
      DEF Step, GetCart, CreateCart, LoseInvalidation, ViewItems, GetItem,
          InsertItem, ChangeItem, SaveItem, PickItem, DeleteItem, ClearItems,
          ConfirmWrite, ConfirmCommit, DeleteContact, Locked, Crash, Abort,
          outside
  <1>4. ASSUME NEW v \in Users, CacheExpire(v)
        PROVE  basketCache'[u] \in {Miss, basketCache[u]}
    BY <1>0, <1>4 DEF CacheExpire
  <1> QED
    BY <1>1, <1>2, <1>3, <1>4 DEF Next, CreateContact, PartnerState, outside

\* Whoever changes which orders are the carts of a buyer serves that buyer
\* and goes on to drop the cached query.
LEMMA CartsChange ==
    ASSUME TabsInv, Next, NEW u, Baskets(u)' # Baskets(u)
    PROVE  \E r \in Requests : Issuer[r] = u /\ pc'[r] = "invalidate"
  <1>0. /\ CheckoutTypeOK /\ KeysFresh
        /\ order \in [OrderIds -> OrderRow \cup {NoRow}]
    BY DEF TabsInv, IInv, CheckoutTypeOK, HandlersConsistent, StoreTypeOK
  <1>1. PICK o \in OrderIds : /\ order'[o] # order[o]
                              /\ o \in Baskets(u) \/ o \in Baskets(u)'
    BY DEF Baskets
  <1>2. CASE o \in Baskets(u)'
    BY <1>0, <1>1, <1>2, NewCarts DEF Baskets, Basket
  <1>3. CASE o \in Baskets(u)
    <2>1. ASSUME NEW r \in Requests, CreateCart(r) PROVE FALSE
      <3>1. o # nextOrder
        BY <1>0, <1>3 DEF KeysFresh, Baskets, OrderIds
      <3> QED
        BY <1>0, <1>1, <2>1, <3>1 DEF CreateCart, orders
    <2>2. ASSUME NEW r \in Requests, ConfirmCommit(r)
          PROVE  Issuer[r] = u /\ pc'[r] = "invalidate"
      <3>1. o = loc[r].cart
        BY <1>0, <1>1, <2>2 DEF ConfirmCommit
      <3>2. order[o].user = Issuer[r]
        BY <1>3, <2>2, <3>1
        DEF TabsInv, Ownership, BelongsTo, ConfirmCommit, InTransaction, Baskets
      <3>3. Goto(r, "invalidate", loc[r])
        BY <1>3, <2>2, <3>1 DEF ConfirmCommit, SaveInvalidates, Baskets
      <3> QED
        BY <1>0, <1>3, <3>2, <3>3, GotoSets DEF Baskets
    <2>3. ASSUME NEW r \in Requests, DeleteContact(r) PROVE FALSE
      <3>1. o \in loc[r].orders /\ pc[r] = "delete_contact"
        BY <1>1, <2>3 DEF DeleteContact, Writes
      <3> QED
        BY <1>3, <3>1 DEF TabsInv, Remembers, Baskets, Basket
    <2> QED
      BY <1>1, <2>1, <2>2, <2>3, OrderWriters
  <1> QED
    BY <1>1, <1>2, <1>3

\* The cached cart goes stale in one way only, an invalidation that Redis
\* or a dying worker has lost: fills, commits, cascades, expiries and
\* rollbacks of any number of requests beside each other leave no old
\* answer behind unless somebody has yet to drop it (orders/views.py,
\* Order.objects.get through cacheops).
THEOREM CacheStaleOnlyByLoss == Spec => StaleOnlyByLoss
  <1>1. ASSUME TabsInv, Next, NEW u \in Users, Covered(u), ~ Covered(u)'
        PROVE  \E r \in Requests :
                  /\ Issuer[r] = u
                  /\ pc[r] = "invalidate" /\ pc'[r] # "invalidate"
                  /\ basketCache'[u] = basketCache[u]
    <2>1. /\ basketCache'[u] \notin {Miss, Baskets(u)'}
          /\ \A r \in Requests : Issuer[r] = u => pc'[r] # "invalidate"
      BY <1>1 DEF Covered
    <2>2. order' = order => Baskets(u)' = Baskets(u)
      BY DEF Baskets
    <2>3. basketCache'[u] = basketCache[u]
      BY <1>1, <2>1, <2>2, EntryFilled DEF TabsInv, IInv
    <2>4. Baskets(u)' = Baskets(u)
      BY <1>1, <2>1, CartsChange
    <2>5. PICK r \in Requests : Issuer[r] = u /\ pc[r] = "invalidate"
      BY <1>1, <2>1, <2>3, <2>4 DEF Covered
    <2> QED
      BY <2>1, <2>3, <2>5
  <1>2. TabsInv /\ [Next]_vars =>
           [\A u \in Users : Covered(u) /\ ~ Covered(u)' =>
               \E r \in Requests :
                  /\ Issuer[r] = u
                  /\ pc[r] = "invalidate" /\ pc'[r] # "invalidate"
                  /\ basketCache'[u] = basketCache[u]]_vars
    BY <1>1
  <1> QED
    BY <1>2, TabsInvariant, PTL DEF Spec, StaleOnlyByLoss

============================================================================
