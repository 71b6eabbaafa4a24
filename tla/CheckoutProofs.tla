--------------------------- MODULE CheckoutProofs ---------------------------
(***************************************************************************)
(* Theorems about Checkout, for any number of buyers, requests, orders,    *)
(* rows, products and addresses, and for a cache that may fail.            *)
(***************************************************************************)
EXTENDS Checkout, TLAPS

----------------------------------------------------------------------------
(* The building blocks of the actions. *)

\* NoRow is no value that a table or a local holds.
LEMMA NoRowIsNoValue ==
    /\ NoRow \notin Contacts
    /\ NoRow \notin Nat
    /\ NoRow \notin OrderRow
    /\ NoRow \notin ItemRow
    /\ NoRow \notin InfoRow
  BY StoreAssumption

\* The locals of an idle request are well typed, with any request of a
\* client filled in.
LEMMA BlankTyped ==
    /\ Blank \in Local
    /\ Blank.op = "none"
  BY DEF Blank, Local, NoPieces

\* A step of a handler keeps its program counter and locals well typed.
LEMMA GotoTyped ==
    ASSUME NEW r \in Requests, NEW place \in Places, NEW l \in Local,
           CheckoutTypeOK, Goto(r, place, l)
    PROVE  pc' \in [Requests -> Places] /\ loc' \in [Requests -> Local]
  BY DEF CheckoutTypeOK, Goto

\* So does the end of a request.
LEMMA FinishTyped ==
    ASSUME NEW r \in Requests, CheckoutTypeOK, Finish(r)
    PROVE  pc' \in [Requests -> Places] /\ loc' \in [Requests -> Local]
  BY BlankTyped, GotoTyped DEF Finish, Places

\* The rows of an order, what it asks for and the stock depend on their
\* tables only.
LEMMA RowsUnchanged ==
    ASSUME item' = item
    PROVE  /\ \A o \in OrderIds : Rows(o)' = Rows(o)
           /\ \A o \in OrderIds, p \in InfoIds : Line(o, p)' = Line(o, p)
           /\ \A o \in OrderIds : LinesOf(o)' = LinesOf(o)
  BY DEF Rows, Line, LinesOf, Quantity

\* Nor does the stock change while the product rows stay.
LEMMA StockUnchanged ==
    ASSUME info' = info
    PROVE  Stock' = Stock
  BY DEF Stock

\* An order asks for a natural number of pieces of each product.
LEMMA LinesTyped ==
    ASSUME CheckoutTypeOK, NEW o \in OrderIds
    PROVE  LinesOf(o) \in [InfoIds -> Nat]
  <1>1. ASSUME NEW p \in InfoIds PROVE Quantity(o, p) \in Nat
    <2>1. CASE Line(o, p) = {}
      BY <2>1 DEF Quantity
    <2>2. CASE Line(o, p) # {}
      <3>1. PICK k \in Line(o, p) : k = CHOOSE x \in Line(o, p) : TRUE
        BY <2>2
      <3>2. k \in ItemIds /\ item[k] # NoRow
        BY <3>1 DEF Line, Rows
      <3>3. item[k] \in ItemRow
        BY <3>2 DEF CheckoutTypeOK, StoreTypeOK
      <3> QED
        BY <2>2, <3>1, <3>3 DEF Quantity, ItemRow
    <2> QED
      BY <2>1, <2>2
  <1> QED
    BY <1>1 DEF LinesOf

\* The stock is a natural number for every product.
LEMMA StockTyped ==
    ASSUME CheckoutTypeOK
    PROVE  Stock \in [InfoIds -> Nat]
  <1>1. ASSUME NEW p \in InfoIds, info[p] # NoRow
        PROVE  info[p].quantity \in Nat
    BY <1>1 DEF CheckoutTypeOK, StoreTypeOK, InfoRow
  <1> QED
    BY <1>1 DEF Stock

----------------------------------------------------------------------------
(* The inductive invariant.  Types need to know that a confirmation never  *)
(* deducts more than there is (SnapshotCurrent) and that a handler has its *)
(* locals at hand when it writes (LocalsFit); SnapshotCurrent needs the    *)
(* locks to tell which transactions are open (LocksHeld) and the foreign   *)
(* keys to tell that every row has a stock (Integrity); Integrity needs    *)
(* the snapshot for the address of a placed order and, for a row that a    *)
(* stale save writes back, that no key is used again (KeysFresh) and that  *)
(* stale saves agree (StaleRowsFit).                                       *)

IInv ==
    /\ CheckoutTypeOK
    /\ HandlersConsistent
    /\ SnapshotCurrent
    /\ Integrity

\* The inductive invariant holds when the service starts.
LEMMA InitIInv == Init => IInv
  <1> SUFFICES ASSUME Init PROVE IInv
    OBVIOUS
  <1> USE DEF Init
  <1>1. CheckoutTypeOK
    BY BlankTyped, StoreAssumption, CheckoutAssumption
    DEF CheckoutTypeOK, StoreTypeOK, Places, OrderIds, ItemIds
  <1>2. HandlersConsistent
    BY BlankTyped
    DEF HandlersConsistent, LocksHeld, KeysFresh, LocalsFit, LocalsSet,
        HasRow, StaleRowsFit, InTransaction
  <1>3. SnapshotCurrent
    BY DEF SnapshotCurrent, InTransaction
  <1>4. Integrity
    BY DEF Integrity, Placed
  <1> QED
    BY <1>1, <1>2, <1>3, <1>4 DEF IInv

\* No handler of a cart or an address writes while a transaction is open.
LEMMA WritersAreAlone ==
    ASSUME IInv, CanWrite, NEW r \in Requests
    PROVE  pc[r] \notin InTransaction
  BY DEF IInv, HandlersConsistent, LocksHeld, CanWrite

\* A commit finds no other transaction open.
LEMMA CommitsAreAlone ==
    ASSUME IInv, NEW r \in Requests, CanCommit(r), NEW t \in Requests,
           pc[t] \in InTransaction
    PROVE  t = r
  BY DEF IInv, HandlersConsistent, LocksHeld, CanCommit

----------------------------------------------------------------------------
(* Types. *)

\* get_cart keeps the types: finding a cart ...
LEMMA GetCartTyped ==
    ASSUME IInv, NEW r \in Requests, GetCart(r)
    PROVE  CheckoutTypeOK'
  <1> DEFINE u == Issuer[r]
  <1>0. CheckoutTypeOK
    BY DEF IInv
  <1>1. loc[r] \in Local
    BY <1>0 DEF CheckoutTypeOK
  <1>2. pc' \in [Requests -> Places] /\ loc' \in [Requests -> Local]
    <2>1. CASE Goto(r, "create_cart", loc[r])
      BY <2>1, <1>0, <1>1, GotoTyped DEF Places
    <2>2. ASSUME NEW o \in Baskets(u),
                 Goto(r, "item", [loc[r] EXCEPT !.cart = o])
          PROVE  pc' \in [Requests -> Places] /\ loc' \in [Requests -> Local]
      <3>1. o \in OrderIds
        BY DEF Baskets
      <3>2. [loc[r] EXCEPT !.cart = o] \in Local
        BY <1>1, <3>1 DEF Local
      <3> QED
        BY <2>2, <3>2, <1>0, GotoTyped DEF Places
    <2>3. CASE Finish(r)
      BY <2>3, <1>0, FinishTyped
    <2> QED
      BY <2>1, <2>2, <2>3 DEF GetCart
  <1> QED
    BY <1>0, <1>2
    DEF GetCart, CheckoutTypeOK, StoreTypeOK, tables, orders, items, goods,
        locks, outside

\* ... and creating one.
LEMMA CreateCartTyped ==
    ASSUME IInv, NEW r \in Requests, CreateCart(r)
    PROVE  CheckoutTypeOK'
  <1>0. CheckoutTypeOK
    BY DEF IInv
  <1>1. loc[r] \in Local
    BY <1>0 DEF CheckoutTypeOK
  <1>2. CASE /\ nextOrder \in OrderIds
             /\ order' = [order EXCEPT ![nextOrder] =
                    [user |-> Issuer[r], state |-> "basket", contact |-> NoRow]]
             /\ nextOrder' = nextOrder + 1
             /\ Goto(r, "invalidate", [loc[r] EXCEPT !.cart = nextOrder])
    <2>1. [loc[r] EXCEPT !.cart = nextOrder] \in Local
      BY <1>1, <1>2 DEF Local
    <2>2. pc' \in [Requests -> Places] /\ loc' \in [Requests -> Local]
      BY <2>1, <1>2, <1>0, GotoTyped DEF Places
    <2>3. [user |-> Issuer[r], state |-> "basket", contact |-> NoRow] \in OrderRow
      BY CheckoutAssumption DEF OrderRow, States
    <2>4. order' \in [OrderIds -> OrderRow \cup {NoRow}]
      BY <2>3, <1>2, <1>0 DEF CheckoutTypeOK, StoreTypeOK
    <2>5. nextOrder' \in 1 .. MaxOrders + 1
      BY <1>2, StoreAssumption DEF OrderIds
    <2> QED
      BY <1>0, <2>2, <2>4, <2>5
      DEF CreateCart, CheckoutTypeOK, StoreTypeOK, items, goods, locks, outside
  <1>3. CASE Finish(r) /\ UNCHANGED orders
    <2>1. pc' \in [Requests -> Places] /\ loc' \in [Requests -> Local]
      BY <1>3, <1>0, FinishTyped
    <2> QED
      BY <1>0, <1>3, <2>1
      DEF CreateCart, CheckoutTypeOK, StoreTypeOK, orders, items, goods, locks,
          outside
  <1> QED
    BY <1>2, <1>3 DEF CreateCart

\* Steps that leave the database, the locks and the outside alone.
LEMMA QuietStepTyped ==
    ASSUME CheckoutTypeOK, UNCHANGED <<tables, locks, outside>>,
           pc' \in [Requests -> Places], loc' \in [Requests -> Local]
    PROVE  CheckoutTypeOK'
  BY DEF CheckoutTypeOK, StoreTypeOK, tables, orders, items, goods, locks,
         outside

\* An invalidation, done or lost, keeps the types.
LEMMA InvalidationTyped ==
    ASSUME IInv, NEW r \in Requests, Invalidate(r) \/ LoseInvalidation(r)
    PROVE  CheckoutTypeOK'
  <1>0. CheckoutTypeOK
    BY DEF IInv
  <1>1. loc[r] \in Local
    BY <1>0 DEF CheckoutTypeOK
  <1>2. pc' \in [Requests -> Places] /\ loc' \in [Requests -> Local]
    <2>1. Goto(r, "item", loc[r]) \/ Finish(r)
      BY DEF Invalidate, LoseInvalidation, AfterInvalidation
    <2> QED
      BY <2>1, <1>0, <1>1, GotoTyped, FinishTyped DEF Places
  <1>3. basketCache' \in [Users -> {Miss} \cup SUBSET OrderIds]
    BY <1>0, CheckoutAssumption
    DEF CheckoutTypeOK, Invalidate, LoseInvalidation, outside
  <1> QED
    BY <1>0, <1>2, <1>3
    DEF Invalidate, LoseInvalidation, CheckoutTypeOK, StoreTypeOK, tables,
        orders, items, goods, locks, outside

\* The arrival of a request of the cart keeps the types.
LEMMA ArrivalsTyped ==
    ASSUME IInv, NEW r \in Requests,
           \/ \E op \in {"view", "change", "remove", "clear"} : Arrive(r, op)
           \/ \E p \in InfoIds, q \in Quantities : Add(r, p, q)
    PROVE  CheckoutTypeOK'
  <1>0. CheckoutTypeOK
    BY DEF IInv
  <1>1. ASSUME NEW op \in {"view", "change", "remove", "clear"}, Arrive(r, op)
        PROVE  CheckoutTypeOK'
    <2>1. [Blank EXCEPT !.op = op] \in Local
      BY BlankTyped DEF Local
    <2> QED
      BY <1>0, <1>1, <2>1, GotoTyped, QuietStepTyped DEF Arrive, Places
  <1>2. ASSUME NEW p \in InfoIds, NEW q \in Quantities, Add(r, p, q)
        PROVE  CheckoutTypeOK'
    <2>1. q \in Nat
      BY CheckoutAssumption DEF Quantities
    <2>2. [Blank EXCEPT !.op = "add", !.info = p, !.quantity = q] \in Local
      BY <2>1, BlankTyped DEF Local
    <2> QED
      BY <1>0, <1>2, <2>2, GotoTyped, QuietStepTyped DEF Add, Places
  <1> QED
    BY <1>1, <1>2

\* POST on a row that exists keeps the types.
LEMMA AddToTyped ==
    ASSUME CheckoutTypeOK, NEW r \in Requests, NEW k \in ItemIds, AddTo(r, k)
    PROVE  pc' \in [Requests -> Places] /\ loc' \in [Requests -> Local]
  <1> DEFINE sum == item[k].quantity + loc[r].quantity
  <1>1. CASE sum \in Quantities
    <2>1. sum \in Nat
      BY <1>1, CheckoutAssumption DEF Quantities
    <2> HIDE DEF sum
    <2>2. [loc[r] EXCEPT !.key = k, !.quantity = sum] \in Local
      BY <2>1 DEF CheckoutTypeOK, Local
    <2>3. Goto(r, "save_item", [loc[r] EXCEPT !.key = k, !.quantity = sum])
      BY <1>1 DEF AddTo, sum
    <2> QED
      BY <2>2, <2>3, GotoTyped DEF Places
  <1>2. CASE sum \notin Quantities
    BY <1>2, FinishTyped DEF AddTo
  <1> QED
    BY <1>1, <1>2

\* The reads of the handlers of the cart keep the types.
LEMMA ItemReadsTyped ==
    ASSUME IInv, NEW r \in Requests,
           ViewItems(r) \/ GetItem(r) \/ ChangeItem(r) \/ PickItem(r)
    PROVE  CheckoutTypeOK'
  <1>0. CheckoutTypeOK
    BY DEF IInv
  <1>1. loc[r] \in Local
    BY <1>0 DEF CheckoutTypeOK
  <1>2. CASE ViewItems(r)
    BY <1>0, <1>2, FinishTyped, QuietStepTyped DEF ViewItems
  <1>3. CASE GetItem(r)
    <2>1. CASE Goto(r, "insert_item", loc[r])
      BY <2>1, <1>0, <1>1, <1>3, GotoTyped, QuietStepTyped DEF GetItem, Places
    <2>2. ASSUME NEW k \in Line(loc[r].cart, loc[r].info), AddTo(r, k)
          PROVE  CheckoutTypeOK'
      BY <2>2, <1>0, <1>3, AddToTyped, QuietStepTyped DEF GetItem, Line, Rows
    <2> QED
      BY <2>1, <2>2, <1>3 DEF GetItem
  <1>4. CASE ChangeItem(r)
    <2>1. ASSUME NEW k \in Rows(loc[r].cart), NEW q \in Quantities,
                 Goto(r, "save_item",
                      [loc[r] EXCEPT !.key = k, !.info = item[k].info,
                                     !.quantity = q])
          PROVE  CheckoutTypeOK'
      <3>1. k \in ItemIds /\ item[k] \in ItemRow /\ q \in Nat
        BY <1>0, CheckoutAssumption
        DEF Rows, CheckoutTypeOK, StoreTypeOK, Quantities
      <3>2. item[k].info \in InfoIds
        BY <3>1 DEF ItemRow
      <3>3. [loc[r] EXCEPT !.key = k, !.info = item[k].info, !.quantity = q]
               \in Local
        BY <3>1, <3>2, <1>1 DEF Local
      <3> QED
        BY <2>1, <3>3, <1>0, <1>4, GotoTyped, QuietStepTyped
        DEF ChangeItem, Places
    <2>2. CASE Finish(r)
      BY <2>2, <1>0, <1>4, FinishTyped, QuietStepTyped DEF ChangeItem
    <2> QED
      BY <2>1, <2>2, <1>4 DEF ChangeItem
  <1>5. CASE PickItem(r)
    <2>1. ASSUME NEW k \in Rows(loc[r].cart),
                 Goto(r, "delete_item",
                      [loc[r] EXCEPT !.key = k, !.info = item[k].info])
          PROVE  CheckoutTypeOK'
      <3>1. k \in ItemIds /\ item[k] \in ItemRow
        BY <1>0 DEF Rows, CheckoutTypeOK, StoreTypeOK
      <3>2. item[k].info \in InfoIds
        BY <3>1 DEF ItemRow
      <3>3. [loc[r] EXCEPT !.key = k, !.info = item[k].info] \in Local
        BY <3>1, <3>2, <1>1 DEF Local
      <3> QED
        BY <2>1, <3>3, <1>0, <1>5, GotoTyped, QuietStepTyped
        DEF PickItem, Places
    <2>2. CASE Finish(r)
      BY <2>2, <1>0, <1>5, FinishTyped, QuietStepTyped DEF PickItem
    <2> QED
      BY <2>1, <2>2, <1>5 DEF PickItem
  <1> QED
    BY <1>2, <1>3, <1>4, <1>5

\* The writes of the handlers of the cart keep the types.
LEMMA ItemWritesTyped ==
    ASSUME IInv, NEW r \in Requests,
           InsertItem(r) \/ SaveItem(r) \/ DeleteItem(r) \/ ClearItems(r)
    PROVE  CheckoutTypeOK'
  <1> DEFINE l == loc[r]
  <1>0. CheckoutTypeOK /\ LocalsFit
    BY DEF IInv, HandlersConsistent
  <1>1. l \in Local
    BY <1>0 DEF CheckoutTypeOK
  <1>2. ASSUME pc[r] \in {"insert_item", "save_item"}
        PROVE  [order |-> l.cart, info |-> l.info, quantity |-> l.quantity]
                  \in ItemRow
    <2>1. l.cart \in OrderIds /\ l.info \in InfoIds /\ l.quantity \in Quantities
      BY <1>0, <1>2 DEF LocalsFit, LocalsSet, HasRow
    <2> QED
      BY <2>1, CheckoutAssumption DEF ItemRow, Quantities
  <1>3. CASE InsertItem(r)
    <2>1. CASE /\ nextItem \in ItemIds
               /\ item' = [item EXCEPT ![nextItem] =
                      [order |-> l.cart, info |-> l.info,
                       quantity |-> l.quantity]]
               /\ nextItem' = nextItem + 1
               /\ Finish(r)
      <3>1. [order |-> l.cart, info |-> l.info, quantity |-> l.quantity]
               \in ItemRow
        BY <1>2, <1>3 DEF InsertItem, Writes
      <3>2. item' \in [ItemIds -> ItemRow \cup {NoRow}]
        BY <2>1, <3>1, <1>0 DEF CheckoutTypeOK, StoreTypeOK
      <3>3. nextItem' \in 1 .. MaxItems + 1
        BY <2>1, StoreAssumption DEF ItemIds
      <3>4. pc' \in [Requests -> Places] /\ loc' \in [Requests -> Local]
        BY <2>1, <1>0, FinishTyped
      <3> QED
        BY <1>0, <1>3, <3>2, <3>3, <3>4
        DEF InsertItem, CheckoutTypeOK, StoreTypeOK, orders, goods, locks,
            outside
    <2>2. CASE /\ UNCHANGED items
               /\ Finish(r) \/ \E k \in Line(l.cart, l.info) : AddTo(r, k)
      <3>1. pc' \in [Requests -> Places] /\ loc' \in [Requests -> Local]
        BY <2>2, <1>0, FinishTyped, AddToTyped DEF Line, Rows
      <3> QED
        BY <2>2, <3>1, <1>0, <1>3, QuietStepTyped DEF InsertItem, tables
    <2> QED
      BY <1>3, <2>1, <2>2 DEF InsertItem
  <1>4. ASSUME item' \in [ItemIds -> ItemRow \cup {NoRow}], Finish(r),
               UNCHANGED <<orders, nextItem, goods, contact, locks, outside>>
        PROVE  CheckoutTypeOK'
    <2>1. pc' \in [Requests -> Places] /\ loc' \in [Requests -> Local]
      BY <1>4, <1>0, FinishTyped
    <2> QED
      BY <1>0, <1>4, <2>1
      DEF CheckoutTypeOK, StoreTypeOK, orders, goods, locks, outside
  <1>5. CASE SaveItem(r)
    <2>1. [order |-> l.cart, info |-> l.info, quantity |-> l.quantity]
             \in ItemRow
      BY <1>2, <1>5 DEF SaveItem, Writes
    <2>2. item' \in [ItemIds -> ItemRow \cup {NoRow}]
      BY <2>1, <1>0, <1>5 DEF SaveItem, CheckoutTypeOK, StoreTypeOK
    <2> QED
      BY <2>2, <1>4, <1>5 DEF SaveItem
  <1>6. CASE DeleteItem(r) \/ ClearItems(r)
    <2>1. item' \in [ItemIds -> ItemRow \cup {NoRow}]
      BY <1>0, <1>6
      DEF DeleteItem, ClearItems, Without, CheckoutTypeOK, StoreTypeOK
    <2> QED
      BY <2>1, <1>4, <1>6 DEF DeleteItem, ClearItems
  <1> QED
    BY <1>3, <1>5, <1>6

\* The confirmation keeps the types: its reads ...
LEMMA ConfirmReadTyped ==
    ASSUME IInv, NEW r \in Requests, NEW c \in Contacts, NEW o \in OrderIds,
           ConfirmRead(r, c, o)
    PROVE  CheckoutTypeOK'
  <1> DEFINE l == [Blank EXCEPT !.op = "confirm", !.cart = o, !.contact = c,
                                !.lines = LinesOf(o), !.seen = Stock]
  <1>0. CheckoutTypeOK
    BY DEF IInv
  <1>1. l \in Local
    BY <1>0, BlankTyped, LinesTyped, StockTyped DEF Local
  <1>2. pc' \in [Requests -> Places] /\ loc' \in [Requests -> Local]
    BY <1>0, <1>1, GotoTyped DEF ConfirmRead, Places, InTransaction
  <1>3. basketCache' \in [Users -> {Miss} \cup SUBSET OrderIds]
    BY <1>0 DEF ConfirmRead, CheckoutTypeOK
  <1>4. shared' \subseteq Connections /\ reserved' \subseteq shared'
    BY <1>0, CheckoutAssumption DEF ConfirmRead, Atomic, CheckoutTypeOK, StoreTypeOK
  <1> QED
    BY <1>0, <1>2, <1>3, <1>4
    DEF ConfirmRead, Atomic, CheckoutTypeOK, StoreTypeOK, tables, orders, items, goods

\* ... its refusal ...
LEMMA ConfirmRejectTyped ==
    ASSUME IInv, NEW r \in Requests, NEW c \in Contacts, ConfirmReject(r, c)
    PROVE  CheckoutTypeOK'
  <1>0. CheckoutTypeOK
    BY DEF IInv
  <1>1. BasketsSeen(Issuer[r]) \in {Miss} \cup SUBSET OrderIds
    BY <1>0, CheckoutAssumption DEF CheckoutTypeOK, BasketsSeen, Baskets
  <1>2. basketCache' \in [Users -> {Miss} \cup SUBSET OrderIds]
    BY <1>0, <1>1 DEF ConfirmReject, CheckoutTypeOK
  <1> QED
    BY <1>0, <1>2
    DEF ConfirmReject, CheckoutTypeOK, StoreTypeOK, tables, orders, items,
        goods, locks, handlers

\* ... its first write ...
LEMMA ConfirmWriteTyped ==
    ASSUME IInv, NEW r \in Requests, NEW sent \in BOOLEAN,
           ConfirmWrite(r, sent)
    PROVE  CheckoutTypeOK'
  <1>0. CheckoutTypeOK /\ LocksHeld /\ LocalsFit
    BY DEF IInv, HandlersConsistent
  <1>1. loc[r] \in Local
    BY <1>0 DEF CheckoutTypeOK
  <1>2. pc' \in [Requests -> Places] /\ loc' \in [Requests -> Local]
    BY <1>0, <1>1, GotoTyped DEF ConfirmWrite, Places, InTransaction
  <1>3. mailed' \subseteq OrderIds
    BY <1>0 DEF ConfirmWrite, CheckoutTypeOK, LocalsFit, LocalsSet
  <1>4. reserved' \subseteq shared'
    BY <1>0 DEF ConfirmWrite, LocksHeld, InTransaction
  <1> QED
    BY <1>0, <1>2, <1>3, <1>4
    DEF ConfirmWrite, CheckoutTypeOK, StoreTypeOK, tables, orders, items, goods

\* ... and its commit, which deducts no more than there is.
LEMMA ConfirmCommitTyped ==
    ASSUME IInv, NEW r \in Requests, ConfirmCommit(r)
    PROVE  CheckoutTypeOK'
  <1> DEFINE l == loc[r]
  <1>0. CheckoutTypeOK /\ LocalsFit /\ SnapshotCurrent
    BY DEF IInv, HandlersConsistent
  <1>1. l \in Local
    BY <1>0 DEF CheckoutTypeOK
  <1>2. pc' \in [Requests -> Places] /\ loc' \in [Requests -> Local]
    <2>1. Goto(r, "invalidate", l) \/ Finish(r)
      BY DEF ConfirmCommit
    <2> QED
      BY <2>1, <1>0, <1>1, GotoTyped, FinishTyped DEF Places
  <1>3. order' \in [OrderIds -> OrderRow \cup {NoRow}]
    <2>1. l.contact \in Contacts
      BY <1>0 DEF ConfirmCommit, LocalsFit, LocalsSet, InTransaction
    <2>2. [user |-> Issuer[r], state |-> "new", contact |-> l.contact] \in OrderRow
      BY <2>1, CheckoutAssumption DEF OrderRow, States
    <2> QED
      BY <2>2, <1>0 DEF ConfirmCommit, CheckoutTypeOK, StoreTypeOK
  <1>4. info' \in [InfoIds -> InfoRow \cup {NoRow}]
    <2>1. ASSUME NEW p \in InfoIds, l.lines[p] # 0
          PROVE  [info[p] EXCEPT !.quantity = l.seen[p] - l.lines[p]] \in InfoRow
      <3>1. l.lines[p] <= l.seen[p] /\ l.seen = Stock
        BY <1>0 DEF ConfirmCommit, SnapshotCurrent, Current, InTransaction
      <3>2. l.lines[p] \in Nat /\ l.seen[p] \in Nat
        BY <1>1 DEF Local
      <3>3. info[p] # NoRow
        BY <3>1, <3>2, <2>1 DEF Stock
      <3>4. info[p] \in InfoRow
        BY <3>3, <1>0 DEF CheckoutTypeOK, StoreTypeOK
      <3>5. l.seen[p] - l.lines[p] \in Nat
        BY <3>1, <3>2
      <3> QED
        BY <3>4, <3>5 DEF InfoRow
    <2> QED
      BY <2>1, <1>0 DEF ConfirmCommit, Deducted, CheckoutTypeOK, StoreTypeOK
  <1> QED
    BY <1>0, <1>2, <1>3, <1>4
    DEF ConfirmCommit, CheckoutTypeOK, StoreTypeOK, EndTransaction, items,
        outside

\* The deletion of an address keeps the types: what it collects ...
LEMMA CollectContactTyped ==
    ASSUME IInv, NEW r \in Requests, NEW c \in Contacts, CollectContact(r, c)
    PROVE  CheckoutTypeOK'
  <1> DEFINE sentTo == {o \in OrderIds : order[o] # NoRow /\ order[o].contact = c}
             l == [Blank EXCEPT !.op = "forget", !.contact = c,
                                !.orders = sentTo]
  <1>0. CheckoutTypeOK
    BY DEF IInv
  <1>1. l \in Local
    BY BlankTyped DEF Local
  <1> QED
    BY <1>0, <1>1, GotoTyped, QuietStepTyped DEF CollectContact, Places

\* ... and what it deletes.
LEMMA DeleteContactTyped ==
    ASSUME IInv, NEW r \in Requests, DeleteContact(r)
    PROVE  CheckoutTypeOK'
  <1>0. CheckoutTypeOK
    BY DEF IInv
  <1>1. pc' \in [Requests -> Places] /\ loc' \in [Requests -> Local]
    BY <1>0, FinishTyped DEF DeleteContact
  <1>2. /\ order' \in [OrderIds -> OrderRow \cup {NoRow}]
        /\ item' \in [ItemIds -> ItemRow \cup {NoRow}]
        /\ contact' \in [Contacts -> {"unborn", "live", "deleted"}]
    BY <1>0 DEF DeleteContact, Without, CheckoutTypeOK, StoreTypeOK
  <1> QED
    BY <1>0, <1>1, <1>2
    DEF DeleteContact, CheckoutTypeOK, StoreTypeOK, goods, locks, outside

\* So do a new address, the switch of the partner and an expired key.
LEMMA OutsidersTyped ==
    ASSUME IInv,
           \/ \E c \in Contacts : CreateContact(c)
           \/ \E s \in Shops, raw \in RawStates : PartnerState(s, raw)
           \/ \E u \in Users : CacheExpire(u)
    PROVE  CheckoutTypeOK'
  <1>0. CheckoutTypeOK
    BY DEF IInv
  <1>1. ASSUME NEW c \in Contacts, CreateContact(c) PROVE CheckoutTypeOK'
    BY <1>0, <1>1
    DEF CreateContact, CheckoutTypeOK, StoreTypeOK, orders, items, goods,
        locks, outside, handlers
  <1>2. ASSUME NEW s \in Shops, NEW raw \in RawStates, PartnerState(s, raw)
        PROVE  CheckoutTypeOK'
    <2>1. Truth(raw) \in BOOLEAN
      BY DEF Truth
    <2>2. accepting' \in [Shops -> BOOLEAN]
      BY <2>1, <1>0, <1>2 DEF PartnerState, CheckoutTypeOK, StoreTypeOK
    <2> QED
      BY <1>0, <1>2, <2>2
      DEF PartnerState, CheckoutTypeOK, StoreTypeOK, orders, items, locks,
          outside, handlers
  <1>3. ASSUME NEW u \in Users, CacheExpire(u) PROVE CheckoutTypeOK'
    BY <1>0, <1>3
    DEF CacheExpire, CheckoutTypeOK, StoreTypeOK, tables, orders, items, goods,
        locks, handlers
  <1> QED
    BY <1>1, <1>2, <1>3

\* A request that is refused a lock, or dies, keeps the types.
LEMMA AbortTyped ==
    ASSUME IInv, NEW r \in Requests, Abort(r)
    PROVE  CheckoutTypeOK'
  <1>0. CheckoutTypeOK
    BY DEF IInv
  <1>1. pc' \in [Requests -> Places] /\ loc' \in [Requests -> Local]
    BY <1>0, FinishTyped DEF Abort
  <1> QED
    BY <1>0, <1>1
    DEF Abort, EndTransaction, CheckoutTypeOK, StoreTypeOK, tables, orders,
        items, goods, outside

\* Every step keeps the types.
LEMMA NextTyped ==
    ASSUME IInv, Next
    PROVE  CheckoutTypeOK'
  <1>1. ASSUME NEW r \in Requests, Request(r) PROVE CheckoutTypeOK'
    BY <1>1, ArrivalsTyped, ConfirmReadTyped, ConfirmRejectTyped,
       CollectContactTyped
    DEF Request
  <1>2. ASSUME NEW r \in Requests, Step(r) PROVE CheckoutTypeOK'
    BY <1>2, GetCartTyped, CreateCartTyped, InvalidationTyped, ItemReadsTyped,
       ItemWritesTyped, ConfirmWriteTyped, ConfirmCommitTyped,
       DeleteContactTyped, AbortTyped
    DEF Step, Locked
  <1>3. ASSUME NEW r \in Requests, Crash(r) PROVE CheckoutTypeOK'
    BY <1>3, AbortTyped DEF Crash
  <1> QED
    BY <1>1, <1>2, <1>3, OutsidersTyped DEF Next

----------------------------------------------------------------------------
(* Locks. *)

\* A handler that is and stays outside any transaction holds no lock.
LEMMA PlainStepLocks ==
    ASSUME IInv, NEW r \in Requests, pc' = [pc EXCEPT ![r] = pc'[r]],
           pc[r] \notin InTransaction, pc'[r] \notin InTransaction,
           UNCHANGED locks
    PROVE  LocksHeld'
  BY DEF IInv, CheckoutTypeOK, HandlersConsistent, LocksHeld, locks,
         InTransaction

\* Every way to end a request with its transaction releases the locks.
LEMMA EndLocks ==
    ASSUME IInv, NEW r \in Requests, pc' = [pc EXCEPT ![r] = pc'[r]],
           pc'[r] \notin InTransaction, EndTransaction(r)
    PROVE  LocksHeld'
  BY DEF IInv, CheckoutTypeOK, HandlersConsistent, LocksHeld, EndTransaction,
         InTransaction

\* Steps that move no handler.
LEMMA IdleStepLocks ==
    ASSUME IInv, UNCHANGED <<locks, handlers>>
    PROVE  LocksHeld'
  BY DEF IInv, HandlersConsistent, LocksHeld, locks, handlers

\* The reads of a confirmation take SHARED.
LEMMA ConfirmReadLocks ==
    ASSUME IInv, NEW r \in Requests, NEW c \in Contacts, NEW o \in OrderIds,
           ConfirmRead(r, c, o)
    PROVE  LocksHeld'
  <1>1. \A t \in Requests :
           pc'[t] = IF t = r THEN "confirm_write" ELSE pc[t]
    BY DEF IInv, CheckoutTypeOK, ConfirmRead, Goto
  <1> QED
    BY <1>1
    DEF IInv, HandlersConsistent, LocksHeld, ConfirmRead, Atomic, InTransaction

\* Its first write takes RESERVED, if nobody else has it.
LEMMA ConfirmWriteLocks ==
    ASSUME IInv, NEW r \in Requests, NEW sent \in BOOLEAN,
           ConfirmWrite(r, sent)
    PROVE  LocksHeld'
  <1>1. \A t \in Requests :
           pc'[t] = IF t = r THEN "confirm_commit" ELSE pc[t]
    BY DEF IInv, CheckoutTypeOK, ConfirmWrite, Goto
  <1> QED
    BY <1>1
    DEF IInv, HandlersConsistent, LocksHeld, ConfirmWrite, CanUpgrade,
        InTransaction

\* Every step keeps the locks with the transactions.
LEMMA NextLocks ==
    ASSUME IInv, Next
    PROVE  LocksHeld'
  <1>0. pc \in [Requests -> Places]
    BY DEF IInv, CheckoutTypeOK
  <1>1. ASSUME NEW r \in Requests, Request(r) PROVE LocksHeld'
    <2>1. ASSUME NEW op, Arrive(r, op) PROVE LocksHeld'
      BY <2>1, <1>0, PlainStepLocks DEF Arrive, InTransaction, Goto
    <2>2. ASSUME NEW p, NEW q, Add(r, p, q) PROVE LocksHeld'
      BY <2>2, <1>0, PlainStepLocks DEF Add, InTransaction, Goto
    <2>3. ASSUME NEW c, ConfirmReject(r, c) PROVE LocksHeld'
      BY <2>3, IdleStepLocks DEF ConfirmReject, handlers
    <2>4. ASSUME NEW c, CollectContact(r, c) PROVE LocksHeld'
      BY <2>4, <1>0, PlainStepLocks DEF CollectContact, InTransaction, Goto
    <2> QED
      BY <1>1, <2>1, <2>2, <2>3, <2>4, ConfirmReadLocks DEF Request
  <1>2. ASSUME NEW r \in Requests, Step(r) PROVE LocksHeld'
    <2>1. CASE GetCart(r)
      BY <2>1, <1>0, PlainStepLocks DEF GetCart, InTransaction, Finish, Goto
    <2>2. CASE CreateCart(r)
      BY <2>2, <1>0, PlainStepLocks DEF CreateCart, Writes, InTransaction, Finish, Goto
    <2>3. CASE Invalidate(r) \/ LoseInvalidation(r)
      BY <2>3, <1>0, PlainStepLocks
      DEF Invalidate, LoseInvalidation, AfterInvalidation, InTransaction, Finish, Goto
    <2>4. CASE ViewItems(r) \/ PickItem(r) \/ ClearItems(r)
      BY <2>4, <1>0, PlainStepLocks
      DEF ViewItems, PickItem, ClearItems, Serves, InTransaction, Finish, Goto
    <2>5. CASE GetItem(r)
      BY <2>5, <1>0, PlainStepLocks DEF GetItem, AddTo, Serves, InTransaction, Finish, Goto
    <2>6. CASE ChangeItem(r)
      BY <2>6, <1>0, PlainStepLocks DEF ChangeItem, Serves, InTransaction, Finish, Goto
    <2>7. CASE InsertItem(r)
      BY <2>7, <1>0, PlainStepLocks
      DEF InsertItem, AddTo, Writes, InTransaction, Finish, Goto
    <2>8. CASE SaveItem(r) \/ DeleteItem(r) \/ DeleteContact(r)
      BY <2>8, <1>0, PlainStepLocks
      DEF SaveItem, DeleteItem, DeleteContact, Writes, InTransaction, Finish, Goto
    <2>9. CASE ConfirmCommit(r)
      BY <2>9, <1>0, EndLocks DEF ConfirmCommit, InTransaction, Finish, Goto
    <2>10. CASE Locked(r)
      BY <2>10, <1>0, EndLocks DEF Locked, WaitsInVain, Serves, Abort, InTransaction, Finish, Goto
    <2> QED
      BY <1>2, <2>1, <2>2, <2>3, <2>4, <2>5, <2>6, <2>7, <2>8, <2>9, <2>10,
         ConfirmWriteLocks
      DEF Step
  <1>3. ASSUME NEW r \in Requests, Crash(r) PROVE LocksHeld'
    BY <1>3, <1>0, EndLocks DEF Crash, Abort, InTransaction, Finish, Goto
  <1>4. ASSUME NEW c, CreateContact(c) PROVE LocksHeld'
    BY <1>4, IdleStepLocks DEF CreateContact
  <1>5. ASSUME NEW s, NEW raw, PartnerState(s, raw) PROVE LocksHeld'
    BY <1>5, IdleStepLocks DEF PartnerState
  <1>6. ASSUME NEW u, CacheExpire(u) PROVE LocksHeld'
    BY <1>6, IdleStepLocks DEF CacheExpire
  <1> QED
    BY <1>1, <1>2, <1>3, <1>4, <1>5, <1>6 DEF Next

----------------------------------------------------------------------------
(* Keys and locals. *)

\* Every step keeps the keys fresh.
LEMMA NextKeys ==
    ASSUME IInv, Next
    PROVE  KeysFresh'
  <1> USE DEF KeysFresh
  <1>0. CheckoutTypeOK /\ KeysFresh /\ LocalsFit /\ SnapshotCurrent
    BY DEF IInv, HandlersConsistent
  <1>1. CASE UNCHANGED <<orders, items>>
    BY <1>0, <1>1 DEF orders, items
  <1>2. ASSUME NEW r \in Requests, CreateCart(r) PROVE KeysFresh'
    <2>1. CASE UNCHANGED orders
      BY <2>1, <1>1, <1>2 DEF CreateCart
    <2>2. CASE /\ order' = [order EXCEPT ![nextOrder] =
                      [user |-> Issuer[r], state |-> "basket", contact |-> NoRow]]
               /\ nextOrder' = nextOrder + 1
      BY <2>2, <1>0, <1>2
      DEF CreateCart, items, CheckoutTypeOK, StoreTypeOK, OrderIds
    <2> QED
      BY <2>1, <2>2, <1>2 DEF CreateCart
  <1>3. ASSUME NEW r \in Requests, InsertItem(r) PROVE KeysFresh'
    <2>1. CASE UNCHANGED items
      BY <2>1, <1>1, <1>3 DEF InsertItem
    <2>2. ASSUME NEW row, item' = [item EXCEPT ![nextItem] = row],
                 nextItem' = nextItem + 1
          PROVE  KeysFresh'
      BY <2>2, <1>0, <1>3
      DEF InsertItem, orders, CheckoutTypeOK, StoreTypeOK, ItemIds
    <2> QED
      BY <2>1, <2>2, <1>3 DEF InsertItem
  <1>4. ASSUME NEW r \in Requests, SaveItem(r) PROVE KeysFresh'
    <2>1. loc[r].key < nextItem
      BY <1>0, <1>4 DEF SaveItem, Writes, LocalsFit, LocalsSet, HasRow
    <2>2. \A k \in ItemIds : k = loc[r].key \/ item'[k] = item[k]
      BY <1>0, <1>4 DEF SaveItem, CheckoutTypeOK, StoreTypeOK
    <2> QED
      BY <2>1, <2>2, <1>0, <1>4 DEF SaveItem, orders
  <1>5. ASSUME NEW r \in Requests, DeleteItem(r) \/ ClearItems(r)
        PROVE  KeysFresh'
    BY <1>0, <1>5 DEF DeleteItem, ClearItems, Without, orders
  <1>6. ASSUME NEW r \in Requests, ConfirmCommit(r) PROVE KeysFresh'
    <2>1. order[loc[r].cart] # NoRow
      BY <1>0, <1>6 DEF ConfirmCommit, SnapshotCurrent, Current, InTransaction
    <2>2. \A o \in OrderIds : order'[o] # NoRow => order[o] # NoRow
      BY <2>1, <1>0, <1>6 DEF ConfirmCommit, CheckoutTypeOK, StoreTypeOK
    <2> QED
      BY <2>2, <1>0, <1>6 DEF ConfirmCommit, items
  <1>7. ASSUME NEW r \in Requests, DeleteContact(r) PROVE KeysFresh'
    BY <1>0, <1>7 DEF DeleteContact, Without
  <1>8. ASSUME NEW r \in Requests, Request(r) \/ Step(r) \/ Crash(r)
        PROVE  KeysFresh'
    <2>1. CASE Request(r)
      BY <2>1, <1>1
      DEF Request, Arrive, Add, ConfirmRead, ConfirmReject, CollectContact, tables
    <2>2. CASE Step(r)
      BY <2>2, <1>1, <1>2, <1>3, <1>4, <1>5, <1>6, <1>7
      DEF Step, GetCart, Invalidate, LoseInvalidation, ViewItems, GetItem,
          ChangeItem, PickItem, ConfirmWrite, Locked, Abort, tables
    <2>3. CASE Crash(r)
      BY <2>3, <1>1 DEF Crash, Abort, tables
    <2> QED
      BY <1>8, <2>1, <2>2, <2>3
  <1> QED
    BY <1>1, <1>8 DEF Next, CreateContact, PartnerState, CacheExpire, tables

\* A step of one request leaves the locals of the others as they are; keys
\* only grow.
LEMMA OneRequestMoves ==
    ASSUME IInv, NEW r \in Requests, pc' = [pc EXCEPT ![r] = pc'[r]],
           loc' = [loc EXCEPT ![r] = loc'[r]], nextItem' \in Nat,
           nextItem <= nextItem', LocalsSet(r)'
    PROVE  LocalsFit'
  <1>1. ASSUME NEW t \in Requests, t # r PROVE LocalsSet(t)'
    <2>1. pc'[t] = pc[t] /\ loc'[t] = loc[t]
      BY <1>1 DEF IInv, CheckoutTypeOK
    <2>2. LocalsSet(t) /\ nextItem \in Nat
      BY DEF IInv, HandlersConsistent, LocalsFit, CheckoutTypeOK, StoreTypeOK
    <2> QED
      BY <2>1, <2>2 DEF LocalsSet, HasRow, ItemIds
  <1> QED
    BY <1>1 DEF LocalsFit

\* Where a step of a request leaves it.
LEMMA GotoSets ==
    ASSUME CheckoutTypeOK, NEW r \in Requests, NEW place, NEW l,
           Goto(r, place, l)
    PROVE  /\ pc'[r] = place /\ loc'[r] = l
           /\ pc' = [pc EXCEPT ![r] = pc'[r]]
           /\ loc' = [loc EXCEPT ![r] = loc'[r]]
  BY DEF Goto, CheckoutTypeOK

\* A request that is over needs no locals.
LEMMA FinishLocals ==
    ASSUME IInv, NEW r \in Requests, Finish(r), nextItem' \in Nat,
           nextItem <= nextItem'
    PROVE  LocalsFit'
  <1>1. /\ pc'[r] = "idle" /\ loc'[r] = Blank
        /\ pc' = [pc EXCEPT ![r] = pc'[r]]
        /\ loc' = [loc EXCEPT ![r] = loc'[r]]
    BY DEF Finish, Goto, IInv, CheckoutTypeOK
  <1>2. LocalsSet(r)'
    BY <1>1, BlankTyped DEF LocalsSet, HasRow, InTransaction
  <1> QED
    BY <1>1, <1>2, OneRequestMoves

\* POST on a row that exists sets the locals of its save.
LEMMA AddToLocals ==
    ASSUME IInv, NEW r \in Requests, loc[r].op = "add",
           loc[r].cart \in OrderIds, UNCHANGED nextItem,
           NEW k \in Line(loc[r].cart, loc[r].info), AddTo(r, k)
    PROVE  LocalsFit'
  <1> DEFINE sum == item[k].quantity + loc[r].quantity
             l == [loc[r] EXCEPT !.key = k, !.quantity = sum]
  <1>0. /\ CheckoutTypeOK /\ LocalsSet(r) /\ KeysFresh
        /\ nextItem \in Nat
    BY DEF IInv, HandlersConsistent, LocalsFit, CheckoutTypeOK, StoreTypeOK,
           ItemIds
  <1>1. k \in ItemIds /\ k < nextItem
    BY <1>0 DEF Line, Rows, KeysFresh
  <1>2. loc[r] \in Local
    BY <1>0 DEF CheckoutTypeOK
  <1>3. CASE sum \in Quantities
    <2> HIDE DEF sum
    <2>1. Goto(r, "save_item", l)
      BY <1>3 DEF AddTo, sum
    <2>2. l.cart = loc[r].cart /\ l.info = loc[r].info /\ l.quantity = sum
          /\ l.key = k /\ l.op = loc[r].op
      BY <1>2 DEF Local
    <2> HIDE DEF l
    <2>3. /\ pc'[r] = "save_item" /\ loc'[r] = l
          /\ pc' = [pc EXCEPT ![r] = pc'[r]]
          /\ loc' = [loc EXCEPT ![r] = loc'[r]]
      BY <2>1, <1>0 DEF Goto, CheckoutTypeOK
    <2>4. LocalsSet(r)'
      BY <2>2, <2>3, <1>0, <1>1, <1>3 DEF LocalsSet, HasRow, InTransaction
    <2> QED
      BY <2>3, <2>4, <1>0, OneRequestMoves
  <1>4. CASE sum \notin Quantities
    BY <1>4, <1>0, FinishLocals DEF AddTo
  <1> QED
    BY <1>3, <1>4

\* Every step keeps the locals fit for their place.
LEMMA NextLocals ==
    ASSUME IInv, Next
    PROVE  LocalsFit'
  <1>0. /\ CheckoutTypeOK /\ LocalsFit /\ KeysFresh /\ nextItem \in Nat
        /\ pc \in [Requests -> Places] /\ loc \in [Requests -> Local]
    BY DEF IInv, HandlersConsistent, CheckoutTypeOK, StoreTypeOK
  <1>1. ASSUME NEW r \in Requests, NEW place, NEW l \in Local,
               Goto(r, place, l), UNCHANGED nextItem,
               place \notin {"idle", "get_cart", "create_cart",
                             "delete_contact"} => l.cart \in OrderIds,
               l.op = "add" => l.info \in InfoIds /\ l.quantity \in Quantities,
               place = "insert_item" => l.op = "add",
               place = "save_item" => l.quantity \in Quantities,
               place \in {"save_item", "delete_item"} =>
                  l.info \in InfoIds /\ l.key \in ItemIds /\ l.key < nextItem,
               place \in InTransaction \cup {"delete_contact"} =>
                  l.contact \in Contacts
        PROVE  LocalsFit'
    <2>1. /\ pc'[r] = place /\ loc'[r] = l
          /\ pc' = [pc EXCEPT ![r] = pc'[r]]
          /\ loc' = [loc EXCEPT ![r] = loc'[r]]
      BY <1>1, <1>0 DEF Goto
    <2>2. LocalsSet(r)'
      BY <2>1, <1>1 DEF LocalsSet, HasRow, InTransaction
    <2> QED
      BY <2>1, <2>2, <1>0, <1>1, OneRequestMoves
  <1>2. ASSUME NEW r \in Requests, Finish(r), UNCHANGED nextItem
        PROVE  LocalsFit'
    BY <1>0, <1>2, FinishLocals
  <1>3. ASSUME UNCHANGED <<pc, loc, nextItem>> PROVE LocalsFit'
    BY <1>0, <1>3 DEF LocalsFit, LocalsSet, HasRow
  <1>4. ASSUME NEW r \in Requests, Request(r) PROVE LocalsFit'
    <2>1. ASSUME NEW op \in {"view", "change", "remove", "clear"}, Arrive(r, op)
          PROVE  LocalsFit'
      <3> DEFINE l == [Blank EXCEPT !.op = op]
      <3>1. l \in Local /\ l.op # "add"
        BY BlankTyped DEF Local
      <3> HIDE DEF l
      <3>2. Goto(r, "get_cart", l) /\ UNCHANGED nextItem
        BY <2>1 DEF Arrive, l, tables, items
      <3> QED
        BY <3>1, <3>2, <1>1 DEF InTransaction
    <2>2. ASSUME NEW p \in InfoIds, NEW q \in Quantities, Add(r, p, q)
          PROVE  LocalsFit'
      <3> DEFINE l == [Blank EXCEPT !.op = "add", !.info = p, !.quantity = q]
      <3>0. q \in Nat
        BY CheckoutAssumption DEF Quantities
      <3>1. l \in Local /\ l.info = p /\ l.quantity = q
        BY <3>0, BlankTyped DEF Local
      <3> HIDE DEF l
      <3>2. Goto(r, "get_cart", l) /\ UNCHANGED nextItem
        BY <2>2 DEF Add, l, tables, items
      <3> QED
        BY <3>1, <3>2, <1>1 DEF InTransaction
    <2>3. ASSUME NEW c \in Contacts, NEW o \in OrderIds, ConfirmRead(r, c, o)
          PROVE  LocalsFit'
      <3> DEFINE l == [Blank EXCEPT !.op = "confirm", !.cart = o, !.contact = c,
                                    !.lines = LinesOf(o), !.seen = Stock]
      <3>1. l \in Local /\ l.cart = o /\ l.contact = c /\ l.op = "confirm"
        BY <1>0, BlankTyped, LinesTyped, StockTyped DEF Local
      <3> HIDE DEF l
      <3>2. Goto(r, "confirm_write", l) /\ UNCHANGED nextItem
        BY <2>3 DEF ConfirmRead, l, tables, items
      <3> QED
        BY <3>1, <3>2, <1>1 DEF InTransaction
    <2>4. ASSUME NEW c \in Contacts, ConfirmReject(r, c) PROVE LocalsFit'
      BY <2>4, <1>3 DEF ConfirmReject, tables, items, handlers
    <2>5. ASSUME NEW c \in Contacts, CollectContact(r, c) PROVE LocalsFit'
      <3> DEFINE sentTo == {o \in OrderIds :
                               order[o] # NoRow /\ order[o].contact = c}
                 l == [Blank EXCEPT !.op = "forget", !.contact = c,
                                    !.orders = sentTo]
      <3>1. l \in Local /\ l.contact = c /\ l.op = "forget"
        BY BlankTyped DEF Local
      <3>2. Goto(r, "delete_contact", l) /\ UNCHANGED nextItem
        BY <2>5 DEF CollectContact, tables, items
      <3> HIDE DEF l
      <3> QED
        BY <3>1, <3>2, <1>1 DEF InTransaction
    <2> QED
      BY <1>4, <2>1, <2>2, <2>3, <2>4, <2>5 DEF Request
  <1>5. ASSUME NEW r \in Requests, Step(r) PROVE LocalsFit'
    <2>0. LocalsSet(r) /\ loc[r] \in Local
      BY <1>0 DEF LocalsFit
    <2>1. CASE GetCart(r)
      <3>1. ASSUME NEW o \in Baskets(Issuer[r]),
                   Goto(r, "item", [loc[r] EXCEPT !.cart = o])
            PROVE  LocalsFit'
        <4> DEFINE l == [loc[r] EXCEPT !.cart = o]
        <4>1. o \in OrderIds
          BY DEF Baskets
        <4>2. /\ l \in Local /\ l.cart = o /\ l.op = loc[r].op
              /\ l.info = loc[r].info /\ l.quantity = loc[r].quantity
          BY <4>1, <2>0 DEF Local
        <4> HIDE DEF l
        <4>3. Goto(r, "item", l) /\ UNCHANGED nextItem
          BY <3>1, <2>1 DEF GetCart, l, tables, items
        <4> QED
          BY <4>1, <4>2, <4>3, <2>0, <1>1 DEF LocalsSet, InTransaction
      <3>2. CASE Goto(r, "create_cart", loc[r])
        BY <3>2, <2>0, <2>1, <1>1
        DEF GetCart, tables, items, LocalsSet, InTransaction
      <3>3. CASE Finish(r)
        BY <3>3, <2>1, <1>2 DEF GetCart, tables, items
      <3> QED
        BY <2>1, <3>1, <3>2, <3>3 DEF GetCart
    <2>2. CASE CreateCart(r)
      <3>1. CASE nextOrder \in OrderIds
                 /\ Goto(r, "invalidate", [loc[r] EXCEPT !.cart = nextOrder])
        <4> DEFINE l == [loc[r] EXCEPT !.cart = nextOrder]
        <4>1. /\ l \in Local /\ l.cart = nextOrder /\ l.op = loc[r].op
              /\ l.info = loc[r].info /\ l.quantity = loc[r].quantity
          BY <3>1, <2>0 DEF Local
        <4> HIDE DEF l
        <4>2. Goto(r, "invalidate", l) /\ UNCHANGED nextItem
          BY <3>1, <2>2 DEF CreateCart, l, items
        <4> QED
          BY <4>1, <4>2, <3>1, <2>0, <1>1 DEF LocalsSet, InTransaction
      <3>2. CASE Finish(r)
        BY <3>2, <2>2, <1>2 DEF CreateCart, items
      <3> QED
        BY <2>2, <3>1, <3>2 DEF CreateCart
    <2>3. CASE Invalidate(r) \/ LoseInvalidation(r)
      <3>1. UNCHANGED nextItem /\ AfterInvalidation(r)
            /\ pc[r] = "invalidate"
        BY <2>3 DEF Invalidate, LoseInvalidation, tables, items
      <3>2. CASE Goto(r, "item", loc[r])
        BY <3>1, <3>2, <2>0, <1>1 DEF LocalsSet, InTransaction
      <3> QED
        BY <3>1, <3>2, <1>2 DEF AfterInvalidation
    <2>4. CASE ViewItems(r)
      BY <2>4, <1>2 DEF ViewItems, tables, items
    <2>5. CASE GetItem(r)
      <3>1. /\ UNCHANGED nextItem /\ loc[r].op = "add"
            /\ pc[r] = "item" /\ loc[r].cart \in OrderIds
        BY <2>5, <2>0 DEF GetItem, Serves, tables, items, LocalsSet
      <3>2. CASE Goto(r, "insert_item", loc[r])
        BY <3>1, <3>2, <2>0, <1>1 DEF LocalsSet, InTransaction
      <3> QED
        BY <2>5, <3>1, <3>2, AddToLocals DEF GetItem
    <2>6. CASE InsertItem(r)
      <3>1. loc[r].op = "add" /\ loc[r].cart \in OrderIds
        BY <2>6, <2>0 DEF InsertItem, Writes, LocalsSet
      <3>2. CASE UNCHANGED items
                 /\ \E k \in Line(loc[r].cart, loc[r].info) : AddTo(r, k)
        BY <3>1, <3>2, AddToLocals DEF items
      <3>3. CASE Finish(r) /\ UNCHANGED items
        BY <3>3, <1>2 DEF items
      <3>4. CASE Finish(r) /\ nextItem' = nextItem + 1
        BY <3>4, <1>0, FinishLocals
      <3> QED
        BY <2>6, <3>2, <3>3, <3>4 DEF InsertItem
    <2>7. CASE ChangeItem(r)
      <3>1. ASSUME NEW k \in Rows(loc[r].cart), NEW q \in Quantities,
                   Goto(r, "save_item",
                        [loc[r] EXCEPT !.key = k, !.info = item[k].info,
                                       !.quantity = q])
            PROVE  LocalsFit'
        <4> DEFINE l == [loc[r] EXCEPT !.key = k, !.info = item[k].info,
                                       !.quantity = q]
        <4>1. /\ k \in ItemIds /\ k < nextItem /\ item[k] \in ItemRow
              /\ q \in Nat
          BY <1>0, CheckoutAssumption
          DEF Rows, KeysFresh, CheckoutTypeOK, StoreTypeOK, Quantities
        <4>2. item[k].info \in InfoIds
          BY <4>1 DEF ItemRow
        <4>3. /\ l \in Local /\ l.cart = loc[r].cart /\ l.op = loc[r].op
              /\ l.key = k /\ l.info = item[k].info /\ l.quantity = q
          BY <4>1, <4>2, <2>0 DEF Local
        <4> HIDE DEF l
        <4>4. /\ Goto(r, "save_item", l) /\ UNCHANGED nextItem
              /\ loc[r].cart \in OrderIds
          BY <3>1, <2>0, <2>7
          DEF ChangeItem, Serves, LocalsSet, l, tables, items
        <4> QED
          BY <4>1, <4>2, <4>3, <4>4, <1>1 DEF InTransaction
      <3>2. CASE Finish(r)
        BY <3>2, <2>7, <1>2 DEF ChangeItem, tables, items
      <3> QED
        BY <2>7, <3>1, <3>2 DEF ChangeItem
    <2>8. CASE SaveItem(r) \/ DeleteItem(r) \/ ClearItems(r) \/ DeleteContact(r)
      BY <2>8, <1>2 DEF SaveItem, DeleteItem, ClearItems, DeleteContact
    <2>9. CASE PickItem(r)
      <3>1. ASSUME NEW k \in Rows(loc[r].cart),
                   Goto(r, "delete_item",
                        [loc[r] EXCEPT !.key = k, !.info = item[k].info])
            PROVE  LocalsFit'
        <4> DEFINE l == [loc[r] EXCEPT !.key = k, !.info = item[k].info]
        <4>1. k \in ItemIds /\ k < nextItem /\ item[k] \in ItemRow
          BY <1>0 DEF Rows, KeysFresh, CheckoutTypeOK, StoreTypeOK
        <4>2. item[k].info \in InfoIds
          BY <4>1 DEF ItemRow
        <4>3. /\ l \in Local /\ l.cart = loc[r].cart /\ l.op = loc[r].op
              /\ l.key = k /\ l.info = item[k].info
          BY <4>1, <4>2, <2>0 DEF Local
        <4> HIDE DEF l
        <4>4. /\ Goto(r, "delete_item", l) /\ UNCHANGED nextItem
              /\ loc[r].cart \in OrderIds /\ loc[r].op = "remove"
          BY <3>1, <2>0, <2>9
          DEF PickItem, Serves, LocalsSet, l, tables, items
        <4> QED
          BY <4>1, <4>2, <4>3, <4>4, <1>1 DEF InTransaction
      <3>2. CASE Finish(r)
        BY <3>2, <2>9, <1>2 DEF PickItem, tables, items
      <3> QED
        BY <2>9, <3>1, <3>2 DEF PickItem
    <2>10. ASSUME NEW sent \in BOOLEAN, ConfirmWrite(r, sent)
           PROVE  LocalsFit'
      <3>1. /\ Goto(r, "confirm_commit", loc[r]) /\ UNCHANGED nextItem
            /\ pc[r] = "confirm_write"
        BY <2>10 DEF ConfirmWrite, tables, items
      <3> QED
        BY <3>1, <2>0, <1>1 DEF LocalsSet, InTransaction
    <2>11. CASE ConfirmCommit(r)
      <3>1. UNCHANGED nextItem /\ pc[r] = "confirm_commit"
        BY <2>11 DEF ConfirmCommit, items
      <3>2. CASE Goto(r, "invalidate", loc[r])
        BY <3>1, <3>2, <2>0, <1>1 DEF LocalsSet, InTransaction
      <3> QED
        BY <2>11, <3>1, <3>2, <1>2 DEF ConfirmCommit
    <2>12. CASE Locked(r)
      BY <2>12, <1>2 DEF Locked, Abort, tables, items
    <2> QED
      BY <1>5, <2>1, <2>2, <2>3, <2>4, <2>5, <2>6, <2>7, <2>8, <2>9, <2>10,
         <2>11, <2>12
      DEF Step
  <1>6. ASSUME NEW r \in Requests, Crash(r) PROVE LocalsFit'
    BY <1>6, <1>2 DEF Crash, Abort, tables, items
  <1> QED
    BY <1>3, <1>4, <1>5, <1>6
    DEF Next, CreateContact, PartnerState, CacheExpire, tables, items, handlers

----------------------------------------------------------------------------
(* Stale rows. *)

\* A step that leaves the rows alone and after which r holds no row.
LEMMA NoNewRow ==
    ASSUME IInv, NEW r \in Requests, UNCHANGED item,
           pc' = [pc EXCEPT ![r] = pc'[r]], loc' = [loc EXCEPT ![r] = loc'[r]],
           pc'[r] \notin {"save_item", "delete_item"}
    PROVE  StaleRowsFit'
  <1>1. \A t \in Requests : HasRow(t)' =>
           t # r /\ HasRow(t) /\ loc'[t] = loc[t]
    BY DEF IInv, CheckoutTypeOK, HasRow
  <1> QED
    BY <1>1 DEF IInv, HandlersConsistent, StaleRowsFit

\* A step that reads the row it will save or delete.
LEMMA NewRow ==
    ASSUME IInv, NEW r \in Requests, UNCHANGED item,
           pc' = [pc EXCEPT ![r] = pc'[r]], loc' = [loc EXCEPT ![r] = loc'[r]],
           loc'[r].key \in ItemIds, item[loc'[r].key] # NoRow,
           item[loc'[r].key].order = loc'[r].cart,
           item[loc'[r].key].info = loc'[r].info
    PROVE  StaleRowsFit'
  <1>1. \A t \in Requests : HasRow(t)' /\ t # r =>
           HasRow(t) /\ loc'[t] = loc[t]
    BY DEF IInv, CheckoutTypeOK, HasRow
  <1> QED
    BY <1>1 DEF IInv, HandlersConsistent, StaleRowsFit

\* A step after which r is done and each row that a handler still holds
\* is gone or keeps its order and product.
LEMMA RowsKeepTheirPlace ==
    ASSUME IInv, NEW r \in Requests, Finish(r),
           \A t \in Requests : HasRow(t) =>
              LET l == loc[t] IN
              item'[l.key] # NoRow =>
                 item'[l.key].order = l.cart /\ item'[l.key].info = l.info
    PROVE  StaleRowsFit'
  <1>1. \A t \in Requests : HasRow(t)' =>
           t # r /\ HasRow(t) /\ loc'[t] = loc[t]
    BY DEF IInv, CheckoutTypeOK, HasRow, Finish, Goto
  <1> QED
    BY <1>1 DEF IInv, HandlersConsistent, StaleRowsFit

\* POST on a row that exists reads the row it will save.
LEMMA AddToStale ==
    ASSUME IInv, NEW r \in Requests, UNCHANGED item,
           NEW k \in Line(loc[r].cart, loc[r].info), AddTo(r, k)
    PROVE  StaleRowsFit'
  <1> DEFINE sum == item[k].quantity + loc[r].quantity
             l == [loc[r] EXCEPT !.key = k, !.quantity = sum]
  <1>0. CheckoutTypeOK /\ loc[r] \in Local
    BY DEF IInv, CheckoutTypeOK
  <1>1. CASE sum \in Quantities
    <2> HIDE DEF sum
    <2>1. Goto(r, "save_item", l)
      BY <1>1 DEF AddTo, sum
    <2>2. l.cart = loc[r].cart /\ l.info = loc[r].info /\ l.key = k
      BY <1>0 DEF Local
    <2> HIDE DEF l
    <2>3. /\ pc' = [pc EXCEPT ![r] = pc'[r]] /\ loc'[r] = l
          /\ loc' = [loc EXCEPT ![r] = loc'[r]]
      BY <2>1, <1>0 DEF Goto, CheckoutTypeOK
    <2> QED
      BY <2>2, <2>3, NewRow DEF Line, Rows
  <1>2. CASE sum \notin Quantities
    BY <1>2, <1>0, NoNewRow DEF AddTo, Finish, Goto, CheckoutTypeOK
  <1> QED
    BY <1>1, <1>2

\* Every step keeps stale rows in their place.
LEMMA NextStale ==
    ASSUME IInv, Next
    PROVE  StaleRowsFit'
  <1>0. /\ CheckoutTypeOK /\ LocalsFit /\ KeysFresh /\ StaleRowsFit
        /\ pc \in [Requests -> Places] /\ loc \in [Requests -> Local]
        /\ item \in [ItemIds -> ItemRow \cup {NoRow}]
    BY DEF IInv, HandlersConsistent, CheckoutTypeOK, StoreTypeOK
  <1>1. ASSUME UNCHANGED <<pc, loc, item>> PROVE StaleRowsFit'
    BY <1>0, <1>1 DEF StaleRowsFit, HasRow
  <1>2. ASSUME NEW r \in Requests, Finish(r), UNCHANGED item
        PROVE  StaleRowsFit'
    BY <1>0, <1>2, NoNewRow DEF Finish, Goto
  <1>3. ASSUME NEW r \in Requests, Request(r) PROVE StaleRowsFit'
    <2>1. ASSUME NEW op, Arrive(r, op) PROVE StaleRowsFit'
      BY <2>1, <1>0, NoNewRow DEF Arrive, Goto, tables, items
    <2>2. ASSUME NEW p, NEW q, Add(r, p, q) PROVE StaleRowsFit'
      BY <2>2, <1>0, NoNewRow DEF Add, Goto, tables, items
    <2>3. ASSUME NEW c, NEW o, ConfirmRead(r, c, o) PROVE StaleRowsFit'
      BY <2>3, <1>0, NoNewRow DEF ConfirmRead, Goto, tables, items
    <2>4. ASSUME NEW c, ConfirmReject(r, c) PROVE StaleRowsFit'
      BY <2>4, <1>1 DEF ConfirmReject, tables, items, handlers
    <2>5. ASSUME NEW c, CollectContact(r, c) PROVE StaleRowsFit'
      BY <2>5, <1>0, NoNewRow DEF CollectContact, Goto, tables, items
    <2> QED
      BY <1>3, <2>1, <2>2, <2>3, <2>4, <2>5 DEF Request
  <1>4. ASSUME NEW r \in Requests, Step(r) PROVE StaleRowsFit'
    <2>1. CASE GetCart(r) \/ CreateCart(r)
      BY <2>1, <1>0, NoNewRow
      DEF GetCart, CreateCart, Finish, Goto, tables, items
    <2>2. CASE Invalidate(r) \/ LoseInvalidation(r)
      BY <2>2, <1>0, NoNewRow
      DEF Invalidate, LoseInvalidation, AfterInvalidation, Finish, Goto, tables,
          items
    <2>3. CASE ViewItems(r)
      BY <2>3, <1>2 DEF ViewItems, tables, items
    <2>4. CASE GetItem(r)
      <3>1. CASE Goto(r, "insert_item", loc[r])
        BY <2>4, <3>1, <1>0, NoNewRow DEF GetItem, Goto, tables, items
      <3> QED
        BY <2>4, <3>1, AddToStale DEF GetItem, tables, items
    <2>5. CASE InsertItem(r)
      <3>1. ASSUME NEW row, Finish(r), item' = [item EXCEPT ![nextItem] = row]
            PROVE  StaleRowsFit'
        <4>1. ASSUME NEW t \in Requests, HasRow(t)
              PROVE  item'[loc[t].key] = item[loc[t].key]
          <5>1. loc[t].key \in ItemIds /\ loc[t].key < nextItem
            BY <4>1, <1>0 DEF LocalsFit, LocalsSet
          <5>2. loc[t].key # nextItem
            BY <5>1 DEF ItemIds
          <5> QED
            BY <5>1, <5>2, <3>1, <1>0
        <4> QED
          BY <4>1, <3>1, <1>0, RowsKeepTheirPlace DEF StaleRowsFit
      <3>2. CASE Finish(r) /\ UNCHANGED items
        BY <3>2, <1>2 DEF items
      <3>3. CASE UNCHANGED items
                 /\ \E k \in Line(loc[r].cart, loc[r].info) : AddTo(r, k)
        BY <3>3, AddToStale DEF items
      <3> QED
        BY <2>5, <3>1, <3>2, <3>3 DEF InsertItem
    <2>6. CASE ChangeItem(r)
      <3>1. ASSUME NEW k \in Rows(loc[r].cart), NEW q \in Quantities,
                   Goto(r, "save_item",
                        [loc[r] EXCEPT !.key = k, !.info = item[k].info,
                                       !.quantity = q])
            PROVE  StaleRowsFit'
        <4> DEFINE l == [loc[r] EXCEPT !.key = k, !.info = item[k].info,
                                       !.quantity = q]
        <4>1. l.cart = loc[r].cart /\ l.key = k /\ l.info = item[k].info
          BY <1>0 DEF Local
        <4> HIDE DEF l
        <4>2. /\ pc' = [pc EXCEPT ![r] = pc'[r]] /\ loc'[r] = l
              /\ loc' = [loc EXCEPT ![r] = loc'[r]]
          BY <3>1, <1>0 DEF Goto, l
        <4> QED
          BY <4>1, <4>2, <2>6, NewRow DEF ChangeItem, Rows, tables, items
      <3>2. CASE Finish(r)
        BY <3>2, <2>6, <1>2 DEF ChangeItem, tables, items
      <3> QED
        BY <2>6, <3>1, <3>2 DEF ChangeItem
    <2>7. CASE SaveItem(r)
      <3> DEFINE l == loc[r]
                 row == [order |-> l.cart, info |-> l.info,
                         quantity |-> l.quantity]
      <3>1. /\ HasRow(r) /\ l.key \in ItemIds
            /\ item' \in {item, [item EXCEPT ![l.key] = row]} /\ Finish(r)
        BY <2>7, <1>0 DEF SaveItem, Writes, LocalsFit, LocalsSet, HasRow
      <3>2. row.order = l.cart /\ row.info = l.info
        OBVIOUS
      <3> HIDE DEF row
      <3>3. ASSUME NEW t \in Requests, HasRow(t),
                   item'[loc[t].key] # NoRow
            PROVE  /\ item'[loc[t].key].order = loc[t].cart
                   /\ item'[loc[t].key].info = loc[t].info
        <4>1. CASE item'[loc[t].key] = item[loc[t].key]
          BY <4>1, <3>3, <1>0 DEF StaleRowsFit
        <4>2. CASE loc[t].key = l.key /\ item'[l.key] = row
          BY <4>2, <3>1, <3>2, <3>3, <1>0 DEF StaleRowsFit
        <4>3. loc[t].key \in ItemIds
          BY <3>3, <1>0 DEF LocalsFit, LocalsSet
        <4> QED
          BY <4>1, <4>2, <4>3, <3>1, <1>0
      <3> QED
        BY <3>1, <3>3, RowsKeepTheirPlace
    <2>8. CASE DeleteItem(r) \/ ClearItems(r) \/ DeleteContact(r)
      <3>1. /\ Finish(r)
            /\ \A k \in ItemIds : item'[k] # NoRow => item'[k] = item[k]
        BY <2>8 DEF DeleteItem, ClearItems, DeleteContact, Without
      <3>2. \A t \in Requests : HasRow(t) => loc[t].key \in ItemIds
        BY <1>0 DEF LocalsFit, LocalsSet
      <3>3. ASSUME NEW t \in Requests, HasRow(t),
                   item'[loc[t].key] # NoRow
            PROVE  /\ item'[loc[t].key].order = loc[t].cart
                   /\ item'[loc[t].key].info = loc[t].info
        <4>1. item'[loc[t].key] = item[loc[t].key]
          BY <3>1, <3>2, <3>3
        <4> QED
          BY <4>1, <3>3, <1>0 DEF StaleRowsFit
      <3> QED
        BY <3>1, <3>3, RowsKeepTheirPlace
    <2>9. CASE PickItem(r)
      <3>1. ASSUME NEW k \in Rows(loc[r].cart),
                   Goto(r, "delete_item",
                        [loc[r] EXCEPT !.key = k, !.info = item[k].info])
            PROVE  StaleRowsFit'
        <4> DEFINE l == [loc[r] EXCEPT !.key = k, !.info = item[k].info]
        <4>1. l.cart = loc[r].cart /\ l.key = k /\ l.info = item[k].info
          BY <1>0 DEF Local
        <4> HIDE DEF l
        <4>2. /\ pc' = [pc EXCEPT ![r] = pc'[r]] /\ loc'[r] = l
              /\ loc' = [loc EXCEPT ![r] = loc'[r]]
          BY <3>1, <1>0 DEF Goto, l
        <4> QED
          BY <4>1, <4>2, <2>9, NewRow DEF PickItem, Rows, tables, items
      <3>2. CASE Finish(r)
        BY <3>2, <2>9, <1>2 DEF PickItem, tables, items
      <3> QED
        BY <2>9, <3>1, <3>2 DEF PickItem
    <2>10. ASSUME NEW sent \in BOOLEAN, ConfirmWrite(r, sent)
          PROVE  StaleRowsFit'
      BY <2>10, <1>0, NoNewRow DEF ConfirmWrite, Goto, tables, items
    <2>11. CASE ConfirmCommit(r)
      BY <2>11, <1>0, NoNewRow DEF ConfirmCommit, Finish, Goto, items
    <2>12. CASE Locked(r)
      BY <2>12, <1>2 DEF Locked, Abort, tables, items
    <2> QED
      BY <1>4, <2>1, <2>2, <2>3, <2>4, <2>5, <2>6, <2>7, <2>8, <2>9, <2>10,
         <2>11, <2>12
      DEF Step
  <1>5. ASSUME NEW r \in Requests, Crash(r) PROVE StaleRowsFit'
    BY <1>5, <1>2 DEF Crash, Abort, tables, items
  <1> QED
    BY <1>1, <1>3, <1>4, <1>5
    DEF Next, CreateContact, PartnerState, CacheExpire, tables, items, handlers

----------------------------------------------------------------------------
(* Snapshots. *)

\* A step without a write keeps the snapshots of the transactions that were
\* open before it.
LEMMA NoWriteSnapshot ==
    ASSUME IInv, UNCHANGED <<order, item, info, contact>>,
           \A t \in Requests : pc'[t] \in InTransaction =>
              pc[t] \in InTransaction /\ loc'[t] = loc[t]
    PROVE  SnapshotCurrent'
  <1> SUFFICES ASSUME NEW t \in Requests, pc'[t] \in InTransaction
               PROVE  Current(t)'
    BY DEF SnapshotCurrent
  <1>1. pc[t] \in InTransaction /\ loc'[t] = loc[t]
    OBVIOUS
  <1>2. loc[t].cart \in OrderIds /\ Current(t)
    BY <1>1
    DEF IInv, HandlersConsistent, LocalsFit, LocalsSet, InTransaction,
        SnapshotCurrent
  <1>3. LinesOf(loc[t].cart)' = LinesOf(loc[t].cart) /\ Stock' = Stock
    BY <1>1, <1>2, RowsUnchanged, StockUnchanged DEF LinesOf
  <1> QED
    BY <1>1, <1>2, <1>3 DEF Current

\* A step after which no transaction is open.
LEMMA NoTransaction ==
    ASSUME \A t \in Requests : pc'[t] \notin InTransaction
    PROVE  SnapshotCurrent'
  BY DEF SnapshotCurrent

\* A step of a request after which it has no transaction open: it wrote
\* nothing, or it wrote while no other transaction was open.
LEMMA PlainStepSnapshot ==
    ASSUME IInv, NEW r \in Requests, pc' = [pc EXCEPT ![r] = pc'[r]],
           loc' = [loc EXCEPT ![r] = loc'[r]], pc'[r] \notin InTransaction,
           \/ UNCHANGED <<order, item, info, contact>>
           \/ \A t \in Requests : t # r => pc[t] \notin InTransaction
    PROVE  SnapshotCurrent'
  <1>1. \A t \in Requests : pc'[t] \in InTransaction =>
           t # r /\ pc[t] \in InTransaction /\ loc'[t] = loc[t]
    BY DEF IInv, CheckoutTypeOK
  <1> QED
    BY <1>1, NoWriteSnapshot, NoTransaction

\* The reads of a confirmation take a true snapshot, and the stock they see
\* suffices.
LEMMA ConfirmReadSnapshot ==
    ASSUME IInv, NEW r \in Requests, NEW c \in Contacts, NEW o \in OrderIds,
           ConfirmRead(r, c, o)
    PROVE  SnapshotCurrent'
  <1> DEFINE l == [Blank EXCEPT !.op = "confirm", !.cart = o, !.contact = c,
                                !.lines = LinesOf(o), !.seen = Stock]
  <1>0. CheckoutTypeOK /\ Integrity
    BY DEF IInv
  <1>1. /\ l.cart = o /\ l.contact = c /\ l.lines = LinesOf(o)
        /\ l.seen = Stock
    BY BlankTyped DEF Local
  <1>2. Goto(r, "confirm_write", l)
    BY DEF ConfirmRead
  <1> HIDE DEF l
  <1>3. \A k \in Rows(o) : k \in ItemIds /\ item[k] # NoRow /\ item[k].order = o
    BY DEF Rows
  <1>4. order[o] # NoRow
    BY <1>0, <1>3 DEF ConfirmRead, Confirmable, Integrity, ReferencesExist
  <1>5. ASSUME NEW p \in InfoIds PROVE LinesOf(o)[p] <= Stock[p]
    <2>1. CASE Line(o, p) = {}
      <3>1. LinesOf(o)[p] = 0
        BY <2>1 DEF LinesOf, Quantity
      <3>2. Stock[p] \in Nat
        BY <1>0, StockTyped
      <3> QED
        BY <3>1, <3>2
    <2>2. CASE Line(o, p) # {}
      <3>1. PICK k \in Line(o, p) : k = CHOOSE x \in Line(o, p) : TRUE
        BY <2>2
      <3>2. k \in Rows(o) /\ item[k].info = p
        BY <3>1 DEF Line
      <3>3. info[p] # NoRow
        BY <3>2, <1>0, <1>3 DEF Integrity, ReferencesExist
      <3>4. LinesOf(o)[p] = item[k].quantity
        BY <2>2, <3>1 DEF LinesOf, Quantity
      <3>5. Stock[p] = info[p].quantity
        BY <3>3 DEF Stock
      <3> QED
        BY <3>2, <3>4, <3>5 DEF ConfirmRead, Confirmable
    <2> QED
      BY <2>1, <2>2
  <1>6. LinesOf(o)' = LinesOf(o) /\ Stock' = Stock
    BY RowsUnchanged, StockUnchanged DEF ConfirmRead, tables, items, goods
  <1>7. UNCHANGED <<order, item, info, contact>>
    BY DEF ConfirmRead, tables, orders, items, goods
  <1>8. ASSUME NEW t \in Requests, pc'[t] \in InTransaction
        PROVE  Current(t)'
    <2>1. CASE t = r
      <3>1. loc'[t] = l
        BY <1>2, <2>1, <1>0 DEF Goto, CheckoutTypeOK
      <3> QED
        BY <3>1, <2>1, <1>1, <1>4, <1>5, <1>6, <1>7 DEF ConfirmRead, Current
    <2>2. CASE t # r
      <3>1. pc[t] \in InTransaction /\ loc'[t] = loc[t]
        BY <1>2, <1>8, <2>2, <1>0 DEF Goto, CheckoutTypeOK
      <3>2. loc[t].cart \in OrderIds /\ Current(t)
        BY <3>1
        DEF IInv, HandlersConsistent, LocalsFit, LocalsSet, InTransaction,
            SnapshotCurrent
      <3>3. LinesOf(loc[t].cart)' = LinesOf(loc[t].cart)
        BY <3>1, <3>2, <1>7, RowsUnchanged
      <3> QED
        BY <3>1, <3>2, <3>3, <1>6, <1>7 DEF Current
    <2> QED
      BY <2>1, <2>2
  <1> QED
    BY <1>8 DEF SnapshotCurrent

\* Every step keeps the snapshots current.
LEMMA NextSnapshot ==
    ASSUME IInv, Next
    PROVE  SnapshotCurrent'
  <1>0. CheckoutTypeOK /\ pc \in [Requests -> Places]
        /\ loc \in [Requests -> Local]
    BY DEF IInv, CheckoutTypeOK
  <1>1. ASSUME NEW r \in Requests, Request(r) PROVE SnapshotCurrent'
    <2>1. ASSUME NEW op, Arrive(r, op) PROVE SnapshotCurrent'
      BY <2>1, <1>0, PlainStepSnapshot
      DEF Arrive, Goto, tables, orders, items, goods, InTransaction
    <2>2. ASSUME NEW p, NEW q, Add(r, p, q) PROVE SnapshotCurrent'
      BY <2>2, <1>0, PlainStepSnapshot
      DEF Add, Goto, tables, orders, items, goods, InTransaction
    <2>3. ASSUME NEW c, ConfirmReject(r, c) PROVE SnapshotCurrent'
      BY <2>3, NoWriteSnapshot
      DEF ConfirmReject, tables, orders, items, goods, handlers
    <2>4. ASSUME NEW c, CollectContact(r, c) PROVE SnapshotCurrent'
      BY <2>4, <1>0, PlainStepSnapshot
      DEF CollectContact, Goto, tables, orders, items, goods, InTransaction
    <2> QED
      BY <1>1, <2>1, <2>2, <2>3, <2>4, ConfirmReadSnapshot DEF Request
  <1>2. ASSUME NEW r \in Requests, Step(r) PROVE SnapshotCurrent'
    <2>1. CASE GetCart(r) \/ ViewItems(r) \/ PickItem(r)
      BY <2>1, <1>0, PlainStepSnapshot
      DEF GetCart, ViewItems, PickItem, Finish, Goto, tables, orders, items,
          goods, InTransaction
    <2>2. CASE Invalidate(r) \/ LoseInvalidation(r)
      BY <2>2, <1>0, PlainStepSnapshot
      DEF Invalidate, LoseInvalidation, AfterInvalidation, Finish, Goto, tables,
          orders, items, goods, InTransaction
    <2>3. CASE GetItem(r)
      BY <2>3, <1>0, PlainStepSnapshot
      DEF GetItem, AddTo, Finish, Goto, tables, orders, items, goods,
          InTransaction
    <2>4. CASE ChangeItem(r)
      BY <2>4, <1>0, PlainStepSnapshot
      DEF ChangeItem, Finish, Goto, tables, orders, items, goods, InTransaction
    <2>5. CASE CreateCart(r)
      BY <2>5, <1>0, PlainStepSnapshot, WritersAreAlone
      DEF CreateCart, Writes, Finish, Goto, InTransaction
    <2>6. CASE InsertItem(r)
      BY <2>6, <1>0, PlainStepSnapshot, WritersAreAlone
      DEF InsertItem, Writes, AddTo, Finish, Goto, InTransaction
    <2>7. CASE SaveItem(r) \/ DeleteItem(r) \/ ClearItems(r) \/ DeleteContact(r)
      BY <2>7, <1>0, PlainStepSnapshot, WritersAreAlone
      DEF SaveItem, DeleteItem, ClearItems, DeleteContact, Writes, Finish, Goto,
          InTransaction
    <2>8. ASSUME NEW sent \in BOOLEAN, ConfirmWrite(r, sent)
          PROVE  SnapshotCurrent'
      <3>1. /\ UNCHANGED <<order, item, info, contact>>
            /\ pc[r] \in InTransaction
            /\ \A t \in Requests : loc'[t] = loc[t] /\ (t # r => pc'[t] = pc[t])
        BY <2>8, <1>0
        DEF ConfirmWrite, Goto, tables, orders, items, goods, InTransaction
      <3> QED
        BY <3>1, NoWriteSnapshot
    <2>9. CASE ConfirmCommit(r)
      BY <2>9, <1>0, PlainStepSnapshot, CommitsAreAlone
      DEF ConfirmCommit, Finish, Goto, InTransaction
    <2>10. CASE Locked(r)
      BY <2>10, <1>0, PlainStepSnapshot
      DEF Locked, Abort, Finish, Goto, tables, orders, items, goods,
          InTransaction
    <2> QED
      BY <1>2, <2>1, <2>2, <2>3, <2>4, <2>5, <2>6, <2>7, <2>8, <2>9, <2>10
      DEF Step
  <1>3. ASSUME NEW r \in Requests, Crash(r) PROVE SnapshotCurrent'
    BY <1>3, <1>0, PlainStepSnapshot
    DEF Crash, Abort, Finish, Goto, tables, orders, items, goods, InTransaction
  <1>4. ASSUME NEW c, CreateContact(c) PROVE SnapshotCurrent'
    BY <1>4, WritersAreAlone, NoTransaction DEF CreateContact, handlers
  <1>5. ASSUME NEW s, NEW raw, PartnerState(s, raw) PROVE SnapshotCurrent'
    BY <1>5, NoWriteSnapshot DEF PartnerState, orders, items, handlers
  <1>6. ASSUME NEW u, CacheExpire(u) PROVE SnapshotCurrent'
    BY <1>6, NoWriteSnapshot
    DEF CacheExpire, tables, orders, items, goods, handlers
  <1> QED
    BY <1>1, <1>2, <1>3, <1>4, <1>5, <1>6 DEF Next

----------------------------------------------------------------------------
(* Integrity. *)

\* The two halves: rows and their references, placed orders and their
\* addresses.
RowsIntact ==
    \A k \in ItemIds : item[k] # NoRow =>
        /\ ReferencesExist(item[k].order, item[k].info)
        /\ Line(item[k].order, item[k].info) = {k}

AddressesIntact ==
    \A o \in OrderIds : order[o] # NoRow =>
        /\ Placed(o) => order[o].contact # NoRow
        /\ order[o].contact # NoRow =>
              /\ contact[order[o].contact] = "live"
              /\ OwnerOf[order[o].contact] = order[o].user

\* Rows say the same as before and lost no reference.
LEMMA RowsStay ==
    ASSUME IInv, UNCHANGED item,
           \A o \in OrderIds : order[o] # NoRow => order'[o] # NoRow,
           \A p \in InfoIds : info[p] # NoRow => info'[p] # NoRow
    PROVE  RowsIntact'
  <1>1. \A k \in ItemIds : item[k] # NoRow => item[k] \in ItemRow
    BY DEF IInv, CheckoutTypeOK, StoreTypeOK
  <1>2. \A k \in ItemIds : item[k] # NoRow =>
           item[k].order \in OrderIds /\ item[k].info \in InfoIds
    BY <1>1 DEF ItemRow
  <1> QED
    BY <1>2 DEF IInv, Integrity, RowsIntact, ReferencesExist, Line, Rows

\* Deleting rows: those that stay keep their references.
LEMMA RowsLeave ==
    ASSUME IInv, NEW keys, item' = Without(keys), UNCHANGED info,
           \A k \in ItemIds \ keys : item[k] # NoRow =>
              order'[item[k].order] # NoRow
    PROVE  RowsIntact'
  BY DEF IInv, Integrity, RowsIntact, ReferencesExist, Line, Rows, Without

\* Writing one row: it has its references and takes nobody's place.
LEMMA RowWritten ==
    ASSUME IInv, NEW k \in ItemIds, NEW row \in ItemRow,
           item' = [item EXCEPT ![k] = row], UNCHANGED <<order, info>>,
           ReferencesExist(row.order, row.info),
           Line(row.order, row.info) \subseteq {k},
           item[k] # NoRow => item[k].order = row.order /\ item[k].info = row.info
    PROVE  RowsIntact'
  <1>1. item \in [ItemIds -> ItemRow \cup {NoRow}] /\ row # NoRow
    BY NoRowIsNoValue DEF IInv, CheckoutTypeOK, StoreTypeOK
  <1>2. \A j \in ItemIds : item'[j] = IF j = k THEN row ELSE item[j]
    BY <1>1
  <1>3. RowsIntact
    BY DEF IInv, Integrity, RowsIntact
  <1>4. ASSUME NEW j \in ItemIds, item'[j] # NoRow
        PROVE  /\ ReferencesExist(item[j].order, item[j].info)'
               /\ Line(item[j].order, item[j].info)' = {j}
    <2>1. CASE j = k
      <3>1. item'[j] = row
        BY <2>1, <1>2
      <3>2. \A i \in ItemIds : (/\ item'[i] # NoRow /\ item'[i].order = row.order
                                /\ item'[i].info = row.info) <=> i = k
        BY <1>1, <1>2 DEF Line, Rows
      <3> QED
        BY <2>1, <3>1, <3>2 DEF Line, Rows, ReferencesExist
    <2>2. CASE j # k
      <3>1. item'[j] = item[j] /\ item[j] # NoRow
        BY <2>2, <1>2, <1>4
      <3>2. /\ ReferencesExist(item[j].order, item[j].info)
            /\ Line(item[j].order, item[j].info) = {j}
        BY <3>1, <1>3 DEF RowsIntact
      <3>3. ~ (row.order = item[j].order /\ row.info = item[j].info)
        BY <2>2, <3>1 DEF Line, Rows
      <3> QED
        BY <3>1, <3>2, <3>3, <1>1, <1>2 DEF Line, Rows, ReferencesExist
    <2> QED
      BY <2>1, <2>2
  <1> QED
    BY <1>4 DEF RowsIntact, Line, Rows, ReferencesExist

\* Every step keeps the rows and their references intact.
LEMMA NextRows ==
    ASSUME IInv, Next
    PROVE  RowsIntact'
  <1>0. /\ CheckoutTypeOK /\ LocalsFit /\ KeysFresh /\ StaleRowsFit
        /\ SnapshotCurrent /\ RowsIntact
    BY DEF IInv, HandlersConsistent, Integrity, RowsIntact
  <1>1. ASSUME UNCHANGED tables PROVE RowsIntact'
    BY <1>1, RowsStay DEF tables, orders, items, goods
  <1>2. ASSUME NEW r \in Requests, CreateCart(r) PROVE RowsIntact'
    <2>1. \A o \in OrderIds : order[o] # NoRow => order'[o] # NoRow
      <3>1. CASE UNCHANGED orders
        BY <3>1 DEF orders
      <3>2. CASE order' = [order EXCEPT ![nextOrder] =
                   [user |-> Issuer[r], state |-> "basket", contact |-> NoRow]]
        <4>1. [user |-> Issuer[r], state |-> "basket", contact |-> NoRow] # NoRow
          <5>1. [user |-> Issuer[r], state |-> "basket", contact |-> NoRow]
                   \in OrderRow
            BY CheckoutAssumption DEF OrderRow, States
          <5> QED
            BY <5>1, NoRowIsNoValue
        <4> QED
          BY <3>2, <4>1, <1>0 DEF CheckoutTypeOK, StoreTypeOK
      <3> QED
        BY <1>2, <3>1, <3>2 DEF CreateCart
    <2> QED
      BY <2>1, <1>2, RowsStay DEF CreateCart, items, goods
  <1>3. ASSUME NEW r \in Requests, pc[r] \in {"insert_item", "save_item"}
        PROVE  [order |-> loc[r].cart, info |-> loc[r].info,
                quantity |-> loc[r].quantity] \in ItemRow
    <2>1. /\ loc[r].cart \in OrderIds /\ loc[r].info \in InfoIds
          /\ loc[r].quantity \in Quantities
      BY <1>0, <1>3 DEF LocalsFit, LocalsSet, HasRow
    <2> QED
      BY <2>1, CheckoutAssumption DEF ItemRow, Quantities
  <1>4. ASSUME NEW r \in Requests, InsertItem(r) PROVE RowsIntact'
    <2> DEFINE row == [order |-> loc[r].cart, info |-> loc[r].info,
                       quantity |-> loc[r].quantity]
    <2>1. CASE UNCHANGED items
      BY <2>1, <1>1, <1>4 DEF InsertItem, tables
    <2>2. CASE /\ MayInsertItem(loc[r].cart, loc[r].info)
               /\ nextItem \in ItemIds
               /\ item' = [item EXCEPT ![nextItem] = row]
      <3>1. row \in ItemRow
        BY <1>3, <1>4 DEF InsertItem, Writes
      <3>2. row.order = loc[r].cart /\ row.info = loc[r].info
        OBVIOUS
      <3> HIDE DEF row
      <3>3. item[nextItem] = NoRow
        BY <2>2, <1>0 DEF KeysFresh, ItemIds
      <3> QED
        BY <2>2, <3>1, <3>2, <3>3, <1>4, RowWritten
        DEF MayInsertItem, InsertItem, orders, goods
    <2> QED
      BY <1>4, <2>1, <2>2 DEF InsertItem
  <1>5. ASSUME NEW r \in Requests, SaveItem(r) PROVE RowsIntact'
    <2> DEFINE k == loc[r].key
               row == [order |-> loc[r].cart, info |-> loc[r].info,
                       quantity |-> loc[r].quantity]
    <2>1. /\ pc[r] = "save_item" /\ k \in ItemIds
          /\ UNCHANGED <<order, info>>
      BY <1>0, <1>5
      DEF SaveItem, Writes, LocalsFit, LocalsSet, HasRow, orders, goods
    <2>2. CASE item[k] = NoRow /\ ~ MayInsertItem(loc[r].cart, loc[r].info)
      BY <2>1, <2>2, <1>5, RowsStay DEF SaveItem
    <2>3. CASE item[k] # NoRow \/ MayInsertItem(loc[r].cart, loc[r].info)
      <3>1. item' = [item EXCEPT ![k] = row]
        BY <2>3, <1>5 DEF SaveItem
      <3>2. row \in ItemRow
        BY <2>1, <1>3
      <3>3. row.order = loc[r].cart /\ row.info = loc[r].info
        OBVIOUS
      <3> HIDE DEF row
      <3>4. item[k] # NoRow => item[k].order = row.order /\ item[k].info = row.info
        BY <2>1, <3>3, <1>0 DEF StaleRowsFit, HasRow
      <3>5. /\ ReferencesExist(row.order, row.info)
            /\ Line(row.order, row.info) \subseteq {k}
        BY <2>1, <2>3, <3>3, <3>4, <1>0 DEF RowsIntact, MayInsertItem
      <3> QED
        BY <2>1, <3>1, <3>2, <3>4, <3>5, RowWritten
    <2> QED
      BY <2>2, <2>3
  <1>6. ASSUME NEW r \in Requests, DeleteItem(r) \/ ClearItems(r)
        PROVE  RowsIntact'
    <2>1. \A k \in ItemIds : item[k] # NoRow => order[item[k].order] # NoRow
      BY <1>0 DEF RowsIntact, ReferencesExist
    <2> QED
      BY <2>1, <1>6, RowsLeave DEF DeleteItem, ClearItems, orders, goods
  <1>7. ASSUME NEW r \in Requests, ConfirmCommit(r) PROVE RowsIntact'
    <2> DEFINE l == loc[r]
               row == [user |-> Issuer[r], state |-> "new",
                       contact |-> l.contact]
    <2>1. row # NoRow
      <3>1. row \in OrderRow
        BY <1>0, <1>7, CheckoutAssumption
        DEF ConfirmCommit, LocalsFit, LocalsSet, InTransaction, OrderRow, States
      <3> QED
        BY <3>1, NoRowIsNoValue
    <2>2. \A o \in OrderIds : order[o] # NoRow => order'[o] # NoRow
      BY <2>1, <1>0, <1>7 DEF ConfirmCommit, CheckoutTypeOK, StoreTypeOK
    <2>3. \A p \in InfoIds : info[p] # NoRow => info'[p] # NoRow
      <3>1. info' \in [InfoIds -> InfoRow \cup {NoRow}]
        BY <1>7, ConfirmCommitTyped DEF CheckoutTypeOK, StoreTypeOK
      <3>2. ASSUME NEW p \in InfoIds, info[p] # NoRow PROVE info'[p] # NoRow
        <4>1. info[p] \in InfoRow
          BY <3>2, <1>0 DEF CheckoutTypeOK, StoreTypeOK
        <4>2. l.lines[p] \in Nat /\ l.seen[p] \in Nat
          BY <1>0 DEF CheckoutTypeOK, Local
        <4>3. l.lines[p] <= l.seen[p]
          BY <1>0, <1>7
          DEF ConfirmCommit, SnapshotCurrent, Current, InTransaction
        <4>4. l.seen[p] - l.lines[p] \in Nat
          BY <4>2, <4>3
        <4>5. [info[p] EXCEPT !.quantity = l.seen[p] - l.lines[p]] \in InfoRow
          BY <4>1, <4>4 DEF InfoRow
        <4>6. info'[p] \in {info[p],
                           [info[p] EXCEPT !.quantity = l.seen[p] - l.lines[p]]}
          BY <1>7 DEF ConfirmCommit, Deducted
        <4> QED
          BY <3>2, <4>5, <4>6, NoRowIsNoValue
      <3> QED
        BY <3>2
    <2> QED
      BY <2>2, <2>3, <1>7, RowsStay DEF ConfirmCommit, items
  <1>8. ASSUME NEW r \in Requests, DeleteContact(r) PROVE RowsIntact'
    <2>1. CASE UNCHANGED <<contact, order, item>>
      BY <2>1, <1>8, RowsStay DEF DeleteContact, goods
    <2> DEFINE keys == UNION {Rows(o) : o \in loc[r].orders}
    <2>2. CASE /\ order' = [o \in OrderIds |->
                               IF o \in loc[r].orders THEN NoRow ELSE order[o]]
               /\ item' = Without(keys)
      <3>1. ASSUME NEW k \in ItemIds \ keys, item[k] # NoRow
            PROVE  order'[item[k].order] # NoRow
        <4>1. /\ item[k].order \in OrderIds /\ order[item[k].order] # NoRow
              /\ k \in Rows(item[k].order)
          <5>1. item[k] \in ItemRow
            BY <3>1, <1>0 DEF CheckoutTypeOK, StoreTypeOK
          <5> QED
            BY <3>1, <5>1, <1>0 DEF RowsIntact, ReferencesExist, ItemRow, Rows
        <4>2. item[k].order \notin loc[r].orders
          BY <3>1, <4>1
        <4> QED
          BY <2>2, <4>1, <4>2
      <3> HIDE DEF keys
      <3> QED
        BY <2>2, <3>1, <1>8, RowsLeave DEF DeleteContact, goods
    <2> QED
      BY <1>8, <2>1, <2>2 DEF DeleteContact
  <1>9. ASSUME NEW r \in Requests, Request(r) \/ Step(r) \/ Crash(r)
        PROVE  RowsIntact'
    <2>1. CASE Request(r)
      BY <2>1, <1>1
      DEF Request, Arrive, Add, ConfirmRead, ConfirmReject, CollectContact
    <2>2. CASE Step(r)
      BY <2>2, <1>1, <1>2, <1>4, <1>5, <1>6, <1>7, <1>8
      DEF Step, GetCart, Invalidate, LoseInvalidation, ViewItems, GetItem,
          ChangeItem, PickItem, ConfirmWrite, Locked, Abort
    <2>3. CASE Crash(r)
      BY <2>3, <1>1 DEF Crash, Abort
    <2> QED
      BY <1>9, <2>1, <2>2, <2>3
  <1>10. ASSUME NEW c, CreateContact(c) PROVE RowsIntact'
    BY <1>10, RowsStay DEF CreateContact, orders, items, goods
  <1>11. ASSUME NEW s, NEW raw, PartnerState(s, raw) PROVE RowsIntact'
    BY <1>11, RowsStay DEF PartnerState, orders, items
  <1> QED
    BY <1>1, <1>9, <1>10, <1>11 DEF Next, CacheExpire

\* Every step keeps the addresses of the orders intact.
LEMMA NextAddresses ==
    ASSUME IInv, Next
    PROVE  AddressesIntact'
  <1>0. /\ CheckoutTypeOK /\ LocalsFit /\ SnapshotCurrent /\ AddressesIntact
        /\ order \in [OrderIds -> OrderRow \cup {NoRow}]
    BY DEF IInv, HandlersConsistent, Integrity, AddressesIntact, CheckoutTypeOK,
           StoreTypeOK
  <1>1. ASSUME UNCHANGED <<order, contact>> PROVE AddressesIntact'
    BY <1>0, <1>1 DEF AddressesIntact, Placed
  <1>2. ASSUME NEW o \in OrderIds, NEW row,
               order' = [order EXCEPT ![o] = row], UNCHANGED contact,
               row.state # "basket" => row.contact # NoRow,
               row.contact # NoRow =>
                  /\ contact[row.contact] = "live"
                  /\ OwnerOf[row.contact] = row.user
        PROVE  AddressesIntact'
    BY <1>0, <1>2 DEF AddressesIntact, Placed
  <1>3. ASSUME NEW r \in Requests, CreateCart(r) PROVE AddressesIntact'
    <2>1. CASE UNCHANGED orders
      BY <2>1, <1>1, <1>3 DEF CreateCart, orders
    <2>2. CASE /\ nextOrder \in OrderIds
               /\ order' = [order EXCEPT ![nextOrder] =
                      [user |-> Issuer[r], state |-> "basket", contact |-> NoRow]]
      <3> DEFINE row == [user |-> Issuer[r], state |-> "basket",
                         contact |-> NoRow]
      <3>1. row.state = "basket" /\ row.contact = NoRow
        OBVIOUS
      <3>2. order' = [order EXCEPT ![nextOrder] = row] /\ UNCHANGED contact
        BY <2>2, <1>3 DEF CreateCart
      <3> HIDE DEF row
      <3> QED
        BY <2>2, <3>1, <3>2, <1>2
    <2> QED
      BY <1>3, <2>1, <2>2 DEF CreateCart
  <1>4. ASSUME NEW r \in Requests, ConfirmCommit(r) PROVE AddressesIntact'
    <2> DEFINE row == [user |-> Issuer[r], state |-> "new",
                       contact |-> loc[r].contact]
    <2>1. /\ row.state = "new" /\ row.user = Issuer[r]
          /\ row.contact = loc[r].contact
      OBVIOUS
    <2>2. order' = [order EXCEPT ![loc[r].cart] = row] /\ UNCHANGED contact
      BY <1>4 DEF ConfirmCommit
    <2>3. /\ loc[r].cart \in OrderIds /\ loc[r].contact \in Contacts
          /\ contact[loc[r].contact] = "live"
          /\ OwnerOf[loc[r].contact] = Issuer[r]
      BY <1>0, <1>4
      DEF ConfirmCommit, LocalsFit, LocalsSet, SnapshotCurrent, Current,
          InTransaction
    <2> HIDE DEF row
    <2> QED
      BY <2>1, <2>2, <2>3, <1>2, NoRowIsNoValue
  <1>5. ASSUME NEW r \in Requests, DeleteContact(r) PROVE AddressesIntact'
    <2>1. CASE UNCHANGED <<contact, order, item>>
      BY <2>1, <1>1
    <2>2. CASE /\ LeavesNoOrphan(loc[r])
               /\ contact' = [contact EXCEPT ![loc[r].contact] = "deleted"]
               /\ order' = [o \in OrderIds |->
                               IF o \in loc[r].orders THEN NoRow ELSE order[o]]
      <3>1. ASSUME NEW o \in OrderIds, order'[o] # NoRow
            PROVE  /\ order'[o] = order[o]
                   /\ order[o].contact # loc[r].contact
        BY <2>2, <3>1 DEF LeavesNoOrphan
      <3>2. ASSUME NEW c, c # loc[r].contact, contact[c] = "live",
                   c \in Contacts
            PROVE  contact'[c] = "live"
        BY <2>2, <3>2, <1>0 DEF CheckoutTypeOK, StoreTypeOK
      <3>3. \A o \in OrderIds : order[o] # NoRow =>
               order[o].contact \in Contacts \cup {NoRow}
        <4>1. \A o \in OrderIds : order[o] # NoRow => order[o] \in OrderRow
          BY <1>0
        <4> QED
          BY <4>1 DEF OrderRow
      <3> QED
        BY <3>1, <3>2, <3>3, <1>0 DEF AddressesIntact, Placed
    <2> QED
      BY <1>5, <2>1, <2>2 DEF DeleteContact
  <1>6. ASSUME NEW c \in Contacts, CreateContact(c) PROVE AddressesIntact'
    <2>1. \A d \in Contacts : contact[d] = "live" => contact'[d] = "live"
      BY <1>6, <1>0 DEF CreateContact, CheckoutTypeOK, StoreTypeOK
    <2>2. \A o \in OrderIds : order[o] # NoRow =>
             order[o].contact \in Contacts \cup {NoRow}
      <3>1. \A o \in OrderIds : order[o] # NoRow => order[o] \in OrderRow
        BY <1>0
      <3> QED
        BY <3>1 DEF OrderRow
    <2> QED
      BY <2>1, <2>2, <1>0, <1>6
      DEF CreateContact, orders, AddressesIntact, Placed
  <1>7. ASSUME NEW r \in Requests, Request(r) \/ Step(r) \/ Crash(r)
        PROVE  AddressesIntact'
    <2>1. CASE Request(r)
      BY <2>1, <1>1
      DEF Request, Arrive, Add, ConfirmRead, ConfirmReject, CollectContact,
          tables, orders
    <2>2. CASE Step(r)
      BY <2>2, <1>1, <1>3, <1>4, <1>5
      DEF Step, GetCart, Invalidate, LoseInvalidation, ViewItems, GetItem,
          InsertItem, ChangeItem, SaveItem, PickItem, DeleteItem, ClearItems,
          ConfirmWrite, Locked, Abort, tables, orders
    <2>3. CASE Crash(r)
      BY <2>3, <1>1 DEF Crash, Abort, tables, orders
    <2> QED
      BY <1>7, <2>1, <2>2, <2>3
  <1> QED
    BY <1>1, <1>6, <1>7 DEF Next, PartnerState, CacheExpire, tables, orders

----------------------------------------------------------------------------
(* The theorems. *)

\* The inductive invariant is one.
LEMMA NextIInv == IInv /\ [Next]_vars => IInv'
  <1> SUFFICES ASSUME IInv, [Next]_vars PROVE IInv'
    OBVIOUS
  <1>1. CASE Next
    <2>1. HandlersConsistent'
      BY <1>1, NextLocks, NextKeys, NextLocals, NextStale DEF HandlersConsistent
    <2>2. Integrity'
      BY <1>1, NextRows, NextAddresses
      DEF Integrity, RowsIntact, AddressesIntact
    <2> QED
      BY <1>1, <2>1, <2>2, NextTyped, NextSnapshot DEF IInv
  <1>2. CASE UNCHANGED vars
    <2> USE <1>2
        DEF vars, tables, orders, items, goods, locks, outside, handlers
    <2>1. CheckoutTypeOK'
      BY DEF IInv, CheckoutTypeOK, StoreTypeOK
    <2>2. HandlersConsistent'
      BY DEF IInv, HandlersConsistent, LocksHeld, KeysFresh, LocalsFit,
             LocalsSet, HasRow, StaleRowsFit
    <2>3. SnapshotCurrent'
      BY NoWriteSnapshot
    <2>4. Integrity'
      BY DEF IInv, Integrity, ReferencesExist, Line, Rows, Placed
    <2> QED
      BY <2>1, <2>2, <2>3, <2>4 DEF IInv
  <1> QED
    BY <1>1, <1>2

\* Every reachable state satisfies the inductive invariant.
THEOREM Inductive == Spec => []IInv
  BY InitIInv, NextIInv, PTL DEF Spec

\* Tables, locks, cache and locals keep their types: in particular no stock
\* ever becomes negative (orders/views.py, the check of the stock and the
\* deduction).
THEOREM TypeCorrect == Spec => []CheckoutTypeOK
  <1>1. IInv => CheckoutTypeOK
    BY DEF IInv
  <1> QED
    BY <1>1, Inductive, PTL

\* What a confirmation read is true until it commits, whatever the other
\* requests do meanwhile (orders/views.py, ConfirmOrderView.post).
THEOREM SnapshotsStayCurrent == Spec => []SnapshotCurrent
  <1>1. IInv => SnapshotCurrent
    BY DEF IInv
  <1> QED
    BY <1>1, Inductive, PTL

\* The foreign keys and unique_order_item (orders/models.py) survive stale
\* saves, re-inserted rows and cascades, and every placed order has a live
\* address of its buyer.
THEOREM IntegrityHolds == Spec => []Integrity
  <1>1. IInv => Integrity
    BY DEF IInv
  <1> QED
    BY <1>1, Inductive, PTL

\* Locks belong to open transactions, keys are fresh, and what the handlers
\* hold from earlier reads fits the database (cart/views.py).
THEOREM HandlersStayConsistent == Spec => []HandlersConsistent
  <1>1. IInv => HandlersConsistent
    BY DEF IInv
  <1> QED
    BY <1>1, Inductive, PTL

----------------------------------------------------------------------------
(* Buyers stay apart. *)

\* Buyers are apart when the service starts.
LEMMA InitOwnership == Init => Ownership
  BY BlankTyped DEF Init, Ownership, InTransaction, Blank

\* No step gives an order to another buyer.
LEMMA BelongingStays ==
    ASSUME IInv, Ownership, Next, NEW o \in OrderIds, NEW u, BelongsTo(o, u)
    PROVE  BelongsTo(o, u)'
  <1> USE DEF BelongsTo
  <1>0. /\ CheckoutTypeOK /\ SnapshotCurrent
        /\ order \in [OrderIds -> OrderRow \cup {NoRow}] /\ nextOrder \in Nat
    BY DEF IInv, CheckoutTypeOK, StoreTypeOK, OrderIds
  <1>1. CASE UNCHANGED orders
    BY <1>1 DEF orders
  <1>2. ASSUME NEW r \in Requests, CreateCart(r) PROVE BelongsTo(o, u)'
    <2>1. CASE /\ nextOrder' = nextOrder + 1
               /\ order' = [order EXCEPT ![nextOrder] =
                      [user |-> Issuer[r], state |-> "basket", contact |-> NoRow]]
      <3>1. o # nextOrder
        BY <1>0 DEF OrderIds
      <3> QED
        BY <2>1, <3>1, <1>0 DEF OrderIds
    <2> QED
      BY <2>1, <1>1, <1>2 DEF CreateCart
  <1>3. ASSUME NEW r \in Requests, ConfirmCommit(r) PROVE BelongsTo(o, u)'
    <2> DEFINE row == [user |-> Issuer[r], state |-> "new",
                       contact |-> loc[r].contact]
    <2>1. row.user = Issuer[r]
      OBVIOUS
    <2>2. /\ order[loc[r].cart] # NoRow
          /\ order[loc[r].cart].user = Issuer[r]
      BY <1>0, <1>3
      DEF ConfirmCommit, SnapshotCurrent, Current, Ownership, InTransaction
    <2>3. order' = [order EXCEPT ![loc[r].cart] = row]
          /\ UNCHANGED nextOrder
      BY <1>3 DEF ConfirmCommit
    <2> HIDE DEF row
    <2> QED
      BY <2>1, <2>2, <2>3, <1>0
  <1>4. ASSUME NEW r \in Requests, DeleteContact(r) PROVE BelongsTo(o, u)'
    BY <1>4 DEF DeleteContact
  <1>5. ASSUME NEW r \in Requests, Request(r) \/ Step(r) \/ Crash(r)
        PROVE  BelongsTo(o, u)'
    <2>1. CASE Request(r)
      BY <2>1, <1>1
      DEF Request, Arrive, Add, ConfirmRead, ConfirmReject, CollectContact,
          tables
    <2>2. CASE Step(r)
      BY <2>2, <1>1, <1>2, <1>3, <1>4
      DEF Step, GetCart, Invalidate, LoseInvalidation, ViewItems, GetItem,
          InsertItem, ChangeItem, SaveItem, PickItem, DeleteItem, ClearItems,
          ConfirmWrite, Locked, Abort, tables
    <2>3. CASE Crash(r)
      BY <2>3, <1>1 DEF Crash, Abort, tables
    <2> QED
      BY <1>5, <2>1, <2>2, <2>3
  <1> QED
    BY <1>1, <1>5 DEF Next, CreateContact, PartnerState, CacheExpire, tables

\* A step that puts no order into the cache, a transaction or a cascade.
LEMMA NothingTaken ==
    ASSUME IInv, Ownership, Next,
           \A u \in Users : basketCache'[u] \in {Miss, basketCache[u]},
           \A t \in Requests :
              /\ loc'[t].orders \in {{}, loc[t].orders}
              /\ pc'[t] \in InTransaction =>
                    pc[t] \in InTransaction /\ loc'[t].cart = loc[t].cart
    PROVE  Ownership'
  <1>1. /\ \A u \in Users : basketCache[u] # Miss => basketCache[u] \subseteq OrderIds
        /\ \A t \in Requests : loc[t].orders \subseteq OrderIds
        /\ \A t \in Requests : pc[t] \in InTransaction => loc[t].cart \in OrderIds
    BY DEF IInv, CheckoutTypeOK, Local, HandlersConsistent, LocalsFit,
           LocalsSet, InTransaction
  <1>2. ASSUME NEW u \in Users, basketCache'[u] # Miss,
               NEW o \in basketCache'[u]
        PROVE  BelongsTo(o, u)'
    <2>1. BelongsTo(o, u) /\ o \in OrderIds
      BY <1>1, <1>2 DEF Ownership
    <2> QED
      BY <2>1, BelongingStays
  <1>3. ASSUME NEW t \in Requests, NEW o \in loc'[t].orders
        PROVE  BelongsTo(o, Issuer[t])'
    <2>1. BelongsTo(o, Issuer[t]) /\ o \in OrderIds
      BY <1>1, <1>3 DEF Ownership
    <2> QED
      BY <2>1, BelongingStays
  <1>4. ASSUME NEW t \in Requests, pc'[t] \in InTransaction
        PROVE  BelongsTo(loc[t].cart, Issuer[t])'
    <2>1. /\ BelongsTo(loc[t].cart, Issuer[t]) /\ loc[t].cart \in OrderIds
          /\ loc'[t].cart = loc[t].cart
      BY <1>1, <1>4 DEF Ownership
    <2>2. BelongsTo(loc[t].cart, Issuer[t])
          => \A o \in OrderIds : o = loc[t].cart =>
                /\ o < nextOrder'
                /\ order'[o] # NoRow => order'[o].user = Issuer[t]
      BY <2>1, BelongingStays DEF BelongsTo
    <2> QED
      BY <2>1, <2>2 DEF BelongsTo
  <1> QED
    BY <1>2, <1>3, <1>4 DEF Ownership

\* What a buyer's query finds, in the cache or in the table, is theirs.
LEMMA SeenBelongs ==
    ASSUME IInv, Ownership, NEW u \in Users, BasketsSeen(u) # Miss,
           NEW o \in BasketsSeen(u)
    PROVE  o \in OrderIds /\ BelongsTo(o, u)
  <1>1. CASE basketCache[u] = Miss
    BY <1>1
    DEF BasketsSeen, Baskets, IInv, HandlersConsistent, KeysFresh, BelongsTo
  <1>2. CASE basketCache[u] # Miss
    BY <1>2 DEF BasketsSeen, Ownership, IInv, CheckoutTypeOK
  <1> QED
    BY <1>1, <1>2

\* Every step keeps the buyers apart.
LEMMA NextOwnership ==
    ASSUME IInv, Ownership, Next
    PROVE  Ownership'
  <1>0. /\ CheckoutTypeOK /\ pc \in [Requests -> Places]
        /\ loc \in [Requests -> Local]
        /\ basketCache \in [Users -> {Miss} \cup SUBSET OrderIds]
        /\ Blank.orders = {}
    BY DEF IInv, CheckoutTypeOK, Blank
  <1>1. ASSUME NEW r \in Requests, NEW place, NEW l, Goto(r, place, l),
               l.orders \in {{}, loc[r].orders},
               place \in InTransaction =>
                  pc[r] \in InTransaction /\ l.cart = loc[r].cart,
               \A u \in Users : basketCache'[u] \in {Miss, basketCache[u]}
        PROVE  Ownership'
    <2>1. \A t \in Requests :
             /\ pc'[t] = IF t = r THEN place ELSE pc[t]
             /\ loc'[t] = IF t = r THEN l ELSE loc[t]
      BY <1>1, <1>0 DEF Goto
    <2> QED
      BY <2>1, <1>1, NothingTaken
  <1>2. ASSUME NEW r \in Requests, Finish(r),
               \A u \in Users : basketCache'[u] \in {Miss, basketCache[u]}
        PROVE  Ownership'
    BY <1>0, <1>1, <1>2 DEF Finish, InTransaction
  <1>3. ASSUME UNCHANGED handlers,
               \A u \in Users : basketCache'[u] \in {Miss, basketCache[u]}
        PROVE  Ownership'
    BY <1>3, NothingTaken DEF handlers
  <1>4. ASSUME NEW r \in Requests, NEW c \in Contacts, NEW o \in OrderIds,
               ConfirmRead(r, c, o)
        PROVE  Ownership'
    <2> DEFINE l == [Blank EXCEPT !.op = "confirm", !.cart = o, !.contact = c,
                                  !.lines = LinesOf(o), !.seen = Stock]
    <2>1. l.cart = o /\ l.orders = {}
      BY <1>0, BlankTyped DEF Local
    <2>2. Goto(r, "confirm_write", l)
      BY <1>4 DEF ConfirmRead
    <2> HIDE DEF l
    <2>3. /\ pc' = [pc EXCEPT ![r] = "confirm_write"]
          /\ loc' = [loc EXCEPT ![r] = l]
          /\ basketCache' = [basketCache EXCEPT ![Issuer[r]] = {o}]
      BY <2>2, <1>4 DEF Goto, ConfirmRead
    <2>4. Issuer[r] \in Users
      BY CheckoutAssumption
    <2>5. BelongsTo(o, Issuer[r])
      BY <1>4, <2>4, SeenBelongs, CheckoutAssumption DEF ConfirmRead
    <2>6. UNCHANGED orders
      BY <1>4 DEF ConfirmRead, tables
    <2> QED
      BY <2>1, <2>3, <2>4, <2>5, <2>6, <1>0
      DEF Ownership, BelongsTo, orders, InTransaction
  <1>5. ASSUME NEW r \in Requests, NEW c \in Contacts, ConfirmReject(r, c)
        PROVE  Ownership'
    <2>1. /\ basketCache' = [basketCache EXCEPT ![Issuer[r]] =
                                BasketsSeen(Issuer[r])]
          /\ UNCHANGED <<orders, pc, loc>> /\ Issuer[r] \in Users
      BY <1>5, CheckoutAssumption DEF ConfirmReject, tables, handlers
    <2>2. BasketsSeen(Issuer[r]) # Miss =>
             \A o \in BasketsSeen(Issuer[r]) : BelongsTo(o, Issuer[r])
      BY <2>1, SeenBelongs
    <2> QED
      BY <2>1, <2>2, <1>0 DEF Ownership, BelongsTo, orders
  <1>6. ASSUME NEW r \in Requests, NEW c \in Contacts, CollectContact(r, c)
        PROVE  Ownership'
    <2> DEFINE sentTo == {o \in OrderIds : order[o] # NoRow /\ order[o].contact = c}
               l == [Blank EXCEPT !.op = "forget", !.contact = c,
                                  !.orders = sentTo]
    <2>1. l.orders = sentTo
      BY BlankTyped DEF Local
    <2>2. Goto(r, "delete_contact", l)
      BY <1>6 DEF CollectContact
    <2> HIDE DEF l
    <2>3. /\ pc' = [pc EXCEPT ![r] = "delete_contact"]
          /\ loc' = [loc EXCEPT ![r] = l]
          /\ UNCHANGED <<basketCache, orders>>
      BY <2>2, <1>6 DEF Goto, CollectContact, tables, outside
    <2>4. \A o \in sentTo : BelongsTo(o, Issuer[r])
      BY <1>6, NoRowIsNoValue
      DEF CollectContact, IInv, Integrity, HandlersConsistent, KeysFresh,
          BelongsTo
    <2> QED
      BY <2>1, <2>3, <2>4, <1>0 DEF Ownership, BelongsTo, orders, InTransaction
  <1>7. ASSUME NEW r \in Requests, Request(r) PROVE Ownership'
    <2>1. ASSUME NEW op, Arrive(r, op) PROVE Ownership'
      <3> DEFINE l == [Blank EXCEPT !.op = op]
      <3>1. l.orders = {} /\ Goto(r, "get_cart", l)
        BY <2>1, <1>0, BlankTyped DEF Arrive, Local
      <3> HIDE DEF l
      <3> QED
        BY <2>1, <3>1, <1>1 DEF Arrive, outside, InTransaction
    <2>2. ASSUME NEW p, NEW q, Add(r, p, q) PROVE Ownership'
      <3> DEFINE l == [Blank EXCEPT !.op = "add", !.info = p, !.quantity = q]
      <3>1. l.orders = {} /\ Goto(r, "get_cart", l)
        BY <2>2, <1>0, BlankTyped DEF Add, Local
      <3> HIDE DEF l
      <3> QED
        BY <2>2, <3>1, <1>1 DEF Add, outside, InTransaction
    <2> QED
      BY <1>7, <1>4, <1>5, <1>6, <2>1, <2>2 DEF Request
  <1>8. ASSUME NEW r \in Requests, Step(r) PROVE Ownership'
    <2>0. loc[r] \in Local
      BY <1>0
    <2>1. CASE GetCart(r)
      <3>1. ASSUME NEW o, Goto(r, "item", [loc[r] EXCEPT !.cart = o])
            PROVE  Ownership'
        <4> DEFINE l == [loc[r] EXCEPT !.cart = o]
        <4>1. l.orders = loc[r].orders /\ Goto(r, "item", l)
          BY <3>1, <2>0 DEF Local
        <4> HIDE DEF l
        <4> QED
          BY <2>1, <4>1, <1>1 DEF GetCart, outside, InTransaction
      <3> QED
        BY <2>1, <3>1, <1>1, <1>2 DEF GetCart, outside, InTransaction
    <2>2. CASE CreateCart(r)
      <3> DEFINE l == [loc[r] EXCEPT !.cart = nextOrder]
      <3>1. l.orders = loc[r].orders
            /\ (Goto(r, "invalidate", l) \/ Finish(r))
        BY <2>2, <2>0 DEF CreateCart, Local
      <3> HIDE DEF l
      <3> QED
        BY <2>2, <3>1, <1>1, <1>2 DEF CreateCart, outside, InTransaction
    <2>3. CASE Invalidate(r) \/ LoseInvalidation(r)
      <3>1. \A u \in Users : basketCache'[u] \in {Miss, basketCache[u]}
        BY <2>3, <1>0 DEF Invalidate, LoseInvalidation, outside
      <3>2. Goto(r, "item", loc[r]) \/ Finish(r)
        BY <2>3 DEF Invalidate, LoseInvalidation, AfterInvalidation
      <3> QED
        BY <3>1, <3>2, <1>1, <1>2 DEF InTransaction
    <2>4. CASE ViewItems(r)
      BY <2>4, <1>2 DEF ViewItems, outside
    <2>5. ASSUME NEW k, AddTo(r, k), UNCHANGED outside PROVE Ownership'
      <3> DEFINE sum == item[k].quantity + loc[r].quantity
                 l == [loc[r] EXCEPT !.key = k, !.quantity = sum]
      <3>1. l.orders = loc[r].orders
        BY <2>0 DEF Local
      <3>2. Goto(r, "save_item", l) \/ Finish(r)
        BY <2>5 DEF AddTo
      <3> HIDE DEF l
      <3> QED
        BY <3>1, <3>2, <2>5, <1>1, <1>2 DEF outside, InTransaction
    <2>6. CASE GetItem(r)
      <3>1. CASE Goto(r, "insert_item", loc[r])
        BY <2>6, <3>1, <1>1 DEF GetItem, outside, InTransaction
      <3> QED
        BY <2>6, <3>1, <2>5 DEF GetItem
    <2>7. CASE InsertItem(r)
      BY <2>7, <2>5, <1>2 DEF InsertItem, outside
    <2>8. CASE ChangeItem(r)
      <3>1. ASSUME NEW k, NEW q,
                   Goto(r, "save_item",
                        [loc[r] EXCEPT !.key = k, !.info = item[k].info,
                                       !.quantity = q])
            PROVE  Ownership'
        <4> DEFINE l == [loc[r] EXCEPT !.key = k, !.info = item[k].info,
                                       !.quantity = q]
        <4>1. l.orders = loc[r].orders /\ Goto(r, "save_item", l)
          BY <3>1, <2>0 DEF Local
        <4> HIDE DEF l
        <4> QED
          BY <2>8, <4>1, <1>1 DEF ChangeItem, outside, InTransaction
      <3> QED
        BY <2>8, <3>1, <1>2 DEF ChangeItem, outside
    <2>9. CASE SaveItem(r) \/ DeleteItem(r) \/ ClearItems(r) \/ DeleteContact(r)
      BY <2>9, <1>2 DEF SaveItem, DeleteItem, ClearItems, DeleteContact, outside
    <2>10. CASE PickItem(r)
      <3>1. ASSUME NEW k,
                   Goto(r, "delete_item",
                        [loc[r] EXCEPT !.key = k, !.info = item[k].info])
            PROVE  Ownership'
        <4> DEFINE l == [loc[r] EXCEPT !.key = k, !.info = item[k].info]
        <4>1. l.orders = loc[r].orders /\ Goto(r, "delete_item", l)
          BY <3>1, <2>0 DEF Local
        <4> HIDE DEF l
        <4> QED
          BY <2>10, <4>1, <1>1 DEF PickItem, outside, InTransaction
      <3> QED
        BY <2>10, <3>1, <1>2 DEF PickItem, outside
    <2>11. ASSUME NEW sent \in BOOLEAN, ConfirmWrite(r, sent)
           PROVE  Ownership'
      <3>1. /\ Goto(r, "confirm_commit", loc[r]) /\ pc[r] \in InTransaction
            /\ UNCHANGED basketCache
        BY <2>11 DEF ConfirmWrite, InTransaction
      <3> QED
        BY <3>1, <1>1
    <2>12. CASE ConfirmCommit(r)
      BY <2>12, <1>1, <1>2 DEF ConfirmCommit, outside, InTransaction
    <2>13. CASE Locked(r)
      BY <2>13, <1>2 DEF Locked, Abort, outside
    <2> QED
      BY <1>8, <2>1, <2>2, <2>3, <2>4, <2>6, <2>7, <2>8, <2>9, <2>10, <2>11,
         <2>12, <2>13
      DEF Step
  <1>9. ASSUME NEW r \in Requests, Crash(r) PROVE Ownership'
    BY <1>9, <1>2 DEF Crash, Abort, outside
  <1>10. ASSUME NEW u \in Users, CacheExpire(u) PROVE Ownership'
    <2>1. \A v \in Users : basketCache'[v] \in {Miss, basketCache[v]}
      BY <1>10, <1>0 DEF CacheExpire
    <2> QED
      BY <1>10, <2>1, <1>3 DEF CacheExpire
  <1> QED
    BY <1>3, <1>7, <1>8, <1>9, <1>10
    DEF Next, CreateContact, PartnerState, outside

\* Nothing that keeps all variables mixes the buyers up.
LEMMA StutterOwnership ==
    ASSUME Ownership, UNCHANGED vars
    PROVE  Ownership'
  BY DEF Ownership, BelongsTo, vars, tables, orders, outside, handlers

\* Buyers stay apart: the cache, a confirmation and the deletion of an
\* address never hand a buyer's order to another (orders/views.py, the
\* filters by request.user).
THEOREM OwnershipHolds == Spec => []Ownership
  <1>1. IInv /\ Ownership /\ [Next]_vars => Ownership'
    BY NextOwnership, StutterOwnership
  <1> QED
    BY <1>1, InitOwnership, Inductive, PTL DEF Spec

----------------------------------------------------------------------------
(* Action properties. *)

\* The commit of a confirmation takes what the order holds from the stock.
LEMMA CommitDeducts ==
    ASSUME IInv, NEW r \in Requests, ConfirmCommit(r)
    PROVE  \E o \in OrderIds :
              /\ o = loc[r].cart /\ Placed(o)'
              /\ loc[r].lines = LinesOf(o)
              /\ LinesOf(o)' = LinesOf(o)
              /\ \A p \in InfoIds : Stock'[p] + LinesOf(o)'[p] = Stock[p]
  <1>0. /\ CheckoutTypeOK /\ Current(r) /\ loc[r].cart \in OrderIds
        /\ loc[r].contact \in Contacts
    BY DEF IInv, SnapshotCurrent, HandlersConsistent, LocalsFit, LocalsSet,
           ConfirmCommit, InTransaction
  <1>1. PICK o \in OrderIds : o = loc[r].cart
    BY <1>0
  <1>2. PICK row : row = [user |-> Issuer[r], state |-> "new",
                          contact |-> loc[r].contact]
    OBVIOUS
  <1>3. Placed(o)'
    <2>1. row \in OrderRow /\ row.state = "new"
      BY <1>0, <1>2, CheckoutAssumption DEF OrderRow, States
    <2>2. order'[o] = row
      BY <1>0, <1>1, <1>2 DEF ConfirmCommit, CheckoutTypeOK, StoreTypeOK
    <2> QED
      BY <2>1, <2>2, NoRowIsNoValue DEF Placed
  <1>4. LinesOf(o)' = LinesOf(o)
    BY RowsUnchanged DEF ConfirmCommit, items
  <1>5. PICK lines \in [InfoIds -> Nat] : lines = loc[r].lines
    BY <1>0 DEF CheckoutTypeOK, Local
  <1>6. lines = LinesOf(o) /\ loc[r].seen = Stock
    BY <1>0, <1>1, <1>5 DEF Current
  <1>7. ASSUME NEW p \in InfoIds PROVE Stock'[p] + lines[p] = Stock[p]
    <2>1. Stock[p] \in Nat /\ lines[p] <= Stock[p]
      BY <1>0, <1>5, <1>6, StockTyped DEF Current
    <2>2. info'[p] = IF lines[p] = 0 THEN info[p]
                     ELSE [info[p] EXCEPT !.quantity = Stock[p] - lines[p]]
      BY <1>5, <1>6 DEF ConfirmCommit, Deducted
    <2>3. CASE lines[p] = 0
      <3>1. Stock'[p] = Stock[p]
        BY <2>2, <2>3 DEF Stock
      <3> QED
        BY <2>1, <2>3, <3>1
    <2>4. CASE lines[p] # 0
      <3>1. info[p] # NoRow
        BY <2>1, <2>4, <1>5 DEF Stock
      <3>2. info[p] \in InfoRow
        BY <3>1, <1>0 DEF CheckoutTypeOK, StoreTypeOK
      <3>3. PICK n \in Nat : n = Stock[p] - lines[p]
        BY <2>1, <1>5
      <3>4. info'[p] \in InfoRow /\ info'[p].quantity = n
        BY <2>2, <2>4, <3>2, <3>3 DEF InfoRow
      <3>5. Stock'[p] = n
        BY <3>4, NoRowIsNoValue DEF Stock
      <3> QED
        BY <2>1, <3>3, <3>5
    <2> QED
      BY <2>3, <2>4
  <1> QED
    BY <1>1, <1>3, <1>4, <1>5, <1>6, <1>7

\* Only the commit of a confirmation writes to the stock.
LEMMA StockWriters ==
    ASSUME Next, info' # info
    PROVE  \E r \in Requests : ConfirmCommit(r)
  <1>1. CASE \E r \in Requests : Request(r) \/ Crash(r)
    BY <1>1
    DEF Request, Arrive, Add, ConfirmRead, ConfirmReject, CollectContact,
        Crash, Abort, tables, goods
  <1>2. CASE \E r \in Requests : Step(r)
    BY <1>2
    DEF Step, GetCart, CreateCart, Invalidate, LoseInvalidation, ViewItems,
        GetItem, InsertItem, ChangeItem, SaveItem, PickItem, DeleteItem,
        ClearItems,
        ConfirmWrite, DeleteContact, Locked, Abort, tables, goods
  <1> QED
    BY <1>1, <1>2
    DEF Next, CreateContact, PartnerState, CacheExpire, tables, goods

\* The stock moves only when an order is placed, by exactly the pieces the
\* order holds (orders/views.py, the deduction in ConfirmOrderView.post).
THEOREM StockMoves == Spec => StockMovesWithAnOrder
  <1> DEFINE Moved == \E o \in OrderIds :
                         /\ Placed(o)'
                         /\ \A p \in InfoIds :
                               Stock'[p] + LinesOf(o)'[p] = Stock[p]
  <1>1. ASSUME IInv, Next, info' # info PROVE Moved
    BY <1>1, CommitDeducts, StockWriters
  <1>2. IInv /\ [Next]_vars => [info' # info => Moved]_vars
    BY <1>1
  <1> QED
    BY <1>2, Inductive, PTL DEF Spec, StockMovesWithAnOrder

\* A placed order is never a cart again, never changes its buyer, and
\* disappears only when a request of its buyer deletes an address, although
\* a stale cache may confirm it again (orders/views.py).
THEOREM PlacedStaysFinal == Spec => PlacedIsFinal
  <1> DEFINE Kept(o) == Placed(o)' /\ order'[o].user = order[o].user
             Gone(o) == \E r \in Requests :
                           /\ Issuer[r] = order[o].user
                           /\ pc[r] = "delete_contact" /\ pc'[r] = "idle"
                           /\ o \in loc[r].orders
  <1>1. ASSUME NEW o \in OrderIds, Placed(o), order'[o] = order[o]
        PROVE  Kept(o)
    BY <1>1 DEF Placed
  <1>2. ASSUME IInv, Ownership, Next, NEW o \in OrderIds, Placed(o)
        PROVE  Kept(o) \/ Gone(o)
    <2>0. /\ CheckoutTypeOK /\ KeysFresh /\ Ownership
          /\ order \in [OrderIds -> OrderRow \cup {NoRow}]
          /\ order[o] # NoRow
      BY <1>2 DEF IInv, HandlersConsistent, CheckoutTypeOK, StoreTypeOK, Placed
    <2>1. CASE UNCHANGED orders
      BY <2>1, <1>1, <1>2 DEF orders
    <2>2. ASSUME NEW r \in Requests, CreateCart(r) PROVE Kept(o)
      <3>1. o # nextOrder
        BY <2>0 DEF KeysFresh, OrderIds
      <3>2. order'[o] = order[o]
        BY <2>0, <2>2, <3>1 DEF CreateCart, orders
      <3> QED
        BY <3>2, <1>1, <1>2
    <2>3. ASSUME NEW r \in Requests, ConfirmCommit(r) PROVE Kept(o)
      <3>1. PICK row : row = [user |-> Issuer[r], state |-> "new",
                              contact |-> loc[r].contact]
        OBVIOUS
      <3>2. row \in OrderRow /\ row.state = "new" /\ row.user = Issuer[r]
        BY <1>2, <2>3, <3>1, CheckoutAssumption
        DEF OrderRow, States, IInv, HandlersConsistent, LocalsFit, LocalsSet,
            ConfirmCommit, InTransaction
      <3>3. order' = [order EXCEPT ![loc[r].cart] = row]
        BY <2>3, <3>1 DEF ConfirmCommit
      <3>4. CASE o = loc[r].cart
        <4>1. order[o].user = Issuer[r]
          BY <2>0, <2>3, <3>4 DEF Ownership, BelongsTo, ConfirmCommit, InTransaction
        <4> QED
          BY <2>0, <3>2, <3>3, <3>4, <4>1, NoRowIsNoValue DEF Placed
      <3>5. CASE o # loc[r].cart
        BY <2>0, <3>3, <3>5, <1>1, <1>2
      <3> QED
        BY <3>4, <3>5
    <2>4. ASSUME NEW r \in Requests, DeleteContact(r) PROVE Kept(o) \/ Gone(o)
      <3>1. CASE order'[o] = order[o]
        BY <3>1, <1>1, <1>2
      <3>2. CASE o \in loc[r].orders
        <4>1. pc[r] = "delete_contact" /\ pc'[r] = "idle"
          BY <2>0, <2>4
          DEF DeleteContact, Writes, Finish, Goto, CheckoutTypeOK
        <4>2. Issuer[r] = order[o].user
          BY <2>0, <3>2 DEF Ownership, BelongsTo
        <4> QED
          BY <3>2, <4>1, <4>2
      <3> QED
        BY <2>4, <3>1, <3>2 DEF DeleteContact
    <2>5. CASE \E r \in Requests : Request(r) \/ Crash(r)
      BY <2>1, <2>5
      DEF Request, Arrive, Add, ConfirmRead, ConfirmReject, CollectContact,
          Crash, Abort, tables
    <2>6. CASE \E r \in Requests : Step(r)
      BY <2>1, <2>2, <2>3, <2>4, <2>6
      DEF Step, GetCart, Invalidate, LoseInvalidation, ViewItems, GetItem,
          InsertItem, ChangeItem, SaveItem, PickItem, DeleteItem, ClearItems,
          ConfirmWrite, Locked, Abort, tables
    <2> QED
      BY <1>2, <2>1, <2>5, <2>6
      DEF Next, CreateContact, PartnerState, CacheExpire, tables
  <1>3. IInv /\ Ownership /\ [Next]_vars =>
           [\A o \in OrderIds : Placed(o) =>
              \/ Placed(o)' /\ order'[o].user = order[o].user
              \/ \E r \in Requests :
                    /\ Issuer[r] = order[o].user
                    /\ pc[r] = "delete_contact" /\ pc'[r] = "idle"
                    /\ o \in loc[r].orders]_vars
    BY <1>2
  <1> QED
    BY <1>3, Inductive, OwnershipHolds, PTL DEF Spec, PlacedIsFinal

============================================================================
