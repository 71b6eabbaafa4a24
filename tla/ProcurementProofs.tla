------------------------- MODULE ProcurementProofs -------------------------
(***************************************************************************)
(* Proofs about Procurement: the inductive invariants of the checkout and  *)
(* of the import hold side by side, for any number of buyers, requests and *)
(* jobs.  An import writes to the tables of the buyers while no            *)
(* confirmation is open, and takes the rows of carts and orders with the   *)
(* goods they name; a confirmation keeps every product where it is.        *)
(***************************************************************************)
EXTENDS Procurement, CheckoutProofs, ImportProofs

ShopInv == IInv /\ ImportInv

----------------------------------------------------------------------------
(* What the buyers do to the catalogue. *)

\* Every product keeps its row and its shop.
GoodsStay ==
    \A p \in InfoIds : /\ (info'[p] = NoRow) = (info[p] = NoRow)
                       /\ info[p] # NoRow => info'[p].shop = info[p].shop

\* A commit writes quantities.
LEMMA CommitKeepsGoods ==
    ASSUME IInv, NEW r \in Requests, ConfirmCommit(r)
    PROVE  GoodsStay
  <1>0. CheckoutTypeOK /\ Current(r)
    BY DEF IInv, SnapshotCurrent, ConfirmCommit, InTransaction
  <1>1. PICK lines \in [InfoIds -> Nat], seen \in [InfoIds -> Nat] :
           lines = loc[r].lines /\ seen = loc[r].seen
    BY <1>0 DEF CheckoutTypeOK, Local
  <1>2. ASSUME NEW p \in InfoIds
        PROVE  /\ (info'[p] = NoRow) = (info[p] = NoRow)
               /\ info[p] # NoRow => info'[p].shop = info[p].shop
    <2>1. lines[p] <= seen[p] /\ seen[p] = Stock[p]
      BY <1>0, <1>1 DEF Current
    <2>2. info'[p] = IF lines[p] = 0 THEN info[p]
                     ELSE [info[p] EXCEPT !.quantity = seen[p] - lines[p]]
      BY <1>1 DEF ConfirmCommit, Deducted
    <2>3. CASE lines[p] = 0
      BY <2>2, <2>3
    <2>4. CASE lines[p] # 0
      <3>1. info[p] # NoRow
        BY <2>1, <2>4, <1>1 DEF Stock
      <3>2. info[p] \in InfoRow
        BY <3>1, <1>0 DEF CheckoutTypeOK, StoreTypeOK
      <3>3. PICK n \in Nat : n = seen[p] - lines[p]
        BY <1>1, <2>1
      <3>4. info'[p] \in InfoRow /\ info'[p].shop = info[p].shop
        BY <2>2, <2>4, <3>2, <3>3 DEF InfoRow
      <3> QED
        BY <3>1, <3>4, NoRowIsNoValue
    <2> QED
      BY <2>3, <2>4
  <1> QED
    BY <1>2 DEF GoodsStay

\* No request does more to them.
LEMMA BuyersKeepGoods ==
    ASSUME IInv, Next
    PROVE  GoodsStay
  <1>1. CASE info' = info
    BY <1>1 DEF GoodsStay
  <1>2. CASE info' # info
    BY <1>2, StockWriters, CommitKeepsGoods
  <1> QED
    BY <1>1, <1>2

\* The catalogue and the jobs fit beside a step of a request.
LEMMA BuyersKeepImports ==
    ASSUME ShopInv, Buyers
    PROVE  ShopInv'
  <1>1. IInv' /\ GoodsStay
    BY NextIInv, BuyersKeepGoods DEF ShopInv, Buyers
  <1>2. UNCHANGED <<shop, category, product, label, nextInfo, parameter,
                    described, at, retries, my>>
    BY DEF Buyers, catalogue
  <1>3. Grows
    BY <1>2 DEF Grows
  <1>4. TablesFit'
    <2>1. StoreTypeOK'
      BY <1>1 DEF IInv, CheckoutTypeOK
    <2> QED
      BY <1>1, <1>2, <2>1 DEF ShopInv, ImportInv, TablesFit, GoodsStay
  <1>5. ProductsFit'
    BY <1>2 DEF ShopInv, ImportInv, ProductsFit
  <1>6. CatalogueIntegrity'
    <2>1. CatalogueIntegrity /\ \A d \in described : d[1] \in InfoIds
      BY DEF ShopInv, ImportInv, TablesFit
    <2> QED
      BY <1>1, <1>2, <2>1 DEF CatalogueIntegrity, GoodsStay
  <1>7. ASSUME NEW j \in Jobs PROVE JobFits(j)'
    BY <1>2, <1>3, JobKept DEF ShopInv, ImportInv
  <1> QED
    BY <1>1, <1>4, <1>5, <1>6, <1>7 DEF ShopInv, ImportInv

----------------------------------------------------------------------------
(* What an import does to the buyers. *)

\* A write to the goods while no transaction is open, which leaves no row
\* without its product.
Replaces ==
    /\ CanWrite
    /\ \A k \in ItemIds : item'[k] # NoRow =>
          /\ item'[k] = item[k]
          /\ info[item[k].info] # NoRow => info'[item[k].info] # NoRow

\* The import writes to no other table of the buyers.
LEMMA ImportWrites ==
    ASSUME ShopInv, NEW j \in Jobs,
           Upload(j) \/ Run(j) \/ Die(j) \/ ImportLocked(j)
    PROVE  /\ UNCHANGED <<order, nextOrder, nextItem, contact, locks>>
           /\ UNCHANGED <<item, info>> \/ Replaces
  <1>0. /\ info \in [InfoIds -> InfoRow \cup {NoRow}]
        /\ item \in [ItemIds -> ItemRow \cup {NoRow}]
        /\ TablesFit /\ JobFits(j)
    BY DEF ShopInv, ImportInv, TablesFit, StoreTypeOK
  <1>1. CASE UNCHANGED <<tables, locks>>
    BY <1>1 DEF tables, orders, items, goods
  <1>2. CASE DeleteGoods(j)
    <2>1. UNCHANGED <<order, nextOrder, nextItem, contact, locks>>
      BY <1>2 DEF DeleteGoods, bystanders, orders
    <2>2. /\ info' = [p \in InfoIds |->
                         IF p \in my[j].ids THEN NoRow ELSE info[p]]
          /\ item' = [k \in ItemIds |->
                         IF k \in ItemsFor(my[j].ids) THEN NoRow ELSE item[k]]
      BY <1>0, <1>2 DEF DeleteGoods, Emptied
    <2>3. ASSUME NEW k \in ItemIds, item'[k] # NoRow
          PROVE  /\ item'[k] = item[k]
                 /\ info[item[k].info] # NoRow => info'[item[k].info] # NoRow
      <3>1. /\ item'[k] = item[k] /\ item[k] # NoRow
            /\ item[k].info \notin my[j].ids
        BY <2>2, <2>3 DEF ItemsFor
      <3>2. item[k].info \in InfoIds
        BY <1>0, <3>1 DEF ItemRow
      <3> QED
        BY <2>2, <3>1, <3>2
    <2> QED
      BY <1>2, <2>1, <2>3 DEF DeleteGoods, Replaces
  <1>3. CASE CreateInfo(j)
    <2> DEFINE row == [shop |-> my[j].shop, quantity |-> Item(j).quantity]
    <2>1. UNCHANGED <<order, nextOrder, item, nextItem, contact, locks>>
      BY <1>3 DEF CreateInfo, bystanders, orders
    <2>2. CASE UNCHANGED info
      BY <2>1, <2>2
    <2>3. CASE info' # info
      <3>1. /\ info' = [info EXCEPT ![nextInfo] = row]
            /\ ~ (Listed(my[j], Item(j)) \/ Item(j).quantity < 0)
            /\ nextInfo \in InfoIds
        BY <1>3, <2>3 DEF CreateInfo
      <3>2. row # NoRow
        <4>1. Item(j) \in GoodRow /\ my[j].shop \in Shops
          BY <1>0, <1>3
          DEF CreateInfo, JobFits, Running, Writing, AfterShop, AtGood, FileRow,
              Item, TablesFit
        <4>2. Item(j).quantity \in Nat
          BY <3>1, <4>1 DEF GoodRow
        <4>3. row \in InfoRow
          BY <4>1, <4>2 DEF InfoRow
        <4> QED
          BY <4>3, NoRowIsNoValue
      <3> HIDE DEF row
      <3>3. \A p \in InfoIds : info'[p] = IF p = nextInfo THEN row ELSE info[p]
        BY <1>0, <3>1
      <3>4. \A k \in ItemIds : item[k] # NoRow => item[k].info \in InfoIds
        BY <1>0 DEF ItemRow
      <3>5. Replaces
        BY <1>3, <2>1, <3>2, <3>3, <3>4 DEF CreateInfo, Replaces
      <3> QED
        BY <2>1, <3>5
    <2> QED
      BY <2>2, <2>3
  <1>4. CASE Upload(j) \/ Die(j) \/ ImportLocked(j)
    BY <1>1, <1>4
    DEF Upload, PartnerUpdate, AdminImport, Accept, Die, ImportLocked
  <1>5. CASE Run(j)
    BY <1>1, <1>2, <1>3, <1>5
    DEF Run, Begin, FindShop, CreateShop, AddCategory, Collect, FindProduct,
        CreateProduct, FindParameter, CreateParameter, Describe
  <1> QED
    BY <1>4, <1>5

\* What the handlers hold, and the foreign keys of carts and orders, fit
\* beside a step of an import.
LEMMA ImportsKeepBuyers ==
    ASSUME ShopInv, StoreTypeOK', UNCHANGED <<outside, handlers>>,
           UNCHANGED <<order, nextOrder, nextItem, contact, locks>>,
           UNCHANGED <<item, info>> \/ Replaces
    PROVE  IInv'
  <1>0. /\ IInv /\ CheckoutTypeOK
        /\ UNCHANGED <<basketCache, mailed, pc, loc, shared, reserved>>
        /\ \A k \in ItemIds : item'[k] # NoRow => item'[k] = item[k]
    BY DEF ShopInv, IInv, outside, handlers, locks, Replaces
  <1>1. CheckoutTypeOK'
    BY <1>0 DEF CheckoutTypeOK
  <1>2. HandlersConsistent'
    <2>1. LocksHeld' /\ KeysFresh'
      BY <1>0 DEF IInv, HandlersConsistent, LocksHeld, KeysFresh
    <2>2. LocalsFit'
      BY <1>0 DEF IInv, HandlersConsistent, LocalsFit, LocalsSet, HasRow
    <2>3. StaleRowsFit'
      <3>1. \A r \in Requests : HasRow(r) => loc[r].key \in ItemIds
        BY <1>0 DEF IInv, HandlersConsistent, LocalsFit, LocalsSet, HasRow
      <3> QED
        BY <1>0, <3>1 DEF IInv, HandlersConsistent, StaleRowsFit, HasRow
    <2> QED
      BY <2>1, <2>2, <2>3 DEF HandlersConsistent
  <1>3. SnapshotCurrent'
    <2>1. ASSUME NEW r \in Requests, pc'[r] \in InTransaction
          PROVE  Current(r)'
      <3>1. pc[r] \in InTransaction /\ Current(r)
        BY <1>0, <2>1 DEF IInv, SnapshotCurrent
      <3>2. UNCHANGED <<item, info>>
        BY <1>0, <3>1, WritersAreAlone DEF Replaces
      <3>3. Stock' = Stock
        BY <3>2, StockUnchanged
      <3>4. loc[r].cart \in OrderIds
        BY <1>0, <3>1
        DEF IInv, HandlersConsistent, LocalsFit, LocalsSet, InTransaction
      <3>5. LinesOf(loc[r].cart)' = LinesOf(loc[r].cart)
        BY <1>0, <3>2 DEF LinesOf, Quantity, Line, Rows
      <3> QED
        BY <1>0, <3>1, <3>3, <3>5 DEF Current
    <2> QED
      BY <2>1 DEF SnapshotCurrent
  <1>4. Integrity'
    <2>1. ASSUME NEW k \in ItemIds, item'[k] # NoRow
          PROVE  /\ ReferencesExist(item[k].order, item[k].info)'
                 /\ Line(item[k].order, item[k].info)' = {k}
      <3>1. /\ item'[k] = item[k] /\ item[k] # NoRow
            /\ ReferencesExist(item[k].order, item[k].info)
            /\ Line(item[k].order, item[k].info) = {k}
        BY <1>0, <2>1 DEF IInv, Integrity
      <3>2. info'[item[k].info] # NoRow
        BY <2>1, <3>1 DEF Replaces, ReferencesExist
      <3>3. \A x \in ItemIds :
               item'[x] # NoRow /\ item'[x].order = item[k].order
                  /\ item'[x].info = item[k].info => x = k
        BY <1>0, <3>1 DEF Line, Rows
      <3>4. Line(item[k].order, item[k].info)' = {k}
        BY <2>1, <3>1, <3>3 DEF Line, Rows
      <3> QED
        BY <3>1, <3>2, <3>4 DEF ReferencesExist
    <2> QED
      BY <1>0, <2>1 DEF IInv, Integrity, Placed
  <1> QED
    BY <1>1, <1>2, <1>3, <1>4 DEF IInv

\* A step of an import keeps both.
LEMMA ImportersKeepBoth ==
    ASSUME ShopInv, UNCHANGED <<outside, handlers>>, NEW j \in Jobs,
           Upload(j) \/ Run(j) \/ Die(j) \/ ImportLocked(j)
    PROVE  ShopInv'
  <1>1. ImportInv'
    <2>1. CASE ImportLocked(j)
      BY <2>1, StopFits DEF ShopInv, ImportLocked
    <2>2. CASE Upload(j) \/ Run(j) \/ Die(j)
      BY <2>2, ImportStays DEF ShopInv, ImportNext
    <2> QED
      BY <2>1, <2>2
  <1>2. StoreTypeOK'
    BY <1>1 DEF ImportInv, TablesFit
  <1> QED
    BY <1>1, <1>2, ImportWrites, ImportsKeepBuyers DEF ShopInv

----------------------------------------------------------------------------
(* Every state. *)

\* The shop opens with a catalogue that fits together.
LEMMA ShopOpens == ShopInit => ShopInv
  <1> SUFFICES ASSUME ShopInit PROVE ShopInv
    OBVIOUS
  <1>0. IInv /\ StoreTypeOK
    BY InitIInv DEF ShopInit, IInv, CheckoutTypeOK
  <1>1. /\ shop = FirstShops /\ product = FirstProducts /\ parameter = <<>>
        /\ category = {product[i].category : i \in DOMAIN product}
        /\ described = {} /\ nextInfo = Len(product) + 1 /\ info = Catalogue
        /\ label = [p \in InfoIds |-> IF p \in DOMAIN product
                                      THEN [product |-> p, external |-> p]
                                      ELSE NoRow]
    BY DEF ShopInit, Init, ImportInit
  <1>2. /\ at = [j \in Jobs |-> "absent"] /\ retries = [j \in Jobs |-> 0]
        /\ my = [j \in Jobs |-> Fresh]
    BY DEF ShopInit, ImportInit
  <1>3. /\ product \in Seq(ProductRow) /\ Len(product) \in Nat
        /\ DOMAIN product = 1 .. Len(product) /\ Len(product) <= MaxInfos
        /\ DOMAIN product \subseteq InfoIds
    BY <1>1, ImportAssumption, StoreAssumption DEF InfoIds
  <1>4. ASSUME NEW i \in DOMAIN product PROVE product[i].category \in Nat
    <2>1. product[i] \in ProductRow
      BY <1>3
    <2> QED
      BY <2>1 DEF ProductRow
  <1>5. ASSUME NEW p \in InfoIds, p \in DOMAIN product
        PROVE  /\ [product |-> p, external |-> p] \in LabelRow
               /\ label[p] = [product |-> p, external |-> p]
               /\ label[p].product = p /\ label[p] # NoRow
    <2>1. p \in Nat
      BY DEF InfoIds
    <2>2. [product |-> p, external |-> p] \in LabelRow
      BY <2>1 DEF LabelRow
    <2> QED
      BY <1>1, <1>5, <2>2, ImportAssumption
  <1>6. ASSUME NEW p \in InfoIds
        PROVE  /\ (info[p] = NoRow) = (label[p] = NoRow)
               /\ (info[p] # NoRow) = (p \in DOMAIN product)
               /\ info[p] # NoRow => p < nextInfo
    BY <1>1, <1>3, <1>5, ProcurementAssumption DEF InfoIds
  <1>7. TablesFit
    <2>1. label \in [InfoIds -> LabelRow \cup {NoRow}]
      BY <1>1, <1>5
    <2>2. nextInfo \in 1 .. MaxInfos + 1
      BY <1>1, <1>3, StoreAssumption
    <2>3. category \subseteq Nat /\ parameter \in Seq(STRING)
      BY <1>1, <1>4
    <2>4. shop \in Seq(ShopRow) /\ DOMAIN shop \subseteq Shops
          /\ DOMAIN FirstShops \subseteq DOMAIN shop
      BY <1>1, ImportAssumption
    <2>5. retries \in [Jobs -> 0 .. MaxRetries]
      BY <1>2, ImportAssumption
    <2> QED
      BY <1>0, <1>1, <1>2, <1>3, <1>6, <2>1, <2>2, <2>3, <2>4, <2>5
      DEF TablesFit
  <1>8. ProductsFit
    BY <1>1 DEF ProductsFit
  <1>9. CatalogueIntegrity
    <2>1. ASSUME NEW p \in InfoIds, info[p] # NoRow
          PROVE  /\ info[p].shop \in DOMAIN shop
                 /\ label[p].product \in DOMAIN product
                 /\ product[label[p].product].category \in category
                 /\ \A q \in InfoIds \ {p} : info[q] # NoRow =>
                       info[q].shop # info[p].shop \/ label[q] # label[p]
      <3>1. p \in DOMAIN product /\ label[p].product = p
        BY <1>5, <1>6, <2>1
      <3>2. ASSUME NEW q \in InfoIds \ {p}, info[q] # NoRow
            PROVE  label[q] # label[p]
        BY <1>5, <1>6, <3>1, <3>2
      <3>3. info[p].shop \in DOMAIN shop
        BY <1>1, <2>1, ProcurementAssumption
      <3> QED
        BY <1>8, <3>1, <3>2, <3>3 DEF ProductsFit
    <2> QED
      BY <1>1, <2>1 DEF CatalogueIntegrity
  <1>10. ASSUME NEW j \in Jobs PROVE JobFits(j)
    <2>1. at[j] = "absent" /\ my[j] = Fresh /\ retries[j] = 0
      BY <1>2
    <2> QED
      BY <2>1, FreshFits, ImportAssumption
      DEF JobFits, Running, Writing, AfterShop, AtGood, HasInfo
  <1> QED
    BY <1>0, <1>7, <1>8, <1>9, <1>10 DEF ShopInv, ImportInv

LEMMA ShopStays == ShopInv /\ [ShopNext]_all => ShopInv'
  <1> SUFFICES ASSUME ShopInv, [ShopNext]_all PROVE ShopInv'
    OBVIOUS
  <1>1. CASE Buyers
    BY <1>1, BuyersKeepImports
  <1>2. CASE Importers
    BY <1>2, ImportersKeepBoth DEF Importers, ImportNext
  <1>3. ASSUME NEW j \in Jobs, LockedOut(j) PROVE ShopInv'
    BY <1>3, ImportersKeepBoth DEF LockedOut
  <1>4. CASE UNCHANGED all
    <2>1. IInv'
      BY <1>4, NextIInv DEF ShopInv, all
    <2>2. UNCHANGED importVars
      BY <1>4
      DEF all, vars, catalogue, importVars, lists, labels, progress
    <2>3. ImportInv'
      BY <2>2, ImportStays DEF ShopInv
    <2> QED
      BY <2>1, <2>3 DEF ShopInv
  <1> QED
    BY <1>1, <1>2, <1>3, <1>4 DEF ShopNext

\* The invariants of the checkout and of the import hold together, whoever
\* writes between the steps of the other (products/services.py beside
\* cart/views.py and orders/views.py).
THEOREM ShopInvariant == ShopSpec => []ShopInv
  BY ShopOpens, ShopStays, PTL DEF ShopSpec

\* Buyers and imports run side by side: whatever price lists are imported
\* between the steps of a request, what the request holds fits the
\* database, and whatever is bought between the steps of an import, the
\* catalogue fits together (products/services.py beside cart/views.py and
\* orders/views.py).
THEOREM BothKeepTheirPromises == ShopSpec => []SideBySide
  <1>1. ShopInv => SideBySide
    BY DEF ShopInv, IInv, ImportInv, SideBySide
  <1> QED
    BY <1>1, ShopInvariant, PTL

\* No import changes what a confirmation has read before it commits: the
\* old goods are deleted, and the new ones come, while none is open
\* (products/services.py, process_import_data; orders/views.py).
THEOREM SnapshotsSurviveImports == ShopSpec => []SnapshotCurrent
  <1>1. ShopInv => SnapshotCurrent
    BY DEF ShopInv, IInv
  <1> QED
    BY <1>1, ShopInvariant, PTL

\* No import leaves a row of a cart or an order without its product, nor a
\* product twice in one of them, although a row may come after the import
\* has collected the goods it deletes.
THEOREM IntegritySurvivesImports == ShopSpec => []Integrity
  <1>1. ShopInv => Integrity
    BY DEF ShopInv, IInv
  <1> QED
    BY <1>1, ShopInvariant, PTL

----------------------------------------------------------------------------
(* The stock. *)

\* What an import does to a product: it creates or deletes it.
LEMMA ImportReplaces ==
    ASSUME ShopInv, NEW j \in Jobs,
           Upload(j) \/ Run(j) \/ Die(j) \/ ImportLocked(j),
           NEW p \in InfoIds, info'[p] # info[p]
    PROVE  \/ info[p] = NoRow /\ p = nextInfo /\ at[j] = "create_info"
           \/ info'[p] = NoRow /\ at[j] = "delete" /\ p \in my[j].ids
  <1>1. DeleteGoods(j) \/ CreateInfo(j)
    BY DEF Upload, PartnerUpdate, AdminImport, Accept, Die, ImportLocked, Run,
           Begin, FindShop, CreateShop, AddCategory, Collect, FindProduct,
           CreateProduct, FindParameter, CreateParameter, Describe, tables,
           goods
  <1>2. CASE DeleteGoods(j)
    BY <1>2 DEF DeleteGoods, Emptied, ShopInv, ImportInv, TablesFit, StoreTypeOK
  <1>3. CASE CreateInfo(j)
    <2>0. TablesFit /\ info \in [InfoIds -> InfoRow \cup {NoRow}]
      BY DEF ShopInv, ImportInv, TablesFit, StoreTypeOK
    <2>1. at[j] = "create_info" /\ p = nextInfo
      <3> DEFINE row == [shop |-> my[j].shop, quantity |-> Item(j).quantity]
      <3>1. at[j] = "create_info" /\ info' = [info EXCEPT ![nextInfo] = row]
        BY <1>3 DEF CreateInfo, labels
      <3> HIDE DEF row
      <3> QED
        BY <2>0, <3>1
    <2>2. info[p] = NoRow
      BY <2>0, <2>1 DEF TablesFit, InfoIds
    <2> QED
      BY <2>1, <2>2
  <1> QED
    BY <1>1, <1>2, <1>3

\* The stock of a product that exists before and after a step moves only
\* with an order, by what the order holds: an import replaces products and
\* never adjusts one, and a confirmation neither brings a deleted product
\* back nor sells one that was replaced under it (products/services.py,
\* process_import_data; orders/views.py, the deduction).
THEOREM StockReplacedOrSold == ShopSpec => StockIsReplacedOrSold
  <1> DEFINE Accounted(p) ==
                \/ /\ info[p] = NoRow /\ p = nextInfo
                   /\ \E j \in Jobs : at[j] = "create_info"
                \/ /\ info'[p] = NoRow
                   /\ \E j \in Jobs : at[j] = "delete" /\ p \in my[j].ids
                \/ \E o \in OrderIds :
                      /\ Placed(o)'
                      /\ Stock'[p] + LinesOf(o)'[p] = Stock[p]
  <1>1. ASSUME ShopInv, ShopNext, NEW p \in InfoIds, info'[p] # info[p]
        PROVE  Accounted(p)
    <2>1. CASE Buyers
      BY <1>1, <2>1, StockWriters, CommitDeducts DEF Buyers, ShopInv
    <2>2. CASE Importers
      BY <1>1, <2>2, ImportReplaces DEF Importers, ImportNext
    <2>3. CASE \E j \in Jobs : LockedOut(j)
      BY <1>1, <2>3, ImportReplaces DEF LockedOut
    <2> QED
      BY <1>1, <2>1, <2>2, <2>3 DEF ShopNext
  <1>2. ShopInv /\ [ShopNext]_all =>
           [\A p \in InfoIds : info'[p] # info[p] => Accounted(p)]_all
    BY <1>1
  <1> QED
    BY <1>2, ShopInvariant, PTL DEF ShopSpec, StockIsReplacedOrSold

=============================================================================
