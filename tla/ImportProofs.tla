---------------------------- MODULE ImportProofs ----------------------------
(***************************************************************************)
(* Proofs about Import, for any number of jobs, workers, shops and goods.  *)
(* The catalogue fits together because rows of shops, products and         *)
(* parameters are never deleted, so that a key a job has found stays good, *)
(* and because goods, which are, leave nothing behind that refers to them. *)
(* How often a name can come up is counted for any number of workers; with *)
(* one worker the catalogue is also what the price lists say.              *)
(***************************************************************************)
EXTENDS Import, TLAPS, SequenceTheorems, FiniteSetTheorems

\* The local variables of a job.
Locals == [shop : Nat \cup {NoRow}, ids : SUBSET InfoIds, good : Nat,
           product : Nat \cup {NoRow}, info : InfoIds \cup {NoRow},
           parameter : Nat \cup {NoRow}, count : Nat]

\* Places at which a job has found its shop, is at a good, has a row for it.
AfterShop == Running \ {"shop", "create_shop"}
AtGood    == {"create_product", "create_info", "create_parameter", "describe",
              "parameter"}
HasInfo   == {"create_parameter", "describe", "parameter"}

\* What a job knows, by where it stands.
JobFits(j) ==
    LET l == my[j] IN
    /\ l \in Locals
    /\ at[j] \in {"absent", "queued", "retry"} \cup Running \cup Ended
    /\ retries[j] \in 0 .. MaxRetries
    /\ at[j] \in Running =>
          File[j] \in FileRow /\ l.good \in 1 .. Len(File[j].goods) + 1
    /\ at[j] = "create_shop" => File[j].shop \in STRING
    /\ at[j] \in AfterShop => l.shop \in DOMAIN shop
    /\ at[j] \in AtGood =>
          /\ l.good \in 1 .. Len(File[j].goods)
          /\ Item(j).name \in STRING /\ Item(j).category \in Nat
    /\ at[j] = "create_info" => l.product \in DOMAIN product
    /\ at[j] \in HasInfo => l.info \in InfoIds /\ Item(j).parameter \in STRING
    /\ at[j] = "describe" => l.parameter \in DOMAIN parameter

\* Types of the tables, and keys that were not given out yet.
TablesFit ==
    /\ StoreTypeOK
    /\ shop \in Seq(ShopRow) /\ DOMAIN shop \subseteq Shops
    /\ DOMAIN FirstShops \subseteq DOMAIN shop
    /\ product \in Seq(ProductRow)
    /\ parameter \in Seq(STRING)
    /\ category \subseteq Nat
    /\ label \in [InfoIds -> LabelRow \cup {NoRow}]
    /\ described \subseteq InfoIds \X Nat
    /\ nextInfo \in 1 .. MaxInfos + 1
    /\ \A p \in InfoIds : /\ (info[p] = NoRow) = (label[p] = NoRow)
                          /\ info[p] # NoRow => p < nextInfo
    /\ DOMAIN at = Jobs /\ DOMAIN my = Jobs
    /\ retries \in [Jobs -> 0 .. MaxRetries]

ProductsFit == \A i \in DOMAIN product : product[i].category \in category

ImportInv ==
    /\ TablesFit
    /\ ProductsFit
    /\ CatalogueIntegrity
    /\ \A j \in Jobs : JobFits(j)

----------------------------------------------------------------------------
(* What stays as it was. *)

\* Rows of shops, products and parameters stay.
Grows ==
    /\ DOMAIN shop \subseteq DOMAIN shop'
    /\ DOMAIN product \subseteq DOMAIN product'
    /\ DOMAIN parameter \subseteq DOMAIN parameter'

\* The locals of a job that begins, or has ended.
LEMMA FreshFits == Fresh \in Locals /\ Fresh.good = 1
BY DEF Fresh, Locals

\* A job that does not move keeps what it knows.
LEMMA JobKept ==
    ASSUME Grows, NEW j \in Jobs, JobFits(j),
           UNCHANGED <<at[j], my[j], retries[j]>>
    PROVE  JobFits(j)'
<1>1. at'[j] = at[j] /\ my'[j] = my[j] /\ retries'[j] = retries[j]
  OBVIOUS
<1> QED
  BY <1>1 DEF Grows, JobFits, Item

\* A step of one job, after which the tables fit.
LEMMA StepOfOne ==
    ASSUME ImportInv, Grows, NEW j \in Jobs, NEW where, NEW what,
           Become(j, where, what), NEW n, retries' = [retries EXCEPT ![j] = n],
           JobFits(j)', ProductsFit', CatalogueIntegrity', TablesFit'
    PROVE  ImportInv'
<1> SUFFICES ASSUME NEW q \in Jobs, q # j
             PROVE  JobFits(q)'
  BY DEF ImportInv
<1>1. JobFits(q) /\ UNCHANGED <<at[q], my[q], retries[q]>>
  BY DEF ImportInv, TablesFit, Become
<1> QED
  BY <1>1, JobKept

\* The catalogue depends on the lists, the labels and the goods.
LEMMA CatalogueKept ==
    ASSUME CatalogueIntegrity, UNCHANGED <<info, lists, labels>>
    PROVE  CatalogueIntegrity'
BY DEF CatalogueIntegrity, lists, labels

\* A step of one job that leaves the tables alone.
LEMMA ReadFits ==
    ASSUME ImportInv, UNCHANGED <<tables, locks, lists, labels>>,
           NEW j \in Jobs, NEW where, NEW what, Become(j, where, what),
           NEW n, retries' = [retries EXCEPT ![j] = n], JobFits(j)'
    PROVE  ImportInv'
<1>1. /\ UNCHANGED <<order, nextOrder, item, nextItem, info, accepting>>
      /\ UNCHANGED <<contact, shared, reserved, shop, category, product>>
      /\ UNCHANGED <<parameter, described, label, nextInfo>>
  BY DEF tables, orders, items, goods, locks, lists, labels
<1>2. Grows
  BY <1>1 DEF Grows
<1>3. ProductsFit' /\ CatalogueIntegrity'
  BY <1>1, CatalogueKept DEF ImportInv, ProductsFit
<1>4. retries' \in [Jobs -> 0 .. MaxRetries]
  BY DEF ImportInv, TablesFit, JobFits
<1>5. DOMAIN at' = Jobs /\ DOMAIN my' = Jobs
  BY DEF ImportInv, TablesFit, Become
<1>6. StoreTypeOK'
  BY <1>1 DEF ImportInv, TablesFit, StoreTypeOK
<1>7. TablesFit'
  BY <1>1, <1>4, <1>5, <1>6 DEF ImportInv, TablesFit
<1> QED
  BY <1>2, <1>3, <1>7, StepOfOne

\* A job that goes to a place where it knows nothing.
LEMMA RestingFits ==
    ASSUME NEW j \in Jobs, TablesFit, JobFits(j),
           NEW where \in {"queued", "retry"} \cup Ended, Become(j, where, Fresh),
           retries'[j] \in 0 .. MaxRetries
    PROVE  JobFits(j)'
<1>1. at'[j] = where /\ my'[j] = Fresh
  BY DEF TablesFit, Become
<1> QED
  BY <1>1, FreshFits
     DEF JobFits, Running, Writing, Ended, AfterShop, AtGood, HasInfo

\* A failure.
LEMMA FailFits ==
    ASSUME ImportInv, NEW j \in Jobs, Fail(j)
    PROVE  \E where \in {"queued", "retry"} \cup Ended : \E n :
              /\ Become(j, where, Fresh) /\ retries' = [retries EXCEPT ![j] = n]
              /\ JobFits(j)'
<1> DEFINE again == Kind[j] = "file" /\ retries[j] < MaxRetries
           n == IF again THEN retries[j] + 1 ELSE retries[j]
           where == IF again THEN "retry"
                    ELSE IF Kind[j] = "file" THEN "failed" ELSE "error"
<1>1. TablesFit /\ JobFits(j)
  BY DEF ImportInv
<1>2. /\ retries' = [retries EXCEPT ![j] = n] /\ Become(j, where, Fresh)
      /\ where \in {"queued", "retry"} \cup Ended
  BY DEF Fail, Ended
<1>3. n \in 0 .. MaxRetries
  BY <1>1, ImportAssumption DEF JobFits
<1>4. retries'[j] \in 0 .. MaxRetries
  BY <1>1, <1>2, <1>3 DEF TablesFit
<1> HIDE DEF n, where, again
<1>5. JobFits(j)'
  BY <1>1, <1>2, <1>4, RestingFits
<1> QED
  BY <1>2, <1>5

\* What leads to the end of a job by an error or the death of its worker.
LEMMA StopFits ==
    ASSUME ImportInv, NEW j \in Jobs, UNCHANGED <<tables, locks, lists, labels>>,
           \/ Fail(j)
           \/ \E where \in {"queued", "lost", "failed"} : Go(j, where, Fresh)
    PROVE  ImportInv'
<1>1. TablesFit /\ JobFits(j)
  BY DEF ImportInv
<1>2. CASE Fail(j)
  BY <1>2, FailFits, ReadFits
<1>3. ASSUME NEW where \in {"queued", "lost", "failed"}, Go(j, where, Fresh)
      PROVE  ImportInv'
  <2>1. Become(j, where, Fresh) /\ UNCHANGED retries
    BY <1>3 DEF Go
  <2>2. retries' = [retries EXCEPT ![j] = retries[j]] /\ retries'[j] \in 0 .. MaxRetries
    BY <1>1, <2>1 DEF TablesFit, JobFits
  <2>3. JobFits(j)'
    BY <1>1, <2>1, <2>2, RestingFits DEF Ended
  <2> QED
    BY <2>1, <2>2, <2>3, ReadFits
<1> QED
  BY <1>2, <1>3

\* What a statement that only moves the job leaves behind.
LEMMA Moved ==
    ASSUME TablesFit, NEW j \in Jobs, NEW where, NEW what, Go(j, where, what)
    PROVE  /\ at'[j] = where /\ my'[j] = what /\ retries'[j] = retries[j]
           /\ Become(j, where, what)
           /\ retries' = [retries EXCEPT ![j] = retries[j]]
BY DEF TablesFit, Go, Become

\* A job that reads and goes on.
LEMMA GoFits ==
    ASSUME ImportInv, UNCHANGED <<tables, locks, lists, labels>>,
           NEW j \in Jobs, NEW where, NEW what, Go(j, where, what), JobFits(j)'
    PROVE  ImportInv'
<1>1. /\ Become(j, where, what)
      /\ retries' = [retries EXCEPT ![j] = retries[j]]
  BY Moved DEF ImportInv
<1> QED
  BY <1>1, ReadFits

\* The step to the next good.
LEMMA NextFits ==
    ASSUME ImportInv, Grows, NEW j \in Jobs, at[j] \in AfterShop,
           my[j].good <= Len(File[j].goods), NEW counted \in {0, 1},
           NextGood(j, counted)
    PROVE  JobFits(j)'
<1> DEFINE what == [Fresh EXCEPT !.shop = my[j].shop, !.good = my[j].good + 1,
                                 !.count = my[j].count + counted]
<1>1. TablesFit /\ JobFits(j)
  BY DEF ImportInv
<1>2. at'[j] = "good" /\ my'[j] = what /\ retries'[j] = retries[j]
  BY <1>1, Moved DEF NextGood
<1>3. /\ at[j] \in Running /\ my[j] \in Locals /\ File[j] \in FileRow
      /\ my[j].good \in 1 .. Len(File[j].goods) + 1
      /\ my[j].shop \in DOMAIN shop /\ retries[j] \in 0 .. MaxRetries
  BY <1>1 DEF JobFits, AfterShop
<1>4. /\ what \in Locals
      /\ what.shop = my[j].shop /\ what.good = my[j].good + 1
  <2>1. /\ my[j].shop \in Nat \cup {NoRow} /\ my[j].good + 1 \in Nat
        /\ my[j].count + counted \in Nat
    BY <1>3 DEF Locals
  <2> QED
    BY <2>1, FreshFits DEF Locals
<1>5. Len(File[j].goods) \in Nat
  BY <1>3 DEF FileRow
<1>6. what.good \in 1 .. Len(File[j].goods) + 1
  BY <1>3, <1>4, <1>5
<1>7. what.shop \in (DOMAIN shop)'
  BY <1>3, <1>4 DEF Grows
<1> HIDE DEF what
<1> QED
  BY <1>2, <1>3, <1>4, <1>6, <1>7
     DEF JobFits, Running, Writing, Ended, AfterShop, AtGood, HasInfo

----------------------------------------------------------------------------
(* One lemma for each action: first those that only read. *)

LEMMA UploadFits == ASSUME ImportInv, NEW j \in Jobs, Upload(j) PROVE ImportInv'
<1>1. Go(j, "queued", Fresh) /\ UNCHANGED <<tables, locks, lists, labels>>
  BY DEF Upload, PartnerUpdate, AdminImport, Accept
<1> QED
  BY <1>1, StopFits

LEMMA BeginFits == ASSUME ImportInv, NEW j \in Jobs, Begin(j) PROVE ImportInv'
<1>1. UNCHANGED <<tables, locks, lists, labels>>
  BY DEF Begin
<1>2. CASE ~ Loads(j)
  <2>1. Fail(j)
    BY <1>2 DEF Begin
  <2> QED
    BY <1>1, <2>1, StopFits
<1>3. CASE Loads(j)
  <2>1. TablesFit /\ JobFits(j)
    BY DEF ImportInv
  <2>2. Go(j, "shop", Fresh) /\ File[j] \in FileRow
    BY <1>3, ImportAssumption DEF Begin, Loads
  <2>3. at'[j] = "shop" /\ my'[j] = Fresh /\ retries'[j] = retries[j]
    BY <2>1, <2>2, Moved
  <2>4. 1 \in 1 .. Len(File[j].goods) + 1
    BY <2>2 DEF FileRow
  <2>5. JobFits(j)'
    BY <2>1, <2>2, <2>3, <2>4, FreshFits
       DEF JobFits, Running, Writing, Ended, AfterShop, AtGood, HasInfo
  <2> QED
    BY <1>1, <2>2, <2>5, GoFits
<1> QED
  BY <1>2, <1>3

LEMMA FindShopFits ==
    ASSUME ImportInv, NEW j \in Jobs, FindShop(j) PROVE ImportInv'
<1>1. UNCHANGED <<tables, locks, lists, labels>> /\ at[j] = "shop"
  BY DEF FindShop
<1>2. CASE Fail(j)
  BY <1>1, <1>2, StopFits
<1>3. TablesFit /\ JobFits(j)
  BY DEF ImportInv
<1>4. /\ File[j] \in FileRow /\ my[j] \in Locals
      /\ my[j].good \in 1 .. Len(File[j].goods) + 1
  BY <1>1, <1>3 DEF JobFits, Running
<1>5. ASSUME ~ Fail(j)
      PROVE  /\ File[j].shop \in STRING
             /\ \/ Go(j, "create_shop", my[j])
                \/ \E i \in DOMAIN shop :
                      Go(j, "categories", [my[j] EXCEPT !.shop = i])
  BY <1>4, <1>5 DEF FindShop, Got, WithShop, ShopsNamed, FileRow
<1>6. CASE File[j].shop \in STRING /\ Go(j, "create_shop", my[j])
  <2>1. at'[j] = "create_shop" /\ my'[j] = my[j] /\ retries'[j] = retries[j]
    BY <1>3, <1>6, Moved
  <2>2. JobFits(j)'
    BY <1>3, <1>4, <1>6, <2>1
       DEF JobFits, Running, Writing, AfterShop, AtGood, HasInfo
  <2> QED
    BY <1>1, <1>6, <2>2, GoFits
<1>7. ASSUME NEW i \in DOMAIN shop, Go(j, "categories", [my[j] EXCEPT !.shop = i])
      PROVE  ImportInv'
  <2> DEFINE what == [my[j] EXCEPT !.shop = i]
  <2>1. at'[j] = "categories" /\ my'[j] = what /\ retries'[j] = retries[j]
    BY <1>3, <1>7, Moved
  <2>2. i \in Nat
    BY <1>3 DEF TablesFit
  <2>3. what \in Locals /\ what.good = my[j].good /\ what.shop = i
    BY <1>4, <2>2 DEF Locals
  <2>4. shop' = shop
    BY <1>1 DEF lists
  <2> HIDE DEF what
  <2>5. JobFits(j)'
    BY <1>3, <1>4, <2>1, <2>3, <2>4
       DEF JobFits, Running, Writing, AfterShop, AtGood, HasInfo
  <2> QED
    BY <1>1, <1>7, <2>5, GoFits DEF what
<1> QED
  BY <1>2, <1>5, <1>6, <1>7

LEMMA CollectFits ==
    ASSUME ImportInv, NEW j \in Jobs, Collect(j) PROVE ImportInv'
<1> DEFINE what == [my[j] EXCEPT !.ids = OldGoods(my[j].shop)]
<1>1. TablesFit /\ JobFits(j) /\ at[j] = "collect"
  BY DEF ImportInv, Collect
<1>2. Go(j, "delete", what) /\ UNCHANGED <<tables, locks, lists, labels>>
  BY DEF Collect
<1>3. at'[j] = "delete" /\ my'[j] = what /\ retries'[j] = retries[j]
  BY <1>1, <1>2, Moved
<1>4. shop' = shop
  BY <1>2 DEF lists
<1>5. /\ File[j] \in FileRow /\ my[j] \in Locals
      /\ my[j].good \in 1 .. Len(File[j].goods) + 1
      /\ my[j].shop \in DOMAIN shop
  BY <1>1 DEF JobFits, Running, Writing, AfterShop
<1>6. what \in Locals /\ what.good = my[j].good /\ what.shop = my[j].shop
  BY <1>1, <1>5 DEF Locals, OldGoods, GoodsOf, TablesFit
<1> HIDE DEF what
<1>7. JobFits(j)'
  BY <1>1, <1>3, <1>4, <1>5, <1>6
     DEF JobFits, Running, Writing, AfterShop, AtGood, HasInfo
<1> QED
  BY <1>2, <1>7, GoFits

LEMMA FindProductFits ==
    ASSUME ImportInv, NEW j \in Jobs, FindProduct(j) PROVE ImportInv'
<1>1. UNCHANGED <<tables, locks, lists, labels>> /\ at[j] = "good"
  BY DEF FindProduct
<1>2. CASE Fail(j)
  BY <1>1, <1>2, StopFits
<1>3. TablesFit /\ JobFits(j)
  BY DEF ImportInv
<1>4. /\ File[j] \in FileRow /\ my[j] \in Locals /\ retries[j] \in 0 .. MaxRetries
      /\ my[j].good \in 1 .. Len(File[j].goods) + 1
      /\ my[j].shop \in DOMAIN shop
  BY <1>1, <1>3 DEF JobFits, Running, AfterShop
<1>5. shop' = shop /\ product' = product /\ parameter' = parameter
  BY <1>1 DEF lists
<1>6. Grows /\ at[j] \in AfterShop
  BY <1>1, <1>5 DEF Grows, AfterShop, Running
<1>7. CASE my[j].good > Len(File[j].goods)
  <2>1. Go(j, "done", my[j])
    BY <1>7 DEF FindProduct
  <2>2. at'[j] = "done" /\ my'[j] = my[j] /\ retries'[j] = retries[j]
    BY <1>3, <2>1, Moved
  <2>3. JobFits(j)'
    BY <1>4, <2>2 DEF JobFits, Running, Writing, Ended, AfterShop, AtGood, HasInfo
  <2> QED
    BY <1>1, <2>1, <2>3, GoFits
<1>8. CASE my[j].good <= Len(File[j].goods)
  <2>1. my[j].good \in 1 .. Len(File[j].goods)
    BY <1>4, <1>8 DEF FileRow
  <2>2. Item(j) \in GoodRow
    BY <1>4, <2>1 DEF FileRow, Item
  <2>3. CASE Skip(j)
    <3>1. JobFits(j)'
      BY <1>6, <1>8, <2>3, NextFits DEF Skip
    <3> QED
      BY <1>1, <2>3, <3>1, GoFits DEF Skip, NextGood
  <2>4. ASSUME ~ Fail(j), ~ Skip(j)
        PROVE  /\ Item(j).name \in STRING /\ Item(j).category \in Nat
               /\ \/ Go(j, "create_product", my[j])
                  \/ \E i \in DOMAIN product :
                        Go(j, "create_info", [my[j] EXCEPT !.product = i])
    <3>1. ~ (my[j].good > Len(File[j].goods))
      BY <2>1 DEF FileRow
    <3> QED
      BY <2>2, <2>4, <3>1
         DEF FindProduct, Got, WithProduct, ProductsNamed, GoodRow
  <2>5. CASE /\ Item(j).name \in STRING /\ Item(j).category \in Nat
             /\ Go(j, "create_product", my[j])
    <3>1. at'[j] = "create_product" /\ my'[j] = my[j] /\ retries'[j] = retries[j]
      BY <1>3, <2>5, Moved
    <3>2. JobFits(j)'
      BY <1>4, <1>5, <2>1, <2>5, <3>1
         DEF JobFits, Running, Writing, AfterShop, AtGood, HasInfo, Item
    <3> QED
      BY <1>1, <2>5, <3>2, GoFits
  <2>6. ASSUME Item(j).name \in STRING, Item(j).category \in Nat,
               NEW i \in DOMAIN product,
               Go(j, "create_info", [my[j] EXCEPT !.product = i])
        PROVE  ImportInv'
    <3> DEFINE what == [my[j] EXCEPT !.product = i]
    <3>1. at'[j] = "create_info" /\ my'[j] = what /\ retries'[j] = retries[j]
      BY <1>3, <2>6, Moved
    <3>2. i \in Nat
      BY <1>3 DEF TablesFit
    <3>3. /\ what \in Locals /\ what.good = my[j].good
          /\ what.shop = my[j].shop /\ what.product = i
      BY <1>4, <3>2 DEF Locals
    <3> HIDE DEF what
    <3>4. JobFits(j)'
      BY <1>4, <1>5, <2>1, <2>6, <3>1, <3>3
         DEF JobFits, Running, Writing, AfterShop, AtGood, HasInfo, Item
    <3> QED
      BY <1>1, <2>6, <3>4, GoFits DEF what
  <2> QED
    BY <1>2, <2>3, <2>4, <2>5, <2>6
<1> QED
  BY <1>4, <1>7, <1>8 DEF FileRow

LEMMA FindParameterFits ==
    ASSUME ImportInv, NEW j \in Jobs, FindParameter(j) PROVE ImportInv'
<1>1. UNCHANGED <<tables, locks, lists, labels>> /\ at[j] = "parameter"
  BY DEF FindParameter
<1>2. CASE Fail(j)
  BY <1>1, <1>2, StopFits
<1>3. TablesFit /\ JobFits(j)
  BY DEF ImportInv
<1>4. shop' = shop /\ product' = product /\ parameter' = parameter
  BY <1>1 DEF lists
<1>5. \/ Fail(j) \/ Go(j, "create_parameter", my[j])
      \/ \E i \in DOMAIN parameter :
            Go(j, "describe", [my[j] EXCEPT !.parameter = i])
  BY DEF FindParameter, Got
<1>6. CASE Go(j, "create_parameter", my[j])
  <2>1. at'[j] = "create_parameter" /\ my'[j] = my[j] /\ retries'[j] = retries[j]
    BY <1>3, <1>6, Moved
  <2>2. JobFits(j)'
    BY <1>1, <1>3, <1>4, <2>1
       DEF JobFits, Running, Writing, AfterShop, AtGood, HasInfo, Item
  <2> QED
    BY <1>1, <1>6, <2>2, GoFits
<1>7. ASSUME NEW i \in DOMAIN parameter,
             Go(j, "describe", [my[j] EXCEPT !.parameter = i])
      PROVE  ImportInv'
  <2> DEFINE what == [my[j] EXCEPT !.parameter = i]
  <2>1. at'[j] = "describe" /\ my'[j] = what /\ retries'[j] = retries[j]
    BY <1>3, <1>7, Moved
  <2>2. i \in Nat /\ my[j] \in Locals
    BY <1>3 DEF TablesFit, JobFits
  <2>3. /\ what \in Locals /\ what.good = my[j].good /\ what.shop = my[j].shop
        /\ what.info = my[j].info /\ what.parameter = i
    BY <2>2 DEF Locals
  <2> HIDE DEF what
  <2>4. JobFits(j)'
    BY <1>1, <1>3, <1>4, <2>1, <2>3
       DEF JobFits, Running, Writing, AfterShop, AtGood, HasInfo, Item
  <2> QED
    BY <1>1, <1>7, <2>4, GoFits DEF what
<1> QED
  BY <1>2, <1>5, <1>6, <1>7

LEMMA DieFits == ASSUME ImportInv, NEW j \in Jobs, Die(j) PROVE ImportInv'
<1>1. \E end \in {"lost", "failed"} : Go(j, end, Fresh)
  BY DEF Die
<1>2. UNCHANGED <<tables, locks, lists, labels>>
  BY DEF Die
<1> QED
  BY <1>1, <1>2, StopFits

----------------------------------------------------------------------------
(* The actions that write: those that only add rows or categories ... *)

\* Rows that are added to shops, products and parameters disturb nothing.
LEMMA AddFits ==
    ASSUME ImportInv, UNCHANGED <<tables, locks, described, labels>>,
           shop' \in Seq(ShopRow), DOMAIN shop' \subseteq Shops,
           product' \in Seq(ProductRow), parameter' \in Seq(STRING),
           category' \subseteq Nat, category \subseteq category', Grows,
           \A i \in DOMAIN product : product'[i] = product[i], ProductsFit',
           NEW j \in Jobs, NEW where, NEW what, Go(j, where, what), JobFits(j)'
    PROVE  ImportInv'
<1>1. /\ UNCHANGED <<order, nextOrder, item, nextItem, info, accepting>>
      /\ UNCHANGED <<contact, shared, reserved, described, label, nextInfo>>
  BY DEF tables, orders, items, goods, locks, labels
<1>2. TablesFit /\ CatalogueIntegrity
  BY DEF ImportInv
<1>3. CatalogueIntegrity'
  BY <1>1, <1>2 DEF CatalogueIntegrity, Grows
<1>4. /\ Become(j, where, what)
      /\ retries' = [retries EXCEPT ![j] = retries[j]]
  BY <1>2, Moved
<1>5. StoreTypeOK'
  BY <1>1, <1>2 DEF TablesFit, StoreTypeOK
<1>6. /\ DOMAIN at' = Jobs /\ DOMAIN my' = Jobs
      /\ retries' \in [Jobs -> 0 .. MaxRetries]
  BY <1>2 DEF TablesFit, Go, Become
<1>7. TablesFit'
  BY <1>1, <1>2, <1>5, <1>6 DEF TablesFit, Grows
<1> QED
  BY <1>3, <1>4, <1>7, StepOfOne

LEMMA AddCategoryFits ==
    ASSUME ImportInv, NEW j \in Jobs, AddCategory(j) PROVE ImportInv'
<1>1. /\ at[j] = "categories"
      /\ UNCHANGED <<tables, locks, shop, product, parameter, described, labels>>
  BY DEF AddCategory
<1>2. TablesFit /\ JobFits(j) /\ ProductsFit
  BY DEF ImportInv
<1>3. File[j].categories \subseteq Nat
  BY <1>1, <1>2 DEF JobFits, Running, Writing, FileRow
<1>4. \E where : /\ where \in {"categories", "collect"}
                 /\ Go(j, where, my[j])
  BY DEF AddCategory
<1>5. PICK where : where \in {"categories", "collect"} /\ Go(j, where, my[j])
  BY <1>4
<1>6. at'[j] = where /\ my'[j] = my[j] /\ retries'[j] = retries[j]
  BY <1>2, <1>5, Moved
<1>7. category' \subseteq Nat /\ category \subseteq category' /\ ProductsFit'
  BY <1>1, <1>2, <1>3 DEF TablesFit, ProductsFit, AddCategory
<1>8. Grows
  BY <1>1 DEF Grows
<1>9. JobFits(j)'
  BY <1>1, <1>2, <1>5, <1>6
     DEF JobFits, Running, Writing, AfterShop, AtGood, HasInfo
<1> QED
  BY <1>1, <1>2, <1>5, <1>7, <1>8, <1>9, AddFits DEF TablesFit

LEMMA CreateShopFits ==
    ASSUME ImportInv, NEW j \in Jobs, CreateShop(j) PROVE ImportInv'
<1> DEFINE owner == shop[StartedFor[j]].user
           row   == [name |-> File[j].shop, user |-> owner]
           what  == [my[j] EXCEPT !.shop = Len(shop) + 1]
<1>1. /\ at[j] = "create_shop"
      /\ UNCHANGED <<tables, locks, category, product, parameter, described,
                     labels>>
  BY DEF CreateShop
<1>2. TablesFit /\ JobFits(j) /\ ProductsFit
  BY DEF ImportInv
<1>3. /\ File[j] \in FileRow /\ my[j] \in Locals /\ File[j].shop \in STRING
      /\ my[j].good \in 1 .. Len(File[j].goods) + 1
  BY <1>1, <1>2 DEF JobFits, Running, Writing
<1>4. \/ Fail(j) /\ UNCHANGED shop
      \/ Go(j, "lost", Fresh) /\ UNCHANGED shop
      \/ /\ Go(j, "create_shop", my[j]) \/ \E i \in DOMAIN shop :
               Go(j, "categories", [my[j] EXCEPT !.shop = i])
         /\ UNCHANGED shop
      \/ /\ Len(shop) + 1 \in Shops /\ shop' = Append(shop, row)
         /\ Go(j, "categories", what)
  BY DEF CreateShop, Got, WithShop, ShopsNamed
<1>5. ASSUME UNCHANGED shop
      PROVE  UNCHANGED <<tables, locks, lists, labels>>
  BY <1>1, <1>5 DEF lists
<1>6. CASE (Fail(j) \/ Go(j, "lost", Fresh)) /\ UNCHANGED shop
  BY <1>5, <1>6, StopFits
<1>7. CASE Go(j, "create_shop", my[j]) /\ UNCHANGED shop
  <2>1. at'[j] = "create_shop" /\ my'[j] = my[j] /\ retries'[j] = retries[j]
    BY <1>2, <1>7, Moved
  <2>2. JobFits(j)'
    BY <1>2, <1>3, <2>1
       DEF JobFits, Running, Writing, AfterShop, AtGood, HasInfo
  <2> QED
    BY <1>5, <1>7, <2>2, GoFits
<1>8. ASSUME NEW i \in DOMAIN shop, UNCHANGED shop,
             Go(j, "categories", [my[j] EXCEPT !.shop = i])
      PROVE  ImportInv'
  <2> DEFINE found == [my[j] EXCEPT !.shop = i]
  <2>1. at'[j] = "categories" /\ my'[j] = found /\ retries'[j] = retries[j]
    BY <1>2, <1>8, Moved
  <2>2. i \in Nat
    BY <1>2 DEF TablesFit
  <2>3. found \in Locals /\ found.good = my[j].good /\ found.shop = i
    BY <1>3, <2>2 DEF Locals
  <2> HIDE DEF found
  <2>4. JobFits(j)'
    BY <1>2, <1>3, <1>8, <2>1, <2>3
       DEF JobFits, Running, Writing, AfterShop, AtGood, HasInfo
  <2> QED
    BY <1>5, <1>8, <2>4, GoFits DEF found
<1>9. CASE /\ Len(shop) + 1 \in Shops /\ shop' = Append(shop, row)
           /\ Go(j, "categories", what)
  <2>1. at'[j] = "categories" /\ my'[j] = what /\ retries'[j] = retries[j]
    BY <1>2, <1>9, Moved
  <2>2. owner \in Users \cup {NoRow}
    <3>1. StartedFor[j] \in DOMAIN shop
      BY <1>2, ImportAssumption DEF TablesFit
    <3>2. shop[StartedFor[j]] \in ShopRow
      BY <1>2, <3>1 DEF TablesFit
    <3> QED
      BY <3>2 DEF ShopRow
  <2>3. row \in ShopRow
    BY <1>3, <2>2 DEF ShopRow
  <2> HIDE DEF row, owner
  <2>4. /\ shop \in Seq(ShopRow) /\ Len(shop) + 1 \in Nat
        /\ DOMAIN shop = 1 .. Len(shop)
    BY <1>2 DEF TablesFit
  <2>5. /\ shop' \in Seq(ShopRow) /\ Len(shop') = Len(shop) + 1
        /\ DOMAIN shop' = 1 .. Len(shop')
    BY <1>9, <2>3, <2>4
  <2>6. DOMAIN shop' = DOMAIN shop \cup {Len(shop) + 1}
    BY <2>4, <2>5
  <2>7. what \in Locals /\ what.good = my[j].good /\ what.shop = Len(shop) + 1
    BY <1>3, <2>4 DEF Locals
  <2> HIDE DEF what
  <2>8. JobFits(j)'
    BY <1>2, <1>3, <2>1, <2>6, <2>7
       DEF JobFits, Running, Writing, AfterShop, AtGood, HasInfo
  <2>9. Grows /\ DOMAIN shop' \subseteq Shops
    BY <1>1, <1>2, <1>9, <2>6 DEF Grows, TablesFit
  <2>10. ProductsFit'
    BY <1>1, <1>2 DEF ProductsFit
  <2> QED
    BY <1>1, <1>2, <1>9, <2>5, <2>8, <2>9, <2>10, AddFits DEF TablesFit
<1> QED
  BY <1>4, <1>6, <1>7, <1>8, <1>9

LEMMA CreateProductFits ==
    ASSUME ImportInv, NEW j \in Jobs, CreateProduct(j) PROVE ImportInv'
<1> DEFINE row  == [name |-> Item(j).name, category |-> Item(j).category]
           what == [my[j] EXCEPT !.product = Len(product) + 1]
<1>1. /\ at[j] = "create_product"
      /\ UNCHANGED <<tables, locks, shop, category, parameter, described, labels>>
  BY DEF CreateProduct
<1>2. TablesFit /\ JobFits(j) /\ ProductsFit
  BY DEF ImportInv
<1>3. /\ File[j] \in FileRow /\ my[j] \in Locals /\ my[j].shop \in DOMAIN shop
      /\ my[j].good \in 1 .. Len(File[j].goods)
      /\ Item(j).name \in STRING /\ Item(j).category \in Nat
  BY <1>1, <1>2 DEF JobFits, Running, Writing, AfterShop, AtGood
<1>4. CASE Item(j).category \notin category
  <2>1. Skip(j) /\ UNCHANGED product
    BY <1>4 DEF CreateProduct
  <2>2. Grows /\ UNCHANGED <<tables, locks, lists, labels>>
    BY <1>1, <2>1 DEF Grows, lists
  <2>3. at[j] \in AfterShop /\ my[j].good <= Len(File[j].goods)
    BY <1>1, <1>3 DEF AfterShop, Running, Writing
  <2>4. JobFits(j)'
    BY <2>1, <2>2, <2>3, NextFits DEF Skip
  <2> QED
    BY <2>1, <2>2, <2>4, GoFits DEF Skip, NextGood
<1>5. CASE Item(j).category \in category
  <2>1. product' = Append(product, row) /\ Go(j, "create_info", what)
    BY <1>5 DEF CreateProduct
  <2>2. at'[j] = "create_info" /\ my'[j] = what /\ retries'[j] = retries[j]
    BY <1>2, <2>1, Moved
  <2>3. row \in ProductRow /\ row.category \in category
    BY <1>3, <1>5 DEF ProductRow
  <2> HIDE DEF row
  <2>4. product \in Seq(ProductRow) /\ DOMAIN product = 1 .. Len(product)
        /\ Len(product) \in Nat
    BY <1>2 DEF TablesFit
  <2>5. /\ product' \in Seq(ProductRow) /\ Len(product') = Len(product) + 1
        /\ DOMAIN product' = 1 .. Len(product')
        /\ \A i \in DOMAIN product : product'[i] = product[i]
        /\ product'[Len(product) + 1] = row
    BY <2>1, <2>3, <2>4
  <2>6. DOMAIN product' = DOMAIN product \cup {Len(product) + 1}
    BY <2>4, <2>5
  <2>7. /\ what \in Locals /\ what.good = my[j].good
        /\ what.shop = my[j].shop /\ what.product = Len(product) + 1
    <3>1. Len(product) + 1 \in Nat
      BY <2>4
    <3> QED
      BY <1>3, <3>1 DEF Locals
  <2> HIDE DEF what
  <2>8. JobFits(j)'
    BY <1>1, <1>2, <1>3, <2>2, <2>6, <2>7
       DEF JobFits, Running, Writing, AfterShop, AtGood, HasInfo, Item
  <2>9. Grows
    BY <1>1, <2>6 DEF Grows
  <2>10. ProductsFit'
    BY <1>1, <1>2, <2>3, <2>5, <2>6 DEF ProductsFit
  <2> QED
    BY <1>1, <1>2, <2>1, <2>5, <2>8, <2>9, <2>10, AddFits DEF TablesFit
<1> QED
  BY <1>4, <1>5

LEMMA CreateParameterFits ==
    ASSUME ImportInv, NEW j \in Jobs, CreateParameter(j) PROVE ImportInv'
<1> DEFINE what == [my[j] EXCEPT !.parameter = Len(parameter) + 1]
<1>1. /\ at[j] = "create_parameter"
      /\ parameter' = Append(parameter, Item(j).parameter)
      /\ Go(j, "describe", what)
      /\ UNCHANGED <<tables, locks, shop, category, product, described, labels>>
  BY DEF CreateParameter
<1>2. TablesFit /\ JobFits(j) /\ ProductsFit
  BY DEF ImportInv
<1>3. my[j] \in Locals /\ Item(j).parameter \in STRING
  BY <1>1, <1>2 DEF JobFits, HasInfo
<1>4. at'[j] = "describe" /\ my'[j] = what /\ retries'[j] = retries[j]
  BY <1>1, <1>2, Moved
<1>5. /\ parameter \in Seq(STRING) /\ DOMAIN parameter = 1 .. Len(parameter)
      /\ Len(parameter) \in Nat
  BY <1>2 DEF TablesFit
<1>6. /\ parameter' \in Seq(STRING) /\ Len(parameter') = Len(parameter) + 1
      /\ DOMAIN parameter' = 1 .. Len(parameter')
  BY <1>1, <1>3, <1>5
<1>7. DOMAIN parameter' = DOMAIN parameter \cup {Len(parameter) + 1}
  BY <1>5, <1>6
<1>8. /\ what \in Locals /\ what.good = my[j].good /\ what.shop = my[j].shop
      /\ what.info = my[j].info /\ what.parameter = Len(parameter) + 1
  BY <1>3, <1>5 DEF Locals
<1> HIDE DEF what
<1>9. JobFits(j)'
  BY <1>1, <1>2, <1>3, <1>4, <1>7, <1>8
     DEF JobFits, Running, Writing, AfterShop, AtGood, HasInfo, Item
<1>10. Grows /\ ProductsFit'
  BY <1>1, <1>2, <1>7 DEF Grows, ProductsFit
<1> QED
  BY <1>1, <1>2, <1>6, <1>9, <1>10, AddFits DEF TablesFit

----------------------------------------------------------------------------
(* ... and those that delete, store and describe goods. *)

LEMMA DeleteGoodsFits ==
    ASSUME ImportInv, NEW j \in Jobs, DeleteGoods(j) PROVE ImportInv'
<1> DEFINE ids  == my[j].ids
           what == [Fresh EXCEPT !.shop = my[j].shop]
<1>1. /\ at[j] = "delete" /\ Go(j, "good", what)
      /\ UNCHANGED <<bystanders, shop, category, product, parameter, nextInfo>>
  BY DEF DeleteGoods
<1>2. TablesFit /\ JobFits(j) /\ ProductsFit /\ CatalogueIntegrity
  BY DEF ImportInv
<1>3. UNCHANGED <<order, nextOrder, nextItem, contact, accepting, shared, reserved>>
  BY <1>1 DEF bystanders, orders, locks
<1>4. Grows /\ ProductsFit'
  BY <1>1, <1>2 DEF Grows, ProductsFit
<1>5. /\ info'  = [p \in InfoIds |-> IF p \in ids THEN NoRow ELSE info[p]]
      /\ label' = [p \in InfoIds |-> IF p \in ids THEN NoRow ELSE label[p]]
      /\ item'  = [k \in ItemIds |->
                     IF k \in ItemsFor(ids) THEN NoRow ELSE item[k]]
      /\ described' = {d \in described : d[1] \notin ids}
  BY <1>2 DEF DeleteGoods, Emptied, DescriptionOf, TablesFit, StoreTypeOK
<1>6. at'[j] = "good" /\ my'[j] = what /\ retries'[j] = retries[j]
  BY <1>1, <1>2, Moved
<1>7. my[j].shop \in DOMAIN shop /\ my[j] \in Locals /\ File[j] \in FileRow
  BY <1>1, <1>2 DEF JobFits, Running, Writing, AfterShop
<1>8. what \in Locals /\ what.good = 1 /\ what.shop = my[j].shop
  BY <1>7, FreshFits DEF Locals
<1>9. 1 \in 1 .. Len(File[j].goods) + 1
  BY <1>7 DEF FileRow
<1>10. JobFits(j)'
  <2> HIDE DEF what
  <2> QED
    BY <1>1, <1>2, <1>6, <1>7, <1>8, <1>9
       DEF JobFits, Running, Writing, AfterShop, AtGood, HasInfo
<1>11. CatalogueIntegrity'
  <2>1. ASSUME NEW p \in InfoIds, info'[p] # NoRow
        PROVE  info[p] # NoRow /\ info'[p] = info[p] /\ label'[p] = label[p]
    BY <1>5, <2>1
  <2>2. ASSUME NEW d \in described'
        PROVE  info'[d[1]] # NoRow /\ d[2] \in DOMAIN parameter'
    <3>1. d \in described /\ d[1] \notin ids /\ d[1] \in InfoIds
      BY <1>2, <1>5, <2>2 DEF TablesFit
    <3> QED
      BY <1>1, <1>2, <1>5, <3>1 DEF CatalogueIntegrity
  <2>3. ASSUME NEW p \in InfoIds, info'[p] # NoRow
        PROVE  /\ info'[p].shop \in DOMAIN shop'
               /\ label'[p].product \in DOMAIN product'
               /\ product'[label'[p].product].category \in category'
               /\ \A q \in InfoIds \ {p} : info'[q] # NoRow =>
                     info'[q].shop # info'[p].shop \/ label'[q] # label'[p]
    BY <1>1, <1>2, <2>1, <2>3 DEF CatalogueIntegrity
  <2> QED
    BY <2>2, <2>3 DEF CatalogueIntegrity
<1>12. TablesFit'
  <2>1. StoreTypeOK'
    BY <1>2, <1>3, <1>5 DEF TablesFit, StoreTypeOK
  <2>2. /\ DOMAIN at' = Jobs /\ DOMAIN my' = Jobs
        /\ retries' \in [Jobs -> 0 .. MaxRetries]
    BY <1>1, <1>2 DEF TablesFit, Go, Become
  <2>3. /\ label' \in [InfoIds -> LabelRow \cup {NoRow}]
        /\ described' \subseteq InfoIds \X Nat
        /\ \A p \in InfoIds : /\ (info'[p] = NoRow) = (label'[p] = NoRow)
                              /\ info'[p] # NoRow => p < nextInfo
    BY <1>2, <1>5 DEF TablesFit
  <2> QED
    BY <1>1, <1>2, <2>1, <2>2, <2>3 DEF TablesFit
<1>13. /\ Become(j, "good", what)
       /\ retries' = [retries EXCEPT ![j] = retries[j]]
  BY <1>1, <1>2, Moved
<1> QED
  BY <1>4, <1>10, <1>11, <1>12, <1>13, StepOfOne

\* Where the parameters of a good that is stored lead.
LEMMA ParametersFit ==
    ASSUME ImportInv, Grows, NEW j \in Jobs, at[j] = "create_info",
           NEW p \in InfoIds, Parameters(j, p)
    PROVE  \E where, what, n : /\ Become(j, where, what)
                               /\ retries' = [retries EXCEPT ![j] = n]
                               /\ JobFits(j)'
<1>1. TablesFit /\ JobFits(j)
  BY DEF ImportInv
<1>2. /\ File[j] \in FileRow /\ my[j] \in Locals /\ my[j].shop \in DOMAIN shop
      /\ my[j].good \in 1 .. Len(File[j].goods)
      /\ Item(j).name \in STRING /\ Item(j).category \in Nat
      /\ at[j] \in AfterShop
  BY <1>1 DEF JobFits, Running, Writing, AfterShop, AtGood
<1>3. CASE Item(j).parameter = NoRow
  <2>1. NextGood(j, 1)
    BY <1>3, ImportAssumption DEF Parameters
  <2>2. JobFits(j)'
    BY <1>2, <2>1, NextFits
  <2> QED
    BY <1>1, <2>1, <2>2, Moved DEF NextGood
<1>4. CASE Item(j).parameter # NoRow /\ Item(j).parameter = Broken
  <2>1. Fail(j)
    BY <1>4 DEF Parameters
  <2> QED
    BY <2>1, FailFits
<1>5. CASE Item(j).parameter # NoRow /\ Item(j).parameter # Broken
  <2> DEFINE what == [my[j] EXCEPT !.info = p]
  <2>1. Go(j, "parameter", what)
    BY <1>5 DEF Parameters
  <2>2. /\ at'[j] = "parameter" /\ my'[j] = what /\ retries'[j] = retries[j]
        /\ Become(j, "parameter", what)
        /\ retries' = [retries EXCEPT ![j] = retries[j]]
    BY <1>1, <2>1, Moved
  <2>3. /\ what \in Locals /\ what.good = my[j].good
        /\ what.shop = my[j].shop /\ what.info = p
    BY <1>2 DEF Locals
  <2>4. Item(j) \in GoodRow
    BY <1>2 DEF FileRow, Item
  <2>5. Item(j).parameter \in STRING
    BY <1>5, <2>4 DEF GoodRow
  <2> HIDE DEF what
  <2>6. JobFits(j)'
    BY <1>1, <1>2, <2>2, <2>3, <2>5
       DEF JobFits, Running, Writing, AfterShop, AtGood, HasInfo, Item, Grows
  <2> QED
    BY <2>2, <2>6
<1> QED
  BY <1>3, <1>4, <1>5

LEMMA CreateInfoFits ==
    ASSUME ImportInv, NEW j \in Jobs, CreateInfo(j) PROVE ImportInv'
<1> DEFINE g == Item(j)
           l == my[j]
           row  == [shop |-> l.shop, quantity |-> g.quantity]
           card == [product |-> l.product, external |-> g.external]
<1>1. /\ at[j] = "create_info" /\ UNCHANGED <<bystanders, item, lists>>
  BY DEF CreateInfo
<1>2. TablesFit /\ JobFits(j) /\ ProductsFit /\ CatalogueIntegrity
  BY DEF ImportInv
<1>3. /\ UNCHANGED <<order, nextOrder, item, nextItem, contact, accepting>>
      /\ UNCHANGED <<shared, reserved, shop, category, product, parameter>>
      /\ UNCHANGED described
  BY <1>1 DEF bystanders, orders, locks, lists
<1>4. Grows /\ ProductsFit'
  BY <1>2, <1>3 DEF Grows, ProductsFit
<1>5. /\ File[j] \in FileRow /\ my[j] \in Locals /\ my[j].shop \in DOMAIN shop
      /\ my[j].good \in 1 .. Len(File[j].goods)
      /\ my[j].product \in DOMAIN product /\ at[j] \in AfterShop
  BY <1>1, <1>2 DEF JobFits, Running, Writing, AfterShop, AtGood
<1>6. g \in GoodRow
  BY <1>5 DEF FileRow, Item
<1>7. ASSUME UNCHANGED <<info, labels>>
      PROVE  UNCHANGED <<tables, locks, lists, labels>>
  BY <1>1, <1>3, <1>7 DEF tables, orders, items, goods, locks
<1>8. CASE Listed(l, g) \/ g.quantity < 0
  <2>1. Skip(j) /\ UNCHANGED <<info, labels>>
    BY <1>8 DEF CreateInfo
  <2>2. my[j].good <= Len(File[j].goods)
    BY <1>5
  <2>3. JobFits(j)'
    BY <1>4, <1>5, <2>1, <2>2, NextFits DEF Skip
  <2> QED
    BY <1>7, <2>1, <2>3, GoFits DEF Skip, NextGood
<1>9. CASE ~ (Listed(l, g) \/ g.quantity < 0) /\ nextInfo \notin InfoIds
  <2>1. Go(j, "lost", Fresh) /\ UNCHANGED <<info, labels>>
    BY <1>9 DEF CreateInfo
  <2> QED
    BY <1>7, <2>1, StopFits
<1>10. CASE ~ (Listed(l, g) \/ g.quantity < 0) /\ nextInfo \in InfoIds
  <2>1. /\ info' = [info EXCEPT ![nextInfo] = row]
        /\ label' = [label EXCEPT ![nextInfo] = card]
        /\ nextInfo' = nextInfo + 1
        /\ Parameters(j, nextInfo)
    BY <1>10 DEF CreateInfo
  <2>2. PICK where, what, n : /\ Become(j, where, what)
                              /\ retries' = [retries EXCEPT ![j] = n]
                              /\ JobFits(j)'
    BY <1>1, <1>4, <1>10, <2>1, ParametersFit
  <2>3. /\ row \in InfoRow /\ row.shop = my[j].shop
    BY <1>2, <1>5, <1>6, <1>10 DEF InfoRow, GoodRow, TablesFit
  <2>4. my[j].product \in Nat
    BY <1>2, <1>5 DEF TablesFit
  <2>5. card \in LabelRow /\ card.product = my[j].product
    BY <1>6, <2>4 DEF LabelRow, GoodRow
  <2>6. /\ row # NoRow /\ card # NoRow
    BY <2>3, <2>5, StoreAssumption, ImportAssumption
  <2>7. ASSUME NEW q \in InfoIds, info[q] # NoRow, info[q].shop = row.shop
        PROVE  label[q] # card
    BY <1>10, <2>3, <2>7 DEF Listed, GoodsOf
  <2> HIDE DEF row, card
  <2>8. info \in [InfoIds -> InfoRow \cup {NoRow}]
        /\ label \in [InfoIds -> LabelRow \cup {NoRow}]
    BY <1>2 DEF TablesFit, StoreTypeOK
  <2>9. CatalogueIntegrity'
    <3>1. ASSUME NEW d \in described'
          PROVE  info'[d[1]] # NoRow /\ d[2] \in DOMAIN parameter'
      <4>1. d \in described /\ d[1] \in InfoIds
        BY <1>2, <1>3, <3>1 DEF TablesFit
      <4> QED
        BY <1>2, <1>3, <2>1, <2>6, <2>8, <4>1 DEF CatalogueIntegrity
    <3>2. ASSUME NEW p \in InfoIds, info'[p] # NoRow
          PROVE  /\ info'[p].shop \in DOMAIN shop'
                 /\ label'[p].product \in DOMAIN product'
                 /\ product'[label'[p].product].category \in category'
                 /\ \A q \in InfoIds \ {p} : info'[q] # NoRow =>
                       info'[q].shop # info'[p].shop \/ label'[q] # label'[p]
      <4>1. CASE p = nextInfo
        <5>1. info'[p] = row /\ label'[p] = card
          BY <1>10, <2>1, <2>8, <4>1
        <5>2. \A q \in InfoIds \ {p} : info'[q] = info[q] /\ label'[q] = label[q]
          BY <2>1, <2>8, <4>1
        <5> QED
          BY <1>2, <1>3, <1>5, <2>3, <2>5, <2>7, <5>1, <5>2 DEF ProductsFit
      <4>2. CASE p # nextInfo
        <5>1. info'[p] = info[p] /\ label'[p] = label[p]
          BY <2>1, <2>8, <4>2
        <5>2. \A q \in InfoIds :
                 \/ info'[q] = info[q] /\ label'[q] = label[q]
                 \/ info'[q] = row /\ label'[q] = card
          BY <2>1, <2>8
        <5>3. info[p].shop = row.shop => label[p] # card
          BY <2>7, <3>2, <5>1
        <5> QED
          BY <1>2, <1>3, <3>2, <5>1, <5>2, <5>3 DEF CatalogueIntegrity
      <4> QED
        BY <4>1, <4>2
    <3> QED
      BY <3>1, <3>2 DEF CatalogueIntegrity
  <2>10. TablesFit'
    <3>1. StoreTypeOK'
      BY <1>2, <1>3, <2>1, <2>3 DEF TablesFit, StoreTypeOK
    <3>2. /\ DOMAIN at' = Jobs /\ DOMAIN my' = Jobs
          /\ retries' \in [Jobs -> 0 .. MaxRetries]
      BY <1>2, <2>2 DEF TablesFit, Become, JobFits
    <3>3. /\ label' \in [InfoIds -> LabelRow \cup {NoRow}]
          /\ nextInfo' \in 1 .. MaxInfos + 1
      BY <1>2, <1>10, <2>1, <2>5, <2>8, StoreAssumption DEF TablesFit, InfoIds
    <3>4. ASSUME NEW p \in InfoIds
          PROVE  /\ (info'[p] = NoRow) = (label'[p] = NoRow)
                 /\ info'[p] # NoRow => p < nextInfo'
      BY <1>2, <1>10, <2>1, <2>6, <2>8, StoreAssumption DEF TablesFit, InfoIds
    <3> QED
      BY <1>2, <1>3, <3>1, <3>2, <3>3, <3>4 DEF TablesFit
  <2> QED
    BY <1>4, <2>2, <2>9, <2>10, StepOfOne
<1> QED
  BY <1>8, <1>9, <1>10

LEMMA DescribeFits ==
    ASSUME ImportInv, NEW j \in Jobs, Describe(j) PROVE ImportInv'
<1> DEFINE l == my[j]
<1>1. /\ at[j] = "describe"
      /\ UNCHANGED <<tables, locks, shop, category, product, parameter, labels>>
  BY DEF Describe
<1>2. TablesFit /\ JobFits(j) /\ ProductsFit /\ CatalogueIntegrity
  BY DEF ImportInv
<1>3. /\ my[j].good <= Len(File[j].goods) /\ at[j] \in AfterShop
      /\ my[j].info \in InfoIds /\ my[j].parameter \in DOMAIN parameter
  BY <1>1, <1>2 DEF JobFits, Running, Writing, AfterShop, AtGood, HasInfo
<1>4. Grows /\ ProductsFit'
  BY <1>1, <1>2 DEF Grows, ProductsFit
<1>5. CASE info[l.info] = NoRow
  <2>1. Skip(j) /\ UNCHANGED described
    BY <1>5 DEF Describe
  <2>2. UNCHANGED <<tables, locks, lists, labels>>
    BY <1>1, <2>1 DEF lists
  <2>3. JobFits(j)'
    BY <1>3, <1>4, <2>1, NextFits DEF Skip
  <2> QED
    BY <2>1, <2>2, <2>3, GoFits DEF Skip, NextGood
<1>6. CASE info[l.info] # NoRow
  <2>1. described' = described \cup {<<l.info, l.parameter>>} /\ NextGood(j, 1)
    BY <1>6 DEF Describe
  <2>2. JobFits(j)'
    BY <1>3, <1>4, <2>1, NextFits
  <2>3. /\ UNCHANGED <<order, nextOrder, item, nextItem, info, accepting>>
        /\ UNCHANGED <<contact, shared, reserved, label, nextInfo>>
    BY <1>1 DEF tables, orders, items, goods, locks, labels
  <2>4. CatalogueIntegrity'
    BY <1>1, <1>2, <1>3, <1>6, <2>1, <2>3 DEF CatalogueIntegrity
  <2>5. StoreTypeOK'
    BY <1>2, <2>3 DEF TablesFit, StoreTypeOK
  <2>6. /\ DOMAIN at' = Jobs /\ DOMAIN my' = Jobs
        /\ retries' \in [Jobs -> 0 .. MaxRetries]
    BY <1>2, <2>1 DEF TablesFit, NextGood, Go, Become
  <2>7. described' \subseteq InfoIds \X Nat
    BY <1>2, <1>3, <2>1 DEF TablesFit
  <2>8. TablesFit'
    BY <1>1, <1>2, <2>3, <2>5, <2>6, <2>7 DEF TablesFit
  <2> QED
    BY <1>2, <1>4, <2>1, <2>2, <2>4, <2>8, Moved, StepOfOne DEF NextGood
<1> QED
  BY <1>5, <1>6

----------------------------------------------------------------------------
(* Every state. *)

LEMMA ImportBegins == AloneInit => ImportInv
<1> SUFFICES ASSUME AloneInit PROVE ImportInv
  OBVIOUS
<1>1. /\ shop = FirstShops /\ product = <<>> /\ parameter = <<>>
      /\ category = {} /\ described = {} /\ nextInfo = 1
      /\ label = [p \in InfoIds |-> NoRow] /\ info = [p \in InfoIds |-> NoRow]
  BY DEF AloneInit, NoBuyers, ImportInit
<1>2. /\ at = [j \in Jobs |-> "absent"] /\ retries = [j \in Jobs |-> 0]
      /\ my = [j \in Jobs |-> Fresh]
  BY DEF AloneInit, ImportInit
<1>3. StoreTypeOK
  BY StoreAssumption DEF AloneInit, NoBuyers, StoreTypeOK
<1>4. TablesFit
  BY <1>1, <1>2, <1>3, StoreAssumption, ImportAssumption DEF TablesFit
<1>5. ProductsFit /\ CatalogueIntegrity
  BY <1>1 DEF ProductsFit, CatalogueIntegrity
<1>6. ASSUME NEW j \in Jobs
      PROVE  JobFits(j)
  <2>1. at[j] = "absent" /\ my[j] = Fresh /\ retries[j] = 0
    BY <1>2
  <2> QED
    BY <2>1, FreshFits, ImportAssumption
       DEF JobFits, Running, Writing, AfterShop, AtGood, HasInfo
<1> QED
  BY <1>4, <1>5, <1>6 DEF ImportInv

LEMMA ImportStays == ImportInv /\ [ImportNext]_importVars => ImportInv'
<1> SUFFICES ASSUME ImportInv, [ImportNext]_importVars PROVE ImportInv'
  OBVIOUS
<1>1. ASSUME NEW j \in Jobs, Upload(j) \/ Run(j) \/ Die(j)
      PROVE  ImportInv'
  BY <1>1, UploadFits, BeginFits, FindShopFits, CreateShopFits,
     AddCategoryFits, CollectFits, DeleteGoodsFits, FindProductFits,
     CreateProductFits, CreateInfoFits, FindParameterFits,
     CreateParameterFits, DescribeFits, DieFits DEF Run
<1>2. CASE UNCHANGED importVars
  <2>1. /\ UNCHANGED <<order, nextOrder, item, nextItem, info, accepting>>
        /\ UNCHANGED <<contact, shared, reserved, shop, category, product>>
        /\ UNCHANGED <<parameter, described, label, nextInfo, at, retries, my>>
    BY <1>2 DEF importVars, tables, orders, items, goods, locks, lists, labels,
                progress
  <2>2. Grows /\ ProductsFit' /\ CatalogueIntegrity'
    BY <2>1 DEF Grows, ImportInv, ProductsFit, CatalogueIntegrity
  <2>3. TablesFit'
    BY <2>1 DEF ImportInv, TablesFit, StoreTypeOK
  <2>4. \A j \in Jobs : JobFits(j)'
    BY <2>1, <2>2, JobKept DEF ImportInv
  <2> QED
    BY <2>2, <2>3, <2>4 DEF ImportInv
<1> QED
  BY <1>1, <1>2 DEF ImportNext

LEMMA ImportInvariant == ImportSpec => []ImportInv
BY ImportBegins, ImportStays, PTL DEF ImportSpec

\* Whatever imports run at a time, retry or lose their worker: a running job
\* reads inside its file, is retried IMPORT_MAX_RETRIES times at most, and a
\* row of products_productinfo is as a whole there or not.
THEOREM ImportKeepsTypes == ImportSpec => []ImportTypeOK
<1>1. ImportInv => ImportTypeOK
  <2> SUFFICES ASSUME ImportInv PROVE ImportTypeOK
    OBVIOUS
  <2>1. TablesFit /\ \A j \in Jobs : JobFits(j)
    BY DEF ImportInv
  <2> QED
    BY <2>1 DEF ImportTypeOK, TablesFit, JobFits
<1> QED
  BY <1>1, ImportInvariant, PTL

\* process_import_data, run by any number of workers at a time and without
\* any transaction, never leaves a good without its shop, its product or
\* its category, lists none twice, and leaves no parameters behind of a
\* good that is deleted.
THEOREM ImportKeepsCatalogue == ImportSpec => []CatalogueIntegrity
<1>1. ImportInv => CatalogueIntegrity
  BY DEF ImportInv
<1> QED
  BY <1>1, ImportInvariant, PTL

----------------------------------------------------------------------------
(* Any number of workers: how often a name can come up.  A job inserts a   *)
(* name only if it has found no row of it, and until the first of them has *)
(* been inserted there are no more such jobs than run at a time.           *)

FewRun == Cardinality({j \in Jobs : at[j] \in Running}) <= Workers

\* What NamedAtMost counts, for any name: new rows and jobs that insert one.
ShopRows(n)      == {t \in ShopsNamed(n) : t > Len(FirstShops)}
ShopJobs(n)      == {j \in Inserting("create_shop") : File[j].shop = n}
Wanted(j)        == [name |-> Item(j).name, category |-> Item(j).category]
ProductRows(r)   == {h \in DOMAIN product :
                        product[h] = r /\ h > Len(FirstProducts)}
ProductJobs(r)   == {j \in Inserting("create_product") : Wanted(j) = r}
ParameterRows(n) == {i \in DOMAIN parameter : parameter[i] = n}
ParameterJobs(n) == {j \in Inserting("create_parameter") :
                        Item(j).parameter = n}

ShopsCounted      == \A n : AtMost(ShopRows(n), ShopJobs(n))
ProductsCounted   == \A r : AtMost(ProductRows(r), ProductJobs(r))
ParametersCounted == \A n : AtMost(ParameterRows(n), ParameterJobs(n))

CountInv == FewRun /\ ShopsCounted /\ ProductsCounted /\ ParametersCounted

\* Fewer rows and fewer jobs.
LEMMA FewerCounted ==
    ASSUME NEW R, NEW W, IsFiniteSet(R), IsFiniteSet(W), AtMost(R, W),
           NEW R2 \in SUBSET R, NEW W2 \in SUBSET W
    PROVE  AtMost(R2, W2)
<1>1. Cardinality(R2) <= Cardinality(R) /\ Cardinality(W2) <= Cardinality(W)
  BY FS_Subset
<1>2. /\ Cardinality(R) \in Nat /\ Cardinality(W) \in Nat
      /\ Cardinality(R2) \in Nat /\ Cardinality(W2) \in Nat
  BY FS_Subset, FS_CardinalityType
<1> QED
  BY <1>1, <1>2, ImportAssumption DEF AtMost

\* A job has inserted its row.
LEMMA InsertedCounted ==
    ASSUME NEW R, NEW W, IsFiniteSet(R), IsFiniteSet(W), AtMost(R, W),
           NEW x, NEW j \in W
    PROVE  AtMost(R \cup {x}, W \ {j})
<1>1. /\ Cardinality(R \cup {x}) <= Cardinality(R) + 1
      /\ Cardinality(W \ {j}) = Cardinality(W) - 1
  <2>1. Cardinality(R) \in Nat
    BY FS_CardinalityType
  <2>2. Cardinality(R \cup {x}) = IF x \in R THEN Cardinality(R)
                                   ELSE Cardinality(R) + 1
    BY FS_AddElement, Zenon
  <2>3. Cardinality(W \ {j}) = Cardinality(W) - 1
    BY FS_RemoveElement
  <2> QED
    BY <2>1, <2>2, <2>3
<1>2. /\ Cardinality(R) \in Nat /\ Cardinality(W) \in Nat
      /\ Cardinality(R \cup {x}) \in Nat
  BY FS_CardinalityType, FS_AddElement
<1> QED
  BY <1>1, <1>2, ImportAssumption DEF AtMost

\* No row has been inserted: only jobs that run count.
LEMMA NoneCounted ==
    ASSUME NEW S \in SUBSET Jobs, Cardinality(S) <= Workers, NEW W \in SUBSET S
    PROVE  AtMost({}, W)
<1>1. IsFiniteSet(S)
  BY FS_Subset, ImportAssumption
<1>2. /\ Cardinality(W) <= Cardinality(S)
      /\ Cardinality(W) \in Nat /\ Cardinality(S) \in Nat
  BY <1>1, FS_Subset, FS_CardinalityType
<1> QED
  BY <1>2, FS_EmptySet, ImportAssumption DEF AtMost

LEMMA CountsFinite ==
    ASSUME TablesFit
    PROVE  /\ \A n : IsFiniteSet(ShopRows(n)) /\ IsFiniteSet(ShopJobs(n))
           /\ \A r : IsFiniteSet(ProductRows(r)) /\ IsFiniteSet(ProductJobs(r))
           /\ \A n : /\ IsFiniteSet(ParameterRows(n))
                     /\ IsFiniteSet(ParameterJobs(n))
<1>1. /\ IsFiniteSet(Jobs) /\ IsFiniteSet(DOMAIN shop)
      /\ IsFiniteSet(DOMAIN product) /\ IsFiniteSet(DOMAIN parameter)
  <2>1. /\ DOMAIN shop = 1 .. Len(shop) /\ Len(shop) \in Int
        /\ DOMAIN product = 1 .. Len(product) /\ Len(product) \in Int
        /\ DOMAIN parameter = 1 .. Len(parameter) /\ Len(parameter) \in Int
    BY DEF TablesFit
  <2> QED
    BY <2>1, FS_Interval, ImportAssumption
<1>2. ASSUME NEW n
      PROVE  /\ ShopRows(n) \in SUBSET DOMAIN shop
             /\ ShopJobs(n) \in SUBSET Jobs
             /\ ProductRows(n) \in SUBSET DOMAIN product
             /\ ProductJobs(n) \in SUBSET Jobs
             /\ ParameterRows(n) \in SUBSET DOMAIN parameter
             /\ ParameterJobs(n) \in SUBSET Jobs
  BY DEF ShopRows, ShopsNamed, ShopJobs, ProductRows, ProductJobs,
         ParameterRows, ParameterJobs, Inserting
<1> QED
  BY <1>1, <1>2, FS_Subset

\* A job that does not go to insert a row, or has found none.
LEMMA ShopsKept ==
    ASSUME TablesFit, ShopsCounted, FewRun', NEW q \in Jobs, UNCHANGED shop,
           NEW where, NEW what, Become(q, where, what),
           where = "create_shop" =>
              my'[q] = my[q] /\ ShopsNamed(File[q].shop) = {}
    PROVE  ShopsCounted'
<1>1. \A j \in Jobs : /\ at'[j] = IF j = q THEN where ELSE at[j]
                      /\ j # q => my'[j] = my[j]
  BY DEF TablesFit, Become
<1> SUFFICES ASSUME NEW n PROVE AtMost(ShopRows(n)', ShopJobs(n)')
  BY DEF ShopsCounted, AtMost
<1>2. ShopRows(n)' = ShopRows(n)
  BY DEF ShopRows, ShopsNamed
<1>3. AtMost(ShopRows(n), ShopJobs(n))
  BY DEF ShopsCounted
<1>4. CASE where = "create_shop" /\ File[q].shop = n
  <2>1. ShopRows(n) = {}
    BY <1>4 DEF ShopRows, ShopsNamed
  <2>2. ShopJobs(n)' \in SUBSET {j \in Jobs : at'[j] \in Running}
    BY DEF ShopJobs, Inserting, Running, Writing
  <2>3. Cardinality({j \in Jobs : at'[j] \in Running}) <= Workers
    BY DEF FewRun
  <2> QED
    BY <1>2, <2>1, <2>2, <2>3, NoneCounted
<1>5. CASE ~ (where = "create_shop" /\ File[q].shop = n)
  <2>1. ShopJobs(n)' \in SUBSET ShopJobs(n)
    BY <1>1, <1>5 DEF ShopJobs, Inserting
  <2> QED
    BY <1>2, <1>3, <2>1, CountsFinite, FewerCounted
<1> QED
  BY <1>4, <1>5

LEMMA ProductsKept ==
    ASSUME TablesFit, ProductsCounted, FewRun', NEW q \in Jobs, UNCHANGED product,
           NEW where, NEW what, Become(q, where, what),
           where = "create_product" =>
              my'[q] = my[q] /\ ProductsNamed(Item(q)) = {}
    PROVE  ProductsCounted'
<1>1. \A j \in Jobs : /\ at'[j] = IF j = q THEN where ELSE at[j]
                      /\ j # q => my'[j] = my[j]
  BY DEF TablesFit, Become
<1> SUFFICES ASSUME NEW n PROVE AtMost(ProductRows(n)', ProductJobs(n)')
  BY DEF ProductsCounted, AtMost
<1>2. ProductRows(n)' = ProductRows(n)
  BY DEF ProductRows, ProductsNamed, Wanted
<1>3. AtMost(ProductRows(n), ProductJobs(n))
  BY DEF ProductsCounted
<1>4. CASE where = "create_product" /\ Wanted(q) = n
  <2>1. ProductRows(n) = {}
    BY <1>4 DEF ProductRows, ProductsNamed, Wanted
  <2>2. ProductJobs(n)' \in SUBSET {j \in Jobs : at'[j] \in Running}
    BY DEF ProductJobs, Inserting, Running, Writing
  <2>3. Cardinality({j \in Jobs : at'[j] \in Running}) <= Workers
    BY DEF FewRun
  <2> QED
    BY <1>2, <2>1, <2>2, <2>3, NoneCounted
<1>5. CASE ~ (where = "create_product" /\ Wanted(q) = n)
  <2>1. ProductJobs(n)' \in SUBSET ProductJobs(n)
    BY <1>1, <1>5 DEF ProductJobs, Inserting, Wanted, Item
  <2> QED
    BY <1>2, <1>3, <2>1, CountsFinite, FewerCounted
<1> QED
  BY <1>4, <1>5

LEMMA ParametersKept ==
    ASSUME TablesFit, ParametersCounted, FewRun', NEW q \in Jobs, UNCHANGED parameter,
           NEW where, NEW what, Become(q, where, what),
           where = "create_parameter" =>
              my'[q] = my[q] /\ \A i \in DOMAIN parameter : parameter[i] # Item(q).parameter
    PROVE  ParametersCounted'
<1>1. \A j \in Jobs : /\ at'[j] = IF j = q THEN where ELSE at[j]
                      /\ j # q => my'[j] = my[j]
  BY DEF TablesFit, Become
<1> SUFFICES ASSUME NEW n PROVE AtMost(ParameterRows(n)', ParameterJobs(n)')
  BY DEF ParametersCounted, AtMost
<1>2. ParameterRows(n)' = ParameterRows(n)
  BY DEF ParameterRows
<1>3. AtMost(ParameterRows(n), ParameterJobs(n))
  BY DEF ParametersCounted
<1>4. CASE where = "create_parameter" /\ Item(q).parameter = n
  <2>1. ParameterRows(n) = {}
    BY <1>4 DEF ParameterRows
  <2>2. ParameterJobs(n)' \in SUBSET {j \in Jobs : at'[j] \in Running}
    BY DEF ParameterJobs, Inserting, Running, Writing
  <2>3. Cardinality({j \in Jobs : at'[j] \in Running}) <= Workers
    BY DEF FewRun
  <2> QED
    BY <1>2, <2>1, <2>2, <2>3, NoneCounted
<1>5. CASE ~ (where = "create_parameter" /\ Item(q).parameter = n)
  <2>1. ParameterJobs(n)' \in SUBSET ParameterJobs(n)
    BY <1>1, <1>5 DEF ParameterJobs, Inserting, Item
  <2> QED
    BY <1>2, <1>3, <2>1, CountsFinite, FewerCounted
<1> QED
  BY <1>4, <1>5

\* A job that inserts its row.
LEMMA ShopsAdded ==
    ASSUME TablesFit, ShopsCounted, NEW q \in Jobs, at[q] = "create_shop",
           NEW row, shop' = Append(shop, row), row.name = File[q].shop,
           NEW where, NEW what, Become(q, where, what), where # "create_shop"
    PROVE  ShopsCounted'
<1>1. \A j \in Jobs : /\ at'[j] = IF j = q THEN where ELSE at[j]
                      /\ j # q => my'[j] = my[j]
  BY DEF TablesFit, Become
<1> SUFFICES ASSUME NEW n PROVE AtMost(ShopRows(n)', ShopJobs(n)')
  BY DEF ShopsCounted, AtMost
<1>2. AtMost(ShopRows(n), ShopJobs(n))
  BY DEF ShopsCounted
<1>3. /\ DOMAIN shop' = DOMAIN shop \cup {Len(shop) + 1}
      /\ \A i \in DOMAIN shop : shop'[i] = shop[i]
      /\ shop'[Len(shop) + 1] = row
  BY DEF TablesFit
<1>4. ShopJobs(n)' \in SUBSET (ShopJobs(n) \ {q})
  BY <1>1 DEF ShopJobs, Inserting
<1>5. CASE File[q].shop = n
  <2>1. q \in ShopJobs(n)
    BY <1>5 DEF ShopJobs, Inserting
  <2>2. ShopRows(n)' \in SUBSET (ShopRows(n) \cup {Len(shop) + 1})
    BY <1>3 DEF ShopRows, ShopsNamed
  <2>3. AtMost(ShopRows(n) \cup {Len(shop) + 1}, ShopJobs(n) \ {q})
    BY <1>2, <2>1, CountsFinite, InsertedCounted
  <2>4. /\ IsFiniteSet(ShopRows(n) \cup {Len(shop) + 1})
        /\ IsFiniteSet(ShopJobs(n) \ {q})
    BY CountsFinite, FS_AddElement, FS_RemoveElement
  <2> QED
    BY <1>4, <2>2, <2>3, <2>4, FewerCounted
<1>6. CASE File[q].shop # n
  <2>1. ShopRows(n)' \in SUBSET ShopRows(n)
    BY <1>3, <1>6 DEF ShopRows, ShopsNamed
  <2> QED
    BY <1>2, <1>4, <2>1, CountsFinite, FewerCounted
<1> QED
  BY <1>5, <1>6

LEMMA ProductsAdded ==
    ASSUME TablesFit, ProductsCounted, NEW q \in Jobs, at[q] = "create_product",
           NEW row, product' = Append(product, row), row = Wanted(q),
           NEW where, NEW what, Become(q, where, what), where # "create_product"
    PROVE  ProductsCounted'
<1>1. \A j \in Jobs : /\ at'[j] = IF j = q THEN where ELSE at[j]
                      /\ j # q => my'[j] = my[j]
  BY DEF TablesFit, Become
<1> SUFFICES ASSUME NEW n PROVE AtMost(ProductRows(n)', ProductJobs(n)')
  BY DEF ProductsCounted, AtMost
<1>2. AtMost(ProductRows(n), ProductJobs(n))
  BY DEF ProductsCounted
<1>3. /\ DOMAIN product' = DOMAIN product \cup {Len(product) + 1}
      /\ \A i \in DOMAIN product : product'[i] = product[i]
      /\ product'[Len(product) + 1] = row
  BY DEF TablesFit
<1>4. ProductJobs(n)' \in SUBSET (ProductJobs(n) \ {q})
  BY <1>1 DEF ProductJobs, Inserting, Wanted, Item
<1>5. CASE Wanted(q) = n
  <2>1. q \in ProductJobs(n)
    BY <1>5 DEF ProductJobs, Inserting
  <2>2. ProductRows(n)' \in SUBSET (ProductRows(n) \cup {Len(product) + 1})
    BY <1>3 DEF ProductRows
  <2>3. AtMost(ProductRows(n) \cup {Len(product) + 1}, ProductJobs(n) \ {q})
    BY <1>2, <2>1, CountsFinite, InsertedCounted
  <2>4. /\ IsFiniteSet(ProductRows(n) \cup {Len(product) + 1})
        /\ IsFiniteSet(ProductJobs(n) \ {q})
    BY CountsFinite, FS_AddElement, FS_RemoveElement
  <2> QED
    BY <1>4, <2>2, <2>3, <2>4, FewerCounted
<1>6. CASE Wanted(q) # n
  <2>1. ProductRows(n)' \in SUBSET ProductRows(n)
    BY <1>3, <1>6 DEF ProductRows
  <2> QED
    BY <1>2, <1>4, <2>1, CountsFinite, FewerCounted
<1> QED
  BY <1>5, <1>6

LEMMA ParametersAdded ==
    ASSUME TablesFit, ParametersCounted, NEW q \in Jobs, at[q] = "create_parameter",
           NEW row, parameter' = Append(parameter, row), row = Item(q).parameter,
           NEW where, NEW what, Become(q, where, what), where # "create_parameter"
    PROVE  ParametersCounted'
<1>1. \A j \in Jobs : /\ at'[j] = IF j = q THEN where ELSE at[j]
                      /\ j # q => my'[j] = my[j]
  BY DEF TablesFit, Become
<1> SUFFICES ASSUME NEW n PROVE AtMost(ParameterRows(n)', ParameterJobs(n)')
  BY DEF ParametersCounted, AtMost
<1>2. AtMost(ParameterRows(n), ParameterJobs(n))
  BY DEF ParametersCounted
<1>3. /\ DOMAIN parameter' = DOMAIN parameter \cup {Len(parameter) + 1}
      /\ \A i \in DOMAIN parameter : parameter'[i] = parameter[i]
      /\ parameter'[Len(parameter) + 1] = row
  BY DEF TablesFit
<1>4. ParameterJobs(n)' \in SUBSET (ParameterJobs(n) \ {q})
  BY <1>1 DEF ParameterJobs, Inserting, Item
<1>5. CASE Item(q).parameter = n
  <2>1. q \in ParameterJobs(n)
    BY <1>5 DEF ParameterJobs, Inserting
  <2>2. ParameterRows(n)' \in SUBSET (ParameterRows(n) \cup {Len(parameter) + 1})
    BY <1>3 DEF ParameterRows
  <2>3. AtMost(ParameterRows(n) \cup {Len(parameter) + 1}, ParameterJobs(n) \ {q})
    BY <1>2, <2>1, CountsFinite, InsertedCounted
  <2>4. /\ IsFiniteSet(ParameterRows(n) \cup {Len(parameter) + 1})
        /\ IsFiniteSet(ParameterJobs(n) \ {q})
    BY CountsFinite, FS_AddElement, FS_RemoveElement
  <2> QED
    BY <1>4, <2>2, <2>3, <2>4, FewerCounted
<1>6. CASE Item(q).parameter # n
  <2>1. ParameterRows(n)' \in SUBSET ParameterRows(n)
    BY <1>3, <1>6 DEF ParameterRows
  <2> QED
    BY <1>2, <1>4, <2>1, CountsFinite, FewerCounted
<1> QED
  BY <1>5, <1>6

\* A job that runs keeps the others from running.
LEMMA RunnersKept ==
    ASSUME ImportInv, FewRun, NEW q \in Jobs,
           NEW where, NEW what, Become(q, where, what),
           \/ at[q] \in Running
           \/ where \notin Running
           \/ Cardinality({i \in Jobs : at[i] \in Running}) < Workers
    PROVE  FewRun'
<1> DEFINE S == {j \in Jobs : at[j] \in Running}
           T == {j \in Jobs : at'[j] \in Running}
<1>1. \A j \in Jobs : at'[j] = IF j = q THEN where ELSE at[j]
  BY DEF ImportInv, TablesFit, Become
<1>2. /\ IsFiniteSet(S) /\ Cardinality(S) \in Nat
      /\ IsFiniteSet(S \cup {q}) /\ Cardinality(S \cup {q}) \in Nat
      /\ Cardinality(S \cup {q}) <= Cardinality(S) + 1
  <2>1. IsFiniteSet(S)
    BY FS_Subset, ImportAssumption
  <2>2. IsFiniteSet(S \cup {q}) /\ Cardinality(S) \in Nat
    BY <2>1, FS_AddElement, FS_CardinalityType
  <2>3. Cardinality(S \cup {q}) \in Nat
    BY <2>2, FS_CardinalityType
  <2> QED
    BY <2>1, <2>2, <2>3, FS_AddElement
<1>3. Cardinality(S) <= Workers
  BY DEF FewRun
<1>4. CASE at[q] \in Running \/ where \notin Running
  <2>1. T \in SUBSET S
    BY <1>1, <1>4
  <2>2. Cardinality(T) <= Cardinality(S) /\ Cardinality(T) \in Nat
    BY <1>2, <2>1, FS_Subset, FS_CardinalityType
  <2> QED
    BY <1>2, <1>3, <2>2, ImportAssumption DEF FewRun
<1>5. CASE Cardinality(S) < Workers
  <2>1. T \in SUBSET (S \cup {q})
    BY <1>1
  <2>2. /\ Cardinality(T) <= Cardinality(S \cup {q})
        /\ Cardinality(T) \in Nat
    BY <1>2, <2>1, FS_Subset, FS_CardinalityType
  <2> QED
    BY <1>2, <1>5, <2>2, ImportAssumption DEF FewRun
<1> QED
  BY <1>4, <1>5

\* A job that inserts nothing: it stops, finds a name or goes to insert it.
LEMMA PassKept ==
    ASSUME ImportInv, CountInv, NEW q \in Jobs, at[q] \in Running,
           UNCHANGED <<shop, product, parameter>>,
           \/ Fail(q)
           \/ \E where, what :
                 /\ Go(q, where, what)
                 /\ where \notin {"create_shop", "create_product",
                                  "create_parameter"}
    PROVE  CountInv'
<1>1. PICK where, what :
         /\ Become(q, where, what)
         /\ where \notin {"create_shop", "create_product", "create_parameter"}
  BY DEF Fail, Go
<1>2. FewRun'
  BY <1>1, RunnersKept DEF CountInv
<1> QED
  BY <1>1, <1>2, ShopsKept, ProductsKept, ParametersKept DEF CountInv, ImportInv

\* What a get() of get_or_create leads to.
LEMMA GotKept ==
    ASSUME ImportInv, CountInv, NEW q \in Jobs, at[q] \in Running,
           UNCHANGED <<shop, product, parameter>>,
           NEW found, NEW with, NEW next, NEW insert,
           Got(q, found, with, next, insert),
           next \in {"categories", "create_info", "describe"},
           found = {} =>
              /\ insert = "create_shop" => ShopsNamed(File[q].shop) = {}
              /\ insert = "create_product" => ProductsNamed(Item(q)) = {}
              /\ insert = "create_parameter" =>
                    \A i \in DOMAIN parameter :
                       parameter[i] # Item(q).parameter
    PROVE  CountInv'
<1>1. CASE found = {} /\ Go(q, insert, my[q])
  <2>1. Become(q, insert, my[q]) /\ my'[q] = my[q]
    BY <1>1, Moved DEF ImportInv
  <2>2. FewRun'
    BY <2>1, RunnersKept DEF CountInv
  <2> QED
    BY <1>1, <2>1, <2>2, ShopsKept, ProductsKept, ParametersKept
       DEF CountInv, ImportInv
<1>2. CASE ~ (found = {} /\ Go(q, insert, my[q]))
  BY <1>2, PassKept DEF Got
<1> QED
  BY <1>1, <1>2

LEMMA CountsStay ==
    ASSUME ImportInv, CountInv, NEW q \in Jobs, Upload(q) \/ Run(q) \/ Die(q)
    PROVE  CountInv'
<1> USE DEF lists
<1>1. CASE Upload(q)
  <2>1. Become(q, "queued", Fresh) /\ UNCHANGED <<shop, product, parameter>>
    BY <1>1 DEF Upload, PartnerUpdate, AdminImport, Accept, Go
  <2>2. FewRun'
    BY <2>1, RunnersKept DEF CountInv, Running, Writing
  <2> QED
    BY <2>1, <2>2, ShopsKept, ProductsKept, ParametersKept
       DEF CountInv, ImportInv
<1>2. CASE Begin(q)
  <2>1. PICK where, what :
           /\ Become(q, where, what)
           /\ where \notin {"create_shop", "create_product",
                            "create_parameter"}
    BY <1>2 DEF Begin, Fail, Go
  <2>2. FewRun' /\ UNCHANGED <<shop, product, parameter>>
    BY <1>2, <2>1, RunnersKept DEF CountInv, Begin
  <2> QED
    BY <2>1, <2>2, ShopsKept, ProductsKept, ParametersKept
       DEF CountInv, ImportInv
<1>3. CASE FindShop(q)
  <2>1. at[q] \in Running /\ UNCHANGED <<shop, product, parameter>>
    BY <1>3 DEF FindShop, Running
  <2> QED
    BY <1>3, <2>1, PassKept, GotKept DEF FindShop
<1>4. CASE CreateShop(q)
  <2>1. /\ at[q] = "create_shop" /\ at[q] \in Running
        /\ UNCHANGED <<product, parameter>>
    BY <1>4 DEF CreateShop, Running, Writing
  <2>2. CASE UNCHANGED shop
    <3>1. \/ Fail(q) \/ Go(q, "lost", Fresh)
          \/ Got(q, ShopsNamed(File[q].shop), WithShop(my[q]), "categories",
                 "create_shop")
          \/ \E what : Go(q, "categories", what)
      BY <1>4, <2>2 DEF CreateShop
    <3> QED
      BY <2>1, <2>2, <3>1, PassKept, GotKept
  <2>3. CASE ~ UNCHANGED shop
    <3>1. PICK what :
             /\ shop' = Append(shop, [name |-> File[q].shop,
                                      user |-> shop[StartedFor[q]].user])
             /\ Become(q, "categories", what)
      BY <1>4, <2>3 DEF CreateShop, Go
    <3>2. FewRun'
      BY <2>1, <3>1, RunnersKept DEF CountInv
    <3> QED
      BY <2>1, <3>1, <3>2, ShopsAdded, ProductsKept, ParametersKept
         DEF CountInv, ImportInv
  <2> QED
    BY <2>2, <2>3
<1>5. CASE AddCategory(q) \/ Collect(q) \/ DeleteGoods(q)
  <2>1. at[q] \in Running /\ UNCHANGED <<shop, product, parameter>>
    BY <1>5 DEF AddCategory, Collect, DeleteGoods, Running, Writing
  <2>2. \E what : \/ Go(q, "categories", what) \/ Go(q, "collect", what)
                  \/ Go(q, "delete", what) \/ Go(q, "good", what)
    BY <1>5 DEF AddCategory, Collect, DeleteGoods
  <2> QED
    BY <2>1, <2>2, PassKept
<1>6. CASE FindProduct(q)
  <2>1. at[q] \in Running /\ UNCHANGED <<shop, product, parameter>>
    BY <1>6 DEF FindProduct, Running
  <2>2. \/ \E what : Go(q, "done", what) \/ Go(q, "good", what)
        \/ Got(q, ProductsNamed(Item(q)), WithProduct(my[q]), "create_info",
               "create_product")
    BY <1>6 DEF FindProduct, Skip, NextGood
  <2> QED
    BY <2>1, <2>2, PassKept, GotKept
<1>7. CASE CreateProduct(q)
  <2>1. /\ at[q] = "create_product" /\ at[q] \in Running
        /\ UNCHANGED <<shop, parameter>>
    BY <1>7 DEF CreateProduct, Running, Writing
  <2>2. CASE UNCHANGED product
    <3>1. \E what : Go(q, "good", what) \/ Go(q, "create_info", what)
      BY <1>7 DEF CreateProduct, Skip, NextGood
    <3> QED
      BY <2>1, <2>2, <3>1, PassKept
  <2>3. CASE ~ UNCHANGED product
    <3>1. PICK what : /\ product' = Append(product, Wanted(q))
                      /\ Become(q, "create_info", what)
      BY <1>7, <2>3 DEF CreateProduct, Go, Wanted
    <3>2. FewRun'
      BY <2>1, <3>1, RunnersKept DEF CountInv
    <3> QED
      BY <2>1, <3>1, <3>2, ShopsKept, ProductsAdded, ParametersKept
         DEF CountInv, ImportInv
  <2> QED
    BY <2>2, <2>3
<1>8. CASE CreateInfo(q)
  <2>1. at[q] \in Running /\ UNCHANGED <<shop, product, parameter>>
    BY <1>8 DEF CreateInfo, Running, Writing
  <2>2. \/ Fail(q)
        \/ \E what : \/ Go(q, "good", what) \/ Go(q, "lost", what)
                     \/ Go(q, "parameter", what)
    <3>1. ASSUME NEW p, Parameters(q, p)
          PROVE  \/ Fail(q)
                 \/ \E what : Go(q, "good", what) \/ Go(q, "parameter", what)
      BY <3>1 DEF Parameters, NextGood
    <3> QED
      BY <1>8, <3>1 DEF CreateInfo, Skip, NextGood
  <2> QED
    BY <2>1, <2>2, PassKept
<1>9. CASE FindParameter(q)
  <2>1. at[q] \in Running /\ UNCHANGED <<shop, product, parameter>>
    BY <1>9 DEF FindParameter, Running
  <2> QED
    BY <1>9, <2>1, GotKept DEF FindParameter
<1>10. CASE CreateParameter(q)
  <2>1. /\ at[q] = "create_parameter" /\ at[q] \in Running
        /\ UNCHANGED <<shop, product>>
        /\ parameter' = Append(parameter, Item(q).parameter)
    BY <1>10 DEF CreateParameter, Running, Writing
  <2>2. PICK what : Become(q, "describe", what)
    BY <1>10 DEF CreateParameter, Go
  <2>3. FewRun'
    BY <2>1, <2>2, RunnersKept DEF CountInv
  <2> QED
    BY <2>1, <2>2, <2>3, ShopsKept, ProductsKept, ParametersAdded
       DEF CountInv, ImportInv
<1>11. CASE Describe(q)
  <2>1. at[q] \in Running /\ UNCHANGED <<shop, product, parameter>>
    BY <1>11 DEF Describe, Running, Writing
  <2>2. \E what : Go(q, "good", what)
    BY <1>11 DEF Describe, Skip, NextGood
  <2> QED
    BY <2>1, <2>2, PassKept
<1>12. CASE Die(q)
  <2>1. at[q] \in Running /\ UNCHANGED <<shop, product, parameter>>
    BY <1>12 DEF Die
  <2>2. \E what : Go(q, "lost", what) \/ Go(q, "failed", what)
    BY <1>12 DEF Die
  <2> QED
    BY <2>1, <2>2, PassKept
<1> QED
  BY <1>1, <1>2, <1>3, <1>4, <1>5, <1>6, <1>7, <1>8, <1>9, <1>10, <1>11,
     <1>12 DEF Run

LEMMA CountsBegin == AloneInit => CountInv
<1> SUFFICES ASSUME AloneInit PROVE CountInv
  OBVIOUS
<1>1. /\ shop = FirstShops /\ product = FirstProducts /\ parameter = <<>>
      /\ \A j \in Jobs : at[j] = "absent"
  BY DEF AloneInit, ImportInit
<1>2. ASSUME NEW n
      PROVE  /\ ShopRows(n) = {} /\ ShopJobs(n) = {}
             /\ ProductRows(n) = {} /\ ProductJobs(n) = {}
             /\ ParameterRows(n) = {} /\ ParameterJobs(n) = {}
  BY <1>1, ImportAssumption
     DEF ShopRows, ShopsNamed, ShopJobs, ProductRows, ProductJobs,
         ParameterRows, ParameterJobs, Inserting
<1>3. {j \in Jobs : at[j] \in Running} = {}
  BY <1>1 DEF Running, Writing
<1>4. AtMost({}, {}) /\ FewRun
  <2>1. Cardinality({}) = 0 /\ Workers \in Nat
    BY FS_EmptySet, ImportAssumption
  <2>2. AtMost({}, {})
    BY <2>1 DEF AtMost
  <2>3. FewRun
    BY <1>3, <2>1 DEF FewRun
  <2> QED
    BY <2>2, <2>3
<1> QED
  BY <1>2, <1>4 DEF CountInv, ShopsCounted, ProductsCounted, ParametersCounted

LEMMA CountInvariant == ImportSpec => [](ImportInv /\ CountInv)
<1>1. AloneInit => ImportInv /\ CountInv
  BY ImportBegins, CountsBegin
<1>2. ImportInv /\ CountInv /\ [ImportNext]_importVars
         => (ImportInv /\ CountInv)'
  <2> SUFFICES ASSUME ImportInv, CountInv, [ImportNext]_importVars
               PROVE  ImportInv' /\ CountInv'
    OBVIOUS
  <2>1. ASSUME UNCHANGED importVars PROVE CountInv'
    BY <2>1 DEF importVars, lists, progress, CountInv, FewRun, ShopsCounted,
       ProductsCounted, ParametersCounted, ShopRows, ShopsNamed, ShopJobs,
       ProductRows, ProductJobs, ParameterRows, ParameterJobs, Inserting,
       Wanted, Item
  <2> QED
    BY <2>1, ImportStays, CountsStay DEF ImportNext
<1> QED
  BY <1>1, <1>2, PTL DEF ImportSpec

\* get_or_create, for any number of imports at a time, with their retries
\* and killed workers: no shop, no product of a category and no parameter
\* has more new rows, those that jobs are about to insert included, than
\* imports run at a time.
THEOREM NamesAreBounded == ImportSpec => []NamedAtMost
<1>1. ImportInv /\ CountInv => NamedAtMost
  <2> SUFFICES ASSUME ImportInv, CountInv PROVE NamedAtMost
    OBVIOUS
  <2>1. ASSUME NEW s \in DOMAIN shop
        PROVE  AtMost({t \in ShopsNamed(shop[s].name) : t > Len(FirstShops)},
                      {j \in Inserting("create_shop") :
                          File[j].shop = shop[s].name})
    BY DEF CountInv, ShopsCounted, ShopRows, ShopJobs
  <2>2. ASSUME NEW i \in DOMAIN product
        PROVE  AtMost({h \in ProductsNamed(product[i]) : h > Len(FirstProducts)},
                      {j \in Inserting("create_product") :
                          i \in ProductsNamed(Item(j))})
    <3>1. product[i] = [name     |-> product[i].name,
                        category |-> product[i].category]
      <4>1. product[i] \in ProductRow
        BY DEF ImportInv, TablesFit
      <4> QED
        BY <4>1 DEF ProductRow
    <3>2. /\ {h \in ProductsNamed(product[i]) : h > Len(FirstProducts)}
               = ProductRows(product[i])
          /\ {j \in Inserting("create_product") : i \in ProductsNamed(Item(j))}
               = ProductJobs(product[i])
      BY <3>1 DEF ProductsNamed, ProductRows, ProductJobs, Wanted
    <3> QED
      BY <3>2 DEF CountInv, ProductsCounted
  <2>3. ASSUME NEW i \in DOMAIN parameter
        PROVE  AtMost({h \in DOMAIN parameter : parameter[h] = parameter[i]},
                      {j \in Inserting("create_parameter") :
                          Item(j).parameter = parameter[i]})
    BY DEF CountInv, ParametersCounted, ParameterRows, ParameterJobs
  <2> QED
    BY <2>1, <2>2, <2>3 DEF NamedAtMost
<1> QED
  BY <1>1, CountInvariant, PTL

----------------------------------------------------------------------------
(* One worker: the catalogue is what the last price list says.  The job    *)
(* that runs is the only one that writes, so that what it has looked for   *)
(* and not found is still not there when it inserts it, and the goods of   *)
(* its shop are those it has deleted, or has stored so far.                *)

\* One import runs at a time, and shops start with names of their own.
OneWorker == Workers = 1
NamedApart ==
    \A s, t \in DOMAIN FirstShops :
        FirstShops[s].name = FirstShops[t].name => s = t

OneRuns == \A i, j \in Jobs : at[i] \in Running /\ at[j] \in Running => i = j

\* What get_or_create has looked for is not there.
NoneFound(j) ==
    /\ at[j] = "create_shop" => ShopsNamed(File[j].shop) = {}
    /\ at[j] = "create_product" => ProductsNamed(Item(j)) = {}
    /\ at[j] = "create_parameter" =>
          \A i \in DOMAIN parameter : parameter[i] # Item(j).parameter

\* A good that can be stored, unless it repeats an earlier one; a row that
\* lists it, whatever the quantity; and the parameters of a row.
Complete(g) == g.name # NoRow /\ g.category \in category /\ g.quantity >= 0
Lists(p, g) ==
    /\ product[label[p].product] = [name |-> g.name, category |-> g.category]
    /\ label[p].external = g.external
ParametersOf(p) == {parameter[d[2]] : d \in {e \in described : e[1] = p}}

\* The rows of S are goods of file f up to the n-th ...
Sourced(S, f, n) ==
    \A p \in S : \E i \in 1 .. n :
        /\ i \in Storable(f, category)
        /\ Shown(p) = Stated(f.goods[i])
        /\ ParametersOf(p) = {f.goods[i].parameter} \ {NoRow}

\* ... and list all of them that can be stored.
ListsAll(S, f, n) ==
    \A i \in 1 .. n : Complete(f.goods[i]) => \E p \in S : Lists(p, f.goods[i])

\* Places at which the old goods are gone and the good at hand has no row.
Between == {"good", "create_product", "create_info"}

\* How far a job has come.
Progress(j) ==
    LET l == my[j]
        f == File[j]
        mine == GoodsOf(l.shop)
        past == l.good - 1
    IN
    /\ at[j] \in {"collect", "delete"} \cup Between \cup HasInfo =>
          f.categories \subseteq category
    /\ at[j] = "delete" => l.ids = mine
    /\ at[j] \in Between =>
          /\ Sourced(mine, f, past) /\ ListsAll(mine, f, past)
          /\ l.count = Cardinality(mine)
    /\ at[j] = "create_info" =>
          product[l.product] = [name     |-> Item(j).name,
                                category |-> Item(j).category]
    /\ at[j] \in HasInfo =>
          /\ l.info \in mine /\ l.good \in Storable(f, category)
          /\ Shown(l.info) = Stated(Item(j))
          /\ \A d \in described : d[1] # l.info
          /\ Sourced(mine \ {l.info}, f, past) /\ ListsAll(mine, f, l.good)
          /\ l.count + 1 = Cardinality(mine)
    /\ at[j] = "describe" => parameter[l.parameter] = Item(j).parameter

\* The goods of a shop are those of one price list.
FromOneFile(s) ==
    \E j \in Jobs : /\ File[j] # NoRow
                    /\ \A p \in GoodsOf(s) : \E i \in DOMAIN File[j].goods :
                          Shown(p) = Stated(File[j].goods[i])

ExactInv ==
    /\ NamedOnce /\ Unmixed /\ OneRuns
    /\ \A j \in Jobs : at[j] \in Running => NoneFound(j) /\ Progress(j)

\* What the catalogue shows is as it was.
SameShown == UNCHANGED <<info, shop, category, product, parameter, described,
                         label>>

LEMMA UnmixedShops ==
    Unmixed <=> \A s \in DOMAIN shop : GoodsOf(s) # {} => FromOneFile(s)
BY DEF Unmixed, FromOneFile

LEMMA ReadsShow ==
    UNCHANGED <<tables, locks, lists, labels>> => SameShown
BY DEF SameShown, tables, goods, lists, labels

\* A step of the job that runs.
LEMMA RunnerSteps ==
    ASSUME ImportInv, ExactInv, NEW j \in Jobs, at[j] \in Running,
           NEW where, NEW what, Become(j, where, what), NamedOnce', Unmixed',
           where \in Running => NoneFound(j)' /\ Progress(j)'
    PROVE  ExactInv'
<1>1. at'[j] = where /\ \A q \in Jobs \ {j} : at'[q] = at[q]
  BY DEF ImportInv, TablesFit, Become
<1>2. \A q \in Jobs \ {j} : at'[q] \notin Running
  BY <1>1 DEF ExactInv, OneRuns
<1> QED
  BY <1>1, <1>2 DEF ExactInv, OneRuns

\* Rows that stay are named, and listed in files, as before.
LEMMA NamesKept ==
    ASSUME ExactInv, SameShown
    PROVE  NamedOnce' /\ Unmixed'
<1>1. NamedOnce'
  BY DEF ExactInv, SameShown, NamedOnce, ShopNamedOnce, ShopsNamed,
         ProductsNamed
<1>2. Unmixed'
  BY DEF ExactInv, SameShown, Unmixed, GoodsOf, Shown
<1> QED
  BY <1>1, <1>2

LEMMA ProgressKept ==
    ASSUME NEW q \in Jobs, SameShown, UNCHANGED <<at[q], my[q]>>,
           NoneFound(q), Progress(q)
    PROVE  NoneFound(q)' /\ Progress(q)'
<1>1. at'[q] = at[q] /\ my'[q] = my[q]
  OBVIOUS
<1>2. NoneFound(q)'
  BY <1>1 DEF NoneFound, SameShown, ShopsNamed, ProductsNamed, Item
<1>3. Progress(q)'
  <2>1. ASSUME NEW s
        PROVE  GoodsOf(s)' = GoodsOf(s)
    BY DEF SameShown, GoodsOf
  <2>2. ASSUME NEW S, NEW f, NEW n
        PROVE  Sourced(S, f, n)' = Sourced(S, f, n)
    BY DEF SameShown, Sourced, Shown, ParametersOf
  <2>3. ASSUME NEW S, NEW f, NEW n
        PROVE  ListsAll(S, f, n)' = ListsAll(S, f, n)
    BY DEF SameShown, ListsAll, Lists, Complete
  <2>4. ASSUME NEW p
        PROVE  Shown(p)' = Shown(p)
    BY DEF SameShown, Shown
  <2> QED
    BY <1>1, <2>1, <2>2, <2>3, <2>4 DEF Progress, Item, SameShown
<1> QED
  BY <1>2, <1>3

\* A job that reads, or stops.
LEMMA RunnerReads ==
    ASSUME ImportInv, ExactInv, NEW j \in Jobs, at[j] \in Running,
           NEW where, NEW what, Become(j, where, what), SameShown,
           where \in Running => NoneFound(j)' /\ Progress(j)'
    PROVE  ExactInv'
BY NamesKept, RunnerSteps

LEMMA JobRests ==
    ASSUME ImportInv, ExactInv, NEW j \in Jobs, SameShown,
           NEW where, NEW what, Become(j, where, what), where \notin Running
    PROVE  ExactInv'
<1>1. NamedOnce' /\ Unmixed'
  BY NamesKept
<1>2. at'[j] = where /\ \A q \in Jobs \ {j} : at'[q] = at[q] /\ my'[q] = my[q]
  BY DEF ImportInv, TablesFit, Become
<1>3. OneRuns'
  BY <1>2 DEF ExactInv, OneRuns
<1>4. ASSUME NEW q \in Jobs, at'[q] \in Running
      PROVE  NoneFound(q)' /\ Progress(q)'
  <2>1. q # j /\ at[q] \in Running
    BY <1>2, <1>4
  <2>2. NoneFound(q) /\ Progress(q)
    BY <2>1 DEF ExactInv
  <2> QED
    BY <1>2, <2>1, <2>2, ProgressKept
<1> QED
  BY <1>1, <1>3, <1>4 DEF ExactInv

LEMMA RestsApart == ({"absent", "queued", "retry"} \cup Ended) \cap Running = {}
BY DEF Ended, Running, Writing

LEMMA JobFails ==
    ASSUME ImportInv, ExactInv, NEW j \in Jobs, SameShown,
           \/ Fail(j)
           \/ \E where \in {"queued", "lost", "failed", "done"} : \E what :
                 Go(j, where, what)
    PROVE  ExactInv'
<1>1. CASE Fail(j)
  BY <1>1, FailFits, JobRests, RestsApart
<1>2. ASSUME NEW where \in {"queued", "lost", "failed", "done"}, NEW what,
             Go(j, where, what)
      PROVE  ExactInv'
  <2>1. Become(j, where, what) /\ where \notin Running
    BY <1>2, RestsApart DEF Go, Ended
  <2> QED
    BY <2>1, JobRests
<1> QED
  BY <1>1, <1>2

----------------------------------------------------------------------------
(* The actions up to the deletion of the old goods. *)

LEMMA UploadExact ==
    ASSUME ImportInv, ExactInv, NEW j \in Jobs, Upload(j) PROVE ExactInv'
<1>1. Go(j, "queued", Fresh) /\ SameShown
  BY ReadsShow DEF Upload, PartnerUpdate, AdminImport, Accept
<1> QED
  BY <1>1, JobFails

LEMMA DieExact ==
    ASSUME ImportInv, ExactInv, NEW j \in Jobs, Die(j) PROVE ExactInv'
<1>1. SameShown /\ \E where \in {"lost", "failed"} : Go(j, where, Fresh)
  BY ReadsShow DEF Die
<1> QED
  BY <1>1, JobFails

\* A job begins when no other one runs.
LEMMA BeginExact ==
    ASSUME OneWorker, ImportInv, ExactInv, NEW j \in Jobs, Begin(j)
    PROVE  ExactInv'
<1> DEFINE runs == {i \in Jobs : at[i] \in Running}
<1>1. SameShown /\ Cardinality(runs) < 1
  BY ReadsShow DEF Begin, OneWorker
<1>2. CASE ~ Loads(j)
  <2>1. Fail(j)
    BY <1>2 DEF Begin
  <2> QED
    BY <1>1, <2>1, JobFails
<1>3. CASE Loads(j)
  <2>1. IsFiniteSet(runs)
    BY ImportAssumption, FS_Subset
  <2>2. runs = {}
    <3>1. Cardinality(runs) \in Nat
      BY <2>1, FS_CardinalityType
    <3>2. Cardinality(runs) = 0
      BY <1>1, <3>1
    <3> HIDE DEF runs
    <3> QED
      BY <2>1, <3>2, FS_EmptySet
  <2>3. Go(j, "shop", Fresh)
    BY <1>3 DEF Begin
  <2>4. at'[j] = "shop" /\ \A q \in Jobs \ {j} : at'[q] = at[q]
    BY <2>3 DEF ImportInv, TablesFit, Go, Become
  <2>5. \A q \in Jobs \ {j} : at'[q] \notin Running
    BY <2>2, <2>4
  <2>6. NoneFound(j)' /\ Progress(j)'
    BY <2>4 DEF NoneFound, Progress, Between, HasInfo
  <2>7. NamedOnce' /\ Unmixed'
    BY <1>1, NamesKept
  <2> QED
    BY <2>4, <2>5, <2>6, <2>7 DEF ExactInv, OneRuns
<1> QED
  BY <1>2, <1>3

LEMMA FindShopExact ==
    ASSUME ImportInv, ExactInv, NEW j \in Jobs, FindShop(j) PROVE ExactInv'
<1>1. SameShown /\ at[j] = "shop" /\ at[j] \in Running
  BY ReadsShow DEF FindShop, Running
<1>2. \/ Fail(j)
      \/ Go(j, "create_shop", my[j]) /\ ShopsNamed(File[j].shop) = {}
      \/ \E i : Go(j, "categories", WithShop(my[j])[i])
  BY DEF FindShop, Got
<1>3. CASE Fail(j)
  BY <1>1, <1>3, JobFails
<1>4. CASE Go(j, "create_shop", my[j]) /\ ShopsNamed(File[j].shop) = {}
  <2>1. at'[j] = "create_shop" /\ Become(j, "create_shop", my[j])
    BY <1>4, Moved DEF ImportInv
  <2>2. ShopsNamed(File[j].shop)' = {}
    BY <1>1, <1>4 DEF SameShown, ShopsNamed
  <2>3. NoneFound(j)' /\ Progress(j)'
    BY <2>1, <2>2 DEF NoneFound, Progress, Between, HasInfo
  <2> QED
    BY <1>1, <2>1, <2>3, RunnerReads
<1>5. ASSUME NEW what, Go(j, "categories", what)
      PROVE  ExactInv'
  <2>1. at'[j] = "categories" /\ Become(j, "categories", what)
    BY <1>5, Moved DEF ImportInv
  <2>2. NoneFound(j)' /\ Progress(j)'
    BY <2>1 DEF NoneFound, Progress, Between, HasInfo
  <2> QED
    BY <1>1, <2>1, <2>2, RunnerReads
<1> QED
  BY <1>2, <1>3, <1>4, <1>5

LEMMA CollectExact ==
    ASSUME ImportInv, ExactInv, NEW j \in Jobs, Collect(j) PROVE ExactInv'
<1> DEFINE what == [my[j] EXCEPT !.ids = OldGoods(my[j].shop)]
<1>1. SameShown /\ at[j] = "collect" /\ Go(j, "delete", what)
  BY ReadsShow DEF Collect
<1>2. my[j] \in Locals /\ at[j] \in Running
  BY <1>1 DEF ImportInv, JobFits, Running
<1>3. what.ids = GoodsOf(my[j].shop) /\ what.shop = my[j].shop
  BY <1>2 DEF Locals, OldGoods
<1>4. /\ at'[j] = "delete" /\ my'[j] = what /\ Become(j, "delete", what)
  BY <1>1, Moved DEF ImportInv
<1> HIDE DEF what
<1>5. GoodsOf(my[j].shop) = {p \in InfoIds : info'[p] # NoRow /\
                                             info'[p].shop = my'[j].shop}
  BY <1>1, <1>3, <1>4 DEF SameShown, GoodsOf
<1>6. File[j].categories \subseteq category'
  BY <1>1, <1>2 DEF ExactInv, Progress, SameShown
<1>7. NoneFound(j)' /\ Progress(j)'
  BY <1>3, <1>4, <1>5, <1>6 DEF NoneFound, Progress, Between, HasInfo, GoodsOf
<1> QED
  BY <1>1, <1>2, <1>4, <1>7, RunnerReads

----------------------------------------------------------------------------
(* New shops and categories. *)

LEMMA CreateShopExact ==
    ASSUME ImportInv, ExactInv, NEW j \in Jobs, CreateShop(j) PROVE ExactInv'
<1> DEFINE row == [name |-> File[j].shop, user |-> shop[StartedFor[j]].user]
<1>1. /\ at[j] = "create_shop" /\ at[j] \in Running
      /\ UNCHANGED <<info, category, product, parameter, described, label>>
  BY DEF CreateShop, Running, Writing, tables, goods, labels
<1>2. ShopsNamed(File[j].shop) = {}
  BY <1>1 DEF ExactInv, NoneFound
<1>3. \/ Fail(j) /\ UNCHANGED shop
      \/ Go(j, "lost", Fresh) /\ UNCHANGED shop
      \/ /\ shop' = Append(shop, row)
         /\ \E what : Go(j, "categories", what)
  <2>1. Cardinality(ShopsNamed(File[j].shop)) # 1
    BY <1>2, FS_EmptySet
  <2> QED
    BY <2>1 DEF CreateShop
<1>4. CASE (Fail(j) \/ Go(j, "lost", Fresh)) /\ UNCHANGED shop
  <2>1. SameShown
    BY <1>1, <1>4 DEF SameShown
  <2> QED
    BY <1>4, <2>1, JobFails
<1>5. ASSUME NEW what, shop' = Append(shop, row), Go(j, "categories", what)
      PROVE  ExactInv'
  <2>1. at'[j] = "categories" /\ Become(j, "categories", what)
    BY <1>5, Moved DEF ImportInv
  <2>2. NoneFound(j)' /\ Progress(j)'
    BY <2>1 DEF NoneFound, Progress, Between, HasInfo
  <2>3. /\ shop \in Seq(ShopRow) /\ Len(shop) \in Nat
        /\ DOMAIN shop = 1 .. Len(shop)
    BY DEF ImportInv, TablesFit
  <2>4. /\ DOMAIN shop' = DOMAIN shop \cup {Len(shop) + 1}
        /\ shop'[Len(shop) + 1] = row /\ Len(shop) + 1 \notin DOMAIN shop
        /\ \A s \in DOMAIN shop : shop'[s] = shop[s]
    <3> HIDE DEF row
    <3> QED
      BY <1>5, <2>3
  <2>5. \A s \in DOMAIN shop : shop[s].name # row.name
    BY <1>2 DEF ShopsNamed
  <2>6. NamedOnce'
    <3>1. ShopNamedOnce'
      <4> HIDE DEF row
      <4> QED
        BY <2>4, <2>5 DEF ExactInv, NamedOnce, ShopNamedOnce, ShopsNamed
    <3> QED
      BY <1>1, <3>1 DEF ExactInv, NamedOnce, ProductsNamed
  <2>7. Unmixed'
    <3>1. GoodsOf(Len(shop) + 1) = {}
      BY <2>4 DEF ImportInv, CatalogueIntegrity, GoodsOf
    <3>2. ASSUME NEW s PROVE GoodsOf(s)' = GoodsOf(s)
      BY <1>1 DEF GoodsOf
    <3>3. ASSUME NEW s PROVE FromOneFile(s)' = FromOneFile(s)
      BY <1>1 DEF FromOneFile, GoodsOf, Shown
    <3>4. \A s \in DOMAIN shop' : GoodsOf(s) # {} => FromOneFile(s)
      BY <2>4, <3>1, UnmixedShops DEF ExactInv
    <3> QED
      BY <3>2, <3>3, <3>4 DEF Unmixed, FromOneFile
  <2> QED
    BY <1>1, <2>1, <2>2, <2>6, <2>7, RunnerSteps
<1> QED
  BY <1>3, <1>4, <1>5

LEMMA AddCategoryExact ==
    ASSUME ImportInv, ExactInv, NEW j \in Jobs, AddCategory(j) PROVE ExactInv'
<1>1. /\ at[j] = "categories" /\ at[j] \in Running
      /\ UNCHANGED <<info, shop, product, parameter, described, label>>
  BY DEF AddCategory, Running, Writing, tables, goods, labels
<1>2. \/ at'[j] = "categories" /\ Become(j, "categories", my[j])
      \/ /\ at'[j] = "collect" /\ Become(j, "collect", my[j])
         /\ my'[j] = my[j] /\ File[j].categories \subseteq category'
  BY <1>1, Moved DEF ImportInv, AddCategory
<1>3. NoneFound(j)' /\ Progress(j)'
  BY <1>1, <1>2 DEF NoneFound, Progress, Between, HasInfo
<1>4. NamedOnce'
  BY <1>1 DEF ExactInv, NamedOnce, ShopNamedOnce, ShopsNamed, ProductsNamed
<1>5. Unmixed'
  BY <1>1 DEF ExactInv, Unmixed, GoodsOf, Shown
<1> QED
  BY <1>1, <1>2, <1>3, <1>4, <1>5, RunnerSteps

----------------------------------------------------------------------------
(* Rows of goods that stay are still listed in their file. *)

\* Rows of goods that stay, in tables to which only rows are added ...
LEMMA ShownKept ==
    ASSUME ImportInv, category' = category,
           \A i \in DOMAIN product : product'[i] = product[i],
           NEW S, \A p \in S : /\ p \in InfoIds /\ info[p] # NoRow
                               /\ info'[p] = info[p] /\ label'[p] = label[p]
    PROVE  /\ \A p \in S : Shown(p)' = Shown(p)
           /\ \A f, n : ListsAll(S, f, n) => ListsAll(S, f, n)'
<1>1. ASSUME NEW p \in S
      PROVE  product'[label'[p].product] = product[label[p].product]
  BY DEF ImportInv, CatalogueIntegrity
<1>2. ASSUME NEW p \in S
      PROVE  Shown(p)' = Shown(p)
  BY <1>1 DEF Shown
<1>3. ASSUME NEW f, NEW n, ListsAll(S, f, n)
      PROVE  ListsAll(S, f, n)'
  BY <1>1, <1>3 DEF ListsAll, Complete, Lists
<1> QED
  BY <1>2, <1>3

\* ... and that keep their parameters.
LEMMA RowsKept ==
    ASSUME ImportInv, category' = category,
           \A i \in DOMAIN product : product'[i] = product[i],
           \A i \in DOMAIN parameter : parameter'[i] = parameter[i],
           NEW S, \A p \in S : /\ p \in InfoIds /\ info[p] # NoRow
                               /\ info'[p] = info[p] /\ label'[p] = label[p],
           \A p \in S : {d \in described' : d[1] = p} =
                        {d \in described : d[1] = p}
    PROVE  /\ \A p \in S : Shown(p)' = Shown(p)
           /\ \A f, n : Sourced(S, f, n) => Sourced(S, f, n)'
           /\ \A f, n : ListsAll(S, f, n) => ListsAll(S, f, n)'
<1>1. ASSUME NEW p \in S
      PROVE  ParametersOf(p)' = ParametersOf(p)
  <2>1. \A d \in described : parameter'[d[2]] = parameter[d[2]]
    BY DEF ImportInv, CatalogueIntegrity
  <2>2. {parameter'[d[2]] : d \in {e \in described : e[1] = p}} = ParametersOf(p)
    BY <2>1 DEF ParametersOf
  <2> QED
    BY <2>2 DEF ParametersOf
<1>2. \A p \in S : Shown(p)' = Shown(p)
  BY ShownKept
<1>3. ASSUME NEW f, NEW n, Sourced(S, f, n)
      PROVE  Sourced(S, f, n)'
  BY <1>1, <1>2, <1>3 DEF Sourced
<1> QED
  BY <1>2, <1>3, ShownKept

\* The goods of a shop are not mixed by a step that stores none there.
LEMMA NotMixed ==
    ASSUME NEW s, GoodsOf(s) # {} => FromOneFile(s),
           \A p \in GoodsOf(s)' : p \in GoodsOf(s) /\ Shown(p)' = Shown(p)
    PROVE  GoodsOf(s)' # {} => FromOneFile(s)'
<1> SUFFICES ASSUME GoodsOf(s)' # {} PROVE FromOneFile(s)'
  OBVIOUS
<1>1. FromOneFile(s)
  OBVIOUS
<1> QED
  BY <1>1 DEF FromOneFile

\* Goods of a file up to the n-th, and what is missing among them.
LEMMA OneMore ==
    ASSUME NEW S, NEW f, NEW n \in Nat, Sourced(S, f, n)
    PROVE  /\ Sourced(S, f, n + 1)
           /\ ListsAll(S, f, n) /\
              (Complete(f.goods[n + 1]) =>
                 \E p \in S : Lists(p, f.goods[n + 1])) =>
                 ListsAll(S, f, n + 1)
<1>1. 1 .. n + 1 = (1 .. n) \cup {n + 1}
  OBVIOUS
<1> QED
  BY <1>1 DEF Sourced, ListsAll

LEMMA NothingStored ==
    ASSUME NEW f
    PROVE  Sourced({}, f, 0) /\ ListsAll({}, f, 0)
BY DEF Sourced, ListsAll

LEMMA FiniteGoods ==
    ASSUME NEW s PROVE IsFiniteSet(GoodsOf(s)) /\ Cardinality(GoodsOf(s)) \in Nat
<1>1. IsFiniteSet(InfoIds)
  BY StoreAssumption, FS_Interval DEF InfoIds
<1>2. GoodsOf(s) \in SUBSET InfoIds
  BY DEF GoodsOf
<1> QED
  BY <1>1, <1>2, FS_Subset, FS_CardinalityType

\* A job that is between two goods, and one that has stored a good.
LEMMA IsBetween ==
    ASSUME NEW j \in Jobs, at'[j] \in Between,
           NEW s, NEW S, NEW n \in Nat,
           my'[j].shop = s, my'[j].good = n + 1, GoodsOf(s)' = S,
           my'[j].count = Cardinality(S),
           File[j].categories \subseteq category',
           Sourced(S, File[j], n)', ListsAll(S, File[j], n)',
           at'[j] = "create_product" =>
              ProductsNamed(File[j].goods[n + 1])' = {},
           at'[j] = "create_info" =>
              product'[my'[j].product] =
                 [name     |-> File[j].goods[n + 1].name,
                  category |-> File[j].goods[n + 1].category]
    PROVE  NoneFound(j)' /\ Progress(j)'
<1>1. NoneFound(j)'
  BY DEF NoneFound, Between, Item
<1>2. n + 1 - 1 = n
  OBVIOUS
<1>3. Progress(j)'
  BY <1>2 DEF Progress, Between, HasInfo, Item
<1> QED
  BY <1>1, <1>3

LEMMA HasStored ==
    ASSUME NEW j \in Jobs, at'[j] \in HasInfo,
           NEW s, NEW S, NEW n \in Nat, NEW p \in S,
           my'[j].shop = s, my'[j].good = n + 1, my'[j].info = p,
           GoodsOf(s)' = S, my'[j].count + 1 = Cardinality(S),
           File[j].categories \subseteq category',
           n + 1 \in Storable(File[j], category'),
           Shown(p)' = Stated(File[j].goods[n + 1]),
           \A d \in described' : d[1] # p,
           Sourced(S \ {p}, File[j], n)', ListsAll(S, File[j], n + 1)',
           at'[j] = "create_parameter" => \A i \in DOMAIN parameter' :
              parameter'[i] # File[j].goods[n + 1].parameter,
           at'[j] = "describe" =>
              parameter'[my'[j].parameter] = File[j].goods[n + 1].parameter
    PROVE  NoneFound(j)' /\ Progress(j)'
<1>1. NoneFound(j)'
  BY DEF NoneFound, HasInfo, Item
<1>2. n + 1 - 1 = n
  OBVIOUS
<1>3. Progress(j)'
  BY <1>2 DEF Progress, Between, HasInfo, Item
<1> QED
  BY <1>1, <1>3

----------------------------------------------------------------------------
(* The goods. *)

LEMMA DeleteGoodsExact ==
    ASSUME ImportInv, ExactInv, NEW j \in Jobs, DeleteGoods(j) PROVE ExactInv'
<1> DEFINE what == [Fresh EXCEPT !.shop = my[j].shop]
<1>1. /\ at[j] = "delete" /\ at[j] \in Running /\ Go(j, "good", what)
      /\ UNCHANGED <<shop, category, product, parameter>>
  BY DEF DeleteGoods, Running, Writing
<1>2. my[j].ids = GoodsOf(my[j].shop) /\ File[j].categories \subseteq category
  BY <1>1 DEF ExactInv, Progress
<1>3. /\ info'  = [p \in InfoIds |-> IF p \in my[j].ids THEN NoRow ELSE info[p]]
      /\ label' = [p \in InfoIds |-> IF p \in my[j].ids THEN NoRow ELSE label[p]]
  BY DEF DeleteGoods, Emptied, ImportInv, TablesFit, StoreTypeOK
<1>4. /\ at'[j] = "good" /\ my'[j] = what /\ Become(j, "good", what)
  BY <1>1, Moved DEF ImportInv
<1>5. what.shop = my[j].shop /\ what.good = 0 + 1 /\ what.count = 0
  BY DEF Fresh
<1> HIDE DEF what
<1>6. \A p \in InfoIds : info'[p] # NoRow =>
         /\ info[p] # NoRow /\ info'[p] = info[p] /\ label'[p] = label[p]
         /\ info[p].shop # my[j].shop
  BY <1>2, <1>3 DEF GoodsOf
<1>7. PICK s : s = my[j].shop
  OBVIOUS
<1>8. GoodsOf(s)' = {}
  BY <1>6, <1>7 DEF GoodsOf
<1>9. NoneFound(j)' /\ Progress(j)'
  <2>1. Sourced({}, File[j], 0)' /\ ListsAll({}, File[j], 0)'
    BY DEF Sourced, ListsAll
  <2>2. at'[j] \in Between /\ my'[j].count = Cardinality({})
    BY <1>4, <1>5, FS_EmptySet DEF Between
  <2>3. my'[j].shop = s /\ my'[j].good = 0 + 1
    BY <1>4, <1>5, <1>7
  <2>4. at'[j] # "create_product" /\ at'[j] # "create_info"
    BY <1>4
  <2>5. File[j].categories \subseteq category'
    BY <1>1, <1>2
  <2> QED
    BY <1>8, <2>1, <2>2, <2>3, <2>4, <2>5, IsBetween
<1>10. NamedOnce'
  BY <1>1 DEF ExactInv, NamedOnce, ShopNamedOnce, ShopsNamed, ProductsNamed
<1>11. Unmixed'
  <2>1. ASSUME NEW t \in DOMAIN shop'
        PROVE  GoodsOf(t)' # {} => FromOneFile(t)'
    <3>1. \A p \in GoodsOf(t)' : p \in GoodsOf(t) /\ Shown(p)' = Shown(p)
      BY <1>1, <1>6 DEF GoodsOf, Shown
    <3>2. GoodsOf(t) # {} => FromOneFile(t)
      BY <1>1, UnmixedShops DEF ExactInv
    <3> QED
      BY <3>1, <3>2, NotMixed
  <2> QED
    BY <2>1 DEF Unmixed, FromOneFile
<1> QED
  BY <1>1, <1>4, <1>9, <1>10, <1>11, RunnerSteps

\* What is known of a job between two goods.
LEMMA KnownBetween ==
    ASSUME ImportInv, ExactInv, NEW j \in Jobs, at[j] \in Between
    PROVE  /\ my[j] \in Locals /\ my[j].good \in Nat \ {0}
           /\ my[j].count \in Nat /\ File[j] \in FileRow
           /\ my[j].good - 1 \in Nat
           /\ File[j].categories \subseteq category
           /\ Sourced(GoodsOf(my[j].shop), File[j], my[j].good - 1)
           /\ ListsAll(GoodsOf(my[j].shop), File[j], my[j].good - 1)
           /\ my[j].count = Cardinality(GoodsOf(my[j].shop))
           /\ at[j] \in Running
<1>1. at[j] \in Running
  BY DEF Between, Running, Writing
<1>2. my[j] \in Locals /\ File[j] \in FileRow /\ my[j].good \in 1 .. Len(File[j].goods) + 1
  BY <1>1 DEF ImportInv, JobFits
<1>3. my[j].good \in Nat \ {0} /\ my[j].good - 1 \in Nat /\ my[j].count \in Nat
  BY <1>2 DEF FileRow, Locals
<1>4. Progress(j)
  BY <1>1 DEF ExactInv
<1> QED
  BY <1>1, <1>2, <1>3, <1>4 DEF Progress

\* A good that is not stored, for what it lacks or since it is there.
LEMMA SkipExact ==
    ASSUME ImportInv, ExactInv, NEW j \in Jobs, at[j] \in Between,
           SameShown, Skip(j),
           Complete(Item(j)) =>
              \E p \in GoodsOf(my[j].shop) : Lists(p, Item(j))
    PROVE  ExactInv'
<1> DEFINE what == [Fresh EXCEPT !.shop = my[j].shop, !.good = my[j].good + 1,
                                 !.count = my[j].count + 0]
<1>1. /\ at'[j] = "good" /\ my'[j] = what /\ Become(j, "good", what)
  BY Moved DEF ImportInv, Skip, NextGood
<1>2. PICK s, S, n : s = my[j].shop /\ S = GoodsOf(s) /\ n = my[j].good - 1
  OBVIOUS
<1>3. /\ n \in Nat /\ my[j].good = n + 1 /\ my[j].count = Cardinality(S)
      /\ my[j].count \in Nat /\ File[j].categories \subseteq category
      /\ Sourced(S, File[j], n) /\ ListsAll(S, File[j], n) /\ at[j] \in Running
  BY <1>2, KnownBetween
<1>4. what.shop = s /\ what.good = (n + 1) + 1 /\ what.count = Cardinality(S)
  BY <1>2, <1>3 DEF Fresh
<1> HIDE DEF what
<1>5. Sourced(S, File[j], n + 1) /\ ListsAll(S, File[j], n + 1)
  <2>1. Complete(File[j].goods[n + 1]) =>
          \E p \in S : Lists(p, File[j].goods[n + 1])
    BY <1>2, <1>3 DEF Item
  <2> QED
    BY <1>3, <2>1, OneMore
<1>6. Sourced(S, File[j], n + 1)' /\ ListsAll(S, File[j], n + 1)'
  BY <1>2, <1>5, RowsKept DEF SameShown, GoodsOf
<1>7. GoodsOf(s)' = S
  BY <1>2 DEF SameShown, GoodsOf
<1>8. File[j].categories \subseteq category'
  BY <1>3 DEF SameShown
<1>9. /\ at'[j] \in Between /\ at'[j] # "create_product"
      /\ at'[j] # "create_info" /\ n + 1 \in Nat
  BY <1>1, <1>3 DEF Between
<1>10. /\ my'[j].shop = s /\ my'[j].good = (n + 1) + 1
       /\ my'[j].count = Cardinality(S)
  BY <1>1, <1>4
<1>11. NoneFound(j)' /\ Progress(j)'
  BY <1>6, <1>7, <1>8, <1>9, <1>10, IsBetween
<1> QED
  BY <1>1, <1>3, <1>11, RunnerReads

LEMMA FindProductExact ==
    ASSUME ImportInv, ExactInv, NEW j \in Jobs, FindProduct(j) PROVE ExactInv'
<1>1. SameShown /\ at[j] = "good" /\ at[j] \in Between
  BY ReadsShow DEF FindProduct, Between
<1>2. PICK s, S, n : s = my[j].shop /\ S = GoodsOf(s) /\ n = my[j].good - 1
  OBVIOUS
<1>3. /\ n \in Nat /\ my[j].good = n + 1 /\ my[j].count = Cardinality(S)
      /\ my[j] \in Locals /\ File[j].categories \subseteq category
      /\ Sourced(S, File[j], n) /\ ListsAll(S, File[j], n) /\ at[j] \in Running
  BY <1>1, <1>2, KnownBetween
<1>4. \/ Fail(j) \/ Go(j, "done", my[j])
      \/ Skip(j) /\ (Item(j).category = NoRow \/ Item(j).name = NoRow)
      \/ Go(j, "create_product", my[j]) /\ ProductsNamed(Item(j)) = {}
      \/ \E i \in ProductsNamed(Item(j)) :
            Go(j, "create_info", [my[j] EXCEPT !.product = i])
  BY DEF FindProduct, Got, WithProduct, ProductsNamed
<1>5. CASE Fail(j) \/ Go(j, "done", my[j])
  BY <1>1, <1>5, JobFails
<1>6. CASE Skip(j) /\ (Item(j).category = NoRow \/ Item(j).name = NoRow)
  <2>1. ~ Complete(Item(j))
    BY <1>6, StoreAssumption DEF Complete, ImportInv, TablesFit
  <2> QED
    BY <1>1, <1>6, <2>1, SkipExact
<1>7. /\ Sourced(S, File[j], n)' /\ ListsAll(S, File[j], n)'
      /\ GoodsOf(s)' = S /\ File[j].categories \subseteq category'
  <2>1. Sourced(S, File[j], n)' /\ ListsAll(S, File[j], n)'
    BY <1>1, <1>2, <1>3, RowsKept DEF SameShown, GoodsOf
  <2>2. GoodsOf(s)' = S
    BY <1>1, <1>2 DEF SameShown, GoodsOf
  <2> QED
    BY <1>1, <1>3, <2>1, <2>2 DEF SameShown
<1>8. CASE Go(j, "create_product", my[j]) /\ ProductsNamed(Item(j)) = {}
  <2>1. /\ at'[j] = "create_product" /\ my'[j] = my[j]
        /\ Become(j, "create_product", my[j])
    BY <1>8, Moved DEF ImportInv
  <2>2. ProductsNamed(File[j].goods[n + 1])' = {}
    BY <1>1, <1>3, <1>8 DEF SameShown, ProductsNamed, Item
  <2>3. /\ my'[j].shop = s /\ my'[j].good = n + 1
        /\ my'[j].count = Cardinality(S) /\ at'[j] \in Between
        /\ at'[j] # "create_info"
    BY <1>2, <1>3, <2>1 DEF Between
  <2>4. NoneFound(j)' /\ Progress(j)'
    BY <1>3, <1>7, <2>2, <2>3, IsBetween
  <2> QED
    BY <1>1, <1>3, <2>1, <2>4, RunnerReads
<1>9. ASSUME NEW i \in ProductsNamed(Item(j)),
             Go(j, "create_info", [my[j] EXCEPT !.product = i])
      PROVE  ExactInv'
  <2> DEFINE what == [my[j] EXCEPT !.product = i]
  <2>1. /\ at'[j] = "create_info" /\ my'[j] = what
        /\ Become(j, "create_info", what)
    BY <1>9, Moved DEF ImportInv
  <2>2. /\ what.shop = s /\ what.good = n + 1 /\ what.product = i
        /\ what.count = Cardinality(S)
    BY <1>2, <1>3 DEF Locals
  <2> HIDE DEF what
  <2>3. product'[my'[j].product] = [name     |-> File[j].goods[n + 1].name,
                                    category |-> File[j].goods[n + 1].category]
    BY <1>1, <1>3, <2>1, <2>2 DEF ProductsNamed, SameShown, Item
  <2>4. /\ my'[j].shop = s /\ my'[j].good = n + 1
        /\ my'[j].count = Cardinality(S) /\ at'[j] \in Between
        /\ at'[j] # "create_product"
    BY <2>1, <2>2 DEF Between
  <2>5. NoneFound(j)' /\ Progress(j)'
    BY <1>3, <1>7, <2>3, <2>4, IsBetween
  <2> QED
    BY <1>1, <1>3, <2>1, <2>5, RunnerReads
<1> QED
  BY <1>4, <1>5, <1>6, <1>8, <1>9

LEMMA CreateProductExact ==
    ASSUME ImportInv, ExactInv, NEW j \in Jobs, CreateProduct(j) PROVE ExactInv'
<1> DEFINE row  == [name |-> Item(j).name, category |-> Item(j).category]
           what == [my[j] EXCEPT !.product = Len(product) + 1]
<1>1. /\ at[j] = "create_product" /\ at[j] \in Between
      /\ UNCHANGED <<info, shop, category, parameter, described, label>>
  BY DEF CreateProduct, Between, tables, goods, labels
<1>2. PICK s, S, n : s = my[j].shop /\ S = GoodsOf(s) /\ n = my[j].good - 1
  OBVIOUS
<1>3. /\ n \in Nat /\ my[j].good = n + 1 /\ my[j].count = Cardinality(S)
      /\ my[j] \in Locals /\ File[j].categories \subseteq category
      /\ Sourced(S, File[j], n) /\ ListsAll(S, File[j], n) /\ at[j] \in Running
  BY <1>1, <1>2, KnownBetween
<1>4. CASE Item(j).category \notin category
  <2>1. Skip(j) /\ UNCHANGED product
    BY <1>4 DEF CreateProduct
  <2>2. SameShown /\ ~ Complete(Item(j))
    BY <1>1, <1>4, <2>1 DEF SameShown, Complete
  <2> QED
    BY <1>1, <2>1, <2>2, SkipExact
<1>5. CASE Item(j).category \in category
  <2>1. product' = Append(product, row) /\ Go(j, "create_info", what)
    BY <1>5 DEF CreateProduct
  <2>2. /\ at'[j] = "create_info" /\ my'[j] = what
        /\ Become(j, "create_info", what)
    BY <2>1, Moved DEF ImportInv
  <2>3. /\ product \in Seq(ProductRow) /\ DOMAIN product = 1 .. Len(product)
        /\ Len(product) \in Nat
    BY DEF ImportInv, TablesFit
  <2>4. /\ what.shop = s /\ what.good = n + 1 /\ what.count = Cardinality(S)
        /\ what.product = Len(product) + 1
    BY <1>2, <1>3 DEF Locals
  <2>5. \A i \in DOMAIN product : product[i] # row
    BY <1>1, <1>3 DEF ExactInv, NoneFound, ProductsNamed
  <2>6. product'[Len(product) + 1] = row
    <3> HIDE DEF row
    <3> QED
      BY <2>1, <2>3
  <2>7. /\ DOMAIN product' = DOMAIN product \cup {Len(product) + 1}
        /\ Len(product) + 1 \notin DOMAIN product
        /\ \A i \in DOMAIN product : product'[i] = product[i]
    <3> HIDE DEF row
    <3> QED
      BY <2>1, <2>3
  <2> HIDE DEF what
  <2>8. /\ Sourced(S, File[j], n)' /\ ListsAll(S, File[j], n)'
        /\ GoodsOf(s)' = S /\ File[j].categories \subseteq category'
    <3>1. Sourced(S, File[j], n)' /\ ListsAll(S, File[j], n)'
      BY <1>1, <1>2, <1>3, <2>7, RowsKept DEF GoodsOf
    <3>2. GoodsOf(s)' = S
      BY <1>1, <1>2 DEF GoodsOf
    <3> QED
      BY <1>1, <1>3, <3>1, <3>2
  <2>9. NoneFound(j)' /\ Progress(j)'
    <3>1. product'[my'[j].product] =
             [name     |-> File[j].goods[n + 1].name,
              category |-> File[j].goods[n + 1].category]
      BY <1>3, <2>2, <2>4, <2>6 DEF Item
    <3>2. /\ my'[j].shop = s /\ my'[j].good = n + 1
          /\ my'[j].count = Cardinality(S) /\ at'[j] \in Between
          /\ at'[j] # "create_product"
      BY <2>2, <2>4 DEF Between
    <3> QED
      BY <1>3, <2>8, <3>1, <3>2, IsBetween
  <2>10. NamedOnce'
    <3>1. ShopNamedOnce'
      BY <1>1 DEF ExactInv, NamedOnce, ShopNamedOnce, ShopsNamed
    <3>2. \A i \in DOMAIN product' :
             {h \in DOMAIN product' :
                product'[h] = [name     |-> product'[i].name,
                               category |-> product'[i].category]} = {i}
      <4> HIDE DEF row
      <4>1. \A i \in DOMAIN product :
               {h \in DOMAIN product :
                  product[h] = [name     |-> product[i].name,
                                category |-> product[i].category]} = {i}
        BY DEF ExactInv, NamedOnce, ProductsNamed
      <4>2. ASSUME NEW i \in DOMAIN product
            PROVE  product[i] = [name     |-> product[i].name,
                                 category |-> product[i].category]
        <5>1. product[i] \in ProductRow
          BY <2>3
        <5> QED
          BY <5>1 DEF ProductRow
      <4>3. row = [name |-> row.name, category |-> row.category]
        BY DEF row
      <4>4. ASSUME NEW i \in DOMAIN product',
                   NEW h \in DOMAIN product'
            PROVE  product'[h] = [name     |-> product'[i].name,
                                  category |-> product'[i].category]
                   <=> h = i
        <5>1. \A k \in DOMAIN product' :
                 product'[k] = [name     |-> product'[k].name,
                                category |-> product'[k].category]
          BY <2>6, <2>7, <4>2, <4>3
        <5>2. product'[h] = product'[i] <=> h = i
          BY <2>5, <2>6, <2>7, <4>1, <4>2
        <5> QED
          BY <5>1, <5>2
      <4> QED
        BY <4>4
    <3> QED
      BY <1>1, <3>1, <3>2 DEF ExactInv, NamedOnce, ProductsNamed
  <2>11. Unmixed'
    <3>1. ASSUME NEW t \in DOMAIN shop'
          PROVE  GoodsOf(t)' # {} => FromOneFile(t)'
      <4>1. \A p \in GoodsOf(t) : Shown(p)' = Shown(p)
        BY <1>1, <2>7, RowsKept DEF GoodsOf
      <4>2. GoodsOf(t)' = GoodsOf(t)
        BY <1>1 DEF GoodsOf
      <4>3. GoodsOf(t) # {} => FromOneFile(t)
        BY <1>1, UnmixedShops DEF ExactInv
      <4> QED
        BY <4>1, <4>2, <4>3, NotMixed
    <3> QED
      BY <3>1 DEF Unmixed, FromOneFile
  <2> QED
    BY <1>3, <2>2, <2>9, <2>10, <2>11, RunnerSteps
<1> QED
  BY <1>4, <1>5

\* A good that is complete and not listed yet repeats no earlier one.
LEMMA NotListedIsStorable ==
    ASSUME ImportInv, ExactInv, NEW j \in Jobs, at[j] = "create_info",
           ~ Listed(my[j], Item(j)), ~ (Item(j).quantity < 0)
    PROVE  my[j].good \in Storable(File[j], category)
<1> DEFINE f == File[j]
           g == Item(j)
           S == GoodsOf(my[j].shop)
<1>1. /\ ListsAll(S, f, my[j].good - 1) /\ f \in FileRow
  BY KnownBetween DEF Between
<1>2. JobFits(j) /\ Progress(j) /\ at[j] \in Running /\ NamedOnce
  BY DEF ImportInv, ExactInv, Running, Writing
<1>3. /\ my[j].good \in 1 .. Len(f.goods) /\ my[j].product \in DOMAIN product
      /\ g.name \in STRING
  BY <1>2 DEF JobFits, AtGood
<1>4. product[my[j].product] = [name |-> g.name, category |-> g.category]
  BY <1>2 DEF Progress
<1>5. g.category \in category
  BY <1>3, <1>4 DEF ImportInv, ProductsFit
<1>6. /\ f.goods \in Seq(GoodRow) /\ Len(f.goods) \in Nat
      /\ DOMAIN f.goods = 1 .. Len(f.goods)
  BY <1>1 DEF FileRow
<1>7. g \in GoodRow /\ g.quantity \in Int /\ g = f.goods[my[j].good]
  <2>1. g = f.goods[my[j].good]
    BY DEF Item
  <2>2. g \in GoodRow
    BY <1>3, <1>6, <2>1
  <2> QED
    BY <2>1, <2>2 DEF GoodRow
<1>8. g.name # NoRow /\ g.quantity >= 0
  BY <1>3, <1>7, ImportAssumption
<1>9. ASSUME NEW h \in 1 .. my[j].good - 1, ~ (f.goods[h].quantity < 0),
             <<f.goods[h].name, f.goods[h].category, f.goods[h].external>>
                = <<g.name, g.category, g.external>>
      PROVE  FALSE
  <2>1. /\ f.goods[h].name = g.name /\ f.goods[h].category = g.category
        /\ f.goods[h].external = g.external
    BY <1>9
  <2>2. h \in 1 .. Len(f.goods)
    BY <1>3, <1>6
  <2>3. f.goods[h] \in GoodRow
    BY <1>6, <2>2
  <2>4. Complete(f.goods[h])
    BY <1>5, <1>8, <1>9, <2>1, <2>3 DEF Complete, GoodRow
  <2>5. PICK p \in S : Lists(p, f.goods[h])
    BY <1>1, <2>4 DEF ListsAll
  <2>6. /\ product[label[p].product] = [name |-> g.name, category |-> g.category]
        /\ label[p].external = g.external
    BY <2>1, <2>5 DEF Lists
  <2>7. p \in InfoIds /\ info[p] # NoRow
    BY DEF GoodsOf
  <2>8. label[p] \in LabelRow /\ label[p].product \in DOMAIN product
    BY <2>7 DEF ImportInv, TablesFit, CatalogueIntegrity
  <2>9. label[p].product = my[j].product
    <3>1. ProductsNamed(product[my[j].product]) = {my[j].product}
      BY <1>2, <1>3 DEF NamedOnce
    <3>2. label[p].product \in ProductsNamed(product[my[j].product])
      BY <1>4, <2>6, <2>8 DEF ProductsNamed
    <3> QED
      BY <3>1, <3>2
  <2>10. label[p] = [product |-> my[j].product, external |-> g.external]
    BY <2>6, <2>8, <2>9 DEF LabelRow
  <2> QED
    BY <2>10 DEF Listed
<1> HIDE DEF g
<1> QED
  BY <1>3, <1>5, <1>6, <1>7, <1>8, <1>9 DEF Storable

\* What a job stores, wherever its parameters lead.
LEMMA CreateInfoExact ==
    ASSUME ImportInv, ExactInv, NEW j \in Jobs, CreateInfo(j) PROVE ExactInv'
<1>1. /\ at[j] = "create_info" /\ at[j] \in Between /\ UNCHANGED lists
  BY DEF CreateInfo, Between
<1>2. UNCHANGED <<shop, category, product, parameter, described>>
  BY <1>1 DEF lists
<1>3. PICK s, S, n, f, p : /\ s = my[j].shop /\ S = GoodsOf(s)
                           /\ n = my[j].good - 1 /\ f = File[j] /\ p = nextInfo
  OBVIOUS
<1>4. /\ n \in Nat /\ my[j].good = n + 1 /\ my[j].count = Cardinality(S)
      /\ my[j].count \in Nat /\ my[j] \in Locals /\ f \in FileRow
      /\ f.categories \subseteq category
      /\ Sourced(S, f, n) /\ ListsAll(S, f, n) /\ at[j] \in Running
  BY <1>1, <1>3, KnownBetween
<1>5. JobFits(j) /\ Progress(j)
  BY <1>4 DEF ImportInv, ExactInv
<1>6. /\ product[my[j].product] = [name     |-> Item(j).name,
                                   category |-> Item(j).category]
      /\ n + 1 \in 1 .. Len(f.goods) /\ Item(j) = f.goods[n + 1]
      /\ Item(j).name \in STRING /\ Item(j) \in GoodRow
  <2>1. n + 1 \in 1 .. Len(f.goods) /\ Item(j) = f.goods[n + 1]
    BY <1>1, <1>3, <1>4, <1>5 DEF JobFits, AtGood, Item
  <2>2. Item(j) \in GoodRow
    BY <1>4, <2>1 DEF FileRow
  <2> QED
    BY <1>1, <1>5, <2>1, <2>2 DEF JobFits, AtGood, Progress
<1>7. CASE Listed(my[j], Item(j)) \/ Item(j).quantity < 0
  <2>1. Skip(j) /\ UNCHANGED <<info, labels>>
    BY <1>7 DEF CreateInfo
  <2>2. SameShown
    BY <1>2, <2>1 DEF SameShown, labels
  <2>3. Complete(Item(j)) => \E q \in S : Lists(q, Item(j))
    <3>1. Item(j).quantity < 0 => ~ Complete(Item(j))
      BY <1>6 DEF Complete, GoodRow
    <3>2. Listed(my[j], Item(j)) => \E q \in S : Lists(q, Item(j))
      BY <1>3, <1>6 DEF Listed, Lists
    <3> QED
      BY <1>7, <3>1, <3>2
  <2> QED
    BY <1>1, <1>3, <2>1, <2>2, <2>3, SkipExact
<1>8. CASE /\ ~ (Listed(my[j], Item(j)) \/ Item(j).quantity < 0)
           /\ nextInfo \notin InfoIds
  <2>1. Go(j, "lost", Fresh) /\ UNCHANGED <<info, labels>>
    BY <1>8 DEF CreateInfo
  <2>2. SameShown
    BY <1>2, <2>1 DEF SameShown, labels
  <2> QED
    BY <2>1, <2>2, JobFails
<1>9. CASE /\ ~ (Listed(my[j], Item(j)) \/ Item(j).quantity < 0)
           /\ nextInfo \in InfoIds
  <2> DEFINE row  == [shop |-> s, quantity |-> Item(j).quantity]
             card == [product |-> my[j].product, external |-> Item(j).external]
  <2>1. /\ info' = [info EXCEPT ![p] = row]
        /\ label' = [label EXCEPT ![p] = card]
        /\ Parameters(j, p) /\ p \in InfoIds
    BY <1>3, <1>9 DEF CreateInfo
  <2>2. n + 1 \in Storable(f, category)
    BY <1>1, <1>3, <1>4, <1>9, NotListedIsStorable
  <2>3. info[p] = NoRow /\ DOMAIN info = InfoIds /\ DOMAIN label = InfoIds
    <3>1. nextInfo \in Nat
      BY DEF ImportInv, TablesFit
    <3>2. ~ (nextInfo < nextInfo)
      BY <3>1
    <3> QED
      BY <1>3, <2>1, <3>2 DEF ImportInv, TablesFit, StoreTypeOK
  <2>4. info'[p] = row /\ label'[p] = card /\ row.shop = s
    BY <2>1, <2>3
  <2>5. \A q \in InfoIds \ {p} : info'[q] = info[q] /\ label'[q] = label[q]
    BY <2>1, <2>3
  <2>6. row # NoRow
    <3>1. info'[p] # NoRow
      <4>1. ImportInv'
        BY CreateInfoFits
      <4>2. card \in LabelRow
        <5>1. my[j].product \in Nat
          BY <1>1, <1>5 DEF JobFits, ImportInv, TablesFit
        <5> QED
          BY <1>6, <5>1 DEF GoodRow, LabelRow
      <4>3. label'[p] # NoRow
        BY <2>4, <4>2, ImportAssumption
      <4>4. (info'[p] = NoRow) = (label'[p] = NoRow)
        BY <2>1, <4>1 DEF ImportInv, TablesFit
      <4> QED
        BY <4>3, <4>4
    <3> QED
      BY <2>4, <3>1
  <2>7. p \notin S /\ GoodsOf(s)' = S \cup {p}
    BY <1>3, <2>1, <2>3, <2>4, <2>5, <2>6 DEF GoodsOf
  <2>8. Shown(p)' = Stated(f.goods[n + 1])
    BY <1>2, <1>6, <2>4 DEF Shown, Stated
  <2>9. \A d \in described' : d[1] # p
    BY <1>2, <2>3 DEF ImportInv, CatalogueIntegrity
  <2>10. /\ Sourced(S, f, n)' /\ ListsAll(S, f, n)'
         /\ \A q \in S : Shown(q)' = Shown(q)
    <3>1. \A q \in S : /\ q \in InfoIds /\ info[q] # NoRow
                       /\ info'[q] = info[q] /\ label'[q] = label[q]
      BY <1>3, <2>5, <2>7 DEF GoodsOf
    <3> QED
      BY <1>2, <1>4, <3>1, RowsKept
  <2>11. ListsAll(S \cup {p}, f, n + 1)'
    <3>1. Lists(p, f.goods[n + 1])'
      BY <1>2, <1>6, <2>4 DEF Lists
    <3>2. 1 .. n + 1 = (1 .. n) \cup {n + 1}
      BY <1>4
    <3> QED
      BY <2>10, <3>1, <3>2 DEF ListsAll
  <2>12. Cardinality(S \cup {p}) = my[j].count + 1
    <3>1. IsFiniteSet(S)
      BY <1>3, FiniteGoods
    <3> QED
      BY <1>4, <2>7, <3>1, FS_AddElement
  <2>13. NamedOnce'
    BY <1>2 DEF ExactInv, NamedOnce, ShopNamedOnce, ShopsNamed, ProductsNamed
  <2> HIDE DEF row, card
  <2>14. Unmixed'
    <3>1. ASSUME NEW t \in DOMAIN shop', t # s
          PROVE  GoodsOf(t)' # {} => FromOneFile(t)'
      <4>1. \A q \in GoodsOf(t)' : q \in GoodsOf(t) /\ info'[q] = info[q]
                                   /\ label'[q] = label[q] /\ info[q] # NoRow
        BY <2>4, <2>5, <3>1 DEF GoodsOf
      <4>2. \A q \in GoodsOf(t)' : Shown(q)' = Shown(q)
        BY <1>2, <4>1 DEF Shown
      <4>3. GoodsOf(t) # {} => FromOneFile(t)
        BY <1>2, UnmixedShops DEF ExactInv
      <4> QED
        BY <4>1, <4>2, <4>3, NotMixed
    <3>2. FromOneFile(s)'
      <4>1. File[j] # NoRow
        BY <1>3, <1>4, ImportAssumption
      <4>2. DOMAIN f.goods = 1 .. Len(f.goods)
        BY <1>4 DEF FileRow
      <4>3. \A q \in S : \E i \in DOMAIN f.goods : Shown(q)' = Stated(f.goods[i])
        BY <2>10 DEF Sourced, Storable
      <4>4. \A q \in S \cup {p} :
               \E i \in DOMAIN f.goods : Shown(q)' = Stated(f.goods[i])
        BY <1>6, <2>8, <4>2, <4>3
      <4> QED
        BY <1>3, <2>7, <4>1, <4>4 DEF FromOneFile
    <3>3. \A t \in DOMAIN shop' : GoodsOf(t)' # {} => FromOneFile(t)'
      BY <3>1, <3>2
    <3> QED
      BY <3>3 DEF Unmixed, FromOneFile
  <2>15. CASE Fail(j)
    <3>1. \E where \in {"queued", "retry"} \cup Ended : Become(j, where, Fresh)
      BY <2>15, FailFits
    <3> QED
      BY <1>4, <2>13, <2>14, <3>1, RestsApart, RunnerSteps
  <2>16. CASE Item(j).parameter = NoRow
    <3> DEFINE what == [Fresh EXCEPT !.shop = my[j].shop,
                                     !.good = my[j].good + 1,
                                     !.count = my[j].count + 1]
    <3>1. Go(j, "good", what)
      BY <2>1, <2>16, ImportAssumption DEF Parameters, NextGood
    <3>2. at'[j] = "good" /\ my'[j] = what /\ Become(j, "good", what)
      BY <3>1, Moved DEF ImportInv
    <3>3. /\ what.shop = s /\ what.good = (n + 1) + 1
          /\ what.count = Cardinality(S \cup {p})
      BY <1>3, <1>4, <2>12 DEF Fresh
    <3> HIDE DEF what
    <3>4. Sourced(S \cup {p}, f, n + 1)'
      <4>1. ParametersOf(p)' = {f.goods[n + 1].parameter} \ {NoRow}
        BY <1>6, <2>9, <2>16 DEF ParametersOf
      <4>2. n + 1 \in 1 .. n + 1 /\ 1 .. n \subseteq 1 .. n + 1
        BY <1>4
      <4>3. n + 1 \in Storable(f, category')
        BY <1>2, <2>2
      <4> QED
        BY <2>8, <2>10, <4>1, <4>2, <4>3 DEF Sourced
    <3>5. /\ my'[j].shop = s /\ my'[j].good = (n + 1) + 1
          /\ my'[j].count = Cardinality(S \cup {p})
          /\ at'[j] \in Between /\ at'[j] # "create_product"
          /\ at'[j] # "create_info" /\ n + 1 \in Nat
          /\ File[j].categories \subseteq category'
      BY <1>2, <1>3, <1>4, <3>2, <3>3 DEF Between
    <3>6. NoneFound(j)' /\ Progress(j)'
      BY <1>3, <2>7, <2>11, <3>4, <3>5, IsBetween
    <3> QED
      BY <1>4, <2>13, <2>14, <3>2, <3>6, RunnerSteps
  <2>17. CASE Item(j).parameter # NoRow /\ Item(j).parameter # Broken
    <3> DEFINE what == [my[j] EXCEPT !.info = p]
    <3>1. Go(j, "parameter", what)
      BY <2>1, <2>17 DEF Parameters
    <3>2. at'[j] = "parameter" /\ my'[j] = what /\ Become(j, "parameter", what)
      BY <3>1, Moved DEF ImportInv
    <3>3. /\ what.shop = s /\ what.good = n + 1 /\ what.info = p
          /\ what.count = my[j].count
      BY <1>3, <1>4 DEF Locals
    <3> HIDE DEF what
    <3>4. /\ my'[j].shop = s /\ my'[j].good = n + 1 /\ my'[j].info = p
          /\ my'[j].count + 1 = Cardinality(S \cup {p})
          /\ at'[j] \in HasInfo /\ at'[j] # "create_parameter"
          /\ at'[j] # "describe" /\ p \in S \cup {p}
          /\ n + 1 \in Storable(File[j], category')
          /\ File[j].categories \subseteq category'
      BY <1>2, <1>3, <1>4, <2>2, <2>12, <3>2, <3>3 DEF HasInfo
    <3>5. (S \cup {p}) \ {p} = S
      BY <2>7
    <3>6. Sourced((S \cup {p}) \ {p}, File[j], n)'
      BY <1>3, <2>10, <3>5
    <3>7. NoneFound(j)' /\ Progress(j)'
      BY <1>3, <1>4, <2>7, <2>8, <2>9, <2>11, <3>4, <3>6, HasStored
    <3> QED
      BY <1>4, <2>13, <2>14, <3>2, <3>7, RunnerSteps
  <2> QED
    BY <2>1, <2>15, <2>16, <2>17, ImportAssumption DEF Parameters
<1> QED
  BY <1>7, <1>8, <1>9

\* What is known of a job that has stored a good.
LEMMA KnownStored ==
    ASSUME ImportInv, ExactInv, NEW j \in Jobs, at[j] \in HasInfo
    PROVE  /\ my[j] \in Locals /\ File[j] \in FileRow /\ at[j] \in Running
           /\ my[j].good - 1 \in Nat /\ my[j].count \in Nat
           /\ my[j].good = (my[j].good - 1) + 1
           /\ my[j].info \in GoodsOf(my[j].shop)
           /\ my[j].good \in Storable(File[j], category)
           /\ File[j].categories \subseteq category
           /\ Shown(my[j].info) = Stated(Item(j))
           /\ Item(j).parameter \in STRING
           /\ \A d \in described : d[1] # my[j].info
           /\ Sourced(GoodsOf(my[j].shop) \ {my[j].info}, File[j],
                      my[j].good - 1)
           /\ ListsAll(GoodsOf(my[j].shop), File[j], my[j].good)
           /\ my[j].count + 1 = Cardinality(GoodsOf(my[j].shop))
<1>1. at[j] \in Running
  BY DEF HasInfo, Running, Writing
<1>2. JobFits(j) /\ Progress(j)
  BY <1>1 DEF ImportInv, ExactInv
<1>3. /\ my[j] \in Locals /\ File[j] \in FileRow
      /\ my[j].good \in 1 .. Len(File[j].goods) + 1
      /\ Item(j).parameter \in STRING
  BY <1>1, <1>2 DEF JobFits
<1>4. /\ my[j].good - 1 \in Nat /\ my[j].count \in Nat
      /\ my[j].good = (my[j].good - 1) + 1
  BY <1>3 DEF FileRow, Locals
<1> QED
  BY <1>1, <1>2, <1>3, <1>4 DEF Progress

LEMMA FindParameterExact ==
    ASSUME ImportInv, ExactInv, NEW j \in Jobs, FindParameter(j) PROVE ExactInv'
<1>1. SameShown /\ at[j] = "parameter" /\ at[j] \in HasInfo
  BY ReadsShow DEF FindParameter, HasInfo
<1>2. PICK s, S, n, f, p : /\ s = my[j].shop /\ S = GoodsOf(s)
                           /\ n = my[j].good - 1 /\ f = File[j] /\ p = my[j].info
  OBVIOUS
<1>3. /\ n \in Nat /\ my[j].good = n + 1 /\ my[j].count + 1 = Cardinality(S)
      /\ my[j] \in Locals /\ f.categories \subseteq category /\ p \in S
      /\ n + 1 \in Storable(f, category) /\ \A d \in described : d[1] # p
      /\ Sourced(S \ {p}, f, n) /\ ListsAll(S, f, n + 1) /\ at[j] \in Running
      /\ Shown(p) = Stated(f.goods[n + 1]) /\ Item(j) = f.goods[n + 1]
  BY <1>1, <1>2, KnownStored DEF Item
<1>4. /\ Sourced(S \ {p}, f, n)' /\ ListsAll(S, f, n + 1)' /\ GoodsOf(s)' = S
      /\ Shown(p)' = Stated(f.goods[n + 1]) /\ \A d \in described' : d[1] # p
      /\ n + 1 \in Storable(f, category') /\ f.categories \subseteq category'
  <2>1. Sourced(S \ {p}, f, n)' /\ ListsAll(S, f, n + 1)' /\ Shown(p)' = Shown(p)
    BY <1>1, <1>2, <1>3, RowsKept DEF SameShown, GoodsOf
  <2>2. GoodsOf(s)' = S
    BY <1>1, <1>2 DEF SameShown, GoodsOf
  <2> QED
    BY <1>1, <1>3, <2>1, <2>2 DEF SameShown
<1>5. \/ Fail(j)
      \/ /\ Go(j, "create_parameter", my[j])
         /\ \A i \in DOMAIN parameter : parameter[i] # Item(j).parameter
      \/ \E i \in DOMAIN parameter :
            /\ parameter[i] = Item(j).parameter
            /\ Go(j, "describe", [my[j] EXCEPT !.parameter = i])
  BY DEF FindParameter, Got
<1>6. CASE Fail(j)
  BY <1>1, <1>6, JobFails
<1>7. CASE /\ Go(j, "create_parameter", my[j])
           /\ \A i \in DOMAIN parameter : parameter[i] # Item(j).parameter
  <2>1. /\ at'[j] = "create_parameter" /\ my'[j] = my[j]
        /\ Become(j, "create_parameter", my[j])
    BY <1>7, Moved DEF ImportInv
  <2>2. /\ my'[j].shop = s /\ my'[j].good = n + 1 /\ my'[j].info = p
        /\ my'[j].count + 1 = Cardinality(S)
        /\ at'[j] \in HasInfo /\ at'[j] # "describe"
    BY <1>2, <1>3, <2>1 DEF HasInfo
  <2>3. \A i \in DOMAIN parameter' : parameter'[i] # f.goods[n + 1].parameter
    BY <1>1, <1>3, <1>7 DEF SameShown
  <2>4. NoneFound(j)' /\ Progress(j)'
    BY <1>2, <1>3, <1>4, <2>2, <2>3, HasStored
  <2> QED
    BY <1>1, <1>3, <2>1, <2>4, RunnerReads
<1>8. ASSUME NEW i \in DOMAIN parameter, parameter[i] = Item(j).parameter,
             Go(j, "describe", [my[j] EXCEPT !.parameter = i])
      PROVE  ExactInv'
  <2> DEFINE what == [my[j] EXCEPT !.parameter = i]
  <2>1. /\ at'[j] = "describe" /\ my'[j] = what /\ Become(j, "describe", what)
    BY <1>8, Moved DEF ImportInv
  <2>2. /\ what.shop = s /\ what.good = n + 1 /\ what.info = p
        /\ what.count = my[j].count /\ what.parameter = i
    BY <1>2, <1>3 DEF Locals
  <2> HIDE DEF what
  <2>3. /\ my'[j].shop = s /\ my'[j].good = n + 1 /\ my'[j].info = p
        /\ my'[j].count + 1 = Cardinality(S)
        /\ at'[j] \in HasInfo /\ at'[j] # "create_parameter"
    BY <1>2, <1>3, <2>1, <2>2 DEF HasInfo
  <2>4. parameter'[my'[j].parameter] = f.goods[n + 1].parameter
    BY <1>1, <1>3, <1>8, <2>1, <2>2 DEF SameShown
  <2>5. NoneFound(j)' /\ Progress(j)'
    BY <1>2, <1>3, <1>4, <2>3, <2>4, HasStored
  <2> QED
    BY <1>1, <1>3, <2>1, <2>5, RunnerReads
<1> QED
  BY <1>5, <1>6, <1>7, <1>8

LEMMA CreateParameterExact ==
    ASSUME ImportInv, ExactInv, NEW j \in Jobs, CreateParameter(j)
    PROVE  ExactInv'
<1> DEFINE what == [my[j] EXCEPT !.parameter = Len(parameter) + 1]
           name == Item(j).parameter
<1>1. /\ at[j] = "create_parameter" /\ at[j] \in HasInfo
      /\ UNCHANGED <<info, shop, category, product, described, label>>
      /\ parameter' = Append(parameter, name) /\ Go(j, "describe", what)
  BY DEF CreateParameter, HasInfo, tables, goods, labels
<1>2. PICK s, S, n, f, p : /\ s = my[j].shop /\ S = GoodsOf(s)
                           /\ n = my[j].good - 1 /\ f = File[j] /\ p = my[j].info
  OBVIOUS
<1>3. /\ n \in Nat /\ my[j].good = n + 1 /\ my[j].count + 1 = Cardinality(S)
      /\ my[j] \in Locals /\ f.categories \subseteq category /\ p \in S
      /\ n + 1 \in Storable(f, category) /\ \A d \in described : d[1] # p
      /\ Sourced(S \ {p}, f, n) /\ ListsAll(S, f, n + 1) /\ at[j] \in Running
      /\ Shown(p) = Stated(f.goods[n + 1]) /\ Item(j) = f.goods[n + 1]
      /\ name \in STRING
  BY <1>1, <1>2, KnownStored DEF Item
<1>4. /\ at'[j] = "describe" /\ my'[j] = what /\ Become(j, "describe", what)
  BY <1>1, Moved DEF ImportInv
<1>5. /\ parameter \in Seq(STRING) /\ DOMAIN parameter = 1 .. Len(parameter)
      /\ Len(parameter) \in Nat
  BY DEF ImportInv, TablesFit
<1>6. /\ what.shop = s /\ what.good = n + 1 /\ what.info = p
      /\ what.count = my[j].count /\ what.parameter = Len(parameter) + 1
  BY <1>2, <1>3 DEF Locals
<1>7. \A i \in DOMAIN parameter : parameter[i] # name
  BY <1>1, <1>3 DEF ExactInv, NoneFound
<1>8. name = f.goods[n + 1].parameter
  BY <1>3
<1> HIDE DEF what, name
<1>9. /\ DOMAIN parameter' = DOMAIN parameter \cup {Len(parameter) + 1}
      /\ Len(parameter) + 1 \notin DOMAIN parameter
      /\ parameter'[Len(parameter) + 1] = name
      /\ \A i \in DOMAIN parameter : parameter'[i] = parameter[i]
  BY <1>1, <1>3, <1>5
<1>10. /\ Sourced(S \ {p}, f, n)' /\ ListsAll(S, f, n + 1)' /\ GoodsOf(s)' = S
       /\ Shown(p)' = Stated(f.goods[n + 1]) /\ \A d \in described' : d[1] # p
       /\ n + 1 \in Storable(f, category') /\ f.categories \subseteq category'
  <2>1. Sourced(S \ {p}, f, n)' /\ ListsAll(S, f, n + 1)' /\ Shown(p)' = Shown(p)
    BY <1>1, <1>2, <1>3, <1>9, RowsKept DEF GoodsOf
  <2>2. GoodsOf(s)' = S
    BY <1>1, <1>2 DEF GoodsOf
  <2> QED
    BY <1>1, <1>3, <2>1, <2>2
<1>11. NoneFound(j)' /\ Progress(j)'
  <2>1. /\ my'[j].shop = s /\ my'[j].good = n + 1 /\ my'[j].info = p
        /\ my'[j].count + 1 = Cardinality(S)
        /\ at'[j] \in HasInfo /\ at'[j] # "create_parameter"
    BY <1>2, <1>3, <1>4, <1>6 DEF HasInfo
  <2>2. parameter'[my'[j].parameter] = f.goods[n + 1].parameter
    BY <1>4, <1>6, <1>8, <1>9
  <2> QED
    BY <1>2, <1>3, <1>10, <2>1, <2>2, HasStored
<1>12. NamedOnce'
  <2>1. \A h, i \in DOMAIN parameter' : parameter'[h] = parameter'[i] => h = i
    BY <1>7, <1>9 DEF ExactInv, NamedOnce
  <2> QED
    BY <1>1, <2>1 DEF ExactInv, NamedOnce, ShopNamedOnce, ShopsNamed,
                      ProductsNamed
<1>13. Unmixed'
  BY <1>1 DEF ExactInv, Unmixed, GoodsOf, Shown
<1> QED
  BY <1>3, <1>4, <1>11, <1>12, <1>13, RunnerSteps

LEMMA DescribeExact ==
    ASSUME ImportInv, ExactInv, NEW j \in Jobs, Describe(j) PROVE ExactInv'
<1> DEFINE what == [Fresh EXCEPT !.shop = my[j].shop, !.good = my[j].good + 1,
                                 !.count = my[j].count + 1]
           name == Item(j).parameter
<1>1. /\ at[j] = "describe" /\ at[j] \in HasInfo
      /\ UNCHANGED <<info, shop, category, product, parameter, label>>
  BY DEF Describe, HasInfo, tables, goods, labels
<1>2. PICK s, S, n, f, p : /\ s = my[j].shop /\ S = GoodsOf(s)
                           /\ n = my[j].good - 1 /\ f = File[j] /\ p = my[j].info
  OBVIOUS
<1>3. /\ n \in Nat /\ my[j].good = n + 1 /\ my[j].count + 1 = Cardinality(S)
      /\ my[j].count \in Nat /\ f.categories \subseteq category /\ p \in S
      /\ n + 1 \in Storable(f, category) /\ \A d \in described : d[1] # p
      /\ Sourced(S \ {p}, f, n) /\ ListsAll(S, f, n + 1) /\ at[j] \in Running
      /\ Shown(p) = Stated(f.goods[n + 1]) /\ Item(j) = f.goods[n + 1]
      /\ name \in STRING
  BY <1>1, <1>2, KnownStored DEF Item
<1>4. parameter[my[j].parameter] = name
  BY <1>1, <1>3 DEF ExactInv, Progress
<1>5. /\ described' = described \cup {<<p, my[j].parameter>>}
      /\ Go(j, "good", what)
  <2>1. info[p] # NoRow
    BY <1>2, <1>3 DEF GoodsOf
  <2> QED
    BY <1>2, <2>1 DEF Describe, NextGood
<1>6. /\ at'[j] = "good" /\ my'[j] = what /\ Become(j, "good", what)
  BY <1>5, Moved DEF ImportInv
<1>7. /\ what.shop = s /\ what.good = (n + 1) + 1
      /\ what.count = Cardinality(S)
  BY <1>2, <1>3 DEF Fresh
<1>8. name = f.goods[n + 1].parameter
  BY <1>3
<1> HIDE DEF what, name
<1>9. /\ Sourced(S \ {p}, f, n)' /\ ListsAll(S, f, n + 1)' /\ GoodsOf(s)' = S
      /\ Shown(p)' = Stated(f.goods[n + 1])
      /\ n + 1 \in Storable(f, category') /\ f.categories \subseteq category'
  <2>1. ListsAll(S, f, n + 1)' /\ Shown(p)' = Shown(p)
    BY <1>1, <1>2, <1>3, ShownKept DEF GoodsOf
  <2>2. \A q \in S \ {p} :
           {d \in described' : d[1] = q} = {d \in described : d[1] = q}
    BY <1>5
  <2>3. Sourced(S \ {p}, f, n)'
    BY <1>1, <1>2, <1>3, <2>2, RowsKept DEF GoodsOf
  <2>4. GoodsOf(s)' = S
    BY <1>1, <1>2 DEF GoodsOf
  <2> QED
    BY <1>1, <1>3, <2>1, <2>3, <2>4
<1>10. ParametersOf(p)' = {f.goods[n + 1].parameter} \ {NoRow}
  <2>1. {d \in described' : d[1] = p} = {<<p, my[j].parameter>>}
    BY <1>3, <1>5
  <2>2. \A d \in {<<p, my[j].parameter>>} : parameter'[d[2]] = name
    BY <1>1, <1>4
  <2>3. {parameter'[d[2]] : d \in {<<p, my[j].parameter>>}} = {name}
    BY <2>2
  <2>4. {parameter'[d[2]] : d \in {e \in described' : e[1] = p}} = {name}
    BY <2>1, <2>3
  <2> QED
    BY <1>3, <1>8, <2>4, ImportAssumption DEF ParametersOf
<1>11. Sourced(S, f, n + 1)'
  <2>1. n + 1 \in 1 .. n + 1 /\ 1 .. n \subseteq 1 .. n + 1
    BY <1>3
  <2> QED
    BY <1>9, <1>10, <2>1 DEF Sourced
<1>12. NoneFound(j)' /\ Progress(j)'
  <2>1. /\ my'[j].shop = s /\ my'[j].good = (n + 1) + 1
        /\ my'[j].count = Cardinality(S)
        /\ at'[j] \in Between /\ at'[j] # "create_product"
        /\ at'[j] # "create_info" /\ n + 1 \in Nat
    BY <1>3, <1>6, <1>7 DEF Between
  <2> QED
    BY <1>2, <1>9, <1>11, <2>1, IsBetween
<1>13. NamedOnce'
  BY <1>1 DEF ExactInv, NamedOnce, ShopNamedOnce, ShopsNamed, ProductsNamed
<1>14. Unmixed'
  BY <1>1 DEF ExactInv, Unmixed, GoodsOf, Shown
<1> QED
  BY <1>3, <1>6, <1>12, <1>13, <1>14, RunnerSteps

----------------------------------------------------------------------------
(* Every state, when one import runs at a time. *)

LEMMA ExactBegins == NamedApart /\ AloneInit => ExactInv
<1> SUFFICES ASSUME NamedApart, AloneInit PROVE ExactInv
  OBVIOUS
<1>1. /\ shop = FirstShops /\ product = <<>> /\ parameter = <<>>
      /\ info = [p \in InfoIds |-> NoRow]
      /\ at = [j \in Jobs |-> "absent"]
  BY DEF AloneInit, NoBuyers, ImportInit
<1>2. \A j \in Jobs : at[j] \notin Running
  BY <1>1 DEF Running, Writing
<1>3. NamedOnce
  BY <1>1 DEF NamedApart, NamedOnce, ShopNamedOnce, ShopsNamed
<1>4. Unmixed
  BY <1>1 DEF Unmixed, GoodsOf
<1> QED
  BY <1>2, <1>3, <1>4 DEF ExactInv, OneRuns

LEMMA ExactStays ==
    OneWorker /\ ImportInv /\ ExactInv /\ [ImportNext]_importVars => ExactInv'
<1> SUFFICES ASSUME OneWorker, ImportInv, ExactInv, [ImportNext]_importVars
             PROVE  ExactInv'
  OBVIOUS
<1>1. ASSUME NEW j \in Jobs, Upload(j) \/ Run(j) \/ Die(j)
      PROVE  ExactInv'
  BY <1>1, UploadExact, BeginExact, FindShopExact, CreateShopExact,
     AddCategoryExact, CollectExact, DeleteGoodsExact, FindProductExact,
     CreateProductExact, CreateInfoExact, FindParameterExact,
     CreateParameterExact, DescribeExact, DieExact DEF Run
<1>2. CASE UNCHANGED importVars
  <2>1. SameShown /\ UNCHANGED <<at, my>>
    BY <1>2, ReadsShow DEF importVars, progress
  <2>2. NamedOnce' /\ Unmixed'
    BY <2>1, NamesKept
  <2>3. OneRuns'
    BY <2>1 DEF ExactInv, OneRuns
  <2>4. ASSUME NEW q \in Jobs, at'[q] \in Running
        PROVE  NoneFound(q)' /\ Progress(q)'
    <3>1. UNCHANGED <<at[q], my[q]>> /\ at[q] \in Running
      BY <2>1, <2>4
    <3>2. NoneFound(q) /\ Progress(q)
      BY <3>1 DEF ExactInv
    <3> QED
      BY <2>1, <3>1, <3>2, ProgressKept
  <2> QED
    BY <2>2, <2>3, <2>4 DEF ExactInv
<1> QED
  BY <1>1, <1>2 DEF ImportNext

LEMMA ExactInvariant ==
    ASSUME OneWorker, NamedApart
    PROVE  ImportSpec => [](ImportInv /\ ExactInv)
<1>1. AloneInit => ImportInv /\ ExactInv
  BY ImportBegins, ExactBegins
<1>2. (ImportInv /\ ExactInv) /\ [ImportNext]_importVars
         => (ImportInv /\ ExactInv)'
  BY ImportStays, ExactStays
<1> QED
  BY <1>1, <1>2, PTL DEF ImportSpec

\* process_import_data, while one worker imports: what buyers see of a shop
\* at any moment, between two statements or after a failed attempt, are
\* goods of one price list.
THEOREM OnePriceListAtATime ==
    ASSUME OneWorker, NamedApart
    PROVE  ImportSpec => []Unmixed
<1>1. ExactInv => Unmixed
  BY DEF ExactInv
<1> QED
  BY <1>1, ExactInvariant, PTL

----------------------------------------------------------------------------
(* What an import has done when it reports success. *)

\* Only the end of the file leads to success.
LEMMA OnlyTheEndSucceeds ==
    ASSUME ImportInv, NEW j \in Jobs, NEW q \in Jobs,
           Upload(q) \/ Run(q) \/ Die(q), at[j] # "done", at'[j] = "done"
    PROVE  /\ q = j /\ FindProduct(j)
           /\ my[j].good > Len(File[j].goods) /\ Go(j, "done", my[j])
<1>1. DOMAIN at = Jobs
  BY DEF ImportInv, TablesFit
<1>2. ASSUME NEW where, NEW what, Go(q, where, what) PROVE where = "done"
  BY <1>1, <1>2 DEF Go, Become
<1>3. ~ Fail(q)
  BY <1>1 DEF Fail, Become
<1>4. \A place : ~ (place # "done" /\ \E what : Go(q, place, what))
  BY <1>2
<1>5. ASSUME NEW counted PROVE ~ NextGood(q, counted)
  BY <1>4 DEF NextGood
<1>6. ASSUME NEW found, NEW with, NEW next, NEW insert,
             next # "done", insert # "done"
      PROVE  ~ Got(q, found, with, next, insert)
  BY <1>3, <1>4, <1>6 DEF Got
<1>7. ~ Upload(q) /\ ~ Begin(q) /\ ~ Die(q)
  BY <1>3, <1>4 DEF Upload, PartnerUpdate, AdminImport, Accept, Begin, Die
<1>8. ~ FindShop(q) /\ ~ FindParameter(q)
  BY <1>3, <1>6 DEF FindShop, FindParameter
<1>9. ~ CreateShop(q) /\ ~ AddCategory(q) /\ ~ Collect(q) /\ ~ DeleteGoods(q)
  BY <1>3, <1>4, <1>6
     DEF CreateShop, AddCategory, Collect, DeleteGoods
<1>10. ~ CreateProduct(q) /\ ~ CreateParameter(q) /\ ~ Describe(q)
  BY <1>4, <1>5 DEF CreateProduct, Skip, CreateParameter, Describe
<1>11. ~ CreateInfo(q)
  <2>1. ASSUME NEW p PROVE ~ Parameters(q, p)
    BY <1>3, <1>4, <1>5 DEF Parameters
  <2> QED
    BY <1>4, <1>5, <2>1 DEF CreateInfo, Skip
<1>12. FindProduct(q)
  BY <1>7, <1>8, <1>9, <1>10, <1>11 DEF Run
<1>13. my[q].good > Len(File[q].goods) /\ Go(q, "done", my[q])
  BY <1>5, <1>6, <1>12 DEF FindProduct, Skip
<1>14. q = j
  BY <1>1, <1>13 DEF Go, Become
<1> QED
  BY <1>12, <1>13, <1>14

\* A row tells which good of the shop it is.
LEMMA ShownApart ==
    ASSUME ImportInv, NamedOnce, NEW s, NEW p \in GoodsOf(s),
           NEW q \in GoodsOf(s), Shown(p) = Shown(q)
    PROVE  p = q
<1>1. /\ p \in InfoIds /\ info[p] # NoRow /\ info[p].shop = s
      /\ q \in InfoIds /\ info[q] # NoRow /\ info[q].shop = s
  BY DEF GoodsOf
<1>2. /\ label[p] \in LabelRow /\ label[p].product \in DOMAIN product
      /\ label[q] \in LabelRow /\ label[q].product \in DOMAIN product
  BY <1>1 DEF ImportInv, TablesFit, CatalogueIntegrity
<1>3. /\ product[label[p].product].name = product[label[q].product].name
      /\ product[label[p].product].category = product[label[q].product].category
      /\ label[p].external = label[q].external
  BY DEF Shown
<1>4. ProductsNamed(product[label[p].product])
         = ProductsNamed(product[label[q].product])
  BY <1>3 DEF ProductsNamed
<1>5. label[p].product = label[q].product
  BY <1>2, <1>4 DEF NamedOnce
<1>6. label[p] = label[q]
  BY <1>2, <1>3, <1>5 DEF LabelRow
<1> QED
  BY <1>1, <1>6 DEF ImportInv, CatalogueIntegrity

\* Of the goods that can be stored none repeats another one.
LEMMA StorableApart ==
    ASSUME NEW f \in FileRow, NEW some, NEW all,
           NEW i \in Storable(f, some), NEW k \in Storable(f, all),
           f.goods[i].name = f.goods[k].name,
           f.goods[i].category = f.goods[k].category,
           f.goods[i].external = f.goods[k].external
    PROVE  i = k
<1>1. f.goods \in Seq(GoodRow) /\ DOMAIN f.goods = 1 .. Len(f.goods)
      /\ Len(f.goods) \in Nat
  BY DEF FileRow
<1>2. /\ i \in DOMAIN f.goods /\ k \in DOMAIN f.goods
      /\ f.goods[i].quantity >= 0 /\ f.goods[k].quantity >= 0
  BY DEF Storable
<1>3. f.goods[i].quantity \in Int /\ f.goods[k].quantity \in Int
  <2>1. f.goods[i] \in GoodRow /\ f.goods[k] \in GoodRow
    BY <1>1, <1>2
  <2> QED
    BY <2>1 DEF GoodRow
<1>4. ~ (i \in 1 .. k - 1) /\ ~ (k \in 1 .. i - 1)
  BY <1>2, <1>3 DEF Storable
<1> QED
  BY <1>1, <1>2, <1>4

\* The catalogue of the shop of job j is what its file offers, and counted.
Exactly(j, counted) ==
    LET f == File[j]
        mine == GoodsOf(my[j].shop)
        offered == {Shown(p) : p \in mine}
    IN /\ Offer(f, f.categories) \subseteq offered
       /\ offered \subseteq Offer(f, category)
       /\ Cardinality(mine) = Cardinality(offered)
       /\ counted = Cardinality(mine)
       /\ \A p \in mine : DescribedBy(p, f)

LEMMA TheEndIsExact ==
    ASSUME ImportInv, ExactInv, NEW j \in Jobs, at[j] = "good",
           my[j].good > Len(File[j].goods)
    PROVE  Exactly(j, my[j].count)
<1> DEFINE f == File[j]
           mine == GoodsOf(my[j].shop)
           offered == {Shown(p) : p \in mine}
<1>1. /\ f \in FileRow /\ f.categories \subseteq category /\ my[j].count = Cardinality(mine)
      /\ Sourced(mine, f, my[j].good - 1) /\ ListsAll(mine, f, my[j].good - 1)
      /\ at[j] \in Running
  BY KnownBetween DEF Between
<1>2. my[j].good \in 1 .. Len(f.goods) + 1
  BY <1>1 DEF ImportInv, JobFits
<1>3. /\ f.goods \in Seq(GoodRow) /\ DOMAIN f.goods = 1 .. Len(f.goods)
      /\ Len(f.goods) \in Nat /\ my[j].good - 1 = Len(f.goods)
  BY <1>1, <1>2 DEF FileRow
<1>4. ASSUME NEW p \in mine
      PROVE  \E i \in DOMAIN f.goods :
                /\ i \in Storable(f, category) /\ Shown(p) = Stated(f.goods[i])
                /\ ParametersOf(p) = {f.goods[i].parameter} \ {NoRow}
  BY <1>1, <1>3 DEF Sourced
<1>5. offered \subseteq Offer(f, category)
  BY <1>4 DEF Offer
<1>6. \A p \in mine : DescribedBy(p, f)
  BY <1>4 DEF DescribedBy, ParametersOf
<1>7. ASSUME NEW i \in Storable(f, f.categories)
      PROVE  Stated(f.goods[i]) \in offered
  <2>1. i \in DOMAIN f.goods /\ Complete(f.goods[i])
    BY <1>1 DEF Storable, Complete
  <2>2. PICK p \in mine : Lists(p, f.goods[i])
    BY <1>1, <1>3, <2>1 DEF ListsAll
  <2>3. PICK k \in Storable(f, category) : Shown(p) = Stated(f.goods[k])
    BY <1>4
  <2>4. /\ f.goods[i].name = f.goods[k].name
        /\ f.goods[i].category = f.goods[k].category
        /\ f.goods[i].external = f.goods[k].external
    BY <2>2, <2>3 DEF Lists, Shown, Stated
  <2>5. i = k
    BY <1>1, <2>4, StorableApart
  <2> QED
    BY <2>3, <2>5
<1>8. Offer(f, f.categories) \subseteq offered
  BY <1>7 DEF Offer
<1>9. Cardinality(mine) = Cardinality(offered)
  <2> DEFINE show == [p \in mine |-> Shown(p)]
  <2>1. IsFiniteSet(mine)
    BY FiniteGoods
  <2>2. \A p, q \in mine : Shown(p) = Shown(q) => p = q
    BY ShownApart DEF ExactInv
  <2>3. show \in Bijection(mine, offered)
    <3>1. show \in [mine -> offered] /\ \A p \in mine : show[p] = Shown(p)
      OBVIOUS
    <3>2. \A x \in offered : \E p \in mine : Shown(p) = x
      OBVIOUS
    <3> HIDE DEF show
    <3>3. show \in Injection(mine, offered)
      BY <2>2, <3>1 DEF Injection, IsInjective
    <3>4. show \in Surjection(mine, offered)
      BY <3>1, <3>2 DEF Surjection
    <3> QED
      BY <3>3, <3>4 DEF Bijection
  <2>4. ExistsBijection(mine, offered)
    BY <2>3 DEF ExistsBijection
  <2> QED
    BY <2>1, <2>4, FS_Bijection
<1> QED
  BY <1>1, <1>5, <1>6, <1>8, <1>9 DEF Exactly

\* process_import_data, while one worker imports: an import that reports
\* success has replaced the catalogue of the file's shop by exactly the
\* goods of the file that can be stored, each once and with its own
\* parameters, and has counted them; a good that cannot be stored costs no
\* other one its place.
THEOREM SuccessIsExact ==
    ASSUME OneWorker, NamedApart
    PROVE  ImportSpec => ImportedExactly
<1>1. ASSUME ImportInv, ExactInv, [ImportNext]_importVars,
             NEW j \in Jobs, at[j] # "done", at'[j] = "done"
      PROVE  Exactly(j, my'[j].count)
  <2>1. PICK q \in Jobs : Upload(q) \/ Run(q) \/ Die(q)
    BY <1>1 DEF ImportNext, importVars, progress
  <2>2. /\ FindProduct(j) /\ my[j].good > Len(File[j].goods)
        /\ Go(j, "done", my[j])
    BY <1>1, <2>1, OnlyTheEndSucceeds
  <2>3. at[j] = "good" /\ my'[j] = my[j]
    BY <1>1, <2>2, Moved DEF FindProduct, ImportInv
  <2> QED
    BY <1>1, <2>2, <2>3, TheEndIsExact
<1>2. ImportInv /\ ExactInv /\ [ImportNext]_importVars
         => [\A j \in Jobs : at[j] # "done" /\ at'[j] = "done"
                => Exactly(j, my'[j].count)]_importVars
  BY <1>1
<1> QED
  BY <1>2, ExactInvariant, PTL DEF ImportSpec, ImportedExactly, Exactly
=============================================================================
