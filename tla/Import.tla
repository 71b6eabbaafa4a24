------------------------------- MODULE Import -------------------------------
(***************************************************************************)
(* The import of price lists: how an import is started (products/views.py, *)
(* products/admin_views.py), runs and is retried (products/tasks.py), and  *)
(* what ProductImportService.process_import_data (products/services.py)    *)
(* does to the catalogue.  It opens no transaction: each statement commits *)
(* by itself, so each is a step.  A job is one import, from the upload to  *)
(* its last retry.  A table that no statement deletes from is the sequence *)
(* of its rows, indexed by primary key.                                    *)
(***************************************************************************)
EXTENDS Store, Integers, Sequences

CONSTANTS
    Jobs,         \* 1 .. n, the imports in the order of their upload
    Kind,         \* of a job: "file" (do_import), "url" (import_from_url)
                  \* or "request" (the synchronous import of PartnerUpdate)
    StartedFor,   \* the shop a job is started for, shop_id
    File,         \* what a job reads; NoRow: it cannot be read
    FirstShops,   \* shops_shop when the run starts
    FirstProducts,\* products_product when the run starts, a row for each
                  \* product info of that time
    Workers,      \* bound: how many imports run at a time
    MaxRetries,   \* IMPORT_MAX_RETRIES
    MayDie,       \* may a worker be killed
    Broken        \* "parameters" that are not a mapping

\* Rows, and what the code reads in a price list: values may be missing.  A
\* negative quantity stands for a negative price or number, too.
ShopRow    == [name : STRING, user : Users \cup {NoRow}]
ProductRow == [name : STRING, category : Nat]
LabelRow   == [product : Nat, external : Nat]
GoodRow    == [category : Nat \cup {NoRow}, name : STRING \cup {NoRow},
               external : Nat, quantity : Int,
               parameter : STRING \cup {NoRow, Broken}]
FileRow    == [shop : STRING \cup {NoRow}, categories : SUBSET Nat,
               goods : Seq(GoodRow)]

ASSUME ImportAssumption ==
    /\ IsFiniteSet(Jobs) /\ Jobs = 1 .. Cardinality(Jobs)
    /\ Kind \in [Jobs -> {"file", "url", "request"}]
    /\ File \in [Jobs -> FileRow \cup {NoRow}]
    /\ FirstShops \in Seq(ShopRow) /\ DOMAIN FirstShops \subseteq Shops
    /\ FirstProducts \in Seq(ProductRow) /\ Len(FirstProducts) <= MaxInfos
    /\ NoRow \notin STRING \cup LabelRow \cup FileRow \cup {Broken}
    /\ StartedFor \in [Jobs -> DOMAIN FirstShops]
    /\ \A j \in Jobs : Kind[j] = "request" =>
          FirstShops[StartedFor[j]].user # NoRow
    /\ Workers \in Nat \ {0}
    /\ MaxRetries \in Nat
    /\ MayDie \in BOOLEAN

VARIABLES
    shop,       \* shops_shop: [name, user]
    category,   \* products_category: the ids in use
    product,    \* products_product: [name, category]
    label,      \* the other columns of products_productinfo: [product, external]
    nextInfo,   \* its next AUTOINCREMENT key
    parameter,  \* products_parameter: names
    described,  \* products_productparameter: <<product info, parameter>>
    at,         \* job -> where it stands
    retries,    \* job -> how often it has been retried
    my          \* job -> the local variables of process_import_data

lists      == <<shop, category, product, parameter, described>>
labels     == <<label, nextInfo>>
progress   == <<at, retries, my>>
bystanders == <<orders, nextItem, contact, accepting, locks>>
importVars == <<tables, locks, lists, labels, progress>>

\* Places at which a statement writes.
Writing == {"create_shop", "categories", "delete", "create_product",
            "create_info", "create_parameter", "describe"}
Running == Writing \cup {"shop", "collect", "good", "parameter"}
Ended   == {"done", "failed", "error", "lost"}

\* The locals: shop; the rows the deletion collected (ids); the index in
\* data['goods'] (good), product, product_info, parameter; goods_count.
Fresh == [shop |-> NoRow, ids |-> {}, good |-> 1, product |-> NoRow,
          info |-> NoRow, parameter |-> NoRow, count |-> 0]

ImportInit ==
    /\ shop = FirstShops
    /\ product = FirstProducts
    /\ category = {product[i].category : i \in DOMAIN product}
    /\ parameter = <<>> /\ described = {}
    /\ label = [p \in InfoIds |-> IF p \in DOMAIN product
                                 THEN [product |-> p, external |-> p]
                                 ELSE NoRow]
    /\ nextInfo = Len(product) + 1
    /\ at = [j \in Jobs |-> "absent"]
    /\ retries = [j \in Jobs |-> 0]
    /\ my = [j \in Jobs |-> Fresh]

----------------------------------------------------------------------------
(* A job. *)

Become(j, place, locals) ==
    /\ at' = [at EXCEPT ![j] = place]
    /\ my' = [my EXCEPT ![j] = locals]

Go(j, place, locals) == Become(j, place, locals) /\ UNCHANGED retries

\* Jobs are numbered in the order in which they are accepted.
Accept(j) ==
    /\ at[j] = "absent"
    /\ \A i \in Jobs : i < j => at[i] # "absent"
    /\ Go(j, "queued", Fresh)
    /\ UNCHANGED <<tables, locks, lists, labels>>

\* A partner who has a shop sends a file or a URL ...
PartnerUpdate(j) ==
    /\ Kind[j] \in {"file", "request"}
    /\ shop[StartedFor[j]].user # NoRow
    /\ Accept(j)

\* ... or the staff chooses a shop, which may have no user.
AdminImport(j) ==
    /\ Kind[j] \in {"file", "url"}
    /\ StartedFor[j] \in DOMAIN shop
    /\ Accept(j)

Upload(j) == PartnerUpdate(j) \/ AdminImport(j)

\* Mutated: a retry does not count as one.
FailUncounted(j) ==
    Go(j, IF Kind[j] = "file" THEN "retry" ELSE "error", Fresh)

\* Mutated: one retry too many.
FailOnceMore(j) ==
    LET again == Kind[j] = "file" /\ retries[j] <= MaxRetries IN
    /\ retries' = [retries EXCEPT ![j] = IF again THEN @ + 1 ELSE @]
    /\ Become(j, IF again THEN "retry" ELSE "failed", Fresh)

\* An exception that is not an IntegrityError ends the attempt: do_import
\* is run again after a while, twice at most; the others report the error.
Fail(j) ==
    LET again == Kind[j] = "file" /\ retries[j] < MaxRetries IN
    /\ retries' = [retries EXCEPT ![j] = IF again THEN @ + 1 ELSE @]
    /\ Become(j, IF again THEN "retry"
                 ELSE IF Kind[j] = "file" THEN "failed" ELSE "error", Fresh)

\* The file or the URL yields data.
Loads(j) == File[j] # NoRow

\* A worker takes the job and reads the file.
Begin(j) ==
    /\ at[j] \in {"queued", "retry"}
    /\ Cardinality({i \in Jobs : at[i] \in Running}) < Workers
    /\ IF Loads(j) THEN Go(j, "shop", Fresh) ELSE Fail(j)
    /\ UNCHANGED <<tables, locks, lists, labels>>

----------------------------------------------------------------------------
(* process_import_data: the shop and the categories. *)

ShopsNamed(name) == {s \in DOMAIN shop : shop[s].name = name}

WithShop(l) == [s \in DOMAIN shop |-> [l EXCEPT !.shop = s]]

\* What a get() of get_or_create leads to: the row, and the locals with its
\* key; the INSERT; or MultipleObjectsReturned.
Got(j, found, with, next, insert) ==
    \/ found = {} /\ Go(j, insert, my[j])
    \/ \E i \in found : found = {i} /\ Go(j, next, with[i])
    \/ Cardinality(found) > 1 /\ Fail(j)

FindShop(j) ==
    /\ at[j] = "shop"
    /\ IF File[j].shop = NoRow THEN Fail(j)
       ELSE Got(j, ShopsNamed(File[j].shop), WithShop(my[j]), "categories",
                "create_shop")
    /\ UNCHANGED <<tables, locks, lists, labels>>

\* A user has one shop: the INSERT of a second one fails, unless somebody
\* has created the shop of that name meanwhile.  A job that finds the keys
\* of the bound used up is dropped.
CreateShop(j) ==
    LET owner == shop[StartedFor[j]].user
        found == ShopsNamed(File[j].shop)
    IN
    /\ at[j] = "create_shop" /\ CanWrite
    /\ IF \E s \in DOMAIN shop : owner # NoRow /\ shop[s].user = owner
       THEN /\ IF Cardinality(found) = 1
               THEN Got(j, found, WithShop(my[j]), "categories",
                        "create_shop")
               ELSE Fail(j)
            /\ UNCHANGED shop
       ELSE IF Len(shop) + 1 \notin Shops
       THEN Go(j, "lost", Fresh) /\ UNCHANGED shop
       ELSE /\ shop' = Append(shop, [name |-> File[j].shop, user |-> owner])
            /\ Go(j, "categories", [my[j] EXCEPT !.shop = Len(shop) + 1])
    /\ UNCHANGED <<tables, locks, category, product, parameter, described,
                   labels>>

\* The categories of the file, one after the other; their ids are primary
\* keys for all shops, and get_or_create finds what another import inserts
\* first.  Their names and their links to shops are left out.
AddCategory(j) ==
    /\ at[j] = "categories"
    /\ \/ /\ CanWrite
          /\ \E c \in File[j].categories \ category :
                category' = category \cup {c}
          /\ Go(j, "categories", my[j])
       \/ /\ File[j].categories \subseteq category
          /\ Go(j, "collect", my[j])
          /\ UNCHANGED category
    /\ UNCHANGED <<tables, locks, shop, product, parameter, described, labels>>

----------------------------------------------------------------------------
(* process_import_data: the old goods. *)

GoodsOf(s) == {p \in InfoIds : info[p] # NoRow /\ info[p].shop = s}

\* Mutated: only what is sold out is replaced.
SoldOut(s) == {p \in GoodsOf(s) : info[p].quantity = 0}

OldGoods(s) == GoodsOf(s)

\* ProductInfo.objects.filter(...).delete() collects the rows ...
Collect(j) ==
    /\ at[j] = "collect"
    /\ Go(j, "delete", [my[j] EXCEPT !.ids = OldGoods(my[j].shop)])
    /\ UNCHANGED <<tables, locks, lists, labels>>

\* Mutated: the deletion does not cascade.
NothingFor(ids) == {}

\* The rows of carts, orders and parameters that refer to goods: each table
\* has them deleted by one query, whenever they came.
ItemsFor(ids)      == {k \in ItemIds : item[k] # NoRow /\ item[k].info \in ids}
DescriptionOf(ids) == {d \in described : d[1] \in ids}

Emptied(table, keys) ==
    [k \in DOMAIN table |-> IF k \in keys THEN NoRow ELSE table[k]]

\* ... and deletes them with what refers to them, in one transaction.
DeleteGoods(j) ==
    LET ids == my[j].ids IN
    /\ at[j] = "delete" /\ CanWrite
    /\ info'      = Emptied(info, ids)
    /\ label'     = Emptied(label, ids)
    /\ item'      = Emptied(item, ItemsFor(ids))
    /\ described' = described \ DescriptionOf(ids)
    /\ Go(j, "good", [Fresh EXCEPT !.shop = my[j].shop])
    /\ UNCHANGED <<bystanders, shop, category, product, parameter, nextInfo>>

----------------------------------------------------------------------------
(* process_import_data: the goods of the file. *)

\* The good at hand, and the step to the next one: with goods_count when
\* all went well, without it after an IntegrityError.
Item(j) == File[j].goods[my[j].good]

NextGood(j, counted) ==
    Go(j, "good", [Fresh EXCEPT !.shop = my[j].shop, !.good = my[j].good + 1,
                                !.count = my[j].count + counted])

\* Mutated: an IntegrityError ends the import.
SkipRest(j) == Go(j, "done", my[j])

Skip(j) == NextGood(j, 0)

ProductsNamed(g) ==
    {i \in DOMAIN product : product[i] = [name     |-> g.name,
                                          category |-> g.category]}

WithProduct(l) == [i \in DOMAIN product |-> [l EXCEPT !.product = i]]

\* Mutated: create() instead of get_or_create().
AddProduct(j) ==
    /\ at[j] = "good" /\ my[j].good <= Len(File[j].goods)
    /\ Go(j, "create_product", my[j])
    /\ UNCHANGED <<tables, locks, lists, labels>>

FindProduct(j) ==
    /\ at[j] = "good"
    /\ IF my[j].good > Len(File[j].goods) THEN Go(j, "done", my[j])
       ELSE IF Item(j).category = NoRow \/ Item(j).name = NoRow THEN Skip(j)
       ELSE Got(j, ProductsNamed(Item(j)), WithProduct(my[j]), "create_info",
                "create_product")
    /\ UNCHANGED <<tables, locks, lists, labels>>

CreateProduct(j) ==
    LET g == Item(j) IN
    /\ at[j] = "create_product" /\ CanWrite
    /\ IF g.category \in category
       THEN /\ product' = Append(product, [name     |-> g.name,
                                           category |-> g.category])
            /\ Go(j, "create_info", [my[j] EXCEPT !.product = Len(product) + 1])
       ELSE Skip(j) /\ UNCHANGED product
    /\ UNCHANGED <<tables, locks, shop, category, parameter, described, labels>>

\* Mutated: unique_product_info is not declared.
NeverListed(l, g) == FALSE

\* unique_product_info.
Listed(l, g) ==
    \E p \in GoodsOf(l.shop) :
        label[p] = [product |-> l.product, external |-> g.external]

\* Where the parameters of a good lead; they come after its row is stored.
\* A list of parameters is one parameter here: the others repeat its steps.
Parameters(j, p) ==
    CASE Item(j).parameter = NoRow  -> NextGood(j, 1)
      [] Item(j).parameter = Broken -> Fail(j)
      [] OTHER -> Go(j, "parameter", [my[j] EXCEPT !.info = p])

\* A job that finds the keys of the bound used up is dropped.
CreateInfo(j) ==
    LET g == Item(j)
        l == my[j]
    IN
    /\ at[j] = "create_info" /\ CanWrite
    /\ IF Listed(l, g) \/ g.quantity < 0
       THEN Skip(j) /\ UNCHANGED <<info, labels>>
       ELSE IF nextInfo \notin InfoIds
       THEN Go(j, "lost", Fresh) /\ UNCHANGED <<info, labels>>
       ELSE /\ info' = [info EXCEPT ![nextInfo] =
                           [shop |-> l.shop, quantity |-> g.quantity]]
            /\ label' = [label EXCEPT ![nextInfo] =
                           [product |-> l.product, external |-> g.external]]
            /\ nextInfo' = nextInfo + 1
            /\ Parameters(j, nextInfo)
    /\ UNCHANGED <<bystanders, item, lists>>

\* Mutated: create() instead of get_or_create().
AddParameter(j) ==
    /\ at[j] = "parameter"
    /\ Go(j, "create_parameter", my[j])
    /\ UNCHANGED <<tables, locks, lists, labels>>

FindParameter(j) ==
    /\ at[j] = "parameter"
    /\ Got(j, {i \in DOMAIN parameter : parameter[i] = Item(j).parameter},
           [i \in DOMAIN parameter |-> [my[j] EXCEPT !.parameter = i]],
           "describe", "create_parameter")
    /\ UNCHANGED <<tables, locks, lists, labels>>

CreateParameter(j) ==
    /\ at[j] = "create_parameter" /\ CanWrite
    /\ parameter' = Append(parameter, Item(j).parameter)
    /\ Go(j, "describe", [my[j] EXCEPT !.parameter = Len(parameter) + 1])
    /\ UNCHANGED <<tables, locks, shop, category, product, described, labels>>

\* The row of the good may have been deleted by another import.
Describe(j) ==
    LET l == my[j] IN
    /\ at[j] = "describe" /\ CanWrite
    /\ IF info[l.info] # NoRow
       THEN /\ described' = described \cup {<<l.info, l.parameter>>}
            /\ NextGood(j, 1)
       ELSE Skip(j) /\ UNCHANGED described
    /\ UNCHANGED <<tables, locks, shop, category, product, parameter, labels>>

----------------------------------------------------------------------------
(* Failures. *)

\* "database is locked": another connection kept the writer waiting.  It
\* takes a buyer: the jobs themselves hold no lock between two steps.
ImportLocked(j) ==
    /\ at[j] \in Writing /\ ~ CanWrite
    /\ Fail(j)
    /\ UNCHANGED <<tables, locks, lists, labels>>

\* A task was taken off the queue when it began: if the worker dies it is
\* lost, if CELERY_TASK_TIME_LIMIT kills it it has failed.
Die(j) ==
    /\ MayDie
    /\ at[j] \in Running
    /\ \E end \in {"lost", "failed"} : Go(j, end, Fresh)
    /\ UNCHANGED <<tables, locks, lists, labels>>

----------------------------------------------------------------------------

Run(j) ==
    \/ Begin(j) \/ FindShop(j) \/ CreateShop(j) \/ AddCategory(j)
    \/ Collect(j) \/ DeleteGoods(j) \/ FindProduct(j) \/ CreateProduct(j)
    \/ CreateInfo(j) \/ FindParameter(j) \/ CreateParameter(j) \/ Describe(j)

ImportNext == \E j \in Jobs : Upload(j) \/ Run(j) \/ Die(j)

\* The workers take queued tasks, and their statements return or time out.
ImportFairness == \A j \in Jobs : WF_importVars(Run(j))

\* admin_import_status: what AsyncResult knows of a task.  import_from_url
\* returns its errors, so that such a task is "completed" too.
Status(j) ==
    CASE at[j] \in {"done", "error"} -> "completed"
      [] at[j] = "failed"            -> "failed"
      [] OTHER                       -> "pending"

----------------------------------------------------------------------------
(* The import alone: a service without buyers and without goods. *)

NoBuyers ==
    /\ FirstProducts = <<>>
    /\ order = [o \in OrderIds |-> NoRow] /\ nextOrder = 1
    /\ item = [k \in ItemIds |-> NoRow] /\ nextItem = 1
    /\ info = [p \in InfoIds |-> NoRow]
    /\ contact = [c \in Contacts |-> "unborn"]
    /\ accepting = [s \in Shops |-> TRUE]
    /\ shared = {} /\ reserved = {}

AloneInit == NoBuyers /\ ImportInit

ImportSpec == AloneInit /\ [][ImportNext]_importVars

FairImportSpec == ImportSpec /\ ImportFairness

----------------------------------------------------------------------------
(* Properties. *)

\* Types.
ImportTypeOK ==
    /\ StoreTypeOK
    /\ DOMAIN shop \subseteq Shops
    /\ \A p \in InfoIds : (info[p] = NoRow) = (label[p] = NoRow)
    /\ nextInfo \in 1 .. MaxInfos + 1
    /\ \A j \in Jobs : /\ at[j] \in {"absent", "queued", "retry"}
                                    \cup Running \cup Ended
                       /\ retries[j] \in 0 .. MaxRetries
                       /\ at[j] \in Running =>
                             my[j].good \in 1 .. Len(File[j].goods) + 1

\* The catalogue fits together after every statement of every import: a
\* good has a product and a category, is listed once, and parameters
\* belong to goods that exist.
CatalogueIntegrity ==
    /\ \A p \in InfoIds : info[p] # NoRow =>
          /\ info[p].shop \in DOMAIN shop
          /\ label[p].product \in DOMAIN product
          /\ product[label[p].product].category \in category
          /\ \A q \in InfoIds \ {p} : info[q] # NoRow =>
                info[q].shop # info[p].shop \/ label[q] # label[p]
    /\ \A d \in described : info[d[1]] # NoRow /\ d[2] \in DOMAIN parameter

\* A good as the catalogue shows it and as a file lists it.
Shown(p) == [name     |-> product[label[p].product].name,
             category |-> product[label[p].product].category,
             external |-> label[p].external,
             quantity |-> info[p].quantity]
Stated(g) == [name     |-> g.name,     category |-> g.category,
              external |-> g.external, quantity |-> g.quantity]

\* The goods of file f that can be stored when the categories `known'
\* exist: complete, and not a repetition of an earlier one.
Storable(f, known) ==
    {i \in DOMAIN f.goods :
        LET g == f.goods[i] IN
        /\ g.name # NoRow /\ g.category \in known /\ g.quantity >= 0
        /\ \A h \in 1 .. i - 1 :
              \/ f.goods[h].quantity < 0
              \/ <<f.goods[h].name, f.goods[h].category, f.goods[h].external>>
                    # <<g.name, g.category, g.external>>}
Offer(f, known) == {Stated(f.goods[i]) : i \in Storable(f, known)}

\* The parameters of p are those file f gives this good.
DescribedBy(p, f) ==
    \E i \in DOMAIN f.goods :
        /\ Stated(f.goods[i]) = Shown(p)
        /\ {parameter[d[2]] : d \in {e \in described : e[1] = p}} =
              {f.goods[i].parameter} \ {NoRow}

\* An import that reports success has replaced the catalogue of the file's
\* shop by exactly the goods of the file that can be stored, with their
\* parameters, and has counted them.
ImportedExactly ==
    [][\A j \in Jobs : at[j] # "done" /\ at'[j] = "done" =>
          LET f == File[j]
              mine == GoodsOf(my[j].shop)
              offered == {Shown(p) : p \in mine}
          IN /\ Offer(f, f.categories) \subseteq offered
             /\ offered \subseteq Offer(f, category)
             /\ Cardinality(mine) = Cardinality(offered)
             /\ my'[j].count = Cardinality(mine)
             /\ \A p \in mine : DescribedBy(p, f)]_importVars

\* The old information about a shop's goods is gone before new goods come:
\* buyers never see the goods of two price lists mixed.
Unmixed ==
    \A s \in DOMAIN shop : GoodsOf(s) # {} => \E j \in Jobs :
        File[j] # NoRow /\
            \A p \in GoodsOf(s) : \E i \in DOMAIN File[j].goods :
                Shown(p) = Stated(File[j].goods[i])

\* get_or_create: a shop, a product of a category and a parameter have one
\* row each, so that the next import finds it.
ShopNamedOnce == \A s \in DOMAIN shop : ShopsNamed(shop[s].name) = {s}
NamedOnce ==
    /\ ShopNamedOnce
    /\ \A i \in DOMAIN product : ProductsNamed(product[i]) = {i}
    /\ \A h, i \in DOMAIN parameter : parameter[h] = parameter[i] => h = i

\* No name is unique in its table, and two imports that both miss it both
\* insert it.  The harm is bounded: a name that comes up has no more new
\* rows, those about to be inserted included, than imports run at a time,
\* however many files hold it and however often they are retried.
AtMost(rows, inserting) == Cardinality(rows) + Cardinality(inserting) <= Workers
Inserting(place)        == {j \in Jobs : at[j] = place}
NamedAtMost ==
    /\ \A s \in DOMAIN shop :
          AtMost({t \in ShopsNamed(shop[s].name) : t > Len(FirstShops)},
                 {j \in Inserting("create_shop") : File[j].shop = shop[s].name})
    /\ \A i \in DOMAIN product :
          AtMost({h \in ProductsNamed(product[i]) : h > Len(FirstProducts)},
                 {j \in Inserting("create_product") :
                     i \in ProductsNamed(Item(j))})
    /\ \A i \in DOMAIN parameter :
          AtMost({h \in DOMAIN parameter : parameter[h] = parameter[i]},
                 {j \in Inserting("create_parameter") :
                     Item(j).parameter = parameter[i]})

\* An import that was accepted comes to an end the administrator can see,
\* unless it is lost with its worker.
Settled ==
    \A j \in Jobs :
        at[j] = "queued" ~> Status(j) # "pending" \/ at[j] = "lost"

----------------------------------------------------------------------------
(* What the texts of the service say and the code does not keep. *)

\* The partner updates their price list: once all imports have ended, the
\* newest one of a shop is what the catalogue shows, if it succeeded.
Newest(j) ==
    \A i \in Jobs : i > j =>
        IF File[i] = NoRow THEN TRUE ELSE File[i].shop # File[j].shop
LastUploadCounts ==
    (\A j \in Jobs : at[j] \in Ended) =>
        \A j \in Jobs : at[j] = "done" /\ Newest(j) =>
            \A p \in GoodsOf(my[j].shop) : Shown(p) \in Offer(File[j], category)

\* An import for a shop changes the goods of that shop.
ImportsItsShop ==
    [][\A p \in InfoIds : info'[p] # info[p] =>
          \E j \in Jobs : /\ at[j] \in Running
                          /\ \A row \in {info[p], info'[p]} \ {NoRow} :
                                row.shop = StartedFor[j]]_info

============================================================================
