# A verification project for the procurement service

The service (Django, Django REST framework, Celery, Redis, SQLite) lets retail
buyers order goods of many shops: a partner uploads a price list, buyers fill a
cart, give a delivery address and confirm an order. This directory holds TLA+
modules of that program, the TLC configurations that check them on small
instances, and theorems that the TLA+ proof system checks.

## 1. The system

| Component | Source | State | Operations | Module |
|---|---|---|---|---|
| Shared tables | `orders/models.py`, `products/models.py`, `shops/models.py` | orders, rows of orders, addresses, goods, categories, parameters, shops | foreign keys, unique constraints, cascades | `Store`, `Import` |
| Cart | `cart/views.py` | an order in state `basket` and its rows | view, add, change, remove, clear | `Checkout` |
| Checkout | `orders/views.py` | order state, stock | confirm; create and delete an address; list orders | `Checkout` |
| Cached queries | `config/settings.py` (cacheops) | Redis: answers of queries | fill, invalidate, expire, degrade | `Checkout`, `Browse`, `Accounts`, `Sessions` |
| Partner | `products/views.py` | `Shop.state`, price list | switch orders on and off, upload | `Checkout`, `Import` |
| Import | `products/services.py`, `products/tasks.py`, `products/admin_views.py` | the catalogue, the queue of imports | upload, import, retry, status | `Import`, `Procurement` |
| Order tasks, administration of orders | `orders/tasks.py`, `orders/admin.py`, `config/celery.py` | order state, stock, task queue | process, update the status, bulk updates, the beat | `OrderTasks` |
| Letters | `users/tasks.py` | the two tasks of a letter | render, send, retry | `Mail` |
| Accounts | `users/` | users, confirmation tokens | register, verify, edit, sign in, clean up, administer | `Accounts` |
| Sessions | `users/views.py`, `users/social_auth_views.py` | access and refresh tokens | log in and out, be served | `Sessions` |
| Public catalogue | `products/views.py` | answers in Redis | list, page of a product | `Browse` |

**How they interact.** Everything meets in the database. Web requests run on
threads with a connection each; Celery workers are further connections. No
setting makes a request a transaction (`ATOMIC_REQUESTS` is off), so the
statements of a handler commit one by one, unless it says
`transaction.atomic`: `ConfirmOrderView.post` does, and so do Django's
`delete()` with its cascade and the `create` inside `get_or_create`. SQLite
runs in rollback-journal mode with deferred transactions. A transaction holds
SHARED from its first SELECT on, takes RESERVED at its first write and needs
every other reader gone to commit. cacheops stands between the ORM and the
database for some queries and invalidates them after a commit, in a separate
call to Redis that may fail without an error (`CACHEOPS_DEGRADE_ON_FAILURE`).

**What is hard.** A buyer with two tabs (or a client that sends again) has two
handlers at once on the same cart. A cart request finds its cart, its row or
the rows it will delete in one statement and writes in a later one. A
confirmation works on a snapshot and can be refused its locks after it has sent
its e-mail. An import opens no transaction at all: it deletes the goods of a
shop, with the rows of carts and orders that refer to them, and creates the new
ones one by one, beside other imports and buyers, and may fail, be retried or
be killed at any point. Tasks and requests save rows they read long before. A
cached query can answer with what was true a moment ago. The hazards are listed,
line by line, in `PROJECT.json`.

**What makes the components correct.**

- *Cart*: a buyer has no more carts than requests under way; an order that was
  placed while no handler held it is left alone; rows keep their references
  through stale saves and cascades.
- *Checkout*: no stock below zero; what is deducted is what the order holds;
  a piece is sold once; stock and orders add up; placed orders stay placed;
  buyers never touch each other's orders; the cached cart goes stale by a lost
  invalidation only; every request is answered.
- *Import*: the goods of two price lists are never mixed; what is reported as
  imported is what the file offers; a name has no more new rows than imports
  run at a time; the catalogue fits together whatever runs beside it; every
  import comes to an end.
- *Order tasks*: the stock moves together with a confirmation and never below
  zero; an order that is saved again refers to nothing that is gone; tasks and
  letters come to an end.
- *Accounts*: addresses stay unique, tokens have their account; an account is
  active only if its address was confirmed or the administrator allowed it.
  *Sessions*: who is deactivated for good is shut out.
- *Catalogue*: of the offers that have not changed for the lifetime of a cached
  answer, a list misses none and the page of a product shows exactly those a
  cart accepts; an answer that is out of date is dropped some day.

## 2. Modules

| Module | Models |
|---|---|
| `Store` | the tables that several components share, their constraints, SQLite's locks |
| `Checkout` | cart, addresses, confirmation, the partner's switch, the cached cart query, failures |
| `Ledger` | abstract: a stock and the orders sold from it |
| `CheckoutLedger` | the refinement mapping from `Checkout` to `Ledger` |
| `Import` | the life of an import and `process_import_data` on the tables of `Store` |
| `Procurement` | `Checkout` and `Import` on one database |
| `Mail` | the letters tasks send, with their retries |
| `OrderTasks` | Celery tasks, beat and administrator on orders (`Store`, `Mail`) |
| `Accounts` | users and confirmation tokens (`Mail`) |
| `Sessions` | tokens of the API and who is served |
| `Browse` | the public catalogue behind its cache |
| `CheckoutProofs`, `TabsProofs`, `OneTabProofs`, `ImportProofs`, `ProcurementProofs`, `OrderTasksProofs`, `AccountsProofs`, `BrowseProofs` | the theorems |
| `MCCheckout`, `MCImport`, `MCProcurement`, `MCOrderTasks`, `MCAccounts`, `MCSessions`, `MCBrowse` | small instances for TLC |

### Store

A table is a function from primary keys to rows; `NoRow` marks a key without
one. `order`, `item`, `info`, `contact` and `accepting` are `orders_order`,
`orders_orderitem`, `products_productinfo`, `orders_contact` and
`shops_shop.state`, with the columns the handlers decide on: a price, a date or
a name changes no decision. `nextOrder` and `nextItem` are SQLite's
AUTOINCREMENT counters, which never give out a key again; a stale `save()` can
still put a row back under its old key. `shared` and `reserved` are the locks of
the transactions that are open between two steps. A statement in autocommit mode
is one step and holds no lock between steps; `CanWrite` says when it gets the
ones it needs.

### Checkout

`pc[r]` says where the handler of connection `r` stands and `loc[r]` holds its
local variables. One step is what the database makes indivisible: a SELECT or
a write in autocommit mode, the whole snapshot of a confirmation's reads, its
COMMIT.

| Code | Steps |
|---|---|
| `CartView.get_cart` (`cart/views.py:22`) | `GetCart` (the `get`), `CreateCart` (the `create`), `Invalidate` or `LoseInvalidation` |
| `CartView.get` | `Arrive`, get_cart, `ViewItems` |
| `CartView.post` | `Add` (the product check), get_cart, `GetItem`, then `InsertItem` or `SaveItem` |
| `CartView.patch` | `Arrive`, get_cart, `ChangeItem`, `SaveItem` |
| `CartView.delete` | `Arrive`, get_cart, then `PickItem` and `DeleteItem` for one row, or `ClearItems` for all of them |
| `ConfirmOrderView.post` (`orders/views.py:97`) | `ConfirmRead` or `ConfirmReject`, `ConfirmWrite` (lock, e-mail), `ConfirmCommit`, `Invalidate` or `LoseInvalidation` |
| `ContactListCreateView`, `ContactDetailView` | `CreateContact`, `CollectContact`, `DeleteContact` |
| `PartnerState.post` (`products/views.py:138`) | `PartnerState` |
| failures | `Locked` (database is locked), `Crash` (the worker dies), `CacheExpire` |

Some decisions behind it:

- `get_or_create` marks its query as one for writing, which cacheops does not
  cache; the `get` of the confirmation it does. So carts are found in the
  database, confirmed from the cache.
- The reads of a confirmation are one step: under SHARED no other connection
  commits, so they see one state of the database.
- The writes of a confirmation become visible at its COMMIT, so they are
  written there; `ConfirmWrite` only takes the lock and sends the e-mail, which
  precede it.
- `save()` without `update_fields` is an UPDATE of all columns by key and an
  INSERT when no row was hit. `SaveItem` does both; it is how a row deleted by
  another tab comes back.
- Nothing listens to the deletion of a row of a cart, so Django deletes such
  rows by query: clearing a cart is one statement (`ClearItems`), and the rows
  an order has when it is deleted go with it. Orders are collected by key first:
  `DeleteContact` fails as a whole if another order has come to refer to the
  address by then.
- The cached cart is not filled late by a confirmation: its first SELECT already
  holds SHARED, so no invalidation can lie between its reading and its storing.
- The product check of `CartView.post` is answered from the cached catalogue;
  `StaleCatalogue` lets that answer be as old as the start (`Offered`).
- Client input that only leads to an error message and changes nothing is
  left out, except where the way there does change something (an unknown row in
  PATCH still creates a cart).
- `MayCrash` says whether workers may die; it is FALSE only where a run is to
  show that something happens without that.
- `bool(request.data['state'])` is modelled as it is: the string `"false"` is
  true.

### Import

A job is one import from its upload to its last retry; `at[j]` says where it
stands, `my[j]` holds the locals of `process_import_data`. It runs in
autocommit mode, so each statement is a step; only Django's `delete()` is two:
it collects the goods of the shop and then deletes them in one transaction,
with whatever rows of orders and parameters they have by then, since those are
deleted by query.

| Code | Steps |
|---|---|
| `PartnerUpdate.post`, `admin_import_products` | `PartnerUpdate`, `AdminImport` |
| `do_import`, `import_from_url` (`products/tasks.py`) | `Begin`, `Fail` (retried twice at most if it is a file), `Die` |
| the shop and the categories (`products/services.py:79`) | `FindShop`, `CreateShop`, `AddCategory` (one category a step) |
| `ProductInfo...delete()` (`:110`) | `Collect`, `DeleteGoods` |
| a good (`:114`) | `FindProduct`, `CreateProduct`, `CreateInfo`, `FindParameter`, `CreateParameter`, `Describe`; an `IntegrityError` is `Skip` |
| "database is locked", met beside a buyer only | `ImportLocked` (`LockedOut` of `Procurement`) |
| `admin_import_status` | `Status` |

Prices are left out; several parameters of a good repeat the steps of one; a
file is a record of what the code reads in it, `NoRow` a missing value, `Broken`
parameters that are not a mapping. In `Procurement` the steps of both modules
interleave on the same tables and under the same locks: a job writes only while
no transaction of a buyer holds SHARED.

### Mail, OrderTasks

A letter is rendered by one task and sent by a second, which retries on every
exception, one after the letter has left included (`SendEmail`, `Resend`).
`process_order_confirmation` is `ProcessRead` (its snapshot), `ProcessWrite`
(lock, letter), `ProcessCommit` or `ProcessFail`, which may come at any time
before the commit: the database is locked, the broker is lost between the two
letters, the worker dies; `update_order_status` is
`UpdateRead` and `UpdateSave` (or `UpdateFail`) in autocommit mode, so that a
stale order may be saved, or inserted again; `retry_failed_order_notifications`
is `RetryFailed`; `mark_as_confirmed` and `mark_as_delivered` are `Mark`. No
view queues the two tasks: `SendTask` is an operator who does. The order a
task reads may come from the cache; the one column in which such an order may
differ is its state, which `ProcessRead` does not look at and its commit
overwrites, so the model reads the table.

### Accounts, Sessions

`RegisterView` is `Validate` (the queries of the serializer), `RegisterWrite`
and `RegisterCommit` (its transaction; the letter is handed over before the
commit); `VerifyEmailView` is `Verify`, `VerifyUser`, `Save`, `VerifyDelete`,
each a statement of its own; the profile is `Profile`, `ProfileValidate`, `Save`;
a first social sign-in is `SocialName`, `SocialCreate`. A user read by primary
key may come from the cache and is saved with all columns. `CleanUp` is the
nightly task; it is possible only if `BeatStarts`, which is FALSE in the
repository: `settings.py:176` names the scheduler of django_celery_beat, which
is neither in `INSTALLED_APPS` (`settings.py:17`) nor in `requirements.txt`. A
run that asks whether the clean-up is *safe* sets it to TRUE. `Administer`,
`DeleteUser` and, in `Sessions`, `SetActive` are the administrator.
`Administer` and `SetActive` do more than the repository allows today: the
form names a field the model does not have (`users/admin.py:14`) and does not
open. What holds with them holds without them. The edits of an address and a
name in the same form are left out. `Error` ends any
request between two statements. `Sessions` keeps of a user only what
authentication looks at, and of tokens whose they are and whether they are too
old. That Django's `ModelBackend` refuses inactive users and that a token of
simplejwt has `blacklist()` only with its application installed is taken from
those libraries' behaviour as the code relies on it.

### Browse

`ProductList` is `ProductListView.get_queryset`, one join per filter;
`ProductDetail` is `ProductDetailView.retrieve`. A query is answered by Redis if
it knows the answer, and its answer is kept there. `Create` and `Delete` are what
an import does to offers, whose keys are given out once; `Restock` is a
confirmation or the administrator, `Switch` the partner.

`owed` holds the offers that were changed and of which Redis is still to be
told. `Invalidation` tells it; `LoseInvalidation` is always possible, since an
error of Redis is ignored (`settings.py:323`) and a reader may store after the
invalidation what it read before. That an invalidation drops every answer, not
only those a change touches, is an abstraction; the answers it spares in the
program live no longer than their lifetime, which the model lets any answer do.

`Tick` is five minutes: every answer ages and is dropped when it reaches its
lifetime (`Lasts`: three ticks for a list, one for the page of a product,
`settings.py:294`). `since` is a history variable, the ticks since the last
change of an offer of which Redis was not told; the properties need it to say
which changes an answer may miss. Pagination, order, search and
`CategoryListView` are left out.

### Abstractions

Prices, totals, names and the text of e-mails are left out; so are Django's
sessions and JWT: a connection has one buyer (`Issuer`) for the run. The e-mail
is an SMTP call with two outcomes. The busy timeout of 5 seconds is no number:
a write that has to wait may give up at any time (`Locked`). A request that
would need a key or a quantity beyond the bounds of an instance is dropped.

## 3. Runs

| Run | Instance | Checks | States |
|---|---|---|---|
| `two_tabs` | 1 buyer, 2 connections, 2 orders, 2 rows of up to 2 pieces, 1 in stock, faults | `CheckoutTypeOK`, `CartsBounded`, `HandlersConsistent`, `SnapshotCurrent`, `Integrity`, `FrozenOnceReleased`, `StaleOnlyByLoss` | 479 k |
| `two_addresses` | 1 buyer, 2 connections, 2 addresses, 1 order, faults, fairness | `Integrity`, `StockMovesWithAnOrder`, `PlacedIsFinal`, `KeepsOpenLedger`, `Answered` | 279 k |
| `two_buyers` | 2 buyers, 1 piece, no cache faults | `Ownership`, `CacheCoherent`, `Conservation` | 1.3 M |
| `one_tab` | 1 buyer, 1 connection, 2 shops, 3 orders, no cache faults | `Conservation`, `SoldOnce`, `KeepsLedger` | 232 k |
| `one_worker` | 4 imports of all kinds and 3 shops, one at a time; a faulty file, an unreadable one, kills | `ImportTypeOK`, `CatalogueIntegrity`, `NamedOnce`, `Unmixed`, `ImportedExactly`, `Settled` | 120 k |
| `import_beside` | a buyer and two imports of one shop at a time, one of which lists its good twice | `SideBySide`, `NamedAtMost`, `SnapshotCurrent`, `Integrity`, `StockIsReplacedOrSold` | 1.0 M |
| `order_tasks` | 2 placed orders, 3 tasks, 3 letters, fairness | `TaskTypeOK`, `OrdersFit`, `ConfirmedTogether`, `TasksEnd` | 87 k |
| `accounts` | 2 accounts, 3 requests, an address spelled in two ways, a lossy cache | `AccountsTypeOK`, `AccountsFit`, `ActiveWasConfirmed` | 97 k |
| `shut_out` | 2 users, 2 pairs of tokens, a lossy cache, fairness | `ShutOut` | 2 k |
| `browse` | a product, 2 offers, 2 shops, a filter with two bounds, a lossy cache, fairness | `ListComplete`, `ShownIsSold`, `StaleEnds` | 220 k |

What they show:

- Although the cart, the addresses and the confirmation interleave freely, a
  confirmation commits only what is still true, references survive, and the
  deduction is exact. `transaction.atomic` and the locks of SQLite carry this: the code
  itself neither locks rows nor compares on update, and without `atomic`
  (mutant `NotAtomic`) the same last piece is sold to two buyers. No piece leaves
  the stock without an order.
- `get_cart` races with itself and requests hold carts that have become orders.
  How far the harm goes is bounded: a buyer has no more carts than requests
  under way at once, an order that no request held when it was placed stays as
  it is, and the cached cart goes stale only with an invalidation that is lost.
- For buyers who send one request at a time, and with a cache that loses no
  invalidation, the service keeps everything one expects of a shop: it
  implements `Ledger`.
- With one worker, imports replace price lists cleanly, whatever fails. With two
  beside a buyer the catalogue still fits together, and no confirmation brings
  back or sells goods that were replaced under it; names that must be unique may
  be given twice, but no more often than imports run at a time, because no
  constraint stands behind `get_or_create`.
- Order tasks and the administrator leave no dangling reference and no negative
  stock, and move the stock only together with a confirmation; every task and
  letter ends.
- Accounts: the UNIQUE address is what keeps stale saves from doing harm; an
  account becomes active in no other way than by its letter or by the
  administrator. A user who is deactivated for good is shut out, at the latest when
  the cached row of hers expires.
- Catalogue: whatever Redis misses, an answer is wrong only about offers that
  changed within its lifetime.

### What the code does not keep

Two runs of `PROJECT.json` end in a violation, of a sentence in the program's
own texts:

| Run | Property | Text | What happens |
|---|---|---|---|
| `mail_rolled_back` | `MailedIsPlaced` | `orders/views.py:199` | the e-mail that says the order is placed is out; then the commit finds the database locked by a request of the buyer's other tab that is still reading, and the cart is still a cart. No worker dies in this run |
| `import_empties_orders` | `OrdersKeepTheirGoods` | `README.md:172` | an import deletes the rows of placed orders with the goods it replaces |

The modules state further sentences of that kind, under the headings *what the
code says and does not keep*. They are known divergences, not properties of the
program. Each has a configuration of its own beside the modules, with which TLC
shows the violation (`tlc -config <configuration>.cfg <module>.tla`):

| Configuration | Module | Property | Text | What happens |
|---|---|---|---|---|
| `second_cart` | `MCCheckout` | `SingleBasket` | `cart/views.py:23` | two requests, no cart yet: both create one, and `get_cart` raises `MultipleObjectsReturned` from then on |
| `order_changed` | `MCCheckout` | `PlacedFrozen` | `cart/views.py:150` | a request that clears the cart has found it, the other confirms it, the first deletes the rows of the order |
| `sold_again` | `MCCheckout` | `SoldOnce` | `orders/views.py:145` | Redis misses the invalidation after a confirmation; the cached cart is confirmed, and deducted, again, with one request at a time |
| `closed_shop_sells` | `MCCheckout` | `ClosedShopSellsNothing` | `README.md:58` | the partner closes the shop, the order is placed nevertheless |
| `shop_twice` | `MCImport` | `ShopNamedOnce` | `products/services.py:79` | two imports that name a new shop both create it |
| `old_list_returns` | `MCImport` | `LastUploadCounts` | `products/views.py:22` | a price list that failed half way is retried after a newer one and replaces it |
| `other_shop` | `MCImport` | `ImportsItsShop` | `products/admin_views.py:43` | the shop is the one the file names, not the one the import was started for |
| `notifying_sells` | `MCOrderTasks` | `NotifyingSellsNothing` | `orders/tasks.py:102` | the task that is to send a notification again deducts the order again |
| `never_resent` | `MCOrderTasks` | `FailedLetterIsRetried` | `config/celery.py:31` | the schedule looks for a state nothing sets, so that even a beat that runs sends no letter again |
| `deleted_returns` | `MCOrderTasks` | `DeletedStaysDeleted` | `orders/tasks.py:119` | a status update inserts an order again that was deleted after it was read |
| `tokens_stay` | `MCAccounts` | `TokensExpire` | `config/celery.py:25` | the scheduler the settings name is not installed: the nightly clean-up never runs, and tokens stay |
| `names_twice` | `MCAccounts` | `NamesDiffer` | `users/serializers.py:56` | two requests check a name before either saves it |
| `never_verified` | `MCAccounts` | `ConfirmedIsVerified` | `users/models.py:105` | confirming an address does not set `is_verified` (once letters can be written at all) |
| `letter_never_arrives` | `MCAccounts` | `LetterArrives` | `users/views.py:60` | `settings.BASE_URL` and the template of the letter do not exist, and the task is not retried |
| `letter_of_nobody` | `MCAccounts` | `MailedIsRegistered` | `users/tasks.py:121` | the letter is handed over inside the registration, which is then rolled back |
| `listed_elsewhere` | `MCBrowse` | `ListedFits` | `products/views.py:260` | each filter is a join of its own: one offer meets the shop, another the price |

Three are stated in the modules without a configuration: `PlacedStays`
(`README.md:172`: deleting an address deletes the orders sent to it, which
`PlacedIsFinal` says precisely), `DeactivatedStays` (`users/models.py:99`: a
request saves the user it read before the administrator deactivated her; the
form that deactivates does not open as it is written) and `LoggedOutIsListed`
(`users/views.py:140`: the token class has no black list in this installation).

`SoldOnce` and, for one worker, `NamedOnce` appear on both sides: they hold
under the conditions of their passing runs and fail without.

**Not a property.** `cart_item.quantity += quantity` (`cart/views.py:130`) can
lose one of two concurrent additions. The model has that behaviour; nothing in
the repository promises the sum, so no property is stated about it. The same
holds of which of two status updates wins, and of a letter that arrives twice.

### Bounds

| Constant | Values | Why it is enough |
|---|---|---|
| `Requests` of `Checkout` | 1, 2 | every hazard listed is between two requests; a third finds the same states, since requests interact through tables, cache and locks only |
| `MaxOrders`, `MaxItems` | 1 to 3 | two baskets, an order and the next cart, a row deleted and its successor |
| `Catalogue` | 1 or 2 products, 1 or 2 pieces | the last piece, an order of two shops |
| `MaxQuantity` | 1, 2 | a row that grows, a request beyond the stock |
| `Contacts` | 1, 2 | an address each, or two of one buyer |
| `Jobs`, `Workers` | 2 at a time; 4 in a row | two imports of one shop are what can interfere; in a row, a failure, a retry between others, a new shop and an unreadable file |
| `MaxRetries` | 0, 1 | the code's 2 adds a repetition of the same states |
| `MaxInfos` of `Import` | 3, 12 | enough for every row the jobs create; beyond it, and beyond `Shops`, a job is dropped |
| `Tasks` | 3 | a confirmation, an update and a task of the beat |
| `Requests`, `Asks` of `Accounts` | 3 | a registration, the use of its token, and a second use or a second account; `MaxKeys` is 1, `MaxUsers` 2 |
| `MaxResends` | 0, 1 | as `MaxRetries` |
| `MaxInfos`, `Filters` of `Browse` | 2, 1 | two offers can meet two conditions apart, or one follow the other; the filter names a shop and both bounds, and the prices meet each of them exactly |
| `Lasts` of `Browse` | 3 and 1 ticks | 15 and 5 minutes, the lifetimes of the settings |

When keys run out no further row is created; all other steps go on, so a
bound cuts histories short and hides no interleaving of shorter ones.
`two_buyers` uses the symmetry that exchanges the buyers with their connection
and address; the properties there do not name a buyer. `one_worker`,
`order_tasks` and `accounts`, and the configurations of the table above for
the same modules, switch the deadlock check off: once every job, task or request
of the bound is done nothing is left to do.

### Fairness

| Specification | Weakly fair | Why |
|---|---|---|
| `FairSpec` (`Checkout`) | `Step(r)`: a thread in the middle of a handler | a threaded WSGI server, SQLite's busy timeout |
| `FairImportSpec` | `Run(j)`: a job that is queued or runs | Celery's workers; statements return or time out |
| `FairTaskSpec` | `Work(t)`, each letter | Celery's workers |
| `FairSessionSpec` | the expiry of a cached row | Redis drops keys whose time is up |
| `FairBrowseSpec` | `Tick` | time passes |

Nothing is assumed of new requests, crashes, invalidations or the administrator.
`Die` and `Error` are never fair, and nothing is assumed of the beat, which cannot
start as the settings are (`config/settings.py:176`). Two further specifications
serve the table of divergences only: `BeatingTaskSpec` adds a beat, to show that
`FailedLetterIsRetried` fails even so; `FairAccountSpec` has the requests, the
ageing of tokens, each letter and the clean-up fair, of which the last says nothing
while `BeatStarts` is FALSE.

## 4. Proofs

Eight modules hold theorems. TLAPS checks them for every value of the constants
that the named assumptions allow; TLC evaluates those assumptions in the runs.
Most theorems need nothing else: two tabs, lost invalidations, dying workers and
any number of imports are allowed. Where a property does need more, the theorem
has a named hypothesis:

| Hypothesis | Says | Theorems | Why it is needed |
|---|---|---|---|
| `OneRequestEach` | a buyer has one request under way at most | `CheckoutKeepsClosedLedger`, `StockAndOrdersAddUp` | with two tabs a placed order changes (`order_changed`) |
| `~ CacheFaults` | no invalidation is lost and no worker dies before it | the same | a stale cached cart is sold again (`sold_again`) |
| `OneWorker` | one import runs at a time | `OnePriceListAtATime`, `SuccessIsExact` | two imports of a shop delete and create beside each other |
| `NamedApart` | the shops of the start have different names | the same | `Shop.name` is not unique in the database |

The hypotheses are those of the runs that check the same properties
(`two_buyers` and `one_tab`, `one_worker`). What holds of two tabs, of a lossy
cache and of two workers is proved without them, in `CheckoutProofs`,
`TabsProofs`, `BrowseProofs`, by `NamesAreBounded` and in `ProcurementProofs`.

### CheckoutProofs

`CheckoutProofs` proves, for any number of buyers, requests, orders, rows,
products and addresses, with an unreliable cache:

| Theorem | Property |
|---|---|
| `TypeCorrect` | `CheckoutTypeOK`, with it that no stock becomes negative |
| `SnapshotsStayCurrent` | `SnapshotCurrent` |
| `IntegrityHolds` | `Integrity` |
| `HandlersStayConsistent` | `HandlersConsistent` |
| `OwnershipHolds` | `Ownership` |
| `StockMoves` | `StockMovesWithAnOrder` |
| `PlacedStaysFinal` | `PlacedIsFinal` |

The assumptions are `StoreAssumption` and `CheckoutAssumption`, which say what
the constants are.

**Argument.** None of the invariants is inductive alone, so they are proved
together, as `IInv`. The stock stays a natural number because a confirmation
deducts what it read, and what it read covers the order and is still the stock
(`SnapshotCurrent`). That is so because nobody writes while a transaction is
open, which the locks say (`LocksHeld`, part of `HandlersConsistent`). That the
stock of every row can be read at all needs the foreign keys (`Integrity`). The
foreign keys survive a stale `save()` because a key is given out once
(`KeysFresh`) and a row never changes its order or its product, even if it is
deleted and saved again by several handlers (`StaleRowsFit`). The address of a
placed order exists because the confirmation checked it in its snapshot.

The proof has one lemma per conjunct (`NextTyped`, `NextLocks`, `NextKeys`,
`NextLocals`, `NextStale`, `NextSnapshot`, `NextRows`, `NextAddresses`), in each
one step per action that can disturb it. `Ownership` is inductive relative to
`IInv`; the two action properties follow from `IInv` and `Ownership`, by a
case per action that touches the stock or the orders.

### TabsProofs

| Theorem | Property |
|---|---|
| `CheckoutKeepsLedger` | `KeepsOpenLedger` |
| `CartsStayBounded` | `CartsBounded` |
| `ReleasedOrdersStayFrozen` | `FrozenOnceReleased` |
| `CacheStaleOnlyByLoss` | `StaleOnlyByLoss` |

They hold for any number of requests of a buyer at once, with a cache that fails
and workers that die.

`CheckoutKeepsLedger` states the refinement of the run `two_addresses`: under
the mapping of `CheckoutLedger` each step of `Checkout` is a step of the open
ledger or a stutter. It rests on `IInv`. A step that leaves stock, orders and
rows alone stutters; one that deletes or changes orders amends them
(`RestAmends`); only the commit of a confirmation moves the stock, and it moves
it by the order it places.

The other three rest on `TabsInv`, proved as `TabsInvariant`: `IInv`,
`Ownership`, that a cart has no address (`CartsUnaddressed`), which is why the
cascade of an address never takes a cart along, and what a handler may rely on
whatever the other tabs do (`Remembers`).

- *Carts.* A request is about to create a cart only if it found none. At that
  moment the count consists of such requests alone, each of them the buyer's;
  a creation turns one of them into a cart (`NextCartsBounded`).
- *Frozen orders.* A request of the cart comes to hold an order only by finding
  it as a cart, and writes only rows of the order it holds. So an order that is
  placed while none holds it is taken up by none, and its rows stay.
- *The cache.* Each step that changes the carts of a buyer ends where an
  invalidation is owed, so `Covered` is lost only in a step that drops such a
  debt and leaves the cached answer as it is.

### OneTabProofs

| Theorem | Property | Hypotheses |
|---|---|---|
| `CheckoutKeepsClosedLedger` | `KeepsLedger` | `OneRequestEach`, `~ CacheFaults` |
| `StockAndOrdersAddUp` | `Conservation` | `OneRequestEach`, `~ CacheFaults` |

**Argument.** The handlers of the cart take no lock, so what carries these
properties is that the orders of a buyer, and the rows of them, are written by
requests of that buyer alone (`OnlyOf`, from `Ownership`). If there is one such
request at a time, what it has read about them is true until it writes. `Knows(r)`
says this place by place: the cart that was not found is still not there, the
cart that was found is still a cart, the rows and orders collected for a deletion
are still there. It makes up `TabInv`, together with `IInv`, `Ownership`,
`SingleBasket` and that a cart has no address (`CartsUnaddressed`), which is why
the cascade of an address never takes a cart along. The steps of the other
requests leave it alone (`OthersKnow`, `TabInvariant`).

`CacheInv` adds that the cached query tells the truth unless its buyer's request
is about to drop it, and that what a confirmation sells is a cart
(`CacheInvariant`). So a commit
places an order that was not placed before (`CommitIsSale`), and every other step
at most takes orders away (`RestIsCancel`), which is a step of the closed ledger.

`Conservation` speaks of a sum over the orders. The library's induction
theorems cannot be used (see below), so the module proves what it needs of
`SumFunction` from the well-foundedness of strict inclusion on finite sets,
which is a statement without operator parameters: of a nonempty set of finite
sets one is smallest (`SmallestSet`), hence induction over the subsets of a finite
set in the order in which the fold takes its elements (`SetInduction`), with the
property given as a set. From it: the recursive function of the fold exists
(`SumsExist`), the sum is a number (`SumIs`), does not grow if no term does
(`SumMonotone`), and grows by one term if that term grows from nothing (`SumGrows`).
A sale then adds to the sum what it takes from the stock (`SellAdds`); a
cancellation takes away from the sum (`CancelLessens`) and needs a deleted address
(`NoneDisappears`).

### BrowseProofs

`ListsMissNothing` (`ListComplete`) and `PagesShowWhatIsSold` (`ShownIsSold`) hold
for any products, offers, shops, filters and lifetimes, however many invalidations
are lost. The inductive invariant `BrowseInv` says that an answer is younger
than its lifetime (`AgesBounded`) and is right about every offer that has not
changed since it was given, or of whose change Redis was told
(`OlderChangesSeen`): one whose `since` exceeds the age of the answer. An
unheard change sets `since` to 0, both count ticks from then on, and an
invalidation drops all answers. An offer whose last such change is a lifetime
old is therefore shown as it is; for the lists that follows from what the joins
of the filters compute.

### AccountsProofs

| Theorem | Property |
|---|---|
| `AccountsHaveTypes` | `AccountsTypeOK` |
| `AccountsAgree` | `AccountsFit` |
| `ActivationIsEarned` | `ActiveWasConfirmed` |

They hold for any number of users, tokens and requests and with a lossy cache,
from `AccountsAssumption`. The properties speak of the tables, but a save may
write a row its request read long before, or insert it again when it is gone,
so the invariant has to follow every copy of a row. It does so by a function
`home` from primary keys to addresses: the address of an account is given when
the account is created and no code changes it. Each copy, in the table, in the
cache or in the locals of a request, has the address of its home and is active
only for a reason that lasts (`CopyOf`); the letter of a token went to the home
of its user (`TokensFit`); a registration before its commit knows that its
address is free, because it holds the lock (`Pending`). `AccountsInv` says that
such a function exists. A step extends it when it creates an account and
otherwise keeps it (`Grows`), so what is known of a copy is never lost
(`CopyKept`, `RequestKept`). There is one lemma per action.

### OrderTasksProofs

| Theorem | Property |
|---|---|
| `TasksKeepTypes` | `TaskTypeOK` |
| `TasksKeepReferences` | `OrdersFit` |
| `StockMovesWithConfirmation` | `ConfirmedTogether` |

They hold for any number of tasks, orders, goods and addresses, from
`TasksAssumption` and `FirstTablesAssumption`: the tables a run starts with fit
together, which `IntegrityHolds` proves of those the API leaves. In `TaskInv`,
what a task inside a transaction has read is true and suffices (`Current`),
because whoever writes finds nobody inside one (`LocksFit`, `TaskKept`). What a
status update has read may be out of date. It only has to be a row
(`TaskFits`), because its address is checked when it is saved.

### ImportProofs

| Theorem | Property |
|---|---|
| `ImportKeepsTypes` | `ImportTypeOK` |
| `ImportKeepsCatalogue` | `CatalogueIntegrity` |
| `NamesAreBounded` | `NamedAtMost` |
| `OnePriceListAtATime` | `Unmixed` |
| `SuccessIsExact` | `ImportedExactly` |

The first three hold for any number of jobs and workers, shops and price lists, from
`ImportAssumption`: what is a price list, and that the service starts without
goods. Between two statements of a job any other job may write. What the job
holds on to are keys: those of shops, products and parameters stay good because
no statement deletes such a row (`Grows`, `JobKept`); the key of a good may go
stale, which `Describe` meets with an `IntegrityError`. `ImportInv` says what a
job knows at each place (`JobFits`), and that the keys of goods below `nextInfo`
alone are in use. Only three actions touch goods: the deletion, which takes
along what refers to them by then (`DeleteGoodsFits`), the insertion, guarded by
`unique_product_info` (`CreateInfoFits`), and the description
(`DescribeFits`).

`NamesAreBounded` counts, for each name of a shop, a product or a parameter, the
new rows and the jobs that are about to insert one (`CountInv`). A job gets
there only if it finds no row, and at that moment the count holds jobs that run,
of which there are `Workers` at most (`FewRun`); an insertion turns a job into a
row; everything else takes away from the count.

The last two have the hypotheses `OneWorker` and `NamedApart`, still with any
number of jobs in a row, with failures, retries and killed workers. The
inductive invariant `ExactInv` rests on the running job being the only writer
(`OneRuns`): what its `get_or_create` has not found is not there when it inserts
(`NoneFound`), and the goods of its shop are those of the file it has come to
so far, each once, with their parameters, and as many as it has counted
(`Progress`). A job that fails leaves what it has stored, which is a part of one
price list; the next one begins by deleting it. `SuccessIsExact` reads the claim
off `Progress` at the end of the file.

### ProcurementProofs

| Theorem | Property |
|---|---|
| `BothKeepTheirPromises` | `SideBySide` |
| `SnapshotsSurviveImports` | `SnapshotCurrent` |
| `IntegritySurvivesImports` | `Integrity` |
| `StockReplacedOrSold` | `StockIsReplacedOrSold` |

They hold for any number of buyers, connections, jobs and workers at a time, with a
cache that may fail, from the assumptions of both components and
`ProcurementAssumption`: the tables of the start agree. The invariant `ShopInv` is
`IInv` and `ImportInv`. The steps of one side have to keep the other side's part:

- Buyers change of what imports rely on only the quantities of goods that are
  there (`BuyersKeepGoods`); in particular no confirmation writes back a good
  that was deleted after it was read, because its snapshot is current.
- An import creates goods and deletes them with the rows that refer to them
  (`ImportWrites`), and only while no transaction is open. So no snapshot is
  disturbed, and what is left refers to goods that are left
  (`ImportsKeepBuyers`). A stale `save()` of a row
  whose good has gone finds no row to update, and its INSERT meets the foreign
  key.

### Only model-checked

- Liveness (`Answered`, `Settled`, `TasksEnd`, `ShutOut`, `StaleEnds`): the prover has no rules for fairness and ENABLED.
- `CacheCoherent` and `SoldOnce` of the runs with a cache that loses nothing, and
  `NamedOnce` for one worker: the proofs of the ledger and of `Unmixed` have
  them inside their invariants, and what holds beyond those conditions is
  stated by theorems of its own.
- That the divergences of section 3 occur: counterexamples come from TLC.

Induction over data is beyond the library's theorems here, because the installed
provers cannot instantiate an operator parameter. Where it was needed, for the
sum in `Conservation`, it is replaced by an argument with a smallest
counterexample, as described under `OneTabProofs`.

## 5. Not modelled

| Part | Why |
|---|---|
| Throttling (`users/throttles.py`) | the repository names rates; the counters are the framework's, in the memory of each process |
| The partner's list of orders (`products/views.py:162`) | it raises a `NameError` (a name that is not imported) whenever the partner has a shop |
| Performance page, debug view | they read, measure and report |
| Thumbnails (`products/tasks.py`) | file conversion by a library |
| The administrator's forms of shops and products | Django's generic forms over the tables; in `Browse` they are among what changes offers and shops |
| The protocol of social sign-in | it is social-auth-app-django's; the account and the tokens it ends with are modelled |
| Settings, WSGI, Docker | constants and wiring; the settings the models depend on are in the map |
| Migrations | generated from the models; the constraints are in `Store`, `Import` and `Accounts` |
| `cart/urls.py` | empty; the routes are those of the docstring of `CartView` |
| `send_admin_notification_email` beside its rendering, `send_password_reset_email`, `load_yaml_from_file`, `load_json_from_file` | they have no caller |

In the modelled parts: in `Browse`, reading the tables and storing the answer is one
step, a reader who stores late being one of the cases of `LoseInvalidation`; cached
queries on `Shop` and `Category` are not modelled, since what they answer decides
only what is displayed; texts, prices of orders, paging and ordering are left out
throughout. The run `one_worker`, in which every import comes to an end, lets the
database be locked at any write, but has no buyers in it: how often they would
make an attempt fail is not asked.

## 6. Plan

The invariants, action properties and refinements that say most are proved; what
is left is to widen the hypotheses where the code allows it.

1. `ImportedExactly` for one worker beside buyers: `ExactInv` together with
   `ShopInv`. It has to be restated for that, since a confirmation may sell pieces
   of a new good before the import ends.
2. `FrozenOnceReleased` and `CartsBounded` beside imports: an import deletes rows of
   carts and orders, so that a frozen order is one "changed by an import only".
3. `Conservation` for two tabs and a lossy cache: a bound by the number of lost
   invalidations instead of an equation.
