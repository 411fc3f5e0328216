# MercadoExpress: verification project

MercadoExpress is a small online shop: a FastAPI backend on PostgreSQL
(`src/backend-api`) that owns every fact about products, stock, orders, payments
and shipments, and a Django storefront and admin panel (`src/front-end`) that is
an HTTP client of it. This directory holds TLA+ models of the backend, of the parts of
the storefront that keep state, and of the schema's migrations and the loader; the TLC
configurations that check them; and TLAPS proofs about them.

All paths below are relative to the repository; `app/` is `src/backend-api/app/`.

## 1. Inventory

| Component | State | Operations | Interacts with |
|---|---|---|---|
| Orders (`app/services/order_service.py`) | `orders.status`, `order_items`, `order_status_history` | create, checkout, cancel, manual transition | Inventory (reserve, release), Payments (checkout), Shipments (cancels an undispatched one), ledger (reversal) |
| Inventory (`inventory_service.py`, `inventory_repository.py`) | `inventory.quantity_on_hand / quantity_reserved`, `inventory_history` | reserve, release, fulfill, adjust, set levels | called by Orders and Shipments; staff |
| Payments (`payment_service.py`) | `payments`, `sales` (append-only ledger) | create payment | moves `pending -> paid`; `PaymentGateway` port |
| Shipments (`shipment_service.py`) | `shipments` | create, edit, ship, deliver | moves `-> preparing -> shipped -> delivered`; fulfils stock |
| Transactions (`app/db/session.py`) | one session per request | commit, rollback | everything above |
| Reports (`report_service.py`) | per-process cache | summary | reads ledger, orders |
| Catalogue (`category_service.py`, `product_service.py`, `product_image_service.py`, `integrations/storage.py`) | rows, and image files on disk | create, update, deactivate, delete, upload | Orders name products; the panel lists categories page by page |
| Auth, customers, addresses (`auth_service.py`, `customer_service.py`, `front-end/services/auth.py`) | users, addresses; tokens and role in the browser's session | register, seed the admin, login, logout, addresses | dependencies of every endpoint; orders and shipments name addresses |
| Schema (`backend-api/alembic`) | tables, types, constraints, and the rows that data migrations rewrite | upgrade, downgrade | every row above |
| Storefront (`front-end/apps/cart`, `apps/orders`) | session: cart, token, role | cart edits, checkout, reorder | HTTP to the backend, 5 s timeout, no retry |
| Admin panel (`front-end/apps/adminpanel`) | none of its own | stock, order and shipment forms | HTTP, read-then-write of stock levels |
| Loader and seeds (`app/scripts`) | bulk rows | idempotent load | writes orders and stock directly |

What is hard here:

* **Concurrency.** Each request is one transaction at READ COMMITTED. Correctness
  rests on `SELECT ... FOR UPDATE` of the order row and of each inventory row, on
  re-reads under those locks, and on unique constraints. Two endpoints
  (`POST /payments`, `PATCH /shipments/{id}`) take no such lock.
* **Deadlock.** Stock rows are locked one by one in the order of the client's cart.
* **Failure.** Any statement may raise; `get_db` must undo all of the request.
* **Clamps.** `release` and `fulfill` use `max(0, ...)`: a double release would be
  silent and eat another order's reservation.
* **Long sequences.** Staff corrections, refunds, customer cancellations and
  shipments can follow each other in many legal orders.
* **Files and rows.** Image files are written before, and purged before, their rows commit.
* **Checks before inserts.** Names, SKUs, e-mails, categories and addresses are looked up
  first and used later; only constraints decide between two requests.
* **Bulk writers.** The loader, the seeds and the data migrations write the rows that the
  services otherwise keep consistent, over a database that is in use.
* **The client.** The session is loaded and saved whole, a late answer looks like a
  failure, and stock levels are read, edited and sent back as absolute values.

`PROJECT.json` lists each hazard with its line and the properties that cover it; a
hazard that no property covers has a note saying why.

## 2. Modules

| Module | What it is |
|---|---|
| `OrderFlow` | The serial specification: one action per endpoint that writes, each a whole request. |
| `OrderTxns` | The same requests as concurrent transactions: unlocked reads, lock steps, checks, flushes, commit, rollback. Extends `OrderFlow`, whose variables are the committed rows. |
| `StorefrontCheckout` | One visitor of the storefront: the session with cart and wishlist, the workers that load and save it, and checkout calls in front of `OrderFlow`, which it extends and implements. |
| `Reports` | The dashboard's summary and its cache, over the ledger of `OrderFlow`, which it extends. |
| `StockPromise` | The abstract specification: what the shop promises about the units of an order, without counters, payments or shipments. `OrderFlow` implements it. |
| `Catalog` | Categories, products, images and their files: concurrent staff requests, the demo seed, and the paged listing. |
| `Accounts` | Registrations and the admin seed, the session of a browser, and the addresses that orders and shipments name. |
| `OlistLoader` | The Olist loader over a shop in use. Extends `OrderFlow`, whose requests go on between two loads. |
| `Migrations` | The nine Alembic revisions, up and down, over the rows that each version of the application wrote. |
| `MCOrderFlow`, `MCOrderTxns`, `MCStorefrontCheckout`, `MCReports`, `MCCatalog`, `MCAccounts`, `MCOlistLoader`, `MCMigrations` | Values and symmetries for TLC. |
| `OrderFlowProofs` | Proofs about `OrderFlow`: types, shipments, ledger, final states, history; its stock: exact reservations, no overselling, conservation; and that it implements `StockPromise`. |
| `OrderTxnsProofs` | Proofs about `OrderTxns`: who holds which lock, what the races leave intact, and serializability of the locking endpoints. |
| `StorefrontCheckoutProofs` | Proof that `StorefrontCheckout` implements `OrderFlow`, and proofs about the cart and its orders. |
| `ReportsProofs` | Proofs about `Reports`: how old, how consistent and how ordered the answers are. |
| `CatalogProofs` | Proofs about `Catalog`: unique names, no dangling rows, files and rows, complete listings. |
| `AccountsProofs` | Proofs about `Accounts`: the role of a session, the address of an order. |
| `MigrationsProofs` | Proofs about `Migrations`: tables, types, rules and rows at every step of every run. |
| `OlistLoaderProofs` | Proofs about `OlistLoader`: what it brings in is sound and stays so, and a second run takes nothing back. |

### OrderFlow

Variables are columns: `status`, `items` (order lines, 0 for no line), `onHand`,
`reserved`, `payments` (rows by outcome), `ledger` (the kinds of `sales` rows:
`uq_sales_order_kind` makes them a set), `shipment` (status, and whether it has a
tracking number), `history`. `stocked` is a ghost over a real table: initial stock
plus `after - before` of every row of `inventory_history`; it makes conservation of
units expressible. Stock that comes in only does so through `AdjustStock` and
`SetLevels`, so `Init` starts with no orders and any stock up to the bound (what is
reached by creating products, whose row starts at zero, and stocking them).

| Action | Request | Code |
|---|---|---|
| `CreateOrder` | `POST /orders` | `OrderService.create_order` |
| `Checkout` | `POST /orders/checkout` | `create_order`, then `create_payment` in the same transaction |
| `CreatePayment` | `POST /payments` | `PaymentService.create_payment` |
| `TransitionStatus`, `Cancel` | `PATCH .../status`, `POST .../cancel` | `transition_status` with `record_reversal`, `cancel` |
| `CreateShipment`, `UpdateShipment`, `MarkShipped`, `MarkDelivered` | `/shipments` | `ShipmentService` |
| `AdjustStock`, `SetLevels` | `/inventory` | `InventoryService` |

A refused request (404, 409, 422) rolls back and is no step. Abstracted: money,
addresses, ownership, who acts, wording, the carrier's name and the time stamps
(they follow the status). Every product is taken as active, which allows more orders
than the code does. A cart is a function from products to quantities: a cart that
names a product twice is refused by `uq_order_items_order_product`. `ShipmentStatus`
and `PaymentStatus` have the members the code writes; a payment whose gateway
answers anything but `completed` counts as `failed`, since the code treats them
alike.

`StockPromise` has three variables: the `phase` of an order (nothing, its units held, sent,
called off), its `units`, and the `free` units of each product. `Promise` in `OrderFlow` is
its instance under the mapping `phase <- PhaseOf(status)`, `units <- items`,
`free <- onHand - reserved`: creation and checkout are `Accept`, a cancellation or refund
is `CallOff`, a dispatch is `Dispatch`, manual stock is `Restock`, and payments,
shipments in preparation, edits and deliveries are no step of it.

### OrderTxns

`tx[t]` is what session `t` runs: its request, where it is (`at`), the row locks it
holds, and `saw`, the shipment it read. Steps:

* `Begin` makes the unlocked reads and their checks (all of `create_payment`'s and
  `update_shipment`'s checks are here, which is the point of the model).
* `LockOrder` is `get_with_items(for_update=True)` with the checks that follow it.
  `mark_shipped` and `mark_delivered` refresh the shipment in this step.
* `LockStock` locks one inventory row and checks it; rows come in any order, which
  includes every order of a client's cart.
* `InsertPayment` and `FlushPayment` are the insert (whose foreign key shares the
  order's key with `FOR KEY SHARE`, so it waits for a `FOR UPDATE`) and the last flush
  of `create_payment` (an `UPDATE` of the order and the sale, which
  `uq_sales_order_kind` may refuse).
* `FinalFlush` is the last flush of the others; it waits for the shipment's row when
  it updates one.
* `Commit` publishes the writes, which are the `Write...` operators of `OrderFlow`.
  The rows a transaction writes are locked from its read or flush to its end, so
  computing them at the commit gives what it flushed. What was read without a lock is
  used as it was seen: a payment records `pending` as its `from`, and an edit or a
  dispatch leaves a tracking number alone if it saw it already as it wants it, since
  SQLAlchemy updates only changed attributes. (An edit that replaces one number by
  another is not told apart from one that keeps it.)
* `Abort` rolls back at any step: an exception, a lost connection, a stopped worker.

PostgreSQL is external: `Conflict` is its table of row-lock conflicts and
`DeadlockVictim` its deadlock detector, which acts on a session all of whose next
steps wait for sessions in the same circle.

`Serial == Spec` states that `OrderTxns` implements `OrderFlow` for the variables
they share: every commit is an enabled `OrderFlow` action.

### StorefrontCheckout

`session` is the row of `django_session`: the cart (0 units for a key the dict does not
have) and the wishlist. `work[w]` is the request worker `w` serves, with the copy of the
session it loaded (`mem`) and the number of the save it comes from (`row`); `SaveSession`
writes that copy back whole, which is what Django does when `session.modified` is set. An
uncaught `ApiError` is a 500, after which Django saves nothing (`TurnBack`).

A checkout is `SendCheckout` (after the view's own checks), then one of `Confirm` (201:
the cart is cleared), `ShowNoStock` (409), `ShowFailure` (any other error, or the 5 s
timeout of `services/api_client.py`, at any moment of the wait) and `KillWorker`. On the
other side `HandleCheckout` passes the checks, flushes, holds the inventory rows, and
answers; `CommitCheckout` is the exit of `get_db`, with the whole `WriteCheckout` of
`OrderFlow`; `DropCheckout` is a stop of the backend. The answer comes before the commit
because `get_db` is a dependency with `yield` and the FastAPI that `uv.lock` pins runs its
exit after the response. Staff change stock, reverse orders and withdraw products in
between (`StaffAdjust`, `StaffReverse`, `SetActive`).

Each checkout of the visitor has its own name in `Order`, so a retry and a second tab are
new names over the same cart. Abstracted: sign-in and addresses (`Accounts`), prices, pages.
Deleted products are left out: those of an order cannot be deleted (`NoDangling` of
`Catalog`).

### Reports

`reading[v]` is a summary under computation: the statement that comes next and what the
earlier ones saw. Orders are paid and refunded between two statements (`Trade`, whole
requests of `OrderFlow`), as READ COMMITTED allows. An amount is one per order, so a sum
is known from the ledger rows it saw; `since` is the time each row was committed. `Fresh`
is the test of the age, `StoreSummary` overwrites the cache, `Restart` loses it. The cache
is that of one process and one `top_products_limit`; the three counts, which the code
relates to nothing, are left out.

### Catalog

`category`, `product` and `image` are the committed rows by identity (`None`: no row; a
UUID is never used twice, so `gone` is a ghost over it), `sold` the products an order
names, `disk` the product in whose directory each file lies. `tx[t]` is one request:

* `Begin` makes its unlocked reads and checks (`PassesChecks`) and keeps what it saw: the ORM
  updates the columns that differ from what was read, and a deletion of a category takes the
  parent from the children it had loaded (`Orphans`), even if they were moved since.
* `WriteFile` is `LocalDiskImageStorage.save`, before the row of an upload.
* `Flush` waits for the row and index locks of sessions that flushed (`Locks`, `Conflict`)
  and then meets the constraints (`MeetsConstraints`) or rolls back.
* `Purge` is the `rmtree` of a deleted product's directory, after its flush and before its
  commit. It ignores errors, so that any of the files may stay; `Commit` publishes; `Abort`
  rolls back at any step and leaves the files.

`StartListing` (the count), `ReadPage` (the select of one page) and `EndListing` are the
panel's `list_all_categories`; `outdated` says that categories changed since the count.
`recorded`, `spared` and `stuck` are ghosts that properties need: the files that a row once
named, the products whose deletion failed after its purge, and the files a purge left. A
category may be its own parent, which only the form of the panel keeps out. `create_order`
appears as the insert of an item (`OrderRequest`), `seed_demo_data` as `SeedRequest`.
Abstracted: prices, descriptions, activity, alternative texts, search filters, and stock
(a product's inventory row goes with it). PostgreSQL and the disk are external.

### Accounts

`users` holds the rows, `held` the roles each user has had (a ghost). `Register` and
`SeedAdmin` look for the e-mail; `InsertUser` and `Promote` write; `Provision` is a
change made in the database, which is how staff accounts come to be (external).
`session` is the token, which stands for its user, and the cached role of one
browser; `work[w]` is the request of a storefront worker with the copy it loaded. Logging in
is `OpenLogin`, `Authenticate`, `ReadRole`; `Logout` and `EditCart` (any request
that changes the session) save the copy whole; `FailPage` saves nothing. `owner`, `shipTo`,
`sentTo` and `panel` are an address's customer, an order's customer and address, a
shipment's address, and the address that the panel read from an order before it creates
the shipment.

### OlistLoader

`tables` is what `transform` makes of a folder: one record per accepted order, computed
from `CsvOrder` (its status, its dates, valid or missing customer, lines and payments) by
`Rejected`, `Paid`, `Steps` and `HistoryOf` as the code does; a history is read in the order
of `created_at`, in which every step has its `Rank`. `LoaderInit` takes every folder
within the bounds, the same at every load (identities are `uuid5`). `Load` is `save`: one
transaction, `ON CONFLICT DO NOTHING`, with the lookup of the category names (`Resolved`). A
run that fails changes nothing and is no step, whatever stopped it: the lookup's `KeyError`, a
row of another origin with the e-mail, SKU or order number of a new row (which is skipped, so
that the rows that refer to it break their foreign key), or the end of the script. Between loads `Shop` is any request of `OrderFlow` on the rows there are, and
staff create, rename and delete categories, move products and delete those that no order
names. Rows that appear twice in a folder, and the pending payment rows of unpaid orders,
are abstracted; a changed folder is left out (section 6).

### Migrations

`db` holds the tables, the native enum types, the rules (uniqueness and checks) in force and,
per order, the three facts that data migrations rewrite: its status, the kinds of its
`sales` rows and its shipment. `Up(r)` and `Down(r)` are the operations of revision
`r` in their order. `Begin` starts `alembic upgrade head` or a downgrade; `Execute` does one
operation if `CanExecute`, `Stamp` moves to the next revision, and the whole run, which
`env.py` makes one transaction, is rolled back when an operation is refused (`Fail`) or alembic
is stopped at any statement (`Interrupt`). Between runs the application of the
present revision writes (`Place`, `Pay`, `Prepare`, `Send`, `Deliver`, `Close`), older
versions with what they allowed: orders that awaited their payment, shipments that
were pending or had no date, cancellations that left the sale and the shipment alone.
Columns and indexes that neither rewrite nor refuse rows are abstracted, among them the
column `sales.kind` and the indexes of the last revision. Nothing writes
during a run: `backend-api/docker-compose.yml:44` migrates before the application starts.

## 3. Runs

| Run | Instance | Shows |
|---|---|---|
| `order_flow` | 2 orders, 2 products, up to 2 units per line, stock up to 2, one payment of each outcome, a gateway that may refuse | the serial invariants of section 4, `FinalIsFinal`, and the refinement `KeepsStockPromise` |
| `tx_locking` | 2 orders, 1 product, 2 sessions, every endpoint but `pay` and `update_shipment` | `Serial`: the locked endpoints are serializable |
| `tx_races` | 2 orders, 1 product with at most one unit, 2 sessions, every order endpoint but `checkout`, `update_shipment` and `deliver` | `SoldOnce`, `OnlyPaymentIsStale`, `NoOversell`, `ExactUnlessRevived` |
| `tx_liveness` | 2 orders, 2 products, 2 sessions that create, cancel and pay | `RequestsEnd`, through real deadlocks |
| `store_image` | 1 worker, every operation of the visitor, 2 checkouts, 1 product with up to 2 units in the cart and 1 on the shelf, 3 saves | `OneOrderPerCart`, `CartBecomesOrder`, `OrdersAsPromised`, `CheckoutsEnd` |
| `report_cache` | 1 order, 2 viewers, cache time 2, computations of at most 1, clock to 4 | `StaleByAtMost`, `RegionsAreNewer`, `GeneratedNeverGoesBack` |
| `catalog` | 2 categories, 2 products, 3 files, 2 names, 2 SKUs, 2 sessions, one category per page, four sets of endpoints called together | `NoDuplicates`, `NoDangling`, `FilesFollowRows`, `ListingComplete` |
| `accounts` | 2 users, 2 mailboxes, 1 address, 1 order, 2 writing sessions, 2 workers, 1 change in the database | `RoleIsOwn`, `ShippedToCustomer`, unique accounts (`AccountTypeOK`) |
| `olist_loader` | every folder of 2 orders of one unit with 2 different dates and up to 2 payments, 1 product, stock up to 2 | `ImportedStock`, `ImportedOrders`, `ReloadKeeps` |
| `migrations` | 2 orders, all nine revisions, any sequence of upgrades and downgrades | `RulesStayEnforced`, `OnlyDatesStop`, `RowsAsMigrated` |
| `tx_oversold`, `tx_untracked` | the smallest instance that shows it | violations, see section 6 |

Why the bounds are enough. Two orders and two units are what it takes for one order's
release or dispatch to eat another's reservation, and two products what it takes for
two carts to deadlock. Two sessions show every race between two requests, and the second
order of `tx_races` is the one that takes the units a stale payment should have. `tx_races`
leaves out `checkout` (a creation and a payment of an order nobody else can see yet) and
`deliver`, which `tx_locking` has, and `update_shipment`, which `tx_untracked` has. `MaxStock`
bounds what a manual change leaves; `MaxPayments` bounds payment rows of one outcome,
so that failed payments, which the code allows without limit, stay finite: the model
has one failure before the success. An order's statuses have no cycle, so histories
are finite by themselves (except for stale payments, which the unique sale bounds).
Orders, and sessions, are interchangeable, so symmetry is used for safety; the
runs with a liveness property use none. Deadlock is checked in every run but
`report_cache`, whose clock and orders come to an end, and `catalog`, where identities are used
up: elsewhere staff can always change stock, an idle session can always begin or abort, and
a migration can always go down and up.

`store_image` has one worker because the image of the storefront runs gunicorn with its
default, one synchronous worker. A second checkout still overlaps a first one that timed
out and that the backend goes on with. With two workers (or `manage.py runserver`, which
the README recommends and which serves each request in a thread)
`OneOrderPerCart` and `CartBecomesOrder` do not hold: two tabs may check out the same
cart, or add to it while it is bought, since nothing orders the saves of a session. No
document of the repository promises otherwise, so this is recorded here and not as a
difference. `MaxSaves` bounds the requests that may save the session: three let a cart be
filled, bought and bought again or filled meanwhile. In `report_cache` the clock runs for
a cache time and two computations, so that a summary is stored, served at the end of its
life and replaced; one order goes through a sale and a reversal, the two rows the parts of
a summary can disagree about.

`catalog` has two of everything that two requests can fight over and a third file, so that
a product has two images and a detached file while another is uploaded; one category per
page makes a list of two pages. That leaves the rounding of the count of pages to
`ListingsAreComplete`, which is proved for every page size: a last page that is not full needs three
categories, which is too many states for two sessions. The four sets of `Together` group the
endpoints that touch the same tables; in one behaviour only those of one set are called. That leaves out some
pairs, such as an edit of a product against its deletion, where the lock of the one row they
share leaves a winner and the ORM refuses the other; the theorems of `CatalogProofs` have no
such groups.
In `accounts` two writers, two workers (two tabs) and two users are what a race needs, and one
address is deleted under an order; visitors type in lower case, while the configured
admin e-mail has capitals, so both spellings meet. In `olist_loader` the folder names both
orders, so that the shop's requests act on imported orders only: two of them can hold the
unit of one product, and two dates put an approval before the purchase or after the
dispatch. `migrations` has one order per version of the application that may have written
it, and no bound on the number of runs.

Fairness (`TxFairness`), only in `tx_liveness`: strong fairness of each session's next
step, because PostgreSQL queues the waiters of a lock and a granted statement ends, so
a step that is possible again and again is not passed over for ever; weak fairness of
the deadlock detector, which runs after `deadlock_timeout`. `Begin` and `Abort` have no
fairness: no request has to arrive and nothing has to fail.

Fairness (`Fairness` of `StorefrontCheckout`), only in `store_image`: weak fairness of a
worker's steps, since httpx ends every wait and a view returns, and of the backend's steps
on a call it accepted. Kills and drops have none.

## 4. Properties

Serial (`OrderFlow`): `ReservationExact` (the reserved count is exactly what open
orders hold), `NoOversell`, `StockConserved` (units in = units on the shelf plus units
dispatched), `LedgerMatchesPayments`, `ShipmentMatchesOrder`, `HistoryChains` (the
history is an unbroken chain of legal changes that ends in the present status),
`FinalIsFinal`, and `TypeOK`. `KeepsStockPromise` is the refinement: whichever way an order
goes, its units are taken at once out of free ones, and come back or leave exactly once.

Concurrent (`OrderTxns`): `Serial`, `SoldOnce`, `OnlyPaymentIsStale` (the one status
change that can act on a stale status is a payment, and what it can miss is a
cancellation), `ExactUnlessRevived` (apart from that, everything stays exact),
`RequestsEnd`, `TxTypeOK`.

Storefront: `OrdersAsPromised` (orders and stock still change one whole request at a
time, although the answer precedes the commit: the row locks are what makes it true),
`OneOrderPerCart`, `CartBecomesOrder`, `CheckoutsEnd`, `StoreTypeOK`. Reports: `StaleByAtMost`, `RegionsAreNewer`, `GeneratedNeverGoesBack`,
`ReportTypeOK`.

Catalogue: `NoDuplicates` (names and SKUs stay unique although every request looks first and
inserts later), `NoDangling` (no row names a row that is gone), `FilesFollowRows` (an image
has its file unless a deletion failed after its purge, and a deleted product leaves no file
that was ever shown but one its purge could not remove), `ListingComplete` (a paged list is whole unless categories changed
since it was counted), `CatalogTypeOK`. Accounts: `RoleIsOwn` (the cached role is one of the
session's own user), `ShippedToCustomer` (an order and its shipment name an existing
address of the order's customer), `AccountTypeOK` (which includes one account per e-mail).

Loader: `ImportedStock` (the three stock invariants hold for invented stock, and stay),
`ImportedOrders` (ledger, shipment and history of imported orders are what the services
keep), `ReloadKeeps` (a second load leaves what exists alone), `LoaderTypeOK`. Migrations:
`RulesStayEnforced` (a unique column or the ledger's amounts are never unguarded, not even
between two operations), `OnlyDatesStop` (the one thing the database refuses a run for is a shipment
without its date, after whatever interrupted runs), `RowsAsMigrated` (after every run the rows are as the data migrations
promise, whichever version wrote them), `MigrationTypeOK`.

Every property of a passing run has a mutant of the code's model that breaks it
(`mutants` in `PROJECT.json`): a refund that does not release, a reservation checked
against units on hand, a dispatch that leaves the shelf alone, a lock that is not
taken, a missing unique constraint, and so on. Their operators stand before the
definitions they replace, each under a comment that starts with "Mutant of".

## 5. Proofs

TLAPS checks every theorem to its last leaf, for every value of the constants that the
modules' named assumptions allow: any number of orders (finitely many), products, sessions,
workers, viewers, rows and files, any bound and any gateway.

| Module | Theorem | States |
|---|---|---|
| `OrderFlowProofs` | `TypeCorrect`, `ShipmentsMatch`, `LedgerCorrect`, `HistoryComplete` | `Spec =>` `[]` of `TypeOK`, `ShipmentMatchesOrder`, `LedgerMatchesPayments`, `HistoryChains` |
| | `FinalKept` | `Spec => FinalIsFinal` |
| | `StockInvariant`, `ReservationsExact`, `NeverOversold`, `UnitsConserved` | `Spec => []StockInv`, and its three parts |
| | `PromiseKept` | `Spec => KeepsStockPromise`: `OrderFlow` implements `StockPromise` |
| `OrderTxnsProofs` | `TxInvariant`, `SessionsTyped`, `OrdersSoldOnce`, `TxNeverOversold`, `OnlyPaymentsAreStale`, `StockExactUnlessRevived` | `TxSpec =>` `[]` of `TxInv`, `TxTypeOK`, `SoldOnce`, `NoOversell`, `OnlyPaymentIsStale`, `ExactUnlessRevived` |
| | `SerialWithoutPayments` | `TxSpec => Serial` when neither `pay` nor `update_shipment` is called: the transactions implement `OrderFlow` |
| `StorefrontCheckoutProofs` | `StoreInvariant`, `StoreTyped` | `StoreSpec =>` `[]` of `StoreInv`, `StoreTypeOK` |
| | `StoreKeepsOrders` | `StoreSpec => OrdersAsPromised`: `StorefrontCheckout` implements `OrderFlow`, for any number of workers |
| | `OneRequestAtATime`, `CartsBoughtOnce`, `ConfirmedCartIsOrdered` | `[]OneAtATime`, `[]OneOrderPerCart` and `CartBecomesOrder`, when there is one worker |
| `ReportsProofs` | `ReportInvariant`, `ReportsTyped`, `PartsAreNewer`, `GeneratedIsMonotonic` | `ReportSpec =>` `[]` of `ReportInv`, `ReportTypeOK`, `RegionsAreNewer`; and `GeneratedNeverGoesBack` |
| | `AnswersAreRecent`, `AnswersAreRecentWithinATick` | `[]StaleByAtMost` when `CacheTime > 0`; `[]WithinATick` for every cache time |
| `CatalogProofs` | `CatalogInvariant`, `CatalogTyped`, `NamesAreUnique`, `RowsNameRows`, `FilesAndRows` | `CatalogSpec =>` `[]` of `CatalogInv`, `CatalogTypeOK`, `NoDuplicates`, `NoDangling`, `FilesFollowRows` |
| | `ListingInvariant`, `ListingsAreComplete`, `ListingsAreInOrder` | `CatalogSpec =>` `[]` of `ListingInv`, `ListingComplete`, and that such a list is `InOrder`: each category once, by name |
| `AccountsProofs` | `AccountsInvariant`, `AccountsTyped`, `SessionRoleIsOwn`, `AddressesAreOwn` | `AccountsSpec =>` `[]` of `AccountsInv`, `AccountTypeOK`, `RoleIsOwn`, `ShippedToCustomer` |
| `MigrationsProofs` | `MigrationInvariant`, `MigrationTypesProved`, `RulesStayEnforcedProved`, `OnlyDatesStopProved`, `RowsAsMigratedProved` | `MigrationSpec =>` `[]` of `MigrationInv`, `MigrationTypeOK`, `RulesStayEnforced`, `OnlyDatesStop`, `RowsAsMigrated` |
| `OlistLoaderProofs` | `LoaderInvariant`, `LoaderTypesProved`, `ImportedStockProved`, `ImportedOrdersProved` | `LoaderSpec =>` `[]` of `LoaderInv`, `LoaderTypeOK`, `ImportedStock`, `ImportedOrders` |
| | `ReloadKept` | `LoaderSpec => ReloadKeeps` |

### Assumptions

Each module names what it asks of its constants, and TLC evaluates it in every run. Three
theorems ask for more, in their statement. `SerialWithoutPayments` excludes the two
endpoints that do not lock the order; section 6 shows that it must. `OneWorker` is the
storefront's image (section 3); without it the two properties are false. `CacheTime > 0`: with
`REPORT_CACHE_SECONDS=0` nothing is cached and an answer can miss an entry committed in the very tick its
computation began in, so that `StaleByAtMost` is off by that tick, which `WithinATick`
allows. The assumptions of `Catalog` and `Accounts` say that identities of different kinds
differ and that the markers (`None`, `"none"`, `"deleted"`) are no identities or rows.

### The arguments

`OrderFlow`:

* `ShipmentMatchesOrder` is inductive with `TypeOK`; the others need it, because
  `mark_delivered` checks the shipment and not the order: that the order it delivers is
  `shipped` is known only through this invariant.
* The stock invariant is `StockInv`: types, shipments, and the three stock properties
  together. None of the three is inductive alone. A release subtracts with `max(0, ...)`
  and keeps the count exact only because the order's units are part of it; a dispatch
  keeps conservation only because what is reserved is on hand.
* `HeldUnits` is a set of numbered units, so that it needs no recursion. `CountSplit`
  splits it into the units of one order and those of the others, and `CountChange` says
  that a request which changes one order changes the count by that order's units.
  `Unmoved`, `Placed`, `Released`, `Shipped` and `Restocked` are the five things a
  request can do to stock; `StockExactKept` assigns each action to one of them. It asks of
  the shipments only that one in transit belongs to a shipped order (`OnItsWay`): that is
  also true of imported orders, so the loader's proofs use the same lemma.
* `HistoryChains` is proved order by order through `ChainExtends`: a legal change that starts at the
  present status extends a chain.
* `PromiseKept` needs `StockInv`: only with exact reservations does the `max(0, ...)` of a
  release or a dispatch cut nothing off, and then `onHand - reserved` moves as the promise
  says (`HeldAreReserved`). `PhaseMoves` and `PhaseKept` map status changes to phases;
  `AcceptMaps`, `CallOffMaps`, `DispatchMaps` and `RestockMaps` map the four kinds of
  step, and `PromiseStep` assigns each action of `OrderFlow` to one of them or a stutter.

`OrderTxns`: `TxInv` is what holds of the rows between any two commits (`RowInv`), that locks
which conflict are never held at once (`LocksExclusive`), and that what a session checked
under a lock still holds until it commits (`GuardedOK`). A commit therefore finds what its
request needs (`Granted`), except for the status of an order under payment, which was read without a
lock. A completed payment knows only that there is no sale yet, because its insert of the sale
waits for the other's and then fails: that keeps ledger and payments in step and orders sold
once, while stock stays exact only as long as no payment revived a cancelled order
(`NothingStale`). For `Serial`, a commit under the order's lock is shown to be the
request of `OrderFlow` with the same arguments, enabled on the rows of that moment;
`SawCurrent` adds that a dispatch writes the tracking number that is stored.

`StorefrontCheckout`: the answer of a checkout leaves before its commit. `FlushedSound` adds to
`StockInv` that nobody else moves the stock of a flushed call's lines, so that its commit is
still a whole `Checkout` of `OrderFlow`; every other step is one of its requests or a stutter.
With one worker, `OneAtATime` says that no one saves the session during a request, and that a
confirmed checkout is the end of the version of the session it came from.

`Reports`: `ReportInv` says of every computation, of the cache and of the last answer what it
may have missed: only what was committed since the computation began, and no later than the
clock lets a computation last. `CacheIsNewest` relates the cache to the last answer, and gives
`GeneratedNeverGoesBack` although viewers store in any order.

`Catalog`: a flushed request claims names, needs rows and drops rows (`ClaimsName`,
`NeedsCategory`, `DropsProduct`, ...). `Exclusive` says that two flushed requests neither claim one name
nor need what the other drops, which follows from the locks (`LocksCover`,
`NoConflictApart`); `Guarded` says that what the constraints found at the flush is still so,
and `CommitKeepsHeld` that no other commit can change it. So a commit meets its
constraints although they were evaluated before (`CommitKeepsRows`). For the
files, `UploadsSound` and `Identities` say that an upload's file is nobody else's, and that a deleted
product's identity never comes back; a deletion between its purge and its commit
(`Purging`) accounts for the files that are missing. The sorted list is defined by rank: as
many names come up to a category's as its place says. `NoDuplicates` makes ranks differ, so that by
pigeonhole every place has its category (`RankOnto`, `ByNameInOrder`). A listing that is not outdated has
read the first pages of that list (`PagesRead`), and `PagesNeeded` says that the rounded-up count of
pages reaches its end and that every page before begins inside it. Both the completeness and the order
of the list therefore need the uniqueness of names, which the locks give.

`Accounts`: `AccountsInv` says of the stored session, and of the copy each worker loaded,
that its role is one its token's user has had; a whole-session save then stores a sound
session whichever it overwrites. An address that an order names exists and has the order's
customer as its owner (`AddressesOwn`), because the insert's foreign key fails or blocks where the check was
too early.

`Migrations`: an operation makes sense only where the run is, so `MigrationInv` has to say what
the database looks like at each of some hundred points, on the way up and on the way down.
`Past(r, t, n, k, a, b)` does so for one effect: a run from `r` to `t` with `n` operations done
has what revision `k` makes with its `a`-th operation up and takes away with its `b`-th operation down.
`TablesAt`, `TypesAt`, `RulesAt` and `RowsAt` are then one line per effect. For each
revision a lemma up and a lemma down (`InitialUp`, ..., `DatesDown`) shows that every operation
finds what it needs and leaves what the next point says; `TablesKept`, `TypesKept`, `RulesKept` and
`RowsKept` take care of what a revision does not touch. Only the date checks can meet rows that refuse
them. A run that is rolled back, refused or interrupted, ends where it began (`InterruptKeeps`). `BeginsSame` and `StampsSame` say that the end of one revision is the start of the next,
and `RowFits` is what the application of each revision may write in between.
`RulesStayEnforced` is not inductive: it needs to know that a guarantee is dropped only after the
next one stands, which is an order of numbers in `RulesAt` (3i - 1 before 3i). `RowsAsMigrated`
needs the same of the rows: what the versions before `ledger` and `cancelled` left is caught by their
last operation up, and nothing of it can come back while the database stays above them.

`OlistLoader`: the shop goes on between two runs, so its invariant is one about `OrderFlow` too, weakened
to what imported orders satisfy: several completed payments, no tracking number, histories
read by date. `LoaderInv` adds what a later run relies on. Before the first run no product
has a row (`BeforeFirst`). After it every accepted order of the folder is there (`AfterFirst`),
with the lines it was brought with (`AsBrought`), so that a later run inserts no order, and a
product without a row is in no order and has no units (`NoRowNoUnits`). The units that a run
invents for a new product are therefore exactly those of the orders that name it: of the folder's
at the first run (`LoadUnits`), none later. `ImportedOrders` needs that `transform` makes sound
rows (`RowsSound`). Its hard part is the history. No two of an order's steps share a
`created_at` (`CreatedAtDistinct`; there are never ten of them, a tenth microsecond would meet
the next date of the model), so ranks differ, and by pigeonhole every position of the history
has its step (`RankOnto`): the `CHOOSE` of `HistoryOf` always finds one. When the dates do
not fall, a step's rank is its position (`RankInOrder`), the history is the list of
steps, and `StepsTell` says that these lead from nothing to the order's status. `ReloadKeeps` follows
from `AfterFirst`.

### Only model-checked

* Liveness under fairness, which is out of the prover's reach: `RequestsEnd` and `CheckoutsEnd`.
* The two violations of section 6, which are counterexamples.

## 6. Where the code differs from what it says

Two runs show a violation:

1. **Units sold twice** (`tx_oversold`). `create_payment` reads the order without the lock
   (`payment_service.py:49`), although `order_repository.py:25-29` says that every status
   change takes it first. Payment reads `pending`; a cancellation commits (stock released);
   the payment's insert, which was waiting, goes on and its last flush sets `paid` and
   writes the sale. The revived order holds no reservation, so another order can hold the
   same unit, and the clamps of `fulfill` hide it at dispatch (`backend-api/README.md:149,155-157` promises
   otherwise). The row's own promise (`NoOversell`) still holds.
2. **A dispatched shipment without a tracking number** (`tx_untracked`).
   `update_shipment` (`shipment_service.py:111`) neither locks the order nor re-reads the
   shipment, so an edit that clears the number can commit after the dispatch that kept it.

Reading the order with `for_update=True` in `create_payment`, and locking the order in
`update_shipment`, would put both among the endpoints `Serial` covers.

What else was found, which the models contain and no run singles out:

* *Checkout.* The view answers a timeout with "No fue posible crear el pedido"
  (`orders/views.py:210`) and `API_INTEGRATION_NOTES.md:96-97` says nothing is created; the
  backend goes on, and the cart is still full for a second order. The commit comes after the
  201 (`db/session.py:30`), so a confirmed checkout is lost if the backend stops in
  between. `order_reorder` does not look at `is_active`, although `cart/views.py:23-24` says
  that inactive products are not let into the cart; the checkout refuses them.
* *Reports.* `report_repository.py:78-80` and `schemas/report.py:54` say that regions add up
  to net revenue; the two statements see different states of the ledger, and `RegionsAreNewer`
  states what holds. The cache's age counts from the end of a computation, so a change can take
  the cache time and that computation to show, not the cache time alone
  (`report_service.py:22-23`); `StaleByAtMost` states the bound that holds.
* *Catalogue.* Two images of a product can have one position, after a concurrent upload or
  an upload after a deletion. A deletion that fails after its purge leaves rows without
  files (`ImagesHaveFiles` says when), an upload that races a deletion leaves a file without
  row, and so does a purge that cannot remove it. Parents can form a cycle, and through the API a
  category can be its own parent. A list read page after page can miss a category changed
  in between.
* *Accounts.* A deleted address of a paid order becomes NULL and the panel then refuses to
  ship (`adminpanel/views.py:242`). The API's own `create_shipment` accepts any address:
  `ShippedToCustomer` holds through the panel. A save of a whole session can bring back a
  session that another tab logged out.
* *Loader.* When staff rename the folder's category, its row keeps the identity that the new row
  would have, the lookup by name finds nothing, and every further run stops with a `KeyError`
  (`load_olist.py:577`) and rolls back, although it is documented as idempotent (`README.md:32`);
  `Load` is not enabled then. An approval dated before the purchase or after
  the dispatch shuffles the history read by `created_at`. Imported shipments have no
  tracking number and an imported order may have several completed payments. New open
  orders of a changed folder would find their products' stock rows already there, and hold
  no reservation.
* *Migrations.* A downgrade turns cancelled shipments into failed ones and the next upgrade
  leaves those as they are. Reversals that an upgrade makes
  again carry `updated_at` as their date. A `pending` shipment of an open order, which an
  old version could leave, cannot be shipped by the present code.

Read in the code and outside the models:

* An expired token makes protected pages fail with a 500 and `login_view` bounce
  (`accounts/views.py:11-12`), although `API_INTEGRATION_NOTES.md:311-313` says that the user
  just logs in again; the refresh endpoint is never called.
* A checkout that is refused with a 409 because its address was deleted is shown as "no
  stock" (`orders/views.py:203-209`); the 409 of deleting an address that a shipment uses is
  not caught and becomes a 500.
* The storefront's test asserts one default address per customer
  (`test_customers_service.py:45-58`); the backend keeps several.
* A stale edit form publishes a product again that was hidden meanwhile
  (`catalog/views.py:174`), and the reorder form sends back a stock level read before.

## 7. Not modelled, and why

* Expiry and refresh of tokens, profiles, the default address: they refuse requests or
  change data that nothing else reads. Token encoding and password hashing are library
  calls.
* The panel's stock form as a client: it sends an absolute level, and `SetLevels` of
  `OrderFlow` accepts any level at any time, which includes the stale one. What is lost is
  that a level is stale; no document promises otherwise.
* The storefront with two workers: `OneOrderPerCart` and `CartBecomesOrder` do not hold there
  (section 3).
* Counts of orders, customers and products in the report, which nothing relates to the rest.
* Demonstration and benchmark scripts, which are clients of the API; the mocks of the
  storefront's services; templates and views that only render an answer.

What could be proved next: which locks a session waits for in `OrderTxns`, so that only carts in
different orders can deadlock.
