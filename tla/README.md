# Verification of the fashion marketplace backend

TLA+ models of the parts of the FashionStore API in which several requests,
jobs, threads, devices and Stripe act on the same rows, the TLC runs that check
them on small instances, and the theorems that TLAPS proves about them for
every instance. Paths below are relative to `src/src/` unless they start with
`src/`.

1. [The system](#1-the-system)
2. [What is taken for granted](#2-what-is-taken-for-granted)
3. [The modules and the code](#3-the-modules-and-the-code)
4. [The runs, their bounds and what they show](#4-the-runs-their-bounds-and-what-they-show)
5. [Fairness](#5-fairness)
6. [What is proved](#6-what-is-proved)
7. [Where the code and what it says of itself disagree](#7-where-the-code-and-what-it-says-of-itself-disagree)
8. [What is not modelled](#8-what-is-not-modelled)
9. [The plan](#9-the-plan)

To check a module: `tlc -config MCOrders.cfg MCOrders`; to prove one:
`tlapm OrdersProofs.tla`.

## 1. The system

A FastAPI process over PostgreSQL serves the shops of several companies
(tenants): a storefront for customers, a back office and a counter for their
staff, offline devices that synchronise later, and a console for the staff of
the platform. A thread of the same process runs the scheduled jobs and a few
others send the mails. Stripe charges the orders (Checkout, Connect) and the
subscriptions of the companies (Billing). Each request has a session of
SQLAlchemy and works in one transaction, or in a few.

### Components, state, operations

| Component | State it keeps | Operations that change it |
|---|---|---|
| Stock counters (`ventas_pagos/application/stock_service.py`) | `StockModel.quantity` of each variant in each branch | `change`, `adjust`, always from inside the transaction of a caller |
| Orders and payments (`ventas_pagos/application/service.py`, `web/router.py`, `plataforma_saas/application/stripe_connect_service.py`) | `OrderModel.status`, `payment_status`, `stripe_session_id`; `StripeEventModel`; the outbox row of `order.paid` | `create_order`, `create_pos_sale`, `checkout`, `reconcile`, `cancel`, `manual_payment`, `tracking`, the platform's webhook and the Connect webhook |
| Offers and coupons (`ventas_pagos/application/promotions.py`, `pricing.py`) | `PromotionModel` and the uses of each | creation, switching off, lapse, `quote` and `record_uses` under a sale |
| Returns and exchanges of the desk (`returns_service.py`, `domain/returns.py`, `gateways.py`) | `ReturnModel.status`, its lines, amount and replacement; refunds in Stripe | `solicitar`, `solicitar_cambio`, `registrar_en_caja`, `resolver` (approve, reject, complete) |
| Garment exchanges (`exchange_service.py`) | `ExchangeModel` rows, stock rows written without locks | `calcular_cambio`, `ejecutar_cambio` |
| Reservations (`reservas/`) | `ReservaModel.estado`, `inventory_held`, `client_request_id` | `CrearReserva`, `ActualizarEstadoReserva` |
| Offline synchronisation (`operacion_offline/`) | `SyncBatchModel`, `SyncOperationModel`, `SyncConflictModel` | `procesar_lote`, `resolver` |
| Devices (`dispositivos/`) | `DeviceModel`, the refusals it counts; the stamps of the catalogue | the check of every snapshot and batch, the snapshot, the block |
| Catalogue (`usuarios_catalogo/`) | the tree of categories, the products, the galleries, the assets | `CatalogService`, and the Excel imports (`shared/bulk`) |
| Fitting room (`probador_virtual/`) | one silhouette for each garment and colour | preparations one by one and in batch, reviews |
| Mail queue (`notificaciones/infrastructure/email/cola.py`) | a bounded `Queue`, `_pendientes`, `_apagando`, the worker threads | `encolar`, the workers, `esperar`, `apagar` |
| Subscriptions and billing (`plataforma_saas/`) | `SubscriptionModel`, `SubscriptionInvoiceModel`, `stripe_events` | the daily jobs, `cambiar_plan`, `renovar`, `cambiar_estado`, `mark_invoice_paid`, `procesar_webhook`, and `PlanGuard.vigente` in every guarded request |
| Plans, modules, branches (`plataforma_saas/`, `inventario_sucursales/`) | the modules with their life and dependencies, the plans, what a company was granted, its limits; branches and cash points | `ModuleService`, `PlanService`, `TenantModuleService`, `OrganizationService` |
| Sign-up (`signup_service.py`, `tenant_service.py`) | the link, the company, its administrator and its trial | `solicitar`, `verificar`, `registrar`, `importar` |
| Staff and administrators (`usuarios/`, `roles/`, `platform_users_service.py`) | users, roles, who holds which, the branches of each | their services, two calls at a time |
| Public page (`storefront_service.py`) | the page, published or not, and the ways to be paid | `publicar`, `despublicar` and what they depend on |
| Scheduled jobs (`plataforma_saas/application/jobs/runner.py`) | the day each job last ran, an advisory lock | `tick` |
| Webhook outbox (`integraciones/`) | `WebhookDeliveryModel` | `publicar`, `entregar_pendientes`, `redeliver` |
| Authentication (`auth/`) | refresh tokens, reset links, the password | `login`, `refresh`, `logout`, the changes and resets of passwords |
| Support sessions (`plataforma_saas/application/support_service.py`) | the state, consent and expiry of each session | request, approve, reject, extend, finish, emergency, expiry |
| Try-on jobs (`tryon_ai_jobs/`) | the state of each job, the files on the disk | `crear`, `procesar_trabajo` in whoever polls, cancel, delete, expiry |
| Rate limits (`infrastructure/security/rate_limit.py`) | sliding windows in each process, fixed ones in Redis | every request |
| Migrations (`src/alembic/`, `src/scripts/reconciliar_produccion.py`) | the schema, the permissions, roles and modules, the stamp | every revision up and down, the reconciliation |
| API keys, reports, analytics, audit log, seed scripts | rows with one writer at a time, or nothing | forms and queries |

`PROJECT.json` lists them all, each with its files, with what of it is modelled
and with the reason when it is not.

### How they interact

* **Calls inside one transaction.** Orders, returns, reservations, exchanges and
  offline sales all move the same stock rows: whoever fails rolls everything
  back, its stock included.
* **Row locks.** Orders, returns and changes of reservations hold their own row
  `FOR UPDATE` until the commit; creations of reservations hold the customer's
  row; stock moves lock the variant and its stock row. The order of the locks is
  a property of the whole system, and no module of the code owns it.
* **No locks.** Garment exchanges, everything about subscriptions and most of the
  console read rows and write them later: what they write is what they worked out
  from a version that may be gone, column by column.
* **Stripe.** It is called from inside transactions (its effect stays when they
  roll back), and it calls back with events that come late, in any order and
  more than once, to one of three endpoints.
* **Keys.** A repeated request is recognised by a key (`client_request_id`,
  `idempotency_key`, the id of an event). Each component has its own way: a
  lock before the search (reservations), a unique constraint after it
  (exchanges, offline operations, events), or both.
* **Threads and processes.** Requests hand their mails to workers through a queue,
  and the shutdown of the process stops them. Several processes may tick the jobs,
  deliver the outbox and count requests.
* **Files.** The photos of a try-on are written and removed at once, while their row
  changes at the commit.

### What is hard, and what makes each part correct

| Component | Hard behaviours | What must hold |
|---|---|---|
| Orders | payment while a cancellation runs; lost answers of Stripe; events late or repeated; two endpoints | units conserved; a released order was not and cannot be charged; a payment is announced once and ends up recorded |
| Stock locks | operations that meet on several rows | no circle of waits; everyone commits |
| Returns | a request decides with returns that others resolve meanwhile; rounding; refunds pending | a unit is returned once; the money promised fits in what was paid; a completed return was refunded |
| Garment exchanges | unlocked reads; repeated keys | one exchange per key; exact stock unless a write was stale; never more than was bought |
| Reservations | repeated and concurrent requests; unlocked availability; rows older than the stock keeping | one row per key; units conserved; a repeated request is never refused for lack of stock |
| Offline synchronisation | repeated and overlapping batches; transactions that die; reviews; the counter with the same key | sold once; what was answered stays true; a conflict can always be reviewed; what is settled stays |
| Mail queue | full queue; shutdown at any statement | exact count; each mail once; none left in the queue; every request answered |
| Outbox | two deliverers of one row; lost answers; batches that fail at the commit | what the row says was so; an event settles |
| Try-on jobs | two polls of one job; a cancellation during the generation; a crash | the photo does not outlive its job; one image, kept |
| Scheduled jobs | the advisory lock belongs to a pooled connection | the body runs once at a time |
| Subscriptions | jobs, staff, requests and late events on unlocked rows | who paid may operate; no stage early; no charge ignored |
| Access | tokens, links and sessions read in one step and spent in another; two administrators against each other | consent behind every write; credentials spent once; somebody left in charge; what ended stays ended |
| Shop | checks of one request undone by another; counts without locks; stamps older than their commit | a page goes up whole; offers counted; nobody pays more; a device misses nothing; a file goes in whole |
| Migrations | any path up and down, over any rows; a production with a stamp that no file defines | one schema; the one the models expect; no revision trips |

The 40 hazards of `PROJECT.json` name the line where each of these bites and the
properties that watch it.

## 2. What is taken for granted

The models rely on the following of what is outside the repository.

* **PostgreSQL at READ COMMITTED.** `SELECT ... FOR UPDATE` keeps the row until the
  transaction ends and then reads its last committed version; a plain `SELECT`
  sees the last commit before it; an insert that violates a unique key waits for
  the other transaction and fails if that one commits; a rollback undoes
  everything; a NULL in a unique key equals nothing; an advisory lock belongs to a
  connection.
* **SQLAlchemy.** `sessionmaker` has `autoflush=False` and `expire_on_commit=False`
  (`infrastructure/database/session.py`): a row that was read is not read again
  and nothing is written before a flush; a flush updates only the columns whose
  value differs from what was read. `get_db` closes the session and never
  commits.
* **Stripe.** A session is open, complete or expired, only an open one can be paid
  or expired, and a session created twice with one idempotency key is one session.
  An event is sent until an endpoint answers 200. A refund is pending, then
  succeeds or fails.
* **Python.** A step of a thread is one operation on a `Queue`, an `Event` or a
  section under a lock; a daemon thread may stop between two of them only when
  the process ends.

The definitions that model these (`Begin`, `Merge`, `StripePays`, `StripeLiquida`,
`NextDay`...) are marked external in the map of `PROJECT.json`.

## 3. The modules and the code

Names are those of the code wherever TLA+ allows it. A mutant (a definition
above the one it changes, with a comment that says what bug it is) is never part
of a specification.

Components that share no state are checked in one run: a module puts their
specifications side by side, a variable (`desk`, `part`, `door`) is chosen at the
start and names the one that moves. Their interleavings would add states and no
behaviour. What they do share, the shelf above all, each component models on its
own (`moved`, `Change`, `Adjust`: somebody else's units come and go).

```
StockLedger --- Orders --- MCOrders                            OrdersProofs
   |               \-- OrderPromise (abstract)
   +-- Reservations, GarmentExchange, OfflineSync,
   |   AfterSales --- MCDesk                                   DeskProofs
   |               \-- OrderPromise
RowLocks -- StockLocks, MailQueue, WebhookOutbox,              RowLocksProofs,
            TryOnJobs, JobRunner --- MCBackground              BackgroundProofs
SupportSessions, Logins, Signups, Administrators,
StaffRoles, UserBranches, RateLimits --- MCAccess              AccessProofs
Revisions -- Migrations -- OrmSchema --- MCMigrations
Subscriptions, OrmSchema, Branches, Entitlements,              CompanyProofs,
Storefront, Promotions, Catalog, DeviceCopies,                 ShopProofs
GarmentAssets, BulkImports --- MCPlatform
Sums (sums over finite sets, used by the proofs)
```

### Stock and sales

**StockLedger** is `StockService.change` over the lines of one document: `CanTake`
and `Take`, `CanPut` and `Put` of a basket, with the floor at zero and the ceiling
of a stock row. A line that fails rolls the whole basket back, so a basket moves
entirely or not at all.

**Orders** has one action per handler of an order. Each handler locks its order
before it reads it and commits at its end, so a handler is one step, the call to
Stripe included. The two ways in which that is not the whole truth are actions of
their own: `CheckoutLost` and `CancelLost` change the session in Stripe and
nothing else, because the answer or the commit was lost. `Legacy` are the orders
whose session belongs to the platform's own account: only for them does the
platform's webhook release units when a session expires. `Reconcile`, `Cancel`
and `Checkout` follow the early returns of `service.py`; `Adjust` is the clerk.

**OrderPromise** is what the circuit promises: units leave the shelf once, come
back at most once, and never after the customer was charged or the order was
settled. Orders and Reservations implement it (`KeepsPromise`), with refinement
mappings of their own: a reservation is never charged.

**Reservations** is `CrearReserva` in the steps that others can see: the lock of the
customer with the search of the key, the availability read without locks, and the
row with its units; and `ActualizarEstadoReserva` with its row locked. Rows older
than `inventory_held` hold no units.

**GarmentExchange** goes through `ejecutar_cambio` statement by statement: the
search of the key, the row, each of the two stock rows, the commit that writes what
was worked out. `stale` remembers the exchanges that wrote over a quantity they had
not read.

**OfflineSync** has `procesar_lote`: each delivery of a batch goes through its
operations, each in a transaction of its own (`Look`, `Insert`, `Write`, `Commit`),
which may lose a race for the key (`Reread`), fail (`Fail`) or die with its process
(`Crash`). The row of the batch is inserted with the first operation that commits,
as in the code. Reviews (`Cancel`, `Resell`) and counter sales with the same key
run beside it. What the plan, the catalogue and the prices say of a sale when it is
read is chosen freely.

**AfterSales** has the returns of one order. A request and a counter return hold the
order and read its returns (`Leer`), but resolutions hold only their return, so they
commit between that read and the insert. `MontoAReintegrar` is the rounded share of
what was paid, cut so that the return that closes the order takes what is left.
Refunds in Stripe are pending, succeed or fail on their own (`StripeLiquida`), and
Stripe may have taken a refund whose resolution did not commit
(`CompletarFallido`).

### What runs beside the requests

**RowLocks** is any set of transactions that lock rows one by one in an order of
their own and keep them until they commit. **StockLocks** gives it the plans of this
code: `ServicePlan` (the document, then variant and stock of each line in ascending
order of variant, as `StockService` asks) and `OfflinePlan` (the stock rows of the
sale in the order of the payload first).

**MailQueue** has one step per statement of `encolar`, of the workers and of
`apagar` that another thread can see. The request that passed the test of
`_apagando` before the event was set is what makes it interesting; `late` remembers
who was inside when `apagar` returned.

**WebhookOutbox** writes a delivery in the transaction of its event; a deliverer reads
what is due (`Read`), posts it (`Post`) and commits the batch (`Commit`, or
`CommitFails`). Nothing marks a row as taken, so two deliverers post it and write it
over one another; the receiver may accept what the client gave up.

**TryOnJobs** keeps the row and the files apart: the flush of `processing` takes the
lock of the row, the files come and go at once. A disk that refuses an unlink and the
limit of active jobs are left out.

**JobRunner** has the pool of connections as a queue: the advisory lock is taken on
one, the commit of the job gives it back, and the release runs on whichever comes
next.

### Access

**SupportSessions**: a call reads its row, decides and commits later the columns it
changed; time runs in quarters of an hour and the job closes what ran out.
**Logins**: chains of refresh tokens and reset links; a call holds what it read until
it commits. The lock of an account after failed logins and the verification of the
e-mail are left out. **Signups**: `solicitar`, `verificar`, `registrar`, and the import
of a template that commits half way. **Administrators** (the platform's team),
**StaffRoles** (a company's staff and its roles, given and deleted) and
**UserBranches** (`asignar` replaces the rows it sees): what two calls do to each
other between a check and a commit. **RateLimits**: processes with windows of their
own or with those of Redis, and the counter each call falls back to when Redis does
not answer. A bucket is the sequence of the moments it let through, `After` is the loop of
`popleft` and `Swept` the sweep; `log` is a ghost, the requests let through in the window.

In each of them a ghost variable (`overlapped`, `outran`, `forced`, `together`,
`mixed`...) records the one way in which the promise may be broken, at the step where
the code breaks it; the property says that there is no other.

### The platform and its shops

**Subscriptions** is the open row of one company. A unit of work is a read
(`Begin`) and a `Commit`, and others commit in between: `Merge` writes the columns
that differ from what the unit had read, `Clash` is the unique keys that roll it
back. The scans of the daily job, `EmitirPendientes`, `PlanGuard.vigente`, the
operations of the staff and the three handlers of the webhook are units.
`MarkInvoicePaid` is a unit that is flushed and never committed (`CloseSession`).
`paid` and `stale` are there for the properties: the day the open row was paid
through, and whether a unit wrote over a version it had not read.

**Branches** (branches and cash points under the limit of a plan), **Entitlements**
(the life of the modules, plans, what is granted or taken; `BORRADOR` counts as
`BETA`), **Storefront** (the four queries of `publicar` at four moments),
**Promotions** (offers, coupons and the sales under them, in cents; what a quote takes off
is a function from the offers it chose), **Catalog** (the tree of categories, where
`Upwards` is the least set closed under the parent, which is what the walk of
`update_category` goes through; the gallery of a product), **DeviceCopies** (a stamp is taken at
the flush, a snapshot carries the hour it began), **GarmentAssets** (preparations and
reviews of one silhouette, column by column) and **BulkImports** (an Excel file tried
in savepoints, on the collections) are two or three calls that overlap on the rows of
one company. What each leaves out is in its header.

**Revisions** is what every Alembic revision puts into the database, **Migrations** the
commands over it, the rows a revision reads or trips over, and the reconciliation
script; **OrmSchema** is what the ORM models expect.

## 4. The runs, their bounds and what they show

Five runs must pass and seven must find the violation of section 7. Every
property of a passing run is broken by at least one mutant of the code, under the
bounds of that run, so each bound is at least large enough for the bug it guards
against to show.

| Run (module) | Distinct states | Properties |
|---|---:|---|
| Orders (MCOrders) | 411,600 | TypeOK, StockConserved, ReleasedNeverCharged, AnnouncedOnce, KeepsPromise, PaymentRecorded, PlatformHoldReleased |
| Desk (MCDesk) | 986,577 | TypesOK, OneRowPerKey, UnitsConserved, ExchangedOnce, SoldOrReviewed, ReturnsWithinOrder, AnswersTrue, NeverRefusedOnceRegistered, KeepsPromise, SettledForGood |
| Background (MCBackground) | 57,929 | TypesOK, NoWaitCycle, MailAccounted, StatusIsTrue, TryOnKept, OneRunAtATime, LocksCommit, MailAnswered, AlwaysSettles |
| Access (MCAccess) | 1,254,575 | TypesOK, ConsentBehindWrites, CredentialsSpent, SomebodyInCharge, LimitsKept, EndedForGood |
| Platform (MCPlatform) | 1,531,451 | TypeOK, PaidMayOperate, ChargesAccounted, DatabaseKept, CompanyKept, ShopKept, CameraShowsVetted, OnlyWhenDue |

The types of the stock say that no counter leaves its column.

**Orders.** Three orders over two variants with one free unit of each: an order of
before the connected accounts that holds both, and two new ones that compete. Two
orders that compete and one of the old kind are all the kinds there are; handlers of
two different orders only meet in the stock. `MaxStock` is 3 and the clerk may set a
row to 3 (`AdjustTo`), so that a release can find no room, the one way in which a
release fails by itself.

**Desk.** Reservations: three deliveries of one key, one of them with another detail,
a request of another customer for the same units and an old row. Exchanges: three
calls, of which `Repeating` share a key and the third takes back what they deliver, so
that the stock of both variants goes up and down. Offline: two deliveries that share an
operation, of two operations each, the last two with one key and different contents;
two keys are the least with which an operation can fail before another of its batch.
Returns: two units of one variant whose total (1) does not divide, so that the shares
round up, replaceable by another variant, and three returns, one more than fit.
`MaxMoved` (1) bounds what the others add or take; `MaxStock` is 3 and the till's own
ceiling `SaleCeiling` 2, so that units can find no room.

**Background.** Locks: four operations over three variants, two of them on one
document, one with a repeated line: the plans overlap pairwise. Mail: three requests,
two workers and one place (`Tamano`): one request in a worker's hands, one in the queue,
one refused; two workers are needed for a sentinel to be dropped while a worker lives.
Outbox: one delivery, two deliverers, batches of two (`Batch`), one retry (`Retries`) and
one trouble (`MaxTrouble`: a commit that fails). Try-on: one job, three calls, two
images (`MaxImages`). Jobs: two ticks, two requests and three connections, which may
each hold the lock twice (`MaxDepth`).

**Access.** Two support sessions of one operator with two calls, durations of one
quarter out of two (`MaxDuration`) and two ticks of the clock (`MaxTime`). Logins: two
calls, one link, three tokens (`MaxTokens`), one change of password (`MaxChanges`), one
day (`MaxDays`). Team: three administrators. Staff: two people, two roles. Branches: two.
Sign-up: three names, two e-mails. Limits: two processes, both with Redis or both
without, three moments (`MaxMoment` 2), windows of two (`Span`), three keys (`MaxKeys`)
and two failures of Redis (`MaxFailures`); a request ends within its moment.

**Platform.** Subscriptions: two rows (`MaxRows`), one Stripe subscription, two units at a
time (`MaxUnits`) and two events on their way (`MaxEvents`). The days of the stages are
one (`Grace`, `ReadOnly`, `PlanDays`), those of the payments two (`Renewal`, `Period`)
and the clock stops at day three (`MaxNow`; four in SubscriptionsManual): the code's 3 and
30 days change how long a stage lasts, not what can follow what, and the proofs are
for every length. No unit lasts a day, which is the one assumption about time.
Migrations: every revision, from the eleven stops (`Stops`) at which a history of commands
turns; rows of the business in three of the tables that have twins (`Twins`). Company: two
branches, a cash point, a limit of up to two (`MaxLimit`); three modules in two plans, three
updates (`MaxUpdates`). Shop: two overlapping calls; two sales (`MaxSales`) under two offers,
which are only switched off or lapse once a sale is tried; five stamps of the clock
(`MaxClock`) make up a change, a snapshot and both again; files of up to two rows on one
name, with a season and without, two of three calls. Fitting room: two colours, two
preparations of which one may be a batch, one reviewer, three calls in all (`MaxAsked`).

### What the runs show

* The stock adds up in every circuit that goes through `StockService`, whatever
  cancels, expires, fails or is repeated, and in the garment exchanges as long as no
  exchange wrote over a quantity it had not read. That exception is not hypothetical:
  without it the property fails.
* A released order can neither have been paid nor be paid later. It rests on
  `cancel` and the reconciliation asking Stripe first and believing only its answer.
* A card payment ends up recorded although the customer never comes back, and an
  expired session of the platform's own account releases its units by itself. The
  Connect endpoint handles no expired session: the units of an order of a connected
  account stay held until somebody reconciles or cancels it.
* A return whose Stripe refund is still pending can be rejected, and its units asked
  for again and refunded again; what `CommittedWithinTotal` bounds is what the
  returns in force promise, and not what Stripe gave. No document says otherwise.
* The last answer of each operation to an offline device is true and stays true,
  which takes the second search of `_procesar` after a lost race and the check of
  the content.
* A company whose open row is paid through today may operate, unless a unit that had
  read an older version wrote the row. Without the exception the property fails:
  `vigente`, in any request of a company whose period ended, writes `VENCIDA` over a
  payment that commits meanwhile, and the company pays and stays closed.
* After a change of plan the new row has no card, and the card goes on paying for
  the closed row: the charge has its invoice (`ChargesAccounted`), the open row
  expires all the same.
* Two refreshes with one token give two successors, two resets with one link two
  passwords, two administrators can remove each other, a module can leave a company
  while a plan is being saved: each needs two calls that overlap, and nothing else does
  it, but for the generic `desactivar` and `actualizar` of the platform's users, which
  ask for no other administrator.
* Two preparations, or a preparation and a review, can together publish a silhouette
  that neither would (`recurso_tryon.py:64-67` says a doubtful one waits for the
  administrator): unchanged columns are not written, and a review carries the row and
  not the cut.
* Any path of commands to the last revision ends in the schema of a straight upgrade,
  and that is the one the models of the code expect.

Seen while modelling, with no run of their own: a product that fails at the flush fells
its batch in spite of the comment at `preparacion_masiva.py:73` ("un producto no debe
tumbar el lote"); an image that was being generated when its job was deleted stays on
the disk, where `tryon_ai_jobs/web/router.py:118` says "sin dejar rastro"; the fallback
counters of `infrastructure/cache/redis.py` are never swept; two concurrent creations of
a collection without season leave two, and every file that refers to one is then refused
as ambiguous.

## 5. Fairness

Liveness is checked only where the code gives a reason for progress.

* **Orders** (`LiveSpec`): weak fairness of the two webhooks, because Stripe sends
  an event again until an endpoint answers 200. Nothing else is fair: customers may
  leave, and nobody needs to reconcile.
* **Background** (`BackgroundFairness`): weak fairness of each transaction's locks and
  commit, as PostgreSQL grants a free lock and the code between two locks waits for
  nothing else; of each request inside `encolar`, of each worker and of the thread in
  `apagar`, as threads that can run do run (`apagar` itself is not fair, the process need
  not stop); of the reading, posting and commit of each deliverer, as the job runs again
  and again, and of the hour of a retry. Try-on jobs and the runner have none.

The other specifications have no fairness and only safety properties. Deadlock is
checked in Orders; in the others the system may stop: batches end, threads finish, the
clock is bounded.

## 6. What is proved

Every theorem holds for every value of the constants under the named assumptions of
its modules: any number of orders, requests, calls, variants, units of work, rows,
events, branches, modules, offers, files and processes, any basket, price, deal, limit and
length of the stages.

| Theorem | Property |
|---|---|
| OrdersProofs: TypeCorrect, UnitsAddUp, NeverChargedOnceReleased, OneAnnouncement | TypeOK, StockConserved, ReleasedNeverCharged, AnnouncedOnce |
| OrdersProofs: PromiseKept | KeepsPromise: Orders implements OrderPromise |
| DeskProofs: DeskTypes, UnitsAreConserved | TypesOK, UnitsConserved |
| DeskProofs: OneReservationPerKey, RepeatedIsNeverRefused | OneRowPerKey, NeverRefusedOnceRegistered |
| DeskProofs: PromiseKept | KeepsPromise: Reservations implements OrderPromise |
| DeskProofs: ExchangeIsMadeOnce | ExchangedOnce |
| DeskProofs: SoldOnceOrReviewed, AnswersAreTrue, SettledIsForGood | SoldOrReviewed, AnswersTrue, SettledForGood |
| DeskProofs: ReturnsAreWithinOrder | ReturnsWithinOrder |
| RowLocksProofs: Owners, NoCircle | a row has one owner; plans that follow one order never wait in a circle |
| BackgroundProofs: BackgroundTypes, ServicesNeverDeadlock | TypesOK; NoWaitCycle without offline sales |
| BackgroundProofs: MailIsAccounted, OutboxIsTrue, PhotosAreKept, JobsRunAlone | MailAccounted, StatusIsTrue, TryOnKept, OneRunAtATime |
| AccessProofs: AccessTypes, ConsentIsBehind, CredentialsAreSpent, SomebodyIsInCharge, EndedIsForGood | TypesOK, ConsentBehindWrites, CredentialsSpent, SomebodyInCharge, EndedForGood |
| AccessProofs: LimitsAreKept | LimitsKept |
| CompanyProofs: TypeCorrect, WhoPaidMayOperate, StagesWhenDue, NoChargeLost | TypeOK, PaidMayOperate, OnlyWhenDue, ChargesAccounted |
| CompanyProofs: PlatformSubscribes | the specification of the run implements that of Subscriptions |
| CompanyProofs: CompanyIsKept | CompanyKept |
| ShopProofs: ShopIsKept, CameraShowsOnlyVetted | ShopKept, CameraShowsVetted |

Assumed of the constants: sets of orders, requests, calls, keys, returns, variants and
connections are finite; baskets, prices and stock are natural numbers within the ceiling
(`OrdersAssumption`, `ReservationsAssumption`, `DeskAssumption`, which gathers those of
the exchanges, the till and the returns); lines are sorted by variant (`LinesSorted`,
what the callers of `StockService` do); the values that mean "none" are not names
(`SupportAssumption`, `LinksAssumption`, `TryOnAssumption`, `JobRunnerAssumption`,
`BackgroundAssumption`); the days of the stages are positive
(`SubscriptionsAssumption`); the ids of branches and cash points are not one another's nor
those that mean "none", a limit is a number, branches, garments and calls are finitely
many, and prices and deals are well typed: what `crear` asks of a deal is not assumed
(`BranchesAssumption`, `FittingAssumption`, `PageAssumption`, `OffersAssumption`,
`CatalogAssumption`, `CopiesAssumption`); the limits of requests are natural numbers, of
windows that last, in finitely many processes (`LimitsAssumption`). TLC evaluates them on
every run. Users of any number of companies share the one address of RateLimits.

**Sums.** The stock adds up as a sum over a set of orders, reservations, exchanges, keys
or returns, and the library's induction over finite sets takes an operator as a
parameter, which the provers cannot instantiate. `Sums` proves what is needed without
it: if two functions that add up over the subsets of a finite set disagreed, they would
disagree on a smallest subset (`Smallest`, from the well-founded order of inclusion,
which is stated over sets), and there they cannot. From that: a sum is an integer, it
moves by the element that enters or leaves (`SumWith`, `SumWithout`, `SumOfPart`), by
the value that changes (`SumChanged`), it is that of any function that agrees
(`SumAlike`), and a part of natural numbers is at most the whole (`SumOfFewer`).

**Orders.** `ReleasedNeverCharged` is not inductive: nothing in it says that a paid
session belongs to an order that left `pending_payment` the right way. `IInv` adds
`SessionTie` (a session the customer can reach belongs to an order that is linked to
it; an order leaves `pending_payment` only with its session complete or expired) and
`PaymentTie` (payment, status and announcement say the same). `UnitsAddUp` takes from
each step which orders begin or cease to hold units (`Accounted`). The refinement
is proved from the invariant, step by step: each handler is a step of `OrderPromise` or
changes nothing that it speaks of.

**Reservations.** `Serialised` (requests of one customer are inside one at a time) and
`StillFresh` (the absence of the key that a request saw still holds) carry
`OneRowPerKey`; `HeldWhileLive` carries the refinement and, with `AsideAddsUp`, the
conservation of the units.

**Garment exchanges.** `ExchangeInv`: an exchange inserted or committed is the only one
of its key, and one that read its second row had the units. `ExchangesAddUp` says what
`ExactUnlessStale` says, about the set of exchanges.

**Offline sales.** A transaction that has inserted its key has it for itself, and one
about to confirm still has the units it counted and no counter sale behind it
(`SendersInv`: the row locks of its sale keep everybody else's hands off). With that,
what each of the eight steps of a delivery, a review and a counter sale writes keeps
`SoldOnce`, `ReviewPending` and every answer that was given last (`Truthful`), and
changes nothing that is settled.

**Returns.** `UnitsReturnedOnce` and `CommittedWithinTotal` rest on one fact: a request
that decides has read every return in force (`InForce \subseteq seen`), because those
that entered since need the order it holds, and resolutions only take returns away.
What it read may be more than is in force, so what it allows fits in what is left,
and `AmountFits` does the arithmetic of the rounded share. The shelf follows the
returns that are completed and the exchanges in force.

**Locks.** In a group in which everyone waits for another, take the member that wants
the row of the highest rank: its owner holds that row and, as plans ascend, wants a
higher one (`AscentBreaksCycles`, from a least element of the naturals). `StockLocks`
gives each row its rank: the documents lowest, then each variant and, right above
it, its stock row; sorted lines ascend in it.

**Mail queue.** A mail is in one place, and which one goes with what its request has been
told (`PlaceOf`, `OneEach`); the counter is the cardinality of what is counted and not
sent (`Unsent`); threads start while the queue is open and the one that closes it takes
them over (`MailThreads`).

**Outbox, try-on jobs, runner.** Every attempt of a row but the one to come was posted,
also in the batches that have yet to commit (`OutboxInv`). A job that no poll
overlapped and no crash cut off (`Once`) is in one pair of hands from the mark to the
commit. A connection is in the pool, once, or out to one user, and whoever runs a job
has out the one that holds the lock (`JobInv`).

**Access.** The consent of a row goes with its status and its mode, also in what a call
has read (`Consented`). Tokens are in order, and one has a successor or is live unless
two calls held it (`TokensInOrder`, `RefreshHeld`); what is live of an old password
outran the change (`Outruns`). A call that nothing overtook decided on accounts that are
still so (`Looked`, `LeavesSomebody`); a request from a link asks for what the link says
(`FromItsLink`).

**Subscriptions.** A unit makes a legal `Step` of what it read (`UnitLegal`): a row in
order stays in order, a whole grace stays whole, the end never comes nearer, and a
stage that comes is due. A commit is then one of three things: the unit had read the
row as it is, and the step is of the row; it changed nothing, and nothing is written;
or it is stale, and nothing is promised. `RowLegal` is what is known of the row while
no stale unit wrote it. For `ChargesAccounted`, `CInv` adds that a period has one
invoice, that an unpaid invoice carries a number that only fits while no invoice of
its period came in between (the number is the cardinality of what there was), and
that the unit that takes an event away brings the paid invoice, or saw one, or saw
another card.

**Branches.** A call that is ready to open a branch holds the row of the company and, unless
the limit moved since it read it, still has room (`KnowsRoom`); what a call is about to
write sends no cash point astray unless a row moved since it read them (`KnowsCash`). With
that, one more branch fits by the cardinality of those in use.

**Modules.** An update that nothing overtook still knows whom it hurts (`StillUnhurt`), and
one of dependencies that they close no circle, unless others were committed since
(`StillOpen`). `NoCircle` speaks of chains of any length and needs no induction over them,
because a circle is a set that contains a dependency of each of its members.

**Page.** What each of the four queries of `publicar` saw is still so but for what was taken
away after it (`lost`), and a call still knows the thing it loaded unless it met another
(`PageKnows`); so a page goes up with something missing only if that was lost on the way.

**Offers.** The count of an offer is that of its rows while nobody raced, and its uses on the
web, summed over the buyers, are some of the rows (`UsesOK`); what a sale knows of an offer
is still so, but for uses that only grow, and what it takes off is at most what there is to
pay (`SaleKnows`), because the second discount is of what the first left (`OffWithin`).

**Catalogue.** `TreeKept` says that the walk up from any category gets out. What is inductive
says that no set of categories but the empty one holds the parents of all its members
(`TreeOK`): moving a category keeps it, because a set that broke it would hold the whole
walk that `update_category` made from the new parent. A gallery request that met no other
still sees the images it saw, but for those deleted (`GalleryKnows`), and a request to use
a file has cleared every other one that is there (`AssetKnows`).

**Devices.** What a snapshot or a device says of a garment is so, or the garment has a later
stamp, or its change was stamped before the snapshot and committed after (`AskSays`,
`DeviceKnows`); no edit under way has the stamp at which a snapshot began (`AskHours`).

**Fitting room.** `CameraShowsVetted` is inductive with its types: a step that shows a cut
has tested it or carries the reviewer who looked at it, and the steps at which two calls
overlap mark the colour (`mixed`).

**Imports.** A call holds the rows it has written (`HeldOK`); where there is a season nobody
else does (`UniqueOK`), and two that create one key at once are marked (`RivalsOK`), so a
key has one collection or was created twice at once (`SingleOK`). What a preview said
stands for as long as nobody commits (`ToldOK`).

**Rate limits.** What a bucket of a process holds after any moment of the window is as many
as were let through after it (`MemoryKept`): the sweep drops a bucket only when there are
none, and the `popleft` only what has left the window. What a user draws from the company's
quota is in the user's own log as well. For those that share Redis, the sum over the
processes of what was let through is at most what Redis counted within the limit and what
each that fell back counted (`SharedKept`).

In a module that joins components a component that does not move stays where it began,
so the conjunction of their invariants is inductive (`DeskInv`, `BackgroundInv`; in
MCAccess and MCPlatform a component that does not move keeps nothing, and `AccessInv`,
`CompanyInv` and `ShopInv` have one implication for each door or part).

**Only model-checked:**

* liveness (`PaymentRecorded`, `PlatformHoldReleased`, `LocksCommit`, `MailAnswered`,
  `AlwaysSettles`), which the provers cannot do under fairness;
* `DatabaseKept`: the migrations are one fixed history, and TLC follows every path of it
  from every stop; a proof would be the same enumeration written out, and there is nothing
  to generalise but which tables have rows of the business.

## 7. Where the code and what it says of itself disagree

| Run | What the repository says | What happens |
|---|---|---|
| MailQueueLost (`MCBackgroundLost.cfg`, NoneLost) | `cola.py:237-238`: no mail is lost during the shutdown | a request that passed the test of `_apagando` puts its mail after the hand drain: `encolar` answers True and nobody reads the queue |
| StockLocksOffline (`MCBackgroundOffline.cfg`, NoWaitCycle) | `stock_service.py:14-16`: all callers share the lock order | `OfflineSaleService.confirmar` locks stock rows before variants: it can wait for a sale that waits for it, and PostgreSQL aborts one of them |
| GarmentExchangeBought (`MCDeskBought.cfg`, WithinBought) | `exchange_service.py:75` and `ExchangeQuantityExceededError`: units already exchanged are subtracted | `ejecutar_cambio` subtracts nothing: one garment is exchanged once per key |
| SubscriptionsManual (`MCPlatformManual.cfg`, RegisteredIsPaid) | `billing_service.py:140`, `:385` and `test_billing.py:237-251`: the payment is registered | `mark_invoice_paid` never commits: the payment it answered with 200 is rolled back when the session closes |
| JobsSkipped (`MCBackgroundSkipped.cfg`, SkippedOnlyWhileRunning) | `runner.py:67`: a tick is skipped because a concurrent worker holds the lock | the unlock runs on another connection of the pool, the lock stays on an idle one and turns ticks away while nobody runs |
| MigrationsReconciled (`MCMigrationsReconciled.cfg`, ReconciliationVerifies) | `src/scripts/reconciliar_produccion.py:18-23`: it upgrades to head and verifies `20261109_0031` | with the head of today, 0043, the verification refuses every production |
| OffersPiledUp (`MCPlatformOffers.cfg`, NothingPiledUp) | `promotions.py:305`: two reductions of the season do not pile up | the cart's price is already the reduced one, and `quote` takes an automatic offer off it again |

## 8. What is not modelled

* **Money** beyond what decides a guard: taxes, carriage and the amounts of an
  invoice do not change what an order does to the stock or to its session. AfterSales
  and Promotions keep the amounts, because there they are the question.
* **The audit log, the texts of notifications, receipts and exports**: written or sent,
  read by nobody in these circuits. The mail queue is modelled without its contents.
* **Tenancy.** Every model is of one company and, but for the locks, of one branch.
  Row-level security keeps companies apart in the database.
* **Forms and queries**: suppliers, cities, names, codes, addresses, the directory, the
  platform's operations and console, API keys: one writer, one row, validation of the
  input.
* **Numeric and external models** (analytics, the cutting of a silhouette, AI reports):
  floating point and calls to services, out of TLC's reach.
* **Within the components that are modelled in part**: the lock of an account after
  failed logins; the trials of modules; the `RESERVATION` operations of the
  synchronisation; the blocking of a device ending the sessions of its user; 3D models
  and assets loaded by hand; permissions of roles other than those a deleted role takes;
  Excel resources other than collections. `PROJECT.json` says it component by component.
* One hazard has no property: `subscription_service.py:65`, where a change of plan closes
  the row that carries the card. `ChargesAccounted` shows that its charges keep their
  invoice; nothing in the source or its documents says what should become of the card
  after a change of plan, so there is no promise to state.

## 9. The plan

Done: the core (orders, stock, reservations, returns, offline sales, exchanges, mails,
subscriptions); the outbox, the jobs and the try-on jobs beside it; access, staff and
sign-up; companies, shops and migrations; and the proofs of section 6.

Next:

1. An abstract specification of an idempotent operation, one effect per key, that
   Reservations, GarmentExchange and OfflineSync implement.
2. The `RESERVATION` operations of the synchronisation, in OfflineSync, refining the
   same promise as Reservations.
