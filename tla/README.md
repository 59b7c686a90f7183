# TLA+ models of the manufacturing platform

This directory holds a TLA+ verification project for the backend in `src/app`
and the scripts beside it: a FastAPI modular monolith for manufacturing
companies (sales, production, maintenance, quality, mobile operations, an
integration hub, two portals, inventory, a Data Hub, costing, reporting and a
multi-company platform core), with a React frontend and a small scoring service.
The models follow the code of `src/`; where a document, or a message of the API,
says something else, the section *Disagreements met* tells of it.

Contents: the system · the modules · the runs · fairness · refinement · the proofs ·
disagreements met · hazards without a property · plan · not modelled.

## The system

### How it runs

* `docker-compose.yml` starts two services from the same code, and a process that
  streams rows; all are restarted when they end. Every handler is a plain `def`,
  so FastAPI runs it on a thread of its pool. Two calls therefore run at once in
  one memory, and the interpreter can change threads at any function call or
  loop iteration.
* Most modules keep their state in a singleton *repository*: Python lists and
  dictionaries, with seed data, no lock and no persistence. A restart brings the
  seed data back and forgets everything else.
* Accounts, companies, flags, module records, the inventory ledger and the Data
  Hub are in a database, through a SQLAlchemy session per request. Sessions are
  not flushed before they commit; no row is locked; few keys are unique.
* Modules interact little. The customer portal reads the repository of sales; the
  inventory and the Data Hub share `app_metadata`; the live stream and its loader
  share `module_records`; every table is seeded by whichever service starts.
  What interacts is *calls*, of users, devices and outside systems, on the rows
  they share.

### Inventory

| Component | State | Operations | What is hard, and what makes it correct |
|---|---|---|---|
| Sales and dispatch (`sales*.py`) | orders, lines (ordered, reserved, pending), reservation rows, dispatch orders, allocations, customers, shipments, returns; a stock record nobody writes | create, PUT, submit, approve, reserve, dispatch, close, allocate, key figures | reserving is a loop of read-then-write steps; a line must never be reserved beyond its order, the status must tell the shortage, rows must back reservations |
| Integration hub (`integrations*.py`) | idempotency keys, event log, configurations, credentials, sync jobs, file imports | inbound event, enable, sync, retry, import → preview → approve → commit | key check, key store and event store are three steps; a file must be committed once per approval, and whole |
| Mobile operations (`mobile*.py`) | devices, sessions, offline actions, sync results, drafts, counts, tasks, approvals | login, logout, register, disable, sync push, drafts, count items, decisions | retries and lost answers; copied keys; a batch that fails half-way; login against disable |
| Production (`production*.py`) | orders, BOMs, masters, and the lists of requirements, reservations, schedules and costings of all orders | create, PUT, plan, reserve, schedule, cost, complete | each call rebuilds a list all orders share; rows of other orders must survive |
| Maintenance (`maintenance*.py`) | machines, capabilities, rules, work orders, spare stock, usage rows, cost rows | register, assign, start, complete, close, PUT, delete | completion is long and can fail half-way; stock, usage and cost must agree; settings are a row of their own |
| Quality (`quality*.py`) | lots, results, quarantine, rework, approvals, CAPA | start, submit, approve, reject, release | no status guards; a lot that is held must have the row that holds it, and a failed one must get it |
| Customer and supplier portal | users, sessions, requests, documents, audit | login, invite, disable, update, view, submit | what is checked first is read again for the row; logins on their way while a user is disabled |
| Inventory (`inventory.py`), metadata store | metadata rows by category and key | movements, reservations, counts, scans | ids are a count plus one, upserts select and then insert |
| Runtime accounts (`runtime_router.py`) | users with password, history, reset token, mark and status; module records | create, update, change, reset, forgot; record CRUD | slow hashing between load and commit; columns of one row written by several calls; a link is for one password |
| Platform core (`core_router.py`) | companies, plants, flags, approvals, audit | create, flag, decide, list | several commits per request; pages are of one company |
| Data Hub (`frontend_admin*.py`) | saved connections, systems, catalog, mappings, ERP updates, readiness | create, select, validate, refresh, move, decide, delete | commits of single columns; company scope; an audit trail |
| Live stream and loader (`scripts/`) | a row of state, numbered rows, the company they are of | batches, stop, restart, clean, load | place and rows must agree across kills |
| Costing, reporting, intelligence, AI | seed rows, drafts | arithmetic, appended drafts | nothing several handlers change |
| Shell (`main.py`, `enterprise.py`, `jobs.py`) | counters | start, login, middleware, health, job stubs | two services seed one database |
| Frontend, AI service, deployment | local storage; none | forms, stateless scores, configuration | a stale closure in `PlatformContext` |

`PROJECT.json` lists every component with its files and status, and under
`hazards` the places in the code that a test would hardly reach.

## The modules

A module has the repository's lists, or the database's tables, as VARIABLES and
per thread the local variables of the call it runs. A call that makes one
assignment is one action. A call that reads, calls something and then writes is
one action per step, and steps of other threads come between. `Restart` puts
what is in memory back to the seed data. *History* variables and fields
(`overlapped`, `collided`, `clashed`, `edited`, `raced`, `uncosted`, `moved`,
`mixed`, `early`, `answered`, `cut`, `purged`; `log`, `spent` and `temporary` in
`Accounts`) are read by properties only: they say on which rows two calls met, or
what calls have done.

| Module | Models | Actions ↔ code |
|---|---|---|
| `SalesOrders` | the orders of `sales_service.py`, `sales.py` | `BeginCreate/AddLine/EndCreate` = `create_order`; `BeginReserve … EndReserve` = the loop of `reserve_order`, with `TakeLine`, `AddReserved`, `StorePending`, `RecordReservation` and `CheckShort` for its statements; `BeginDispatch/PickLine/EndDispatch`; one action each for submit, approve, close, PUT and allocate |
| `SalesDesk` | the rest of sales, on the same threads | customers that are found and deleted in two steps, regions, shipments, returns, drafts; `ReadKpis/AnswerKpis` = the two sums of the fill rate |
| `ApplyOnce` | what an idempotency key promises | abstract: an effect is applied once per key, unless calls with the key collided; a restart forgets |
| `InboundEvents` | `inbound_event` | `Push` (look-up), `StoreKey`, `StoreEvent` |
| `IntegrationHub` | the rest of the hub, on the same threads | the rows of an import one by one, `import_preview/approve/commit` (test and write are two steps), the switch of a configuration (`enabled`, then `status`), sync jobs, credentials, errors |
| `MobileWrites` | `sync_push`, `create_idempotent`, `submit_count_item` | `BeginPush`, `Settle`, `Accept`, `Answer`, `EndPush`; `BeginDraft`, `StoreDraft`; `SubmitCount` |
| `MobileDesk` | the rest of mobile, on the same threads | decisions (status, then comment), tasks, scans, uploads, drafts that are submitted, orders that are started and completed |
| `MobileDevices` | login, logout, register, disable | `BeginLogin/EndLogin`, `BeginRegister/EndRegister/UpdateDevice`, `BeginDisable`, `BeginLogout`, `LogoutSession`, `EndLogout` |
| `ProductionOrders` | `production_service.py`, the order routes | `BeginDemand/DemandItem/EndDemand` = `material_requirements`; `KeepRows/StoreRows` = rebuilding a list; `EndReserve`, `EndSchedule`, `CalculateCosting`, `CompleteOrder` |
| `ProductionDesk` | masters and books of `production.py` | products, BOMs, routings, lines, shifts, logs, downtime, losses |
| `MaintenanceOrders` | work orders, machines, spares | `StartWorkOrder`, `CompleteWorkOrder`, then `MachineGone/WriteMachine`, `ReadStock/WriteStock/AddUsage` per spare, `SumSpares/AddCost`; `MalformedSpare`, `CannotSum`, `NoAssignee` where the call raises |
| `MaintenanceDesk` | machines with capabilities, rules, plans, downtime, documents | creating and updating a machine writes it, then its capabilities; deleting leaves these behind |
| `Quality` | `quality_service.py`, `quality.py` | an inspection adds its results, decides and adds the hold in steps; approve, reject, release, rework, CAPA |
| `PortalCalls`, `CustomerPortal`, `SupplierPortal`, `Portals` | the two portals in one process | a login finds the user and later adds the session and the entry; a return or acknowledgement checks the order and later adds the row; pages test and show order by order; the sales desk and `PUT /users` move orders and users meanwhile |
| `Accounts` | the users of `runtime_router.py`, the seeding at a start | a call is a load and a commit: `ChangePassword`, `ResetPassword`, `AdminResetPassword`, `UpdateUser`, `ForgotPassword` load (`Load`) and prepare the copy; `EndCall` commits the columns that differ (`Commit`), `Rollback` none; `CreateUser` inserts |
| `Session` | what a commit does to tables | the columns that differ from what was read are written, an insert is refused on a taken id, a change of a deleted row is refused |
| `DataHub` | the calls of `frontend_admin.py` that change something | each reads and decides, and commits later; `Restart` = the seeding |
| `DataHubViews` | its pages | what each GET makes of the rows for a user |
| `Platform` | `core_router.py`, records of `runtime_router.py`, the ledger of `inventory.py`, `platform_seed.py`, start and requisitions of `main.py` | two services; a call reads and decides, commits, and audits in a second commit where the code does; numbered rows count, look up, commit; a service may stop at any step |
| `PlatformViews` | the lists of both routers that are of one company | what each GET answers |
| `ThreadPool` | the threads that run the handlers | the constant `Threads`, of which components that are proved together have one |
| `LiveStream` | `run_vinod_live_stream.py`, `seed_vinod_scale_data.py` | one action per commit of either script: start, batch, refusal, stop, crash, window end; clean, load, insert |
| `AppendLog` | what a numbered stream promises | abstract: batches of the next numbers, none in part |

The `*Proofs` modules hold the proofs; `MC*` modules give the constants values
for TLC. Compositions: each `*Desk` module, and `IntegrationHub`, extends the
module of the core calls and runs the others on the same threads (a thread in one
kind of call is in no other); `Portals` instantiates two components over one pool of
threads and one restart; `Platform` and `DataHub` are built on `Session`.

### Abstractions

Quantities are naturals (floats in the code), chosen around the boundaries of the
seeded stock; the one place where a request may also hold a negative one, the
spares of a completion, is left at that, and `SparesAccountedFor` says so. Names,
prices, dates, tasks, notifications and histories are left out where no handler
reads them back. Of a call that only appends a row no handler reads, the model
keeps that it was served and how many rows there are. A status a client may put in
a request body is any of a small set that is disjoint from the statuses only the
server computes: with those, a client could claim anything and no property about
statuses would be left. In `MaintenanceOrders` a cost row stands for the usage
rows it adds up, and of `approval_status` only "Post Review Required" is kept, the
one value a handler reads; a machine keeps its id when it is updated. In `Quality`
a client leaves the status of a lot at its default.

The database is external: at its commit a session's UPDATE writes the columns
whose value differs from the loaded one, and no row is locked (SQLAlchemy on
SQLite or PostgreSQL, read committed). In `Accounts` a hash is told apart by the
password it is of; the thirty minutes of a link are left out, which only lets
more calls in; emails are not told apart from ids. The clock of `LiveStream` is
only whether the window is over.

## The runs

All runs pass. Deadlock is checked where some call is always possible; in
`data_hub`, `platform`, `quality` and `portals` a behaviour ends when the bound on
calls is reached.

| Run | Bounds | Shows |
|---|---|---|
| `sales_reserve` | 2 threads, one order with two lines (an item with stock, one without), one quantity above the stock, one allocation, two calls of the desk | `NeverOversold`, `StatusTellsShortage`, `RowsBackReservations`, `FillRateIsAPercentage` |
| `mobile_writes` | 2 threads, 2 keys, batches with a copied key, a blocked and a closed action, one without a key, one that fails before it is stored and one that fails after; one count item, two calls of the desk, restarts | `AnswersAreTrue`, `ImplementsApplyOnce`, `CommentIsOfDecision` |
| `mobile_devices` | 3 threads, 2 devices, 2 sessions | `DisabledIsSignedOut`, `DisableTakesEffect` (liveness) |
| `integration_hub` | 2 threads, 2 keys, files of up to 2 records, 4 calls besides the pushes, restarts | `IgnoredIsLogged`, `ImplementsApplyOnce`, `CommittedAsApproved`, `CommitsAreWhole`, `SwitchAgrees` |
| `production` | 2 threads, 2 orders that share the lists, one material, one call of the desk | `ReservedIsOnFile`, `CompletedIsCosted` |
| `maintenance` | 2 threads, one order, one machine that can be deleted, one spare, 0 or 2 per completion, 2 usage rows, malformed entries and costs, two calls of the desk | `SparesAccountedFor`, `CostCoversSpares`, `SettingsTakeHold` |
| `quality` | 2 threads, up to 2 lots, 4 calls, one restart | `HeldIsOnFile`, `FailuresAreDecided` (liveness) |
| `portals` | 2 threads, 2 emails, 2 suppliers, up to 3 users per portal, 5 calls and restarts | `TrailIsComplete`, `OwnOrders`, `DisablingTakesHold` |
| `accounts` | 2 threads, a user that is created and one that is seeded, 4 passwords, 2 links, no password call begins once the user had 4 | `NoRecentReuse`, `LinksEnd`, `TemporaryIsForced`, `OnlyAdminsEnable` (every step) |
| `platform` | 2 services, the seeded company and a new one, one module, 2 items, 3 calls, 2 starts; an admin and a super admin call | `CompaniesAreComplete`, `RecordsAreAudited`, `KeptUnlessOverlapped`, `ScopedPagesDoNotInterfere` (every step) |
| `data_hub` | an admin and a super admin, 2 companies, 2 modules that require a field each, requests of up to 2 readiness items, 3 calls, one restart | `MappingIsValidated`, `TrailTellsConnections`, `OverridesDoNotPileUp`, `AdminsStayHome` and `ViewsDoNotInterfere` (every step) |
| `live_stream` | batches of 1 or 2 rows, events every second batch, one batch of the loader, 5 rows | `RestartSafe`, `ImplementsAppendLog`, `StreamEnds` (liveness) |

Why these bounds are enough to be worth something: a lost update, a duplicate or a
stale read needs two calls, hence two threads; a third one (`mobile_devices`) lets
a call run from end to end between the steps of two others. Two rows of the kind a
call shares with other rows (orders, keys, devices, lots, companies) show that
work on one leaves the other alone. Three calls of the Data Hub or of the platform
are one that makes a row and two that meet on it; five of a portal are a login, an
invitation, a disabling and two that overlap. Four passwords of one user are what
it takes to see that a check of the last two is not enough. Every mutant listed in
`PROJECT.json`, a plausible bug in one definition, is found under these bounds.
The named bounds are `MaxAllocations`, `MaxCounts`, `Portions`, `MaxItems`,
`MaxRows`, `MaxRow`, `MaxPasswords`, `MaxDesk`, `MaxVisits`, `MaxRecords`,
`MaxCalls`, `MaxRestarts`, `MaxStarts`, `MaxLots`, `MaxUsers`, `LiveLoads` and the
number of `Sessions`; all other counters are bounded by what the code does. A
machine that is registered again and then updated takes three calls of the desk,
one more than `maintenance` allows; the theorem about `SettingsTakeHold` covers
it, as the theorem about costs covers orders that meet in the stock and machines.
Symmetry is used over threads and over values that the module treats alike, never
in a run with a liveness property.

Several properties exclude rows on which two writing calls overlapped. That is
what the code guarantees: nothing is locked, and TLC finds the loss in a few steps
without the exclusion. Where something is promised of the overlapping calls too it
is stated beside: a stock is then too high and never too low
(`SparesAccountedFor`), an approval good for one commit of each thread
(`CommittedAsApproved`), overrides as many as the items of one request per thread
(`OverridesDoNotPileUp`). The others still speak of all interleavings with calls
on other rows, and of status calls, edits, restarts and failures on the same one.
The pages of `ViewsDoNotInterfere` and `ScopedPagesDoNotInterfere` compare what
every other company would be shown before and after a step of an admin, so they
fail if any page misses its company filter or any call reaches a row too far.

## Fairness

* `MobileDevices`: weak fairness of `ThreadStep(t)` for each thread. A handler
  that has started runs on, since a thread of the pool is scheduled again and no
  handler waits for another. No call of a client is assumed to come.
  `DisableTakesEffect` needs that the list of sessions ends: logins that append
  sessions are bounded by `Sessions`.
* `Quality`: weak fairness of `Continue(t)`, the steps of a call that has begun, for
  the same reason. `FailuresAreDecided` excepts failures a restart has wiped out.
* `LiveStream`: weak fairness of `WindowEnds`, as time passes, and of `Complete`, a
  step a process that is up takes by itself. Starts are not assumed: `StreamEnds`
  holds although a process may be killed at any time and not come back.

## Refinement

* `InboundEvents`, and through it `IntegrationHub`, and `MobileWrites` implement
  `ApplyOnce` (`INSTANCE ... WITH`, the abstract specification as a PROPERTY):
  event rows and draft or action rows are its `effects`. Checked and proved.
* `LiveStream` implements `AppendLog`: the numbers ever written, those the loader
  has deleted included, are its `log`. Checked and proved.
* Each desk implements the core it extends (`DeskSpec => Spec`, `HubSpec => Spec`,
  `MaintenanceSpec => WorkOrdersSpec`), which is how theorems about the core carry
  over to the whole. Proved.

## The proofs

TLAPS checks them for every value of the constants, from the ASSUMEs of the
modules: sets that are not empty, seed data of the right types, client statuses
disjoint from computed ones, and, where something is counted or summed, finite
sets of threads and of lines. Every safety invariant and every action property
the runs check is proved, and so are both refinements; `theorems` in
`PROJECT.json` names the property each theorem states.

A proof goes the usual way: an inductive invariant that TLC has checked first, a
lemma per action that keeps it, and PTL for the last step. The properties are
hardly ever inductive themselves. They speak of rows, and are silent about a call
that is between two of its steps; the invariant says what such a call has in its
locals, and how that fits the rows it has not written yet.

* `SalesOrdersProofs`
  * `TypeCorrect`: `Spec => []TypeOK`.
  * `OrdersAreNeverOversold`: the invariant adds `Discipline` (on an order without
    overlap at most one thread writes) and `Quantified` (what that thread holds in
    its locals fits the line: at each step the quantity it is about to move is
    bounded by what is still pending).
  * `StatusIsTrue`: with an invariant that carries what the loop has collected
    (`FlagsSumUp`) up to the write of the status.
  * `RowsTellReservations`: `RowsBackReservations` is inductive with the types. It
    sums over the threads that have raised a line and not yet stored the row, so
    its proof needs to know what a fold does when one element comes or goes
    (`SumOfMore`, `SumIsSame`). Those lemmas are proved by way of a smallest
    counterexample: among the subsets of a finite set that a claim about sums
    fails for there is a smallest one (`SmallestSet`, from the library's
    well-foundedness of strict inclusion), and the recursion of the fold at that
    set contradicts it. This is induction over a finite set without a theorem that
    takes an operator.
  * `FillRatesArePercentages`: with `SeenInv`, what a call has read of the reserved
    quantities is at most what is ordered by now. It rests on `NeverOversold` and
    on orders only growing.
  * `DeskKeepsOrders`: the desk implements the orders. `DeletionsHappenOnce`: a
    customer two calls delete is answered "deleted" once.
* `IntegrationHubProofs`
  * `EventsApplyOnce`: the intake implements `ApplyOnce`. The invariant
    `OneOnItsWay(k)` tells where a key without collision can be: at most one thread
    before its key is stored, at most one before its event is.
  * `IgnoredEventsAreLogged`: with `StoredIsLogged`, a stored key has its event or
    a thread that will log it.
  * `HubKeepsIntake`: the hub implements the intake; `HubAppliesOnce` and
    `HubLogsIgnored` follow.
  * `ConfigurationAgrees`: `OneSwitch` has the switch under way agree with what it
    has written. `ImportsCommitWhole`: `Whole(id)` has the rows of an import
    complete from the moment nobody adds any more to the step that counts them.
    `CommitsNeedApprovals`: `Covered(id)` counts the commits that are done, those
    under way and the one an approved import still allows, together never more
    than its approvals unless two calls tested at one time; `Room(id)` grants each
    approval a commit of every thread, of which those under way have not used
    theirs. `HubTypeCorrect`.
* `MobileProofs`
  * `WritesApplyOnce`: batches and drafts implement `ApplyOnce`. `OneWriter(r)`:
    of a row without collision at most one thread is about to append it, and then
    it is not there. `ScanTrue`: what the look-up has found is stored, and it finds
    all there is unless a row without a key makes it raise.
  * `DevicesMayTrustAnswers`: with `Settled` (the verdict a thread is about to
    answer is true) and `InBatch` (the row it appends is that of the action at the
    head of its batch).
  * `DeskKeepsWrites`, `CommentsFollowDecisions` (`OneDecider`: on an approval without
    overlap one thread is between its status and its comment), `WritesTypeCorrect`.
  * `DisablingSignsOut`: `DisabledIsSignedOut` is silent while a loop logs sessions
    out. `BeingSignedOut` says of that time that one of the loops has passed no
    session that is still active; a later logout of the same device cannot harm it.
    `DevicesTypeCorrect`.
* `ShopFloorProofs`
  * Production: `ReservationsAreOnFile` and `CompletionsAreCosted`, from one invariant.
    `OneStores`: on a list without clash one thread is about to store, and what it
    kept is still what the list has of the other orders. `Gathered`: a reservation
    holds a row for each material its loop has passed. `OnFile` and `Costed` are the
    properties, extended over the time a call needs. `DeskKeepsProduction`,
    `ProductionTypeCorrect`.
  * Quality: `HeldLotsAreOnFile`, with `Inspects` (a call that is about to show a lot
    as held has made the row, and the lot it knows is on file) and `Decides` (a lot
    shown as failed has a call that has yet to hold it).
  * Maintenance: `CostsCoverSpares`: while a call is busy, a missing cost row is
    made up for by a thread that has not added up the rows yet, or has and found
    them all (`Covered`). `SparesAreAccountedFor`: between the write of a stock
    and its usage row a thread owes the books what it took, and any number of
    threads may owe at a time; so `Balanced` says that *there is* a function that
    gives each set of threads the sum of what they owe, with which the books
    balance. A step changes what one thread owes, and `SumMoves` gives the next
    function. `Ample` says of any overlap that neither the stock nor what a thread
    has read of it is below what the rows and the debts leave.
    `DeskKeepsWorkOrders`, `MaintenanceTypeCorrect` (no stock below zero) and
    `SettingsAreKept` (`OneWriter` and `Registered`: who is between a machine and
    its capabilities, and that every machine has them).
* `AccessProofs`
  * Accounts: `LinksAreSpent`, `TemporaryPasswordsAreForced`, `EnabledOnlyByAdmins`,
    `PasswordsAreNotReused` and `AccountsTypeCorrect`: every property of the module.
    `Alone` says that the password of a user who is not raced has one call at work,
    `Fresh` that the row still says what this call loaded, hence that the commit
    writes its copy as a whole; `Owned` says that a link belongs to one user, so
    spending a link of one leaves the others theirs; `LogTold` says that a row
    remembers the three newest passwords of the log, so what the row refuses is
    what the log forbids.
  * Portals: `EntriesFollow`, `OnlyOwnOrders`, `DisabledStayOut`, from `PortalsHold`.
    Each portal has its invariant: rows are the entries on file and those on their
    way (`Told`), what a call has found is the caller's own or has moved since, and
    users who are disabled leave a thread to spare for each login on its way
    (`Spares`). The two portals are different code with the same shape, so a step
    is first shown to be one of few kinds (`TrailStep`, `LateStep`, `Others`), and
    what these keep is proved once (`TrailKept`, `LateKept`).
* `DataHubProofs`: `ShownMappingsAreValidated`, `TrailIsTrue`,
  `AdminsKeepToTheirCompany`, `NoPageOfOthersChanges`, `OverridesAreFew`. A call
  commits changes it decided on earlier, so `HubInv` says of each change in hand
  what ties it to the rows: it is of its table and leaves the row's company alone
  (`Fits`, `Keeps`), the row it was read from is still of that company (`Stands`),
  a mapping comes with its validation (`Maps`), a connection comes and goes with
  its entry (`Tells`), and no two calls hold the same new connection (`Apart`).
  The two action properties then follow from one commit. `FewOverrides` adds the
  overrides on file to those still to come, a request's items at a time for each
  thread.
* `PlatformProofs`: `CompaniesComeWhole`, `RecordsAreAsAudited`, `AnswersAreKept`,
  `PagesAreOfOneCompany`. Every step is one of four (`Calls`, a call begins;
  `LookUp`; `Commit`; `Ends`), which leaves one lemma per handler (that what it begins
  with is `Ready`) and four per invariant. `BaseInv` types what is on file and in
  hand; `CompanyInv` finds the entry of every company and plant in the log, in hand
  or cut off; `RecordInv` has the last entry that changed a column tell what it
  holds; `LedgerInv` says that no call knows of an answer with its own number.
* `LiveStreamProofs`: `RestartsAreSafe` and `StreamAppends`, from `NoGap` (the numbers
  ever written are an interval from 1, and the place is not ahead of it) and `Exact`
  (inside a window the place is its end); `TypesHold`.

Components proved in one module have different names for everything and share
`ThreadPool`, as they share the pool in the code; nothing in them refers to one
another, except that the portals are composed in `Portals`.

Only model-checked: the liveness properties `DisableTakesEffect`,
`FailuresAreDecided` and `StreamEnds`, since fairness and ENABLED are out of the
provers' reach.

## Disagreements met

Where a document, a message or a comment says one thing and the code does another.
The models do what the code does; the properties are stated so as to hold of it.

* **Available stock** (`sales_service.py:108`): reserving never lowers what is
  available, so an allocation recommendation offers stock that reservations
  already hold, though it answers "protected reservations respected" (line 144).
* **Count items** (`mobile_service.py:105`): they carry an idempotency key that is
  never looked up; a repeat counts twice. `docs/platform-foundation.md:263` lists
  counts among the workflows with idempotency keys.
* **Offline actions** (`mobile_service.py:113`): the key is looked at only while
  the list is scanned, so an action without one is accepted into an empty list,
  and from then on every push whose scan gets that far fails, until a restart. An
  action without `local_action_id` is stored (122) and then fails its call (123),
  which leaves it and the rest of the batch without an answer.
* **Disabled devices** (`mobile.py:79`): "Mobile device disabled and sessions
  invalidated", but a login that had seen the device active adds a session after.
* **Completed production** (`production_service.py:161`): the reservations said to be
  released are still on file.
* **Live stream** (`run_vinod_live_stream.py:4`, `docs/vinod-scale-data-sync-report.md:365`):
  it is restart-safe inside its window. A restart after the window starts from
  sequence zero, meets the ids of the rows that are there, fails and is restarted,
  and never writes "Completed"; resuming does not write that it runs again.
* **Loader** (`seed_vinod_scale_data.py:220`): it deletes the stream's rows and leaves
  the stream's place, which then points past rows that are gone.
* **Data Hub**: two validations that overlap may leave "Passed" beside a mapping
  that misses a required field (`frontend_admin.py:841`); the details of a system that was
  moved to another company are shown there, and changing them is refused on
  their id (1117); the test of a connection never changes `last_test_status`, so a
  refresh never fails on it (921); the 403 of `resolve_datahub_company_id` cannot be
  reached; a restart overwrites seeded rows and brings deleted ones back.
* **Platform**: a company whose flag row was set before it existed can never be
  created; `PUT /runtime/records` lets an admin move a record to any company
  (`runtime_router.py:529`); a change by a super admin is audited under the super
  admin's company, so the record's own company does not see it; core_router's
  lists of users, roles, permissions, tasks, approvals and documents, and its audit
  log, show every company's rows, while runtime's audit log does not; two decisions on
  one approval may mix the status of one with the name of the other
  (`core_router.py:218`); a restart enables a seeded user whom an administrator
  disabled (`AsSeeded` in `Accounts`, which is why `OnlyAdminsEnable` excepts them).
* **Ledger** (`inventory.py:192`): two rows that get one number: the second is refused
  or overwrites the first; numbers may be skipped.
* **Hub**: an import row without a quantity counts as an error and is marked "Valid";
  a retried sync job stays "Retrying"; a PUT may set `enabled` and `status`
  independently (which is why `SwitchAgrees` excepts edits).
* **Portals**: whoever calls acts as the first user on file; a supplier's dashboard shows
  the overdue orders and expiring certificates of "supplier-apex", whoever the user
  is of; a PUT that only renames a customer's user lifts a disabling; refreshing works
  after a disabling; all invited suppliers share one id.
* **Maintenance**: an order can be closed after a completion that failed before
  its cost was written; an entry without `spare_part_id` fails the call after
  earlier spares were consumed (`maintenance_service.py:97`), and after one cost
  that is no number every costing of the order fails until a restart (154); a rule
  reads the first capabilities of an id, those of a deleted machine too.
* **Quality**: a lot in quarantine can be approved without a release, and a
  release leaves the lot in quarantine; the due date of a CAPA is a date and the
  risk center compares it with a string; the first pass yield counts lots twice,
  at two moments (`quality_service.py:102`), and can fall below zero.

## Hazards without a property

Besides those `PROJECT.json` lists without one (the yield of the quality key
figures among them): a closed order can be reserved and comes back to life
(`sales_service.py:53`); a production reservation compares what an order needs
with the whole stock, not with what other orders have left
(`production_service.py:43`); completing one of two maintenance orders puts the
machine back in service (`maintenance_service.py:95`), and two reservations of
spares may promise the same stock (111); `create_user` looks the email up and
inserts later, and emails are not unique (`runtime_router.py:398`); the traffic
table of `enterprise.py` is read while the middleware adds keys to it; `persist`
in `PlatformContext.tsx:65` stores the state its closure saw. The code allows the
first four in a plain sequence of calls, so a property would only restate that;
the others are outside what is modelled.

## Plan

Done: `SalesOrders`, `ApplyOnce`, `InboundEvents`, `MobileWrites`, `MobileDevices`,
`ProductionOrders`, `MaintenanceOrders`, `Accounts`; then `LiveStream` and
`AppendLog`, `Session` and `DataHub`, `Platform`, `Quality`, the portals,
`IntegrationHub`, the desks of sales, mobile, production and maintenance, and the
pages of the Data Hub and of the platform.

Every safety property the runs check is proved; the liveness properties stay with
TLC. Left, in order:

1. Editing a bill of material while orders are planned with it.
2. Roles of `runtime_router.py` and the expiry of passwords.
3. Exact counterparts of the exclusions: what still holds of a row on which two
   writing calls overlapped, stated and proved row by row.

## Not modelled

* Arithmetic reports, dashboards and predictions, the key figures of quality,
  costing, reporting, manufacturing intelligence, the factory pulse: they compute
  figures of seed rows, or append drafts, and store nothing that several calls
  change.
* The AI copilot and the inventory AI service: stateless rules and a stub.
* The job stubs of `jobs.py`, the counters and health endpoints of `enterprise.py`.
* `generate_walkthrough_video.py`, `seed_enterprise_data.py` and the migrations: one
  process that writes once.
* The React frontend: each user sees a copy in local storage.
* HTTP, authentication headers and validation by Pydantic are taken as given: a
  request that reaches a handler has the fields its schema demands and a user who
  may call it, except where a scope check is part of the handler.
