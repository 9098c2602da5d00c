# Courier OS: TLA+ models, checks and proofs

Courier OS is the back end of a courier company: a Go API and a Go worker over
one PostgreSQL database, with a React console and a Flutter scanner as clients.
A parcel is booked, picked up, scanned through branches and hubs in bags,
manifests and trips, delivered or returned, and paid for; cash collected at the
door travels back to the sender. This directory holds TLA+ models of the parts
whose correctness depends on the order of concurrent steps, TLC configurations
that check them on small instances, and proofs, checked by TLAPS, that hold for
every instance.

Contents: [inventory](#1-inventory), [modules](#2-modules-and-the-code),
[runs](#3-what-tlc-checks), [fairness](#4-fairness), [proofs](#5-what-is-proved),
[disagreements](#6-where-code-and-comments-disagree), [not
modelled](#7-what-is-not-modelled), [plan](#8-plan).

## 1. Inventory

Every service is a Go package under `src/internal`, writes through generated
queries (`src/db/queries/*.sql`) and keeps no state in memory. An operation is
one `database.InTx` transaction (READ COMMITTED) that locks the rows it changes
with `FOR UPDATE` or compares and swaps a status column; a uniqueness rule is a
(partial) unique index. Interaction between services is by calls inside one
transaction, by observers registered at start-up (delivery calls COD and
commission), and by rows of the `jobs` table that the worker process executes
later. Concurrency is therefore between transactions of different requests and
workers, and what is hard is: reads made before the transaction or without a
lock, statements that update whatever row they match, sequences of legal calls
by different operators, processes that die between two transactions, and
requests the client repeats.

| Part | State | Operations | What makes it correct |
|---|---|---|---|
| Job queue (`platform/jobs`) | `jobs` rows: status, attempts, lock, run_at; the worker's batch and goroutines | enqueue, claim, dispatch, execute, retry, dead-letter, reclaim, drain | an attempt is handed out once, within the budget; one live job per key; one run at a time decides; every job settles |
| Idempotency (`platform/idempotency`) | `idempotency_keys` rows | claim, take over, replay, run, complete, release, purge | the work commits once per key and everyone gets that answer; an abandoned key is not blocked for ever |
| Shipment engine (`shipment`) | `shipments` status, direction, hold, custody columns | `Apply` over the transition table, custody updates, cancel | only edges of the table; holds stop dispatch; one holder |
| Scanning | writes shipments | receive, depart, inspect, hold, release, damage | as above, whatever the facility |
| Bagging | `bags`, `bag_items` | create, add, remove, close, correct, dispatch, receive | a closed bag gains nothing; a bagged parcel is in its bag |
| Manifest | `manifests`, `manifest_bags`, loose shipments | create, load, unload, close, dispatch, receive | bags travel with their manifest; nothing is loaded twice |
| Linehaul | `trips`, `trip_legs` | create, assign, attach, depart, arrive, close, cancel | a vehicle takes only what a facility had, all of it, once |
| Returns (`rto`) | `rto_cases` | initiate, dispatch, receive, complete, fail | a parcel with a return only goes back |
| Cash on delivery (`cod`) | obligations, custody transfers, reconciliations, remittances | open, collect, declare, accept, open count, count, complete, create and confirm remittance; adjustments and disputes | cash is with one party, moves from who has it, is remitted once and in full; rows and books agree |
| Ledger | `journal_transactions`, `journal_entries`, accounts, periods | post, reverse, open and close periods | balanced, append-only, once per source and purpose |
| Delivery, NDR, POD | runs, stops, delivery codes, attempts, cases, proofs | plan, dispatch, attempt, act on a failure, submit proof | a parcel is out with one agent; an undelivered parcel has a case or a return; cash is owed exactly for what was delivered; a proof is of a fact |
| Booking, customers | shipments, number sequence, snapshots, corrections, credit | prepare, commit, correct, cancel; open, suspend, set the limit | credit used is what live bookings cost; no correction is lost |
| Pickup | requests, assignments, runs, attempts | create, assign, respond, arrive, complete, cancel | a parcel is collected on one request, once |
| Hub operations | reconciliations, exceptions | start, scan, complete, raise, resolve | what was declared is found or is an exception |
| Commission, settlement, collections | calculations, statements, adjustments, collections | calculate, sweep, approve, pay, cancel, adjust, reverse | nothing is on two statements; the books are worth what approved statements say |
| Billing | invoices, number sequence, payments, notes | draft, issue, bank, credit | a shipment is billed once; the receivable is what the documents say |
| Sessions (`auth`) | users, reset links, sessions in a rotation chain, cache | login, refresh, reuse handling, logout, reset, deactivate, resolve | a login has one live session; what is revoked leaves the cache for good |
| Notification, webhooks | outbox rows, keys, endpoints, deliveries | raise, deliver, retry, sweep, reclaim, pause, replay | one sender per row; an event is told once; a delivery ends |
| Geography, network, products | PIN codes, zones, imports, units, franchises, products | forms with a version, staged imports resumed by a worker, caches | an import survives a crash and a second handler; a stale form is refused |
| Serviceability | areas, rules, routes, overrides, closures | forms, resolution | a plan given out has neither end closed |
| Pricing, money | rate cards, versions, tariff rows, tax rules | draft, activate, archive, quote | published versions leave no gap on record; a quote totals its lines and leaves the premium alone |
| Reporting, APIs, UIs | views | list, export, parse | no state of their own |

`PROJECT.json` lists every component with its status, and under `hazards` the
places where something can go wrong that a test would hardly reach, each with
the properties that cover it.

## 2. Modules and the code

| Module | Models | Notes |
|---|---|---|
| `Jobs` | `platform/jobs/jobs.go`, its statements in `platform.sql`, the drain in `cmd/worker` | one action per statement or goroutine step |
| `Idempotency` | `platform/idempotency/idempotency.go` | a call is a small program counter, because its statements are separate transactions |
| `Shipment` | `shipment/state.go`, `transition.go` | the whole transition table as a set of edges; `CanApply` and `Moved` are `Apply`'s checks and effect |
| `Scanning`, `Bagging`, `Manifest`, `Linehaul`, `Rto` | the service of that name | each EXTENDS `Shipment`, or one another as the services call each other |
| `Movement` | the composition of these six over the shared rows | `Next` is any operation of any operator |
| `Custody` | abstract: where a parcel is | implemented by `Movement` |
| `Ledger` | `ledger.Post`, `Reverse`, the balances | used by the finance services inside their transaction |
| `Cod` | `cod/cod.go`, `cod/reconciliation.go`, `cod.sql` | EXTENDS `Ledger` |
| `CashChain` | abstract: where the cash is | implemented by `Cod` |
| `Ndr`, `Delivery` | `ndr`; `delivery`, `pod` and what `financeops` does on delivery | over `Rto` and so over `Shipment` |
| `LastMile` | their composition with the counter scan and the return | `Next` is any step of any agent, clerk or supervisor |
| `Settlement` | `commission`, `settlement`, `collection` | EXTENDS `Ledger` |
| `Billing` | `billing` | EXTENDS `Ledger` |
| `Sessions` | `auth/service.go`, `middleware.go`, the user forms that end sessions | a request is a small program counter: its statements and its cache calls are separate steps |
| `Outbox` | `notification` and the partner's webhooks: their rows and statements, and the jobs and threads that carry them | claim, send, mark and endpoint bookkeeping are separate steps |
| `Booking`, `Pickup` | `customer` with `shipment/booking.go` and its neighbours, `pickup` | over `Shipment` |
| `FrontDoor` | their composition with the counter scan | from order to collected parcel |
| `HubOps`, `Geography`, `Network`, `Serviceability`, `Pricing` | the package of that name (`Network` with `product`) | `Serviceability` reads `Network`; `MCBackOffice` puts the five side by side |
| `MC*` | small instances | model values, routes, symmetry, and what a behaviour may combine |
| `*Proofs` | theorems | extend the components and TLAPS |
| `SumTheorems` | lemmas about sums and ordered loops | models no code; used by the proofs on money |

Correspondence of state to code:

* **Jobs.** `status`, `attempts`, `delay`, `lockAge` are the columns `status`,
  `attempts`, `run_at - now()` and `now() - locked_at`; `batch` is the slice a
  poll returned, `execs` the goroutines in `execute` or `fail`. `CompleteJob` and
  `RetryJob` update by id alone, as the SQL does. `Crash` loses `batch` and
  `execs`; the rows stay. `ran`, `unrun`, `released` and `overtaken` are history:
  handlers started, attempts given up, expired locks, and those with a holder.
* **Idempotency.** `pc` says which statement the call executes next; `executed`
  counts committed work. `CommitLost` is a commit that succeeded although the
  caller was told it failed. `Release` deletes by key, whoever owns it.
* **Movement.** `ship[s]` is the part of the shipments row that moves (status,
  direction, hold, custody unit and user, bag, trip). A manifest created for a
  trip is two actions because the code reads the trip before its transaction
  opens; every other operation is one. Quantities, seals, dimensions and
  documents are left out. Booking is the initial state, with the counter that
  booked the parcel chosen from `BookingUnits`.
* **Cod.** `ob`, `transfer`, `recon` and `remit` are the four tables with their
  items folded in; `counting` holds `RecordCount` calls between their unlocked
  read and their write. Amounts are integers, the sum of items is computed
  where the code computes it. `Post` is part of the action whose transaction it
  runs in, and its refusal (an empty or unbalanced posting) is a guard.

* **LastMile.** `run`, `stop`, `otp`, `att`, `pod` and `ndr` are the tables; `owed`
  the parcels with an obligation. `submit` is a proof whose artifacts are stored
  and whose transaction has not started. `att` keeps the cash of the hand-over and,
  apart (`loose`), what other outcomes report. A wrong code is an action of its own
  that keeps the counter as it was, because the code's increment is rolled back
  with the request; `guesses` is what was really tried.
* **Settlement.** `calc`, `stl`, `coll`, `adj` are the tables, a statement with its
  lines; `cancel` is a cancellation between its two writes. Days are
  integers and a commission an amount per earning.
* **Billing.** `asked[c]` is a clerk's request between what it has read and what it
  writes: a draft's shipments, a payment's probe for its reference.
* **Sessions.** `thr` is a request with what it has read; `cache` the sessions whose
  snapshot is cached; a rotation holds the parent's row lock until it commits; a
  login rehashes, opens its session and records its success in three statements.
* **Outbox.** `job` is what `Jobs` promises of a job (at least once, one thread at a
  time, stale after a death); `wk` a thread with what it has done to its row.
* **FrontDoor.** `book` has the unit the booking was made at, which need not be the
  origin branch; `visit` the visits with the key their event was filed under; `prep`
  is a booking between `Prepare` and `Commit`, `form` an opened correction, `seen` a
  request row read before its transaction.
* **Back office.** `screen` is an opened form with the version it shows; `reader` a
  cache miss between its read and its write; `walk` is a handler of an import, of
  which there may be several, with the rows it has claimed and not yet applied;
  `opening` the capabilities a new unit still waits for; `blind` a resolution whose
  lookup of closures failed. Uploads and handlers may die between any two statements.

The state machines have a type invariant (`TypeOK`, with the part's name before it
where several parts meet in one proof module). It is proved in section 5 wherever an
inductive invariant rests on it; the back office's other parts have theirs
inside that invariant (`PricingRows`, `ImportInv`, `ConfigOK`).
Definitions whose name begins a comment with "Mutant" are plausible bugs: each
property is shown to fail when the mutant takes the place of the definition
after it, so that no property holds by the shape of the model alone.

## 3. What TLC checks

| Run | Instance | States | Shows |
|---|---|---|---|
| `jobs` | 3 jobs (2 on one dedupe key), 2 workers, 2 attempts, 1 fault, a lock shorter than a handler's deadline | 153 k | `HandedOnce`, `WithinBudget`, `OneLivePerKey`, `OneRunDecides`, `EventuallySettled` |
| `idempotency` | 3 clients, 1 key, 2 payloads, 2 faults | 290 k | `AtMostOnce`, `OneAnswer`, `EventuallyAnswered` |
| `movement` | 1 parcel, 1 bag, 1 manifest, 1 trip, 2 branches and a hub, custody overrides | 152 k | `BagsTravelWithManifest`, `BagsTruthful`, `ReturnsGoBack`, `OneHolder`, `HeldNotDispatched`, `CustodySpec` |
| `cod` | 2 obligations, 2 agents, 1 branch, 2 transfers, 1 count, 2 remittances | 763 k | custody, remittance, hand-in from the holder, `CashSpec` |
| `cod_books` | 1 obligation, agent and branch | violation | rows and books disagree |
| `lastmile` | 1 COD parcel, 2 runs, 2 agents, 1 clerk, 2 attempts, 2 reasons | 109 k | `RunsInStep`, `UndeliveredOwned`, `DeliveryIsOwed`, `ProofOfFact` |
| `lastmile_cash` | the same | violation | cash that a hand-over of a return took has no owner |
| `accounts` | settlement or billing: 1 commission, 1 collection, 1 holding, 1 adjustment, 2 statements over 1 or 2 days; 2 shipments, 2 clerks, 2 invoices in 2 years, 2 notes, 1 reference | 694 k | `OnOneStatement`, `LedgerAgrees`, `AgreedStaysAgreed`; `BilledOnce`, `BooksMatchDocuments` |
| `auth` | 1 user, 2 requests at a time, 3 sessions, 1 reset link; tokens, cache or user forms | 57 k | `OneLivePerChain`, `RevokedGoesAway` |
| `outbox` | 2 notifications on one key, 2 deliveries, 2 threads, 2 attempts, 1 death, 1 retry | 150 k | `ToldByOne`, `DeliverySettles` |
| `frontdoor` | 2 parcels, 2 accounts, 2 requests, 2 assignments, 1 device report, 2 editors, 2 tariffs, 1 change of an account | 173 k | `CreditBacked`, `CollectedOnce`, `NoLostCorrection` |
| `backoffice` | one part at a time: a count of 2 of 3 parcels; 2 imports of 2 or 3 rows, 2 handlers; 4 units; 2 areas, 2 routes; 2 cards, 3 versions, 3 dates, 2 taxes | 344 k | `DifferencesOwned`, `ImportResumable`, `StaleFormRefused`, `PlanHonoursClosures`, `PricedInFull` |

**Bounds and why they are enough.** The instances leave out combinations of
steps that read nothing of each other; each `MC` module says which, next to the
constraint. What a cut leaves out is still covered by the theorems of section 5,
whose `Spec` has no such cut.

* *Jobs.* Two workers are what a stale lock needs, two jobs of one key what the
  dedupe index needs, and the third job, with no key, shows a batch in which only
  one claim gets the slot. `AttemptsBound` cuts behaviours in which a row is
  claimed more often than `MaxAttempts + 1` times. `MaxFaults` bounds crashes,
  drains and lost statements; without a bound nothing would ever settle. Liveness
  rules a symmetry set out, so the instance breaks the symmetry itself: of the two
  jobs of one key the first is submitted first, the process that goes down is
  the first worker's, and what can go wrong goes wrong with the first job.
  `StuckAfter = 0` with a deadline of 1 keeps the order of the defaults (a lock of
  15 minutes, a deadline of 30): a lock may expire under its living holder, once.
* *Idempotency.* Three clients give an owner, a take-over and a reader; one of them
  sends another body, so a take-over may come from it.
* *Movement.* One parcel is enough because no operation relates two parcels except
  by carrying them in the same container, and the theorems hold for any number. A
  behaviour in which a bag exists stays on the first lane, on a trip with its crew
  that makes no way stops and is neither cancelled nor closed, and no hand-over of
  a return fails; loose parcels use both lanes, any stops and every ending.
* *Cod.* Two obligations make a transfer, a count or a remittance partly right,
  two agents make "another party of the same kind" possible, and two remittances
  can name the same cash; amounts and counts of 1 still give matched lines,
  shortages and excesses. `MaxCounting` allows one count in flight.
* *LastMile.* Two runs and two agents are what competing plans need; the second
  agent is a supervisor, who may act for the first. `MaxAttempts = 2` reaches the
  exhaustion of a case. No run touches a code or a proof that is being submitted:
  both are offered while one run at most is planned, and one at a time, and so is
  cash reported by an attempt that delivers nothing.
* *Accounts.* Settlement and billing share the journal, in which each reads its own
  accounts, so a behaviour works on one of them. Settlement: two statements whose
  periods coincide, follow or overlap; a commission worth 2 and a correction of 1
  make nets of both signs; a payment may be partial. `MaxRaises = 1`: a reversed
  commission is not raised again. One cancellation is under way at a time; the cash
  held changes while the first statement is drawn up, in behaviours without a
  correction. Billing: two clerks compete for two shipments; `Slack` is the table's
  tolerance of payments and credits above the total; two years give two number
  series, where nothing is paid or credited.
* *Sessions.* Two requests at a time and three sessions: a login, its rotation and a
  second login or rotation. A third request adds no new pair of steps. A behaviour
  asks of the tokens (three sessions), of the cache (two) or of the user forms (one).
* *Outbox.* The two services share only the threads, so a behaviour uses one of
  them, and the partner's key is done with before its endpoint exists. Rows are
  taken in order; an operator changes the subscription before the first delivery
  and the endpoint's status before the second. A row goes stale (15 min) only when
  its sender is gone, since a send ends within 20 s.
* *FrontDoor.* A behaviour with collections has both parcels booked first, the
  second prepaid (taken in at a desk that is not its origin branch) and collected
  with the first, the run planned, the first visit reported by a device, which may
  repeat it, and no change by the office but the cancellation of the first parcel.
  Corrections are edited where one booking was made and no account or tariff was
  changed: none of these reads the other.
* *Back office.* Its parts share no row, so a behaviour uses one of them; routing
  starts from a network already set up. `MaxEdits`, `MaxRows`, `MaxVersions` and
  `MaxExceptions` bound what administrators and hubs create. Within a part: only
  the first exception of a count is worked on; lookups and administration are of
  the first PIN code, and an import runs alone, under two handlers that may overlap;
  the network is one hub and one branch of a franchise; of the
  routing tables one row at most is out of force, areas come before routes and
  routes before what refers to them; quotes with every kind of rule are of one
  version of the default card, and where versions compete, quotes are by the zone
  rate alone.

`CHECK_DEADLOCK FALSE` is used where documents run out and the system may rest:
everywhere but in Jobs and Idempotency.

Symmetry is used where only invariants and action properties are checked
(`lastmile` over runs, `accounts` over clerks and notes, `frontdoor` over requests,
assignments and editors), over sets whose members are interchangeable in every
definition.

## 4. Fairness

The models of people's decisions (`Movement`, `Cod`, `LastMile`, `Settlement`,
`Billing`, `FrontDoor`, back office) state no fairness.

`Jobs!FairSpec` assumes that time passes, that the poll loop of a running worker
keeps being scheduled and polls even while other work is available (it is a
ticker), that goroutines in a handler end because the handler honours the
deadline of its context, and that the container supervisor restarts a worker
(`restart: unless-stopped` in `docker-compose.yml`). No fairness is assumed of
enqueues, crashes, drains or lost statements. `EventuallySettled` holds although
any `MaxFaults` of those happen.

`Idempotency!FairSpec` assumes that time passes and that a client whose request
failed repeats it and a call in progress goes on, which the scanner's offline
queue does. `EventuallyAnswered` then needs `StaleAfter` and the take-over.

`OutboxSpec` assumes that a thread goes on with what it has begun (each send has
a deadline of its own), that a queued job is eventually picked up and a stale one
reclaimed (what `Jobs` shows), and that the worker's minute sweep reaches every
row it selects. Deaths of threads, retries and replays are not fair.

`SessionsFairness` assumes that a request that has started runs on (its context
has a deadline) and that a cached snapshot expires (`middleware.go` sets a TTL that
no read extends). Nobody is assumed to log in, refresh or log out.

## 5. What is proved

The theorems hold for every value of the constants that satisfies the `ASSUME`s
of the module, for any number of workers, clients, parcels, parties and
documents; they use neither the model bounds nor the cuts of the `MC` modules.
36 of the 40 properties of the passing runs are stated by a theorem: every safety
property; the other four are about liveness.

* `JobsProofs`: `TypeCorrect`, `BudgetCorrect`, `KeyCorrect`, `HandedCorrect` and
  `OneRunCorrect`. `HandedOnce` is inductive thanks to its last conjunct: what is
  in a batch or in flight was counted in `attempts` when it was claimed, and a
  claim increments it, so a new claim differs from every one still held.
  `WithinBudget` follows from an account of attempts (`BudgetInv`): each one a row
  has counted was run, was given up by a draining or dying worker, or waits in a
  batch, and no row with a spent budget is PENDING unless its lock expired.
  `OneRunDecides` holds whatever the timeouts: whoever holds a job holds its last
  attempt (`Owned`), but for the jobs it names, those that failed permanently
  (section 6) and those whose lock expired under a living holder (`overtaken`).
  `NeverOvertaken` says where the second set is empty: under `Patient`, a
  `StuckAfter` of at least `BatchSize + 1` times the deadline of a job, which the
  defaults are not. Its invariant is an account of time: the age of a waiting
  claim's lock and the work its batch still has never exceed a whole batch's work
  and what the handlers in its way have used so far (`Waiting`), and a handler
  started within a batch's work of its claim (`InTime`).
* `PlatformProofs`, idempotency: `IdempotencyTypeCorrect`, `AtMostOnceCorrect` and
  `OneAnswerCorrect`, the last two assuming `RequestTimeout + ReleaseTimeout <=
  StaleAfter`. The condition is needed (section 6), and the code guarantees only
  its first half, because the release runs without a deadline. The inductive
  invariant relates ages: an owner's age never exceeds the age of the row it
  owns, so no row with a live owner is stale. The stored answer is for the body
  whose digest the row keeps, unless a caller with another body took it over
  (`adopted`); equal bodies get equal answers in any case.
* `MovementProofs`: `TypeCorrect`, `ExactlyOneHolder`, `HoldStopsDispatch`,
  `MovementImplementsCustody`, `BagsGoAlong`, `ReturnsOnlyBack` and
  `BagsTellTheTruth`. `OneHolder` is not inductive: which of facility and vehicle
  has a parcel depends on its status (`RowInv`), the vehicle recorded on a row has
  left, and only a parcel already on its way back has an open return, since a
  return may be received anywhere (`CustodyInv`). The refinement maps a row to who
  has the parcel and where. The bag properties rest on lemmas that say, once for
  all operations, what can become of a bag, of its items and of a manifest
  (`BagFate`, `ItemFate`, `ManifestFate`), and of a return (`CaseFate`: an open
  return leaves only the table's edges between return statuses, whatever the
  direction column says).
  `TravelInv` adds that a loaded bag has been closed; `BaggedInv` that the bag a
  parcel names is the only one it is in, without which taking it out of another
  bag would go unnoticed.
* `FinanceProofs`, cash on delivery: `CodTypeCorrect`, `CustodyCorrect`,
  `RemittedCorrect`, `ConfirmedCorrect`, `HandInFromHolder` and
  `CodImplementsCashChain`, from one inductive invariant `CodInv`. Its core is
  `TransferInv`: transfers share no items, an item of an undecided transfer that is
  still in custody is with its giver, and cash of a branch or franchise is the item
  of some transfer, so only agents can give. This is what makes
  `MoveObligationCustody` safe although it compares a status and not the holder.
  `RemitInv` adds that what was remittable when a remittance was created stays so,
  at the amount written down. `TransferFromHolder`, `ConfirmedMeansRemitted` and
  `CashSpec` rest on the partial unique index never being released
  (`OnlyUndecidedBlocks`, section 6): a fix that releases it on acceptance has to
  compare the custodian too.
* `LastMileProofs`: `TypeCorrect`, `RunsAgree`, `UndeliveredHasOwner`,
  `DeliveriesOwed`
  and `ProofsOfFact`, from `LastMileInv`. `Fate` says what one step of any service
  can do to a parcel together with its case, its return, its attempts and its
  obligation; the three properties about parcels follow from it. `RunsInStep` needs
  two more facts: one run at most has a parcel on an active stop (`OneRun`), and a
  parcel that is out is brought by a run that has left, with the agent the parcel
  names (`Brought`).
* `FinanceProofs`, settlement: `CommissionOnce`, `CorrectionOnce`, `AgreedStays`,
  `LedgerAgreesAlways` and `StatementsTypeCorrect`. The invariant says that a live
  statement with a line for a commission is the one the commission is attached to,
  and that what a cancellation found attached between its two writes still is; a
  correction with a line is approved and not posted, and one that was posted
  belongs to a frozen statement (`Inv`). The ledger identity is inductive together
  with two more facts (`Accounts`): a journal of a statement, a payment or a
  correction exists only once the row has reached the state that posts it
  (`Journals`), so `Post`, which answers a known source with the old journal,
  really writes; and a statement is paid within its net and not before it is
  frozen (`Lined`). Each action then moves one term of the sum over the journals
  and one term of the sum over the rows, by the same amount.
* `FinanceProofs`, billing: `BilledOnceEach`, `BooksMatch` and `BillingTypeCorrect`.
  `BilledOnce` with the rows' shape is inductive, because a draft that lost the race
  for a shipment meets the unique index. `BooksMatchDocuments` needs, as above, that
  a journal names an issued document or a banked payment (`BillJournals`), and
  that payments are numbered, so that two of the same amount are two (`BillRows`).
* `PlatformProofs`, outbox: `OutboxTypeCorrect` and `ToldByOneCorrect`. A row
  that a thread sends says SENDING, and no other thread sends it (`Claimed`); of the
  notifications of one key one at most is neither dead nor cancelled
  (`OneCovered`), also while an operator retries.
* `PlatformProofs`, sessions: `SessionsTypeCorrect` and `OneLive`. A
  rotation between its lock and its commit holds a live row, alone (`HeldByOne`),
  so the child it inserts is the only live session of its chain.
* `FrontDoorProofs`: `DeskInvariant`, `NoCorrectionLost`, `CollectedOnceCorrect` and
  `CreditBackedCorrect`. A form shows the corrections of its booking unless the
  version has moved on (`Forms`). A line is written PICKED_UP only by the step that
  takes its parcel out of PICKUP_ASSIGNED, and nothing brings a collected parcel
  back to waiting (`OneRequest`, `Fated`); this reads the whole transition table.
  `CreditBacked` needs that the payer of a credit booking has an account from
  `Prepare` on (`Payers`, `Prepared`), that an account without a profile has used
  nothing (`Profiles`), and that a parcel has at most a reservation and, once
  cancelled, a release, so that neither is already in the history when it is written
  (`History`).
* `BackOfficeProofs`, about five modules of which only two share rows:
  * `HubTypeCorrect` and `NothingLostInACount`. While a count is in progress every
    line is what its scans and exceptions say (`Tallied`); completion gives each
    shortage the exception that `DifferencesOwned` asks for (`Settles`). The
    exceptions of a finished count are never added to or taken away.
  * `StaleFormsRefused`: a form shows its row as it was at some version, and the
    row itself if the version is the row's (`Shows`); every write raises it.
  * `ImportsResume`: rows up to a handler's cursor, and those its claimed batch jumps
    over, are done, and none goes back to PENDING (`HandlerKept`), so a handler that
    claims nothing has left nothing, whatever another one did. The counters are
    the numbers of the rows in each status as long as no two handlers have met
    (`RowKept`, `OneEach`); after that they are no less.
  * `PlansHonourClosures`: after `checkClosures`, the closures known when the question
    was asked and still in force stop neither end (`Clear`), although tables
    change between the reads, unless the lookup failed (`Sound`).
  * `DatesOnRecord`, `QuotesInFull` and `PricesTypeCorrect`. The published versions of
    a card stand in a row and the active one is the last (`OneByOne`): an activation
    ends its predecessor where it starts, and the CHECK on the range refuses one that
    would start earlier. This is about the dates on record; a superseded version
    prices nothing (section 6). A quote leaves the premium alone because what
    discounts are taken from leaves it out (`Sums`), the discounts of a card never
    exceed their basis in whichever order its rules come (`Discounts`), and a
    concession, fixed or not, takes the rest at most; so no floor hides anything.
* `SumTheorems`: the lemmas about sums that the proofs on money cite. A sum over a
  finite set exists, is a number, does not depend on the order, and follows one
  term that comes, goes or changes (`SumAdd`, `SumRemove`, `SumChange`); a loop over
  rows in an order keeps what each of its steps keeps (`LoopKeeps`).

Assumptions on the constants say that names of different kinds differ (`Nil` is no
statement, no franchise and no customer, units are no franchises, the parties of
COD are disjoint), that limits and amounts are numbers, that a file is a sequence
of rows, that what is summed over is finite, and that the rows of a tariff satisfy
the CHECKs of `0009_pricing.up.sql` and `0037_courier_pricing_masters.up.sql`.

Provers know no induction over an operator. Where a proof needs one, it takes the
least member of a set of numbers, which the library proves to exist (`WFMin`): the
first rows of an import that are left, the table row that a resolver prefers, or, in
`SumTheorems`, a smallest set on which a claim about a sum or a loop fails. Sums
and loops are written with the folds of the community modules for this reason.

Only model-checked, and why: liveness (`EventuallySettled`, `EventuallyAnswered`,
`RevokedGoesAway`, `DeliverySettles`) is outside the prover's reach. That the books
and the rows of COD disagree (`BooksAgree`), and that a return handed over for cash
owes it to nobody (`CashHasOwner`), are counterexamples, which TLC gives.

## 6. Where code and comments disagree

Two runs have the expectation "violation". `cod_books`: paying the consignor leaves
the holder's receivable open, so `BooksAgree` fails. `lastmile_cash`: an attempt that
completes a return records the cash it took and opens no obligation, which
`financeops.go:165` calls cash with no owner, so `CashHasOwner` fails. The formulas below
state other sentences of the code that the model does not keep; each stands in
its module under "What the code says of itself and does not keep" (or beside the
properties), and TLC refutes it when it takes the place of the properties in the
module's configuration (`NoDraftTravels` with a second manifest, `GuessesBounded`
with `MaxGuesses = 2`). `PROJECT.json` quotes the line most of them contradict.

* `Jobs!PermanentNotRetried`: `fail` dead-letters a permanent failure by calling
  `RetryJob` in a loop that never counts an attempt, so the row is PENDING
  between two turns and another worker runs the job again.
* `Idempotency!AtMostOnce` with a release slower than `StaleAfter`:
  `FailIdempotencyKey` deletes the reservation by key, also that of the call that
  took over, and a third call commits the work again. `AnsweredForItsBody`: a
  take-over keeps the previous request's digest (`platform.sql:153`), so a caller
  with another body may be answered with a response that is not for it.
* `Movement!NoDraftTravels`: `manifest.Create` checks the trip outside its
  transaction; the trip may leave first. `Movement!LoadedOnce`: bagging does not
  look at loose loading. `Rto!ReverseFromTheStart`: the direction flips to REVERSE when
  the return is dispatched and not when it starts; `ReturnsGoBack` holds all the same.
* `Cod!OnlyUndecidedBlocks`: the items of an accepted transfer stay INCLUDED, so
  the branch cannot hand the cash on.
* `LastMile!GuessesBounded`: the count of wrong codes is rolled back with the
  request.
* `Settlement!CollectionsDeducted`: a recalculation drops collections the statement
  has claimed. `NothingStranded`, `OwedOnce`, `PaidCarriesNothing`,
  `CorrectionsCount` and `CashOnOneStatement`: a rebuild during a cancellation
  leaves commission on a cancelled statement, an unpaid net is carried forward and
  stays payable, a negative net that was paid is carried again, a correction
  approved under review is not recalculated, and the cash sweep marks nothing.
* `Billing!BankedOnce`: the probe for a payment's reference precedes the lock and no
  index covers it. `NoNegativeReceivable`: a credit note is measured when raised
  and not when issued.
* `Sessions!LockHasEnd`: a login under way erases the end of a lock and not the
  lock. `Sessions!ChainIsRevoked`: a child committed during the revocation of its
  chain survives it. `Sessions!SomeAdministrator`: the count of administrators is
  checked only by a deactivation, and before its transaction.
* `Outbox!NotificationSettles`: a death during the last attempt leaves the
  notification SENDING.
* `FrontDoor!LookupUnambiguous`: a paper number may equal another parcel's number.
* `Pricing!CardAlwaysPriced`: a superseded version prices nothing, and the new one
  not yet.
* `Geography!AppliedOnce`: two handlers of one import that are alive at once claim the
  same rows, apply them twice and count them twice.

Seen while modelling, and not stated as formulas:

* Jobs: `ReleaseStuckJobs` reclaims a living handler when its job's timeout
  (30 min at most) exceeds `StuckAfter` (15 min), after which two handlers run and
  the later outcome stands; the run has such behaviours and `OneRunDecides` names
  them (`overtaken`). `NeverOvertaken` says what a deployment has to guarantee:
  `StuckAfter` of at least `BatchSize + 1` times the longest deadline, because
  the last claim of a batch waits, locked, for every handler before it.
  `requeue` of a batch at shutdown may dead-letter an attempt whose
  handler never ran.
* Movement: `AttachManifest` does not compare the manifest's origin with the
  trip's; a hold does not stop a parcel already dispatched from boarding
  (`transition.go:180`); a cancelled trip keeps its manifests
  (`linehaul/movement.go:520`); receiving a manifest leaves bag items in place
  (`manifest/lifecycle.go:468`); a return may be received at a facility before it
  is dispatched (`rto.go:377`).
* Cod: two remittances of the same cash may both be created and confirmed, and
  both post, although the obligation counts once; cash remitted to head office
  is REMITTED, so the consignor cannot be paid through a remittance; a transfer
  to head office can be declared and never accepted; a transfer whose cash was
  counted or remitted meanwhile stays DECLARED for ever; a count may name
  another party's obligation; a line missing at one count is charged again at
  the next; RECONCILED cash leaves `SumCODInCustody` and stays on the books.
* Last mile: a run accepts returning parcels that can never be dispatched with it
  (`delivery.go:225`), which then blocks the run; a counter scan leaves the stop
  active; no case is ever RESOLVED_DELIVERED; an attempt that delivers nothing may
  report cash, which is stored and owed by nobody; a return completed by an attempt
  leaves its case open; artifacts of a refused proof are never removed;
  `RecordAttempt` and `Dispatch` lock run and shipments in opposite orders.
* Settlement: the collection sweep ends a day early; reversing a commission on an
  approved statement is not refused; a commission's journal can be reversed by
  the ledger's own endpoint and the commission stays POSTED; `GetPartyBalance`
  adds what is owed to what is owing; superseding a commission rule leaves earlier
  dates without one.
* Billing: drafts are never discarded, and debit notes are not in the outstanding
  amount.
* Outbox: `SetPreference` can never write (its identifier fails the table's CHECK,
  `0026_notifications.up.sql:79`); a webhook is sent whatever the endpoint's
  status; a failure turns DISABLED into PAUSED; a failed enqueue aborts the
  caller's transaction although it is only logged.
* Front door: an account suspended between `Prepare` and `Commit` still books;
  cancelling a shipment leaves its pickup line PENDING; a request whose parcels
  are PICKUP_ASSIGNED cannot be cancelled, since the table has no such edge;
  visits may exceed `max_attempts` by reschedules; `Respond` and `Assign` lock in
  opposite orders.
* Back office: a second scan turns an EXCESS or DAMAGED line into MATCHED; the
  check before a unit's deactivation is made outside its transaction; `updateUnit`
  reactivates a unit and accepts a cycle of parents; a retried import ends
  COMPLETED although earlier rows failed; a cache miss may write a value older
  than the invalidation; an upload that ends between staging and enqueueing leaves
  its import PENDING for ever; `createUnit` may leave a unit with part of its
  capabilities (it writes without a transaction); closures are looked up at the two
  ends and nowhere in between, and a failed lookup treats the lane as open
  (`resolver.go:408`); archiving a draft version always fails a CHECK; the slab
  branch "beyond the last slab" can never run.

## 7. What is not modelled

* The parts with status `not_modelled` in `PROJECT.json`, for the reasons there:
  pure reads, adapters, user interfaces, infrastructure.
* What the notes of the parts with status `partly` name: labels, documents and
  search screens, the fleet register, COD adjustments and disputes, accounting
  periods, commission rules and their versions, the state tariff and the tax by
  place of supply, statements without a caller.
* Statement-level interleaving inside a transaction. Where a transaction locks
  what it reads, one step is exact. Where it does not (manifest creation, COD
  counts, drafts and payments of invoices, cancellation of statements, proofs,
  bookings, pickup requests, session revocation, sends, cache fills, imports) the
  model has two steps or more. Known remaining cases: the completion of a COD
  count reads its lines twice (`cod/reconciliation.go:231`), manifest receipt reads
  a parcel before it locks it (`manifest/lifecycle.go:432`), and `ledger.Post`
  probes for its source before it inserts, where the loser of a race fails
  (`ledger.go:294`) and is retried by its caller or not at all.
* Lock-order deadlocks between transactions, which PostgreSQL breaks by aborting
  one of them: an aborted transaction is a step that did not happen.
* Tenancy and permissions: every model is one organization whose callers are
  allowed to do what they ask.
* Times of day and currencies; periods are days numbered from 1.

## 8. Plan

1. Abstract specifications of the statement ("every earning is on one statement
   and paid once") and of the outbox ("told once or given up"), and that
   `Settlement` and `Outbox` implement them, as `Movement` and `Cod` do theirs.
2. Where the code is changed for one of the disagreements of section 6: its
   formula becomes an invariant of the run and the proofs of that part are checked
   again. `BooksAgree`, once it holds, is provable as `LedgerAgrees` is.
3. `Movement` and `LastMile` as one composition: a parcel's row is the same in
   both, and today each has the other's steps only where they meet.
