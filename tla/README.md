# Formal models of CommerceOps

CommerceOps runs the back office of an e-commerce seller: it takes marketplace
order files in, batches the orders, prints their labels, keeps the stock, packs
consignments for dealers and takes returns back. The API server is written in Go
over PostgreSQL (`services/api`); a second Go program, the printer agent, runs
beside the printers and polls the server. This directory holds TLA+ models of
that code, the TLC instances that check them, and proofs about them for TLAPS.

Paths below are relative to `services/api/internal/` unless they start with `docs/`.

## Inventory

| Part | State | Operations | What is hard | What makes it correct |
| --- | --- | --- | --- | --- |
| Print queue (`printing/service.go`) | `printer_jobs` with status, lease, holder, attempts; agents; registered printers; library assets | create, retry, cancel, revoke, enable; agent API: heartbeat, claim, fetch, report | claims, reports and cancellations interleave; answers are lost; requests run after their client gave up; leases expire | PRINT-003: no job is printed twice; cancelled is never printed; completed was printed; each job ends |
| Printer agent (`printeragent/`) | program counter of a Tick, lease token, journal file | Tick: heartbeat, claim, download, report, record, submit to CUPS, record, report | crashes between any two steps; a journal write cut short | the journal survives a restart; a Tick after a crash repeats no page |
| Inventory (`inventory/`) | balances (`on_hand`, `reserved`), immutable ledger, reservations | stock-in, adjust, correct, reserve, release; inside other modules' transactions: consignment, batch and return movements | counters kept beside the rows they count; several owners of one reservation | nothing is oversold; the ledger explains the balance; a promise is kept and taken once |
| Consignments (`consignment/service.go`) | status, version, lines with required, ready, packed, version | create, allocate, transition, progress, outbound, cancel | workers with stale screens; absolute quantities that may go down; a shared reservation table | CONSIGNMENT-002..004: ships in full or not at all; a status claims only what is there |
| Batches (`batch/service.go`, `batch/assignments.go`) | batches, unique order memberships, assignments | create, ready, cancel, assign | eligibility is read without a lock | an order is in one batch; nothing cancelled is shipped |
| Label documents (`batch/printing.go`) | print jobs, artifacts, objects in the object storage | generate, reprint, download | a generation hangs on its HTTP request; objects are stored before the rows; answers of a COMMIT are lost | what is ready is complete and can be downloaded; a failure is recorded |
| Cancellations and returns (`returns/`), batch outbound (`inventory/outbound.go`) | cancellations, return cases and items, outbound events | cancel an order, ship a batch, create, receive, inspect, restock, correct, close | cancellation races outbound; retries of restocks | CANCELLATION-001; RETURN-001..006: no more comes back than was ordered, restock once |
| Marketplace processing (`marketplace/service.go`) | jobs with lease and holder; orders; uploaded files in the object storage | upload, claim, heartbeat, execute, fail, retry | two goroutines share a worker id; late heartbeats; two files with the same identifiers in opposite order; concurrent uploads of one file; lost answers | an identifier has one authoritative order; the orders of a job are those of one execution; a stale process finishes nothing; all jobs end |
| Print automation (`automation/`) | rules with version, pause, backoff; executions by occurrence; domain events | save, pause, test, retry; tick: materialize, claim, execute | a scheduler in every process; rules edited under it; daily limits; repeated and missing local times; events consumed late | AUTOMATION-002: an occurrence is decided once; daily limits hold between executions; an event prints what the rule said when it occurred |
| Marketplace parsers, PDF tools | none | pure functions and external tools | formats | tests of the formats |
| Companies, users, sessions, permissions, products, reports, web frontend | rows under unique constraints | CRUD, reads | none of concurrency | constraints |

The parts meet in the database. Consignments, batches and returns call the
inventory inside their own transactions; automation and batches put jobs into the
print queue; the agents meet the server only over HTTP. Most handlers run in
transactions that lock the rows they decide on, and *one such transaction is one action*
in these models; a transaction that decides on what it has not locked is two, what it
reads and what it commits. The interesting interleavings are those between transactions,
and between a transaction and a process outside: an agent, a worker with a screen,
a goroutine between two statements that are not in one transaction.

## Modules

| Module | Models | Kind |
| --- | --- | --- |
| `PrintDelivery` | what the platform promises about each physical job | abstract specification |
| `PrinterJournal` | the agent's journal file (`printeragent/journal.go`) | operators on a journal record |
| `PrintQueue` | the queue, the agents, the network between them | component, implements `PrintDelivery` |
| `PrintQueueProofs` | theorems about `PrintQueue` | proofs |
| `SumProofs` | sums of functions over finite sets | lemmas |
| `StockAccount` | what the stock promises | abstract specification |
| `Stock` | balances, ledger, reservations | component without a `Next` of its own |
| `StockProofs` | what every stock command preserves, and its step of `StockAccount` | lemmas |
| `Consignment` | consignments, composed with `Stock` (`EXTENDS`) | component, implements `StockAccount` |
| `ConsignmentProofs` | theorems about `Consignment` | proofs |
| `OrderCustody` | what happens to the goods of an order | abstract specification |
| `Fulfilment` | batches, cancellations, outbound events, returns, composed with `Stock` (`EXTENDS`) | component, implements `OrderCustody` |
| `FulfilmentProofs` | theorems about `Fulfilment` | proofs |
| `Processing` | uploads, processing jobs, the workers of all processes | component |
| `ProcessingProofs` | theorems about `Processing` | proofs |
| `PrintOccurrence` | what automation promises of each occurrence of a rule | abstract specification |
| `Automation` | rules, events, executions, schedulers, time and its zones | component, implements `PrintOccurrence` |
| `AutomationProofs` | theorems about `Automation` | proofs |
| `LabelDocuments` | generation and reprints of the documents of a batch | component |
| `LabelDocumentsProofs` | theorems about `LabelDocuments` | proofs |
| `MCPrintQueue`, `MCConsignment`, `MCFulfilment`, `MCProcessing`, `MCAutomation` | instances and symmetry sets | model checking |

### PrintQueue

`status`, `payload`, `source`, `attempts`, `holder`, `live` and `created` are the
columns of `printer_jobs`; `live` says that the lease has not expired. `printer`
holds what `Usable` reads of a registered printer: enabled by the operator, online
by the last heartbeat, heard of within 90 seconds. `Jobs` are idempotency keys: a
key has one row for ever, and a repeated request with it changes nothing. An
operator of the browser API is one action each (`Queue`, `Retry`, `Cancel`,
`RevokeAgent`, `UpdatePrinter`, `UpdateAsset`).

`Runner.Tick` is cut at each HTTP call, journal write and CUPS call; `pc[a]` names
what the Tick has just obtained. Every call can be answered, be executed with its
answer lost (`CallUnanswered`), never reach the server (`CallFails`), or be executed
after the agent's 30 second timeout (`CallDelayed`, then `ServeLate`), also after a
revocation it was authenticated before. `Restart` can happen anywhere and keeps only
the file. A journal write can fail with nothing, a fragment or the whole line on
disk; a fragment fuses with the next line, which `OpenJournal` then skips. `printed`
counts how often a job was handed to the operating system, and exists for the
properties only. The lease token is random in the code; `attempts` (which every claim
increments) tells tokens apart.

A claim that finds a job is two steps, because it decides on more than it locks: the
`SELECT` of its candidate joins the printer but locks the job alone (`FOR UPDATE OF j`,
`service.go:758`), and the transaction commits three statements later (776). `SelectJob`
locks the oldest queued job of a usable printer together with the expired leases that the
claim fails, `CommitClaim` shows all of it and answers the agent if its Tick still waits,
`RollbackClaim` gives the locks back. `lock[k]` names the open claim that has row `k`
locked. In between a printer may fall silent, be disabled or taken offline, the agent may
be revoked or restarted, its request may time out; a cancellation and another claim wait for the
lock or skip it. `FindNothing`, a claim without a candidate, is one step.

So `RevokedIsSelectedNothing` speaks of the selection: no claim that looks for work after
the commit of `RevokeAgent` finds any. The comment at `service.go:212`, that revocation
"prevents all of the device's printers from receiving work in the same transaction", holds
of those claims only. One that had selected a job before may commit it to an agent that
is revoked by then; the agent can neither fetch nor report it, and the job stays claimed,
which is the finding `print_revoked_lease`.

### Stock and Consignment

`Stock` has one operator per command. `Post` writes the balances and the ledger rows
of all products of a movement, as the code does or rolls back together; `Hold` is the
body that `Reserve` and `ReserveConsignment` share. A ledger row carries the balance
before and after it, as in the table. Manual commands carry an idempotency key and do
nothing when it is known. The CHECK constraints of the balances (`on_hand >= 0`,
`0 <= reserved <= on_hand`) are not guards of the model: the invariants show that they
are never needed. Reservation sources are arbitrary, as `POST
/inventory/reservations` takes any `source_type` and `source_id`: a consignment's id too.

`Consignment` adds the status and lines of consignments and `view`, the line that a
worker has on the screen: progress is absolute and sent later with the version that was
read. Departments are there because the requirement of a product is the sum over
departments (`aggregate`). The version that a manager's command expects is left out, as
it can only refuse it; so are completed replays (known event keys).

### Fulfilment

Batches, cancellations and returns decide on rows that others change, and the
property everything depends on is that their transactions take turns. So here a
transaction is *two* steps: `Begin...` locks rows and reads, `Commit...` makes all its
writes visible and unlocks, and a second clerk's transaction runs in between. `tx[c]`
is the open transaction of a clerk: its operation, the rows it has locked and what it
has read. `Free` says that nobody else holds a lock on some rows; a `Begin` that needs
them waits until then. `Rollback` ends a transaction at any point: a crash, a lost
connection, or a refusal by what is not modelled, such as a missing worker assignment.

The database runs at READ COMMITTED, so a statement sees what is committed when it
starts. A transaction reads its rows behind the locks it takes, and taking all locks of
a transaction at its beginning is sound for what is modelled, as long as nothing is read
*before* its lock. The one place in the code where that is so is kept as it is:
`BeginCreate` reads which orders are eligible and locks nothing, and `CommitCreate`
inserts the members, which waits for orders that are locked (the foreign key takes a key
share of the order) and is refused where an order is a member already (a unique
constraint over all batches, whatever their status).

Commands that lock a single row, `CancelBatch`, `CloseCancellation` and every command on a
return after it was created, are one action each: nobody can come between their lock
and their commit. `Resolved` is a constant because an order gets its resolution when its
file is processed and never again. A return case stands for its row and its items;
`rejected` is the outcome of an inspection that found only wrong or missing products.
A correction's ledger row refers to the return here, to the correction event in the code:
all corrections of a return are told together. Replays with a known key change nothing
and have no action. Nothing asks whether an order has left before a return is opened or
restocked for it, neither the code nor its docs; so the abstract specification does not
claim it either: it bounds what comes back by what was ordered, not by what has left.

### Processing

A file stands for its content: the constraints on the SHA-256 and on the idempotency key
make one job of it, so `Files` are jobs as well. `Labels[f]` is what the parser finds,
label by label: the identifiers (AWB and order id) and what becomes of a new one,
`resolved` or `needs_review`; where the SKU mappings decide, it may be either. An upload is two
steps, the file into the object storage under a key of its own and the rows of the job, and
the constraints decide between uploads that overlap; the one that loses deletes its own file.

`status`, `holder` and `live` are the row of a job and whether its lease has run out;
`holder` is a *process*, since both goroutines of a process use one worker id, so `Owns` says
that they answer for each other. The heartbeat of a worker, `execute` and `failJob` ask
`Owns`; what keeps two goroutines apart is not the lease but the lock of the job row, which the
transaction that stores orders holds from its first statement. That transaction is the only
one of several steps: `BeginStore` takes the row lock, each `StoreLabel` takes the advisory
locks of a label, both at once, and reads and inserts, `CommitStore` shows all of it. `Blocked` is a
wait for an advisory lock; two of them can wait for each other, and PostgreSQL then ends one
(`FailExecution`). A COMMIT and a claim may take place without an answer (`CommitStore` with
`failing`, `ClaimUnanswered`, `InsertUnanswered`). `Crash` ends a process for ever: one that
is started again has another worker id. `FOR UPDATE SKIP LOCKED` is modelled as such here,
since a lock is held over several steps: `CanClaim` skips what is locked.

The unique indexes on authoritative orders are *not* in the model: `OneAuthoritativeOrder`
shows that the advisory locks alone are enough.

### Automation

Most operations are one transaction that locks the rule it is about, hence one action. Two
transactions do not lock it: a claim of the scheduler, and `Printing.Retry` (`Reprint`), which
only inserts a job. A claim is a transaction of its own, so `claim[w]` is what a scheduler
remembers while anything else happens: another claim after the lease, an edit, a pause, its own
death (`Drop`). An execution that queues a job reads the copies of the day (`scheduler.go:209`)
and commits 65 lines later (274), so it is two actions: `Count` takes the locks of the rule and of the
execution and reads, `QueueJob` or `FailQueueing` commits. `execution[w]` is the open
transaction, `Locked` says that one has the rule; operations on the rule wait for it, `Claim`
skips its execution, `Reprint` goes on. Executions that end without a job (`Skip`,
`Postpone`) write only rows they have locked and are one action. The time of a job is that
of the count; an execution whose `now()` is older, because it waited for the lock past
midnight, is left out. An
execution is identified by rule and occurrence key, and the keys are of three kinds:
the local wall time of a schedule, a domain event, the request key of a test. `Wall[z][i]`
says what the clocks of a zone show at an instant; so a repeated hour is one wall time at two
instants and a missing one is at none, and `NextRun` takes the first instant of each.
`since` is `activated_at` counted in events, `screen` is the version that an operator has
seen. Backoff is a flag that time takes away (`BackoffEnds`). Retries that printing makes
itself (`Reprint`) count for the limit of a day, so they are here.

`LimitIsKept` is about what the lock of the rule is for, as the comment at `scheduler.go:208`
has it: when an execution commits, the copies of its day are within the limit, whichever
executions, tests and edits have been committed since it counted. `docs/workflows/automation.md:59`
promises more: every job counts, "including an explicit physical retry". A retry that commits
between the count and the commit is not counted, since it locks no rule; the property leaves
exactly those retries out (`KnownJobs`).

`PrintOccurrence` is the promise: an occurrence arises, and is queued or skipped once.
`log[n].versions` exists for `EventsUseTheirConfiguration` only.

### LabelDocuments

The two kinds of documents are generated and stored one after the other outside of any
transaction, then committed with their rows. `gone` says that the HTTP client has gone away:
everything then fails, cleaning up included, for everything is called with its context. That the
COMMIT of a new print job goes unanswered needs no action: it leaves what a client leaves that goes
away right behind it. With
`Reliable` the database and the process do not fail on their own; without it a COMMIT may take
place unanswered and the process may die.

## Runs

| Run | Shows | Instance |
| --- | --- | --- |
| `print_queue` | PRINT-003 (`AtMostOnce`), `StatusIsTrue` (only what was granted is printed, what is completed was printed, what a retry copies stays failed), `ClaimIsNew`, `RevokedIsSelectedNothing`, and the refinement `ImplementsDelivery` | one agent, one printer, two jobs, one late request, revocation |
| `print_queue_live` | `QueuedIsTaken`, `GrantedIsResolved` under `FairSpec` | the same without late requests and revocation |
| `print_journal_durability` | finding: `RecordedSurvivesRestart` fails | the same |
| `print_revoked_lease` | finding: `GrantedIsResolved` fails when the agent is revoked | one job |
| `consignment_stock` | `ReservedCountsActive`, `LedgerExplainsBalance`, `ShipsInFullOrNotAtAll`, CONSIGNMENT-003 (`StatusIsEarned`), `NoLostProgress`, the refinement `ImplementsAccount` | two products, two departments, two workers, one consignment and another source, two manual commands |
| `consignment_allocation` | finding: `AllocationIsHeld` fails | one of each |
| `fulfilment_dispatch` | CANCELLATION-001 (`CancellationKnowsOutbound`), `ReadyIsClean`, `ShipmentsAreInLedger`, the refinement `ImplementsCustody` | two resolved orders and one that is not, two batches, two clerks, one product |
| `fulfilment_returns` | RETURN-003 (`ExpectedIsBounded`), RETURN-004/005 (`RestocksAreInLedger`), RETURN-006 (`ClosedIsSettled`), `ImplementsCustody` | one order with two lines of one product, two return cases, two clerks |
| `fulfilment_draft` | finding: `CancelledIsNotBatched` fails | two orders, one batch, two clerks |
| `processing` | `OneAuthoritativeOrder`, `OrdersAreOfOneExecution`, `AcceptedIsStored`, `StaleProcessCannotFinish`, and under `FairSpec` `AllJobsEnd` | two files that share two identifiers in opposite order, two uploads, two goroutines of one process and one of another |
| `automation` | AUTOMATION-002 (the refinement `ImplementsOccurrence`), `LimitIsKept`, `EventsUseTheirConfiguration`, `UnseenPauseStays` | one rule, saved up to three times, with a daily and an event form, two schedulers, one event, one test, two zones, two local days |
| `documents_failure` | finding: `FailuresArePersisted` fails, although `Reliable` | one batch, two print jobs, two requests |

*Bounds.* `MaxLate` bounds requests that run after their client gave up, `Revocable`
the agents that may be revoked, `Tearing` those whose journal appends may be cut short
(none in the runs that are not about it), `MaxQuantity` the units one command moves, `MaxVersion`
the updates of a line (one to make it ready, one to pack it, one to take it back),
`Keys` the manual stock commands. One agent is enough for the print queue because a job
belongs to the agent of its printer for ever and agents touch nothing of each other's
jobs; two jobs are needed for retries and for a claim that expires one job and grants
another. The proofs below hold for any number of everything. Two products and two
departments are the least for a movement of several products and a requirement that is a
sum; the second source, which the public endpoints serve, competes for the stock.
Two workers may have the same line on their screens, with three versions of it.

Two clerks are enough for `Fulfilment` because every hazard there is between two
transactions, one that has read and one that commits meanwhile. Two batches compete for
one order, and an order of the one can be cancelled while the other is made; the third
order is there to be refused. In `fulfilment_returns` one order has a line of two units
and a line of one unit of the same product: two cases can expect too much of a line only
together, and a restock has to add up lines. One manual command (`Keys`) brings in stock
or takes it away; outbound that finds too little is refused. `Sources` is empty in these
runs: reservations can only refuse what these transactions do, and `consignment_stock`
has them.

Three workers are enough for `Processing`: two that answer for each other and one that does
not. The two files have an order id and an AWB in common, which they bring in opposite order:
that is the least for a deadlock of advisory locks and for two authoritative orders of one
identifier. `Contents` bounds what the two uploads bring: the same file with and without a key,
and two files under one key. `Crash` leaves the last process running, as one that is started
again for ever; the worker of a crashed process does not come back.

In `Automation` `Horizon` bounds time: three instants, one in the evening and two that the clocks
of the next morning show alike, so that a wall time is repeated; in the other zone the second
instant is still evening, so the daily time comes an instant later: a rule that is saved again
after the company has moved meets an occurrence it may have had. `MaxVersion` is three: a rule is
saved, paused (by a person or by its failures) and then resumed or edited, by somebody who
has seen the pause or tries to without. Nothing new begins once the rule has its last version (`Below`),
and what is under way is finished; the company moves before the first edit. `MaxJobs` bounds the
retries on paper. Daily runs and tests of the daily form are of two copies, those of the event form of
one, and the limit is three a day: no two of the former fit into one day, also if they count at
the same time. The event form has a threshold of one failure, so that a pause by failures happens.

In `documents_failure` two print jobs are enough, as a reprint repeats one of the other; two requests
work at the same time. `Reliable` says that the process does not die and the database answers.

*Fairness.* `FairSpec` of the print queue assumes that a lease runs out; that a Tick goes on or ends, since
every HTTP call has a timeout and CUPS is taken to return; and, as strong fairness, that
a full heartbeat and a claim are answered, and a claim that selects a job is committed, if they can be
again and again: `Runner.Run`
polls for ever and retries after every error, so this says only that the network does
not swallow every one of them. Nothing is assumed of operators, crashes, or lost calls.
The 90 second window of a printer may close between any heartbeat and claim; that a
claim with work to do is not missed for ever is assumed of the polling, which beats
every few seconds.

`FairSpec` of the processing assumes that a lease that nobody renews runs out; that a worker
goes on with what it does, or is ended while it waits for an advisory lock (PostgreSQL picks
a victim of a deadlock, and every execution has a timeout); and, as strong fairness, that a
worker that can claim again and again does, and that not every `failJob` goes unanswered:
workers poll every two seconds. Two assumptions are about the long run. From some time on
heartbeats are in time, which they are every 30 seconds of a lease of two minutes: else a job
is claimed again for ever. And from some time on nobody presses retry: jobs are claimed oldest
first, so one that is retried at once, for ever, starves the others.

## Findings

* `print_journal_durability`. `journal.go:51` says that a successful `Record` survives a
  restart. After an append that was cut short, the next entry is written behind the
  fragment and is unreadable when the file is opened again. `AtMostOnce` holds all the
  same: the server never grants a job twice (`ClaimIsNew`).
* `print_revoked_lease`. `service.go:733` says that expiry marks a job failed for review.
  Only a claim of the lease's own agent does so; after a revocation nobody does.
* `consignment_allocation`. The docs say that allocation reserves what a consignment
  needs and that cancellation releases it. The public release endpoint releases it too;
  the consignment keeps its status and can then only be cancelled.
* `fulfilment_draft`. `docs/returns.md:61` says that orders cancelled before outbound are
  excluded from new batches. `Create` (`batch/service.go:224`) checks that without a lock
  and inserts later: a cancellation in between is not seen. Readiness refuses such a draft
  (`ReadyIsClean`), so the order does not leave; but the draft's other orders are its
  members for ever and cannot be batched again.
* `documents_failure`. `docs/workflows/printing.md:49` says that failures are persisted.
  `failPrintJob` (`batch/printing.go:273`) uses the context of the HTTP request, which is
  dead when the client has gone away; it returns without a word, and the print job stays
  `generating` for ever, under an idempotency key that always answers with it.

## Proofs

`PrintQueueProofs` proves the type invariant, every safety property of `print_queue` and
the refinement for any number of agents, printers, documents, jobs and late requests. The
argument rests on one fact that none of the properties states: *a job is granted once*.
The inductive invariant `IInv` says that `attempts[j]` is 0 until a job is granted and 1
ever after, that its holder never changes from then on, that an agent that works on a job
is its holder, at which points of a Tick the job has been printed (not before `submitted`,
always from there to `finishing`), that a journal knows nothing of a job that was not
granted, and that a delayed report of `completed` is about a printed job. For claims between
selection and commit, `LockInv` says that what was selected is still so: the job is queued, and the
leases that the claim gives up have run out. `AtMostOnce`
alone is not inductive: it needs to know that no second agent, or the same one after a
restart, can reach the submission with the same job. The lemmas are arranged by what can
happen: a server step (whoever asked for it), a step of a Tick, a fault. `RevokedGetsNothing` rests on
the printers of a revoked agent being offline (`RevokedOffline`). The refinement
maps the six job statuses on those of `PrintDelivery` and each step on one of its steps or
a stutter. The only assumptions are those of `PrintQueueAssumption`.

`SumProofs` and `StockProofs` hold what the next three need. Counters, requirements, ledger
movements and daily limits are sums over finite sets. The models write them as a fold
(`SumFunction`), which the lemmas turn into the two facts that proofs use: a sum over nothing is 0, and
one more element adds its value (`SumOfMore`). The induction behind them is over a smallest
counterexample: of the sets that refute a claim, none is smallest (`SmallestSet`). The rest follows
from those: where one value changes the sum changes by as much (`SumChange`), zeros may be
left out, larger values have a larger sum. `StockProofs` shows that `StockInv` is preserved by every command of
the inventory, whoever issues it: types, `reserved` is the sum of the active reservations and at most
`on_hand`, the ledger leads to the balance without a gap. It also shows which step of `StockAccount`
each command is. The CHECK constraints of the balances are thereby shown to be never needed.

`ConsignmentProofs` proves every property of `consignment_stock` and the refinement of
`StockAccount`, for any products, departments, consignments, other sources, workers and manual commands.
The invariant `ConsignmentInv` adds four things to `StockInv`:
- `WorkInv`, the types of the work and `StatusIsEarned` (CONSIGNMENT-003): a status change leaves the lines
  alone, so it is enough that the new status is borne out when it is taken; an update of a line in
  `ready` or `packing` keeps the line ready, and later statuses accept none.
- `ReservedAsRequired`: what was allocated is what the lines require, product by product, from
  allocation to outbound. It does *not* say that the reservation is still active, as the public endpoint may
  have released it (see the findings). The quantity stays, nothing can be reserved for the same source and
  product again, and lines no longer change what they require: that is why an outbound that finds every
  reservation active takes all of the requirement and no more.
- `ShipsInFullOrNotAtAll` itself, for what has left.
- `ViewsAreOfThePast`: a screen is no newer than its line, and is equal to it if the versions are; so an
  update that is accepted replaces what its worker has read (`NoLostProgress`).

`FulfilmentProofs` proves that the row locks serialize the dispatch, for any number of
orders, batches and clerks. The invariant `IInv` (`Serialized`) says that no row is locked
by two transactions, and that what a transaction has read behind its locks is still so:
an order whose cancellation is being written has left exactly if it had when it was read,
a batch that is being shipped is ready and no member of it is cancelled, and every shipped
batch was ready. None of this can be seen in `CancellationKnowsOutbound` itself, which is
not inductive: between the reads and the commit of a cancellation only the lock keeps an
outbound of the same order away. `CancellationIsSerialized` and `ReadyBatchesAreClean`
follow. That cancellations, batches and returns may be restarted or rolled back anywhere
costs the proof nothing; that `Create` does not lock is the reason why `IInv` says nothing
of drafts.

`FulfilmentInv` extends this to everything else that the two runs check, and to the refinement of `OrderCustody`:
- `ReturnReadsHold`: what an open return transaction has read of its order (the items, and what
  other cases expect of them already) is still so, because it holds the order's row. `ExpectedIsBounded`
  (RETURN-003) is not inductive without it; the command that creates the case writes what was
  checked in an earlier step.
- `ReturnsAreSound`: of an item no more is corrected than was restocked, restocked than came, came than was
  expected; nothing is restocked before the case is, and then all that was accepted is. RETURN-006
  (`ClosedIsSettled`) follows from it.
- `ShipmentsAreInLedger` and `LedgerHasKept`, which relate sums over ledger rows to sums over order
  items. Every command adds rows of one reference only (`MovedByPost`), batches and cases have
  references of their own, and a batch that has left keeps its members.
- `MembersAreDisjoint`: batches share no order (the unique constraint of the members), so the goods of an order
  leave with one batch at most.

The refinement maps an order to how often it has left, whether it was called off before it did, and how
much of each item is in stock again. An outbound is a `Dispatch` of the orders of its batch, where
`IInv` says that none of them is called off; a cancellation is a `CallOff` where it found no
outbound, else a stutter; a restock and a correction are a `Restock`. What is in stock again is at most
what was expected, hence what was ordered.

`ConsignmentProofs` and `FulfilmentProofs` assume what `Stock`, `Consignment` and `Fulfilment` assume of
their constants. That `Sources`, `Departments`, `Items` and `Returns` are finite says that tables are.

`ProcessingProofs` proves every safety property of `processing`, for any files, identifiers,
uploads, processes and workers. `OneAuthoritativeOrder` speaks of committed orders only and is
not inductive; `IInv` adds what is true of open transactions. Their job is processing and
held by their process, and their rows are the first labels of the file (`StoringOwns`); two of
them share neither a file, by the row lock, nor an identifier, by the advisory locks
(`StoringApart`); and what one of them has stored as authoritative is so among its own rows and
all committed ones (`ResultIsNew`). That last part survives the commit of another transaction
just because of `StoringApart`, which is where a build without advisory locks fails. A job
that is claimed again, failed or queued again is not locked (`JobMoves`), so no open
transaction sees it change, whatever the leases say.

`AutomationProofs` proves every safety property of `automation` and the refinement,
for any rules, events, zones and schedulers. The invariant says that an active rule has not
changed since any event that it would match (`ActiveSinceIsUnchanged`), that executions of
events are of consumed ones and every event occurs once (`EventsAreConsumed`), that a screen is
never ahead of its rule and right where it is not behind (`ScreensAreOfThePast`), that what is
claimed exists, and that jobs exist exactly for completed executions, one of their own each
(`JobsAreOfCompleted`). With the last one, what is queued of an occurrence is a function of what is
decided, and the refinement is about decisions only: a step opens occurrences
(`OpenOrNothing`) or decides one that is open (`DecideOne`). `CountsStand` is what `LimitIsKept`
needs: of two open executions no one is of the other's rule, and while one is open the copies that it
knows of, its own added, stay within the limit. Only the rule's lock keeps that so: any other
execution that would queue a job of the rule, and any edit that would change its limit or its zone, has to wait;
a retry on paper may be added, but is not known (`OthersStand`). `QueuedCopies` then adds the job
itself. `Keys`, the occurrences of a rule, is finite.

`LabelDocumentsProofs` proves that a ready print job is complete (`ReadyJobsAreComplete`),
with crashes and lost answers; and, with `Reliable`, that its documents can be downloaded
(`ReadyJobsCanBeDownloaded`). The invariant says that a request works alone on its job, that
the job is undecided until it is through, and that what it believes to be stored is.
Without `Reliable` the second one is false: a COMMIT whose answer is lost is taken for a
failure, and the objects of a job that is ready are deleted.

The last three assume that `None` is no record of the model (`NoneIsNew`; `NoneAssumption` in
`Fulfilment`), and the assumptions on the constants that the modules state.

So each safety property and each refinement that a passing run checks is proved. Only
model-checked are the liveness properties (`QueuedIsTaken`, `GrantedIsResolved`, `AllJobsEnd`): they follow from
fairness, and the prover has no rules for ENABLED. The findings are counterexamples of TLC.

## Plan

The print queue, the stock with consignments, the dispatch with returns, processing,
automation and label documents are done. What is left:

1. *Row locks.* A module that takes a stock transaction apart into lock, read, write and
   commit, shown to implement `Stock`: two commands on one product must not lose an update,
   and several products are locked in the order of their ids. The refinement is worth a proof.
2. *Worker assignments*, which must cover a batch before it is ready, as a guard of readiness
   instead of a `Rollback`.

Invariants stay conjunctions of named parts and no module that is proved about uses a
RECURSIVE operator.

## Not modelled

Several companies (every query is scoped by company, so the models are of one);
permissions and sessions, which refuse before anything changes; CRUD of agents, assets,
departments, products and users; parsers and PDF generation, which are functions of their
input; integer overflow of quantities (64 bits, far above any stock); the
limit of 100 products of an allocation; `lp` that never returns, which is a Tick that
stops, and safety covers that. Of batches: the rules of worker assignments, and the snapshot
of them that a new print job takes, which changes no other state. Of processing: several
marketplaces, which share nothing but code. Of automation: lists, reports and previews, which
only read.

## Running

    tlc -config PrintQueue.cfg MCPrintQueue.tla
    tlc -config Consignment.cfg MCConsignment.tla
    tlc -config Dispatch.cfg MCFulfilment.tla
    tlc -config Processing.cfg MCProcessing.tla
    tlc -config Automation.cfg MCAutomation.tla
    tlapm PrintQueueProofs.tla

and so on for the other configurations and the other modules of proofs.

`PROJECT.json` lists components, runs, mutants, the lines that each definition models,
findings, hazards and theorems.
