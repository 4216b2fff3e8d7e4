# Dastar in TLA+

Dastar is a reservation engine on Postgres: units (tables), combinations of
units, holds that expire, confirmations, seating, blackouts and an audited
configuration. Its correctness rests on READ COMMITTED transactions, advisory
locks taken in a fixed order, triggers that judge each write again under those
locks, an idempotency table, and a connection handle that bounds every command
in time. Around the engine stand a worker process, a migration runner, a
reference HTTP API and a measurement harness that drives them. This directory
models those parts, checks them with TLC on small instances and proves the main
invariants with TLAPS for every value of the constants. `CORRECTNESS.md` of the repository numbers the engine's invariants;
the properties here cite those numbers.

All paths below are relative to `src/`.

## 1. The system

| Component | State | Operations | Interacts with |
| --- | --- | --- | --- |
| Vocabulary (`packages/core/src/reservation.ts`, `0002_schema.sql`) | – | effective status, legal transitions, half-open ranges, assignment of a unit or a combination | everything |
| Hold (`commands/hold.ts`) | reservation, occupancy and idempotency rows | claim the key, lock venue and units, read and lock overlapping rows, expire the dead ones, insert, store the outcome | guards, sweeper, confirm, admin writes, retention |
| Confirm, cancel, seat, complete (`commands/confirm.ts`, `cancel.ts`, `seat.ts`) | reservation row | lock the row, judge, transition | guards; confirm also takes the venue and unit locks |
| Expiry batch (`commands/expire.ts`) | reservation rows | one `skip locked` statement over dead holds | holds, confirmations, the worker loop |
| Guards (`0003`, `0004`, `0020`, `0021` migrations) | – | transition, expiry, fit, capacity, activity and blackout triggers | run inside the statement that fires them |
| Admin writes (`commands/admin*.ts`) and plain UPDATEs of the application role | unit, combination, blackout rows | read what is stranded, refuse or cancel it by force, write | holds, confirmations |
| Idempotency and retention (`commands/hold.ts`, `commands/retention.ts`) | `idempotency` rows | claim, wait, replay, mismatch, purge after the window | two callers with the same key, the retention worker |
| Connection handle (`packages/db/src/handle.ts`) | pool, clients, backends, the memoized canceller, cancel requests | checkout, command, deadline, cancel, grace, rollback probe, return or discard, close | Postgres, every command |
| Lifecycle of a reservation (version, confirm token, audit log, outbox; `0004_triggers.sql`, `commands/mint-token.ts`, `outbox.ts`) | version, token hash, audit and outbox rows | bump, mint, void, append, enqueue | every command that changes a reservation |
| Configuration version and availability (`commands/availability.ts`, `core/src/availability.ts`) | `config_version`, snapshot cache | bump, look up, load, compute the free slots | admin writes, readers |
| Worker (`packages/worker/src`) | two loops, their sleeps and flags, the pool | configure, drain, pause, stop, wake, close | expiry and retention batches, signals |
| Migration runner (`packages/db/src/migrate.ts`) | `schema_migration`, the catalog, the run lock | apply, verify checksums, build and drop indexes, retry | other runners, of other releases |
| HTTP API (`apps/api/src`) | keys, requests under way, the process | look up the key, check capability and scope, run one command, create and revoke keys, listen, drain, exit | the engine, clients, signals |
| Harness (`apps/harness/src`) | plans, records, samples | load over HTTP, churn, mixed; reports and verdicts | the API, the sweeper, the database |
| Isolation (RLS), client | – | – | – |

Inside the engine, components are coupled only through Postgres (rows, locks,
triggers) and, for the handle, through the pool and the cancel requests. The
API adds requests that can be lost or cut off on the way; the worker and the
harness add loops of callbacks over the same tables.

### What is hard

* *Interleavings of statements.* At READ COMMITTED every statement sees a new
  snapshot. A hold reads the overlapping rows before it locks them; a forced
  admin write judges before it locks; confirm looks its assignment up before it
  has any lock.
* *Time.* `now()` is the time a transaction began. An expired hold is still a
  `held` row: whether it is live depends on who asks. A confirmation that
  waited past the expiry commits against sweepers, conflicting holds and
  configuration edits that count the hold as dead.
* *Locks.* Venue (shared or exclusive), unit, and row locks, some taken by
  triggers: order, starvation, and what each one keeps true.
* *Refusals with effects.* A refused booking rolls back to a savepoint and
  commits the expiry of the dead holds it locked.
* *Retries.* A caller that lost its answer calls again while its first
  transaction may still run; the retention job may purge the row in between.
* *Deadlines.* A cancel request is asynchronous and names a backend: it must
  never reach the next command of a reused connection; a discarded client's
  statement outlives it; nothing may drain the pool.

* *Schema changes.* A concurrent index build is outside any transaction: it can
  stop between the index and its record, and it waits for snapshots that wait
  for its own run lock.
* *Loops.* A stop may arrive between a loop's test and its sleep, during a batch,
  or twice; a backlog may grow as fast as it is drained.
* *Lost answers.* A request that is given up on may still take effect after the
  harness has asked the database what became of it.
* *Reports.* A measurement that was given up on is a lower bound; samples are read
  while others are being added; an expiry is attributed while the sweeper works.

`PROJECT.json` lists these hazards one by one, at the line each of them bites.

### What makes each component correct

| Component | Correct when |
| --- | --- |
| Commands, guards, admin writes | no two live reservations share a unit (invariant 1); a live reservation fits its assignment (4), avoids active blackouts (11) and uses active units (12); every change follows the transition table (7); each commit is one serial step; no deadlock; every transaction ends |
| Confirm | commits only if its transaction began before the expiry (2) |
| Idempotency | one outcome per key within its window, and every call within it gets that outcome (3) |
| Handle | a cancel reaches only its own overdue command; connections are held once, and clean when idle; one canceller; every call returns and the pool recovers |
| Lifecycle | the audit trail replays to the row (5, 6); a status change and its event commit together, in order; a version is overwritten only by who has seen it; a token confirms once, and only while it is the current one; a receipt names its own entry |
| Admin writes | no command undoes a change another one has committed |
| Availability | a reader gets the configuration of its own snapshot, cached or not; every slot offered can be held; none that could be held is missing |
| Worker | a signal ends the process without waiting out an interval; a backlog is drained |
| Migrations | files take effect in order, once, with their records; a recorded index is there; a run that is done is ready for its release; nothing foreign is dropped; every run ends |
| API | once a revocation is answered, the key opens nothing; a process that ends by signals has answered every client that still waits, also those that ask on a connection it kept alive |
| Harness | a run ends; its records are true of the database; its report holds of what happened; a run is failed for a fault only |

## 2. Modules

| Module | What it is |
| --- | --- |
| `Status` | the state machine of a reservation and `Live`/`Dead` by effective status |
| `Rules` | the rest of the vocabulary: units, combinations, ranges, rows, clashes; extends `Status` |
| `Booking` | the abstract database: a hold, transition, sweep or configuration write is one atomic step; extends `Rules` |
| `Slots` | `computeAvailability` and its reads, on the tables of `Booking`, which it extends |
| `Engine` | the concurrent engine: one step is one statement or one lock it waits for; extends `Rules`, implements `Booking` (`Abstract == INSTANCE Booking WITH ...`) |
| `EngineInvariant` | the inductive invariant of `Engine` |
| `Configuration` | the admin commands field by field, the configuration version, and the readers with their cache |
| `Idempotency` | the key of a hold from claim to purge, and its retries |
| `Handle` | the connection handle, its pool, its cancel requests, and the backends behind them |
| `Lifecycle` | versions, confirm tokens, the audit log, the outbox and receipts; extends `Status` |
| `Rollout` | what a migration runner promises: files taken one at a time, in order, each at most once |
| `Migrate` | the migration runner; implements `Rollout` (`Promise == INSTANCE Rollout WITH ...`) |
| `Worker` | the worker process: two loops, signals, the stages of stop |
| `Sweeping` | what a harness run takes of `Worker`: the sweeper's loop and the end of a process |
| `Churn`, `Mixed` | the churn run and the mixed run, each beside the sweeper; extend `Sweeping` |
| `Programs` | the composition: the worker process, a churn run or a mixed run, over one loop |
| `Api` | requests and process of the reference API; extends `Status` |
| `Report` | the statistics, validity and verdict of a load run |
| `Load` | a load run over HTTP and an operator, composed with `Api` and `Report` |
| `MCBooking`, `MCEngine`, `MCIdempotency`, `MCLifecycle`, `MCConfiguration`, `MCMigrate`, `MCWorker`, `MCLoad` | small instances for TLC; `Handle` needs none |
| `BookingProofs`, `EngineProofs`, `IdempotencyProofs`, `HandleProofs`, `LifecycleProofs`, `MigrateProofs`, `OperationsProofs`, `LoadProofs` | theorems |

### Booking and Engine

`Booking` keeps the committed tables: `res` (reservations by id), `capacity`,
`active` (units and combinations), `closed` (blackouts) and `clock`. It says
what the engine promises: each transaction happens at once, judged by a time
`t <= clock`, the time at which it began. A transaction may judge by an old
time. What a serial step is allowed to do with an old `t` is what makes
invariants 2, 4, 11 and 12 non-trivial.

`Engine` has the same tables and, for every connection, its place (`pc`), its
command, `now`, its locks (`venue`, `unitLocks`, `rowLocks`), the rows its
statement has yet to lock (`todo`), its uncommitted rows (`draft`), and whom it
queues behind (`ahead`). The places follow the code:

| Place | Code |
| --- | --- |
| `begun` → `venue` → `units` | `LOCK_VENUE_SHARED_SQL`/`LOCK_VENUE_EXCLUSIVE_SQL`, `LOCK_UNIT_SQL` in the order of `sortUnitIds`, or a trigger's locks |
| `read` → `rows` → `write` | the overlap or stranded statement, `for update` in id order, then the write |
| `judge`, `config`, `apply` | an admin write: the stranded query, the UPDATE's row lock, its triggers |
| `commit` | the draft becomes the committed rows and all locks go |

`BookHold` runs `t35`, `t40` and the occupancy trigger within the insert;
`RefuseHold` is the rollback to the savepoint, which keeps the expired rows in
the draft. `Abort` at any place is the failure of a statement, a lost client, a
deadlock victim or one of the refusals that change nothing (cap, schedule,
missing assignment). The lock manager grants a venue lock in the order of its
queue; units and rows are taken in ascending order, one step each. `WaitsFor` reads
off the places who waits for whom.

### Idempotency

A key's committed row (`table`), the outcomes committed under it with the time
until which they are promised (`outcomes`, a history variable), and for every
connection its call, its attempt (a command retries once), its transaction's
time and its answer. Claims of one key exclude each other as its unique index
does; a loser waits for the owner to end, then claims, or reads the row, which
the purge may have taken in between. Requests are spellings; `Canonical` maps a
spelling to what the hash is taken over. The body of the hold is any outcome,
refusal or failure: `Engine` models what it really does. The retention batch
deletes the oldest due rows another batch does not hold.

### Handle

A connection is its pool state, its server process (`backend`: quiet, in a
transaction, busy or gone, which outlives a discarded client), whether its
error was recorded (`lost`) and whether its pid was read (`known`). A cancel
request for a connection (`job`) waits for a carrier (`borrow`), is carried by
a dedicated canceller or a borrowed pool connection (`sent`, `via`), or is
`adrift`: given up by the handle and yet to arrive. A checkout that outlives
its caller is `late`. What a command does is any sequence of statements.

### Lifecycle

`Engine` says when a reservation may change; `Lifecycle` says what each change
leaves behind. A connection locks the rows its statement names (`todo`,
`locks`), updates them one by one (`work`), each with its triggers: `Updated`
(t50 counts the version, t20 voids the token) and `Put` (t60 appends the audit
entry). It then enqueues the events it owes (`owed`, `mail`), reads the newest
audit id of its row for the receipt, and commits `draft`, `log` and `mail`
together. The locks are those of rows: what the venue and unit locks decide, by
which rows a hold overlaps, which ones a configuration write strands, and
whether a booking is refused, is any outcome. Ids are drawn when a row is
written and become visible at its commit, as those of identity columns do. A
hold enqueues each expiry before the next one, under the actor
`system:conflict`; the other commands enqueue after their statement. A mint
writes an audit entry and no event; a plain UPDATE likewise, under the name of
whoever runs it.

### Slots

`Answer(n)` is what the availability of a party of `n` is, computed from the
state of `Booking` as one repeatable-read transaction sees it: the occupied
ranges without dead holds (`Busy`), the blackouts (`Closures`), the periods and
the set of the starts they admit (`Starts`), each unit's rows in their order
(`Sorted`) and the binary search for a clash among them (`FirstAfter`), the
ranking of the free assignments (`Key`) and both limits, which take the earliest
of a set (`FirstOf`). Service periods are
given as instants; the database has converted them.

### Configuration

A row is a record of fields, and a command sets some of them. What matters is
which row a write starts from: units, combinations and blackouts are read under
the venue lock and written back whole (`ReadsFirst`), periods are written with
`coalesce` in the statement, and plain SQL names its columns. `Write` waits for
the venue's uncommitted writer, because the version trigger updates the venue's
row. A reader's snapshot is fixed by its first statement; the cache of the
handle is shared by all readers, one entry per venue, the least recently used
given up.

### Migrate

A file is its content, so equal checksums are equal files, and a release is a
set of files. `run[p].pc` follows `migrate`: `wait` for the lock, `read` the
applied files, `next` file, then `try` and `pending` (its transaction) or
`create`, `building`, `drop`, `dropping`, `record` (a concurrent file).
`catalog` holds the object under each index name, invalid while the server
builds or drops it. `Timeout` is a lock timeout and its retry, `Fail` any other
error and the loss of the process, `Orphan` a server that finishes the
statement of a lost process, `Deadlock` the wait of a build for the snapshot of
a runner that waits for the builder's run lock. `MaxStarts` bounds how often
runs are started.

### Worker, Churn and Mixed

A step runs JavaScript from one `await` to the next, so a loop's test of
`stopped` and its going to sleep are one step. A batch takes what is due
(`due`), up to the limit. The handle discards the connection of a batch that is
past its deadline; of one that has not settled within the grace either, the statement
stays at the server (`lingering`): while the loop carries on, or after the process
has exited, it may yet be committed or rolled back (`LeftEnds`). `stop` waits for the
loops and for the pool's own connections, not for these. `Programs` composes the
loop with the program around it: `main.ts`, which boots and reads signals;
`runChurn`, whose workers, sampler, pause and cleanup share it; and `runMixed`,
whose commands, ager and sweeper race for the same holds. In `Mixed` a command
is one step, at its commit, with the answers its checks allow: a hold judges the cap
on its actor's live holds, the bound on the overlap set, the dead holds in the way,
its party's fit and its slot, in that order; a capacity edit is the harness' plain
UPDATE under the capacity trigger. Each run's judgement is a definition
(`ChurnInvalid`; `MixedInvalid` and `Verdicts`, with the tables' overlaps and
misfits).

### Api, Load and Report

A request is a chain of short calls: the key lookup, the reservation's venue or
token, one command. Each may fail, and past its deadline the statement of a
command may still take effect (`Orphan`), and so may one whose connection was lost.
The client may give up (`Abandon`) while the handler carries on. `told` remembers
the keys whose revocation has been answered. After the first signal the server takes
no new connection, but `server.close()` waits for those that are open. It ends the
idle ones that have served a request; one that has carried none yet may stay, and a
busy one may be kept alive after its answer. `idle` counts those that carry no request
after the signal: a request may still come on one (`Accept`), its client or the
server's own timeout may end it (`HangUp`), and the server is `Drained` when none is
left. Of the administrators' routes, those that may strand reservations cancel them by
force or refuse (`Strands`); the others leave alone what `Api` keeps.

`Load` fires each arrival of its plan as a request of its own,
gives up at the client's deadline, looks up what it got no answer to, and
revokes its key. `Report` is a module of pure operators: quantiles with bounds
for samples that were given up on, steps, timeline, peak, validity, verdict and
exit code. The operator calls the other routes meanwhile.

## 3. Runs

Twelve runs; every one of the eleven that pass finishes and explores the whole
reachable graph of its instance.

| Run | Instance | What it shows |
| --- | --- | --- |
| `booking` | 2 units and their combination, 2 reservations, 2 ranges, 1 blackout, 3 periods | `OffersBookable`, `OffersComplete`: in every state of the serial database the answers of availability agree with what a hold would do |
| `engine_booking` | 2 connections, 3 kinds of hold, all transitions, sweep | `Atomic` (each commit is a `Booking` step), `NoDoubleBooking`, `OverlapSetComplete`, `InsertNeverWaits`, `NoLateConfirm` |
| `engine_config` | 2 connections, capacity, activity and blackout writes, by command and by UPDATE, forced and not, against holds and confirmations | `NothingStranded` |
| `engine_liveness` | 3 connections, 4 commands | `TransactionsEnd`: no cycle of waits, no starvation |
| `engine_force` | 2 connections, one booking and a forced blackout | **violated**: `ForceSparesSeated` |
| `idempotency` | 2 connections, 1 worker, 1 key, 3 spellings of 2 requests | `OutcomeStored`, `OncePerWindow`, `AnswersAgree`, `CallsEnd` |
| `handle` | 2 callers, pool of 2, 2 connections, 3 cancellers | `CancelsOverdue`, `IdleIsClean`, `CallsReturn`, `PoolRecovers` |
| `lifecycle` | 2 connections, 2 reservations, 2 tokens, 4 audit entries | `AuditReplays`, `EventsFollow`, `ReceiptTrue`, `VersionRespected`, `TokenRespected` |
| `configuration` | 2 writers, 2 readers, 2 venues, a cache of 1 | `AnswersTrue`, `CommandsKept` |
| `migrate` | 2 runners, 3 releases of 5 files, 4 starts, any of 7 objects found | `RecordedHolds`, `DoneIsReady`, `InOrderOnce` (the refinement), `ForeignKept`, `RunsEnd` |
| `worker` | the worker process, a churn run with 1 worker, a mixed run with 2 workers (587 thousand states) | `StopEnds`, `Drains`, `SamplesTell`, `AnswersExpected`, `ExpiryAttributed`, `VerdictFounded` |
| `service` | 2 holds and a follow-up, or a hold and 2 calls of an operator, on one API (1.5 million states) | `RevokedRefused`, `AnsweredAtExit`, `RecordsTrue`, `ReportTrue`, `RunEnds` |

### The finding

`engine_force`. `CORRECTNESS.md:38` says that force cancels only reservations
that are not seated. The stranded query that decides this locks nothing
(`commands/admin.ts:19`, `:106`); the `for update` comes after (`:114`) and the
UPDATE that follows only asks that the row still be live, which a seated one is
(`:115`). In TLC's counterexample a forced blackout reads a confirmed booking, a
seat command commits, and the seated party is cancelled. The venue lock does
not prevent it: seat takes the row lock only. The other properties count the
step as legal, since the transition table allows `seated` to `cancelled`.

### Bounds, and why they are enough

* *Connections.* Two transactions give every pair of commands; the hazards are
  pairwise, and the inductive invariant speaks of pairs. Three are used where a
  third matters: cycles of waits, and starvation by newcomers.
* *Units.* Two and their combination: a hold of the combination clashes with
  either member, two members do not clash, and two locks can be taken in two
  orders.
* *Reservations.* Two ids: one in the way and one to insert, or two under one
  batch. A booking run that needs more exhausts its ids and refuses.
* *Ranges.* In `engine_*` three: a first, a second that overlaps it, and a third
  that touches the first and overlaps the second. The commands name which are
  used, and the first starts at 1, so that a forced write finds it in progress
  or not, depending on when it began. In `booking` two that overlap in part.
* *Periods.* Three that share starts: two for the same party with different
  durations and gaps, so that the first by opening decides, and one too small.
  `Limit = 2` and `MaxStarts = 3` are both reached, and `Window` ends inside
  the periods.
* *Time.* `Ttl = 1` with `MaxClock = 1`: a hold made at 0 is dead at 1, and a
  transaction of time 0 may still run. In `Idempotency`, `Window = 1` and
  `MaxClock = 2`: an outcome, the end of its window, and a second outcome with
  its own window. The liveness run of the engine needs no expiry and uses
  `MaxClock = 0`. In `service` and `worker` the clock is the harness': where it
  stands still at `MaxClock`, deadlines are due.
* *Commands* bounds what a run's clients may issue, one set per question
  (`MCEngine`); the proofs have no such bound.
* `SweepLimit`, `PurgeLimit` `= 1`: a batch at its limit leaves a row.
* *Lifecycle.* `MaxId = 4` ends a behaviour at four audit entries: a hold, a
  mint or a confirmation, and what follows on the same row, or two rows with two
  changes each. The statements in flight hold ids too, so that entries of two
  transactions interleave. The commands name reservation 1, with and without
  versions and tokens; holds, sweeps and forced writes reach both.
* *Handle.* `Conns` and `Cancellers` are ids over time, and are reused when free. `MaxLate = 1` bounds the checkouts
  that outlive their callers. At most one canceller at a time is doomed to end
  on connecting.

* *Migrate.* Two runners wait for each other; `MaxStarts = 4` lets an interrupted
  run be resumed, overtaken by another release, and resumed again;
  `MaxAttempts = 2` is one retry.
* *Configuration.* `MaxVersion = 2`: one write may overtake a reader, and two
  writers may follow each other. `CacheMax = 1` makes the second venue evict the
  first.
* *Worker.* `MaxDue = 2` and a limit of 1 or 2: batches that are full and batches
  that are not. `MaxFaults = 1` is one failed or short batch; the properties
  do not depend on how many there are, as long as they end. `PoolMax = 2` is the
  worker's own. Churn has 2 operations in 1 second, so that progress comes from
  either; its worker is one, because what races it is the sampler and the end of
  the run. Mixed has one reservation (`Holds = {1}`) that both workers, the ager and
  the sweeper reach for, two capacities, one too small for the party, and a cap of
  one live hold, which is met. With one reservation nothing overlaps: that part of
  `VerdictFounded`, and the bound on the overlap set, are carried by the theorem.
* *Service.* `Scenarios` are a run by itself and a hold beside an operator's two
  calls, of eight: both revocations, a new key, a read with it, a mint, a
  confirmation by token, a seating and a forced edit of a unit. The routes TLC does
  not call are in the proofs. `MaxFaults = 1` is one failure, lost connection or crash
  per behaviour, and `MaxIdle = 1` one connection that may carry a further request
  after the signal. No arrival is shed in the instance; the theorem covers it.

Symmetry is used in the safety runs for connections, writers, readers and
tokens; never with a liveness property. Deadlock is checked except in
`migrate`, `worker` and `service`, where a program really ends.

### Fairness

* `Engine`: strong fairness of each connection's steps. Postgres queues the
  requests for a lock, so a request whose lock keeps coming free is granted;
  strong fairness says this for units and rows, and the venue lock's queue is
  modelled (`ahead`), since shared requests could otherwise overtake an
  exclusive one for ever. Nothing makes a client begin, a sweep run, or the
  clock advance.
* `Idempotency`: strong fairness of each call's steps for the same reason (the
  waiters of a key wake when its owner ends), weak fairness of the end of a
  purge batch, and none for faults, the clock or new calls.
* `Handle`: weak fairness of the handle's own timers only. No backend need
  answer, no canceller connect, no command settle.
* `Migrate`: weak fairness of a runner's own next step, and strong fairness of
  its request for the run lock, which the server queues. An error, the loss of a
  process and a new run need never come.
* `Programs` (over `Worker`): weak fairness of what Node runs when it is ready, of a
  loop's calls, which the handle bounds in time, and of the end of a statement left at
  the server (`LeftEnds`); none of the timers and none of the harness' code. `Drains`
  assumes timers that fire, in the property itself, and speaks of each loop by itself.
  Nothing in the repository bounds a statement of `dastar_worker`, which has no
  `statement_timeout`; that it ends is an assumption about the server, and only `Drains`
  rests on it, since a statement that never ends keeps its rows locked for ever.
* `Load`: weak fairness of the harness' own process and timers only: the API may
  crash, stall or answer nothing. That the API's process ends is not claimed: a client
  that keeps using its connection puts it off for ever.

### Each property can fail

For every property of a passing run, `PROJECT.json` names a change of one
definition of the kind a bug would make, such as a confirm that ignores the
expiry, overlap rows locked without the unit locks, a shared venue lock where
the exclusive one belongs, a purge that overlooks the window, a settled late
command that returns its connection, a runner that takes any index of the right
name for its own, a loop that drains on after a stop, or a percentile that takes
a lower bound for a latency, and the run then reports that property.
The changed definitions stand beside the originals, commented `Mutant:`.

## 4. Theorems

For every number of connections, units, combinations, reservations, ranges,
capacities, blackouts, files, releases, runners, commands, writers, readers,
requests, keys and plans and any bound on the clock:

| Theorem | States |
| --- | --- |
| `BookingSafe`, `BookingLegal`, `BookingType` | the serial database never double-books, strands, books into a blackout or leaves the transition table |
| `SlotsBookable`, `SlotsComplete` | every slot that availability offers is one a hold accepts; an answer that is not truncated leaves none out |
| `EngineInductive` | the inductive invariant of the concurrent engine |
| `EngineAtomic` | `Engine!Spec => Booking!Spec`: each commit is one serial step, every other step a stutter |
| `EngineSafe`, `EngineStrandsNothing` | invariants 1, 4, 11 and 12 for every interleaving |
| `EngineOverlapComplete`, `EngineInsertNeverWaits`, `EngineNoLateConfirm` | the locking argument of `hold`, and invariant 2 |
| `EngineNoDeadlock` | no circle of waits, plain UPDATEs of blackouts aside: what `CORRECTNESS.md` ("Lock order") calls a hypothesis |
| `IdempotencyConsistent`, `IdempotencyStored`, `IdempotencyOnce`, `IdempotencyAgree` | invariant 3 |
| `HandleInductive`, `HandleContract`, `HandleIdle` | the handle's safety properties; an idle connection is clean |
| `LifecycleInductive`, `LifecycleAudit`, `LifecycleEvents` | the audit trail replays to the row; the outbox is the changes of status, in order |
| `LifecycleVersions`, `LifecycleTokens`, `LifecycleTokenOnce`, `LifecycleReceipts` | versions, tokens and receipts are honoured |
| `MigrateInductive`, `MigrateRecorded`, `MigrateDone`, `MigrateForeign` | the migration runner's safety properties, for any files, releases and runners |
| `MigrateOrder` | `Migrate!Spec => Rollout!Spec` |
| `ConfigurationInductive`, `ConfigurationAnswers`, `ConfigurationCommands` | every answer is of one snapshot; no command undoes another's change |
| `ProgramType` | the type of the worker process and of both runs: the pool is never overdrawn, no table has fewer than no rows due |
| `ProgramAnswers`, `ProgramVerdict` | the mixed run's expected answers are complete but for the cap on live holds, and only an unexpected answer can fail it |
| `ProgramExpiry`, `ProgramSamples` | the reports of the mixed run and of the churn run are true of what happened |
| `LoadReport` | a load run's percentiles, limits, backlog and exit code hold of what happened, however the answers it did not get would have come |
| `LoadInductive`, `LoadRevoked`, `LoadAnswered`, `LoadRecords` | revoked keys open nothing, a shutdown answers what it took, on connections kept alive too, a load run's records are true; for the API and the run together |

They rest on the named assumptions of the modules only (`RulesAssumption`,
`BookingAssumption`, `EngineAssumption`, `IdempotencyAssumption`,
`HandleAssumption`, `LifecycleAssumption`, `MigrateAssumption`,
`ConfigurationAssumption`, `ApiAssumption`, `LoadAssumption`, `SlotsAssumption`,
`ReportAssumption` and those of the programs): the ids of row locks are distinct;
processes, units, combinations, connections, arrivals and periods are finite sets;
gaps and durations are at most the reach of the occupancy read; ranges are well
formed; a hold lives for a positive time; bounds are natural numbers; a release has
one file of a version; two files of different versions are not about the same index;
a row has one venue and one kind; failures have codes of their own; and the operator
does not book under a load run's keys.

**The argument for the engine.** None of invariants 1, 4, 11, 12 is inductive:
that an insert is safe depends on what the transaction judged some steps
before. `Inductive` says, for every place, which locks a transaction holds there
(`HoldLocks`, `ConfirmLocks`, `MoveLocks`, `ConfigLocks`), that locks exclude
(`Exclusion`), and that what the triggers judged is *still* true of the
committed tables (`Drafted`: at `commit`, the rows a hold clashes with are all
expired or in its draft, its units are still usable, no blackout covers it, a
configuration write still strands nothing). That a commit of `q` keeps `p`'s
part is the heart of the proof: a commit changes only rows `q` has locked, or
inserts under `q`'s unit and venue locks (`CommitEffect`), and whatever could
falsify `p`'s judgement needs a lock `p` holds (the `Stable` lemmas). Steps
that change no table are disposed of by `Frame`. `EngineAtomic` then maps each
`Commit` to the `Booking` step of its command, and `EngineSafe` follows from it
and `BookingSafe`.

The delicate case is a configuration edit against a confirmation that began
before the hold expired. The edit counts the hold as dead. It is the
confirmation's own re-check under the shared venue lock and its unit locks that
keeps the invariant, and the edit's locks that make the re-check stay true.

**The argument for idempotency.** `Kept`: the row of each outcome is in the
table until its window is over. It needs `OwnerIsAlone` (an owner has claimed a
key without a row, and alone) and `DueRows` (a batch holds only rows past their
window, and alone). `OncePerWindow` and `AnswersAgree` read off `Kept` in one
step.

**The argument for the handle.** `HeldOnce` and `Paired` tie the pool's view to
the calls and the requests that hold a connection; a cancel request exists only
while its connection is in its grace period or discarded, since no transition
leads from `grace` back to the pool. `HandleContract` collects the four
properties.

**The argument for the lifecycle.** A committed trail is complete, and what a
transaction holds uncommitted *continues* it: each pending row is the next
version of a row it has locked (`Fits`), logged once, with an id above every
committed entry of that reservation (`Logged`), and owes or has enqueued one
event, with an id above every committed event of it (`Mailed`). Ids are drawn
above all others only at that moment; that no entry of the same reservation
commits with a higher id before this one does follows from the row lock, and
is the step `CommitOthers`. `CommitAudit` then appends one entry to each trail
(`TrailExtends`), and `ReceiptTrue` holds because the entry with the highest id
is the transaction's own. Tokens need `TokensApart`: no two reservations, pending
or committed, bear the same one, and none that was not minted.

**The argument for migrations.** `Local` says what a run knows while it holds the
run lock, and that only its holder works: the files it has visited are
recorded, its map of those left is current (`Visits`), and the object its
statement is about is as the probe found it or the statement left it
(`Target`). `RecordedHolds` survives another release's statement because an
index belongs to files of one version, and a recorded version is never visited
with a statement (`CatalogKeeps`). `DoneIsReady` is what the last visit leaves,
kept because records are only added; `ForeignKept` and `InOrderOnce` are read
off `Target` and `Visits` in one step. Interruptions are the easy part: a run
that ends claims nothing (`EndKeeps`), and what it leaves is what the next probe
may find.

**The argument for the configuration.** Two invariants, one for each property.
`Faithful`: among the committed tables, the readers' snapshots and the cache
entries (`Known`), no version is ahead of its venue's, and equal versions of a
venue have equal content. A commit makes a version newer than all that is known
(`CommitKnown`); every other step only moves what is known about, which is why a
slow reader may overwrite a newer entry, or lose one to the limit, and harm
nobody. `WriteInv`: a row read for writing back agrees with what was asked for,
outside the fields plain SQL sets (`Agree`), because the venue lock keeps other
commands away and plain SQL touches those fields only (`PlainAgrees`); a
statement's result stays good until its commit because the version trigger
leaves one uncommitted writer per venue (`OneUncommitted`).

**The argument for the service.** `Good` says what a request's place implies: a
*late* request, one sent with a key whose revocation was answered, is not past
its lookup; an answered revocation has happened; an open hold, still on its way
or left at the database as a statement nobody waits for, has no outcome yet.
`HoldInv` ties a planned hold's outcome to its reservation and its record.
`CommandKeeps` is the delicate step: an orphaned statement may book after the
client has its timeout, and no record says otherwise, because a record of a
refusal needs an answer, and an answer closes the hold. `AnsweredAtExit` rests on
`StageInv`: once the server has closed, nobody waits for what it still works on,
so only requests of clients that have gone away are lost by a signal. It needs
`IdleInv`, that a closing server has no connection left on which another could come.

**The argument against circles of waits.** `Ordered` strengthens `Inductive` with
the order in which each place takes its locks: nothing is held before the venue
lock, the units and the rows a transaction has yet to lock are above those it has
(`InOrder`), and the queue for the venue lock is one (`InQueue`). There is no one
ranking of all locks, since holds take units before reservations and a forced
admin write reservations before its own row and its units. `NoCircle` takes a
group whose members all wait for members. The member that waits for the greatest
unit can only wait for someone who waits for a row under a shared venue lock
(`<1>11`); the one that waits for the greatest row, for someone beyond it under an
exclusive one (`<1>12`); the two do not exist together. So nobody waits for units,
then nobody for rows or configuration rows, and who is left waits in the venue's
queue, which is ordered. An insert never waits (`InsertsApart`). The configuration
version is a last lock on which nobody waits while holding it, and is not in the
model. The theorem excludes what the document does: a plain UPDATE of a blackout
locks its row before the venue; with one, TLC finds the circle in eight steps.

**The argument for availability.** `OffersBookable` and `OffersComplete` are
consequences of the tables' types and `NoDoubleBooking` alone, since the answer
is computed from one snapshot. The rows of a unit do not overlap, so sorted by
their starts they are sorted by their ends, and the binary search finds the last
row that begins before the end of the asked range: it begins to clash at that row
or nowhere (`FirstAfterIs`, by induction over the length of what is left to
search). What the search says of a unit is then what `Clashes` says of a hold
(`BusyIs`, `UnitFreeIs`, `FreeIs`); the reach of the occupancy read covers every
booking with its gaps (`StartIs`); and the ranking picks one of the free
assignments (`ChooseIs`).

**The argument for the programs.** Three programs that run the sweeper's loop have one
invariant, over the loops and what the program keeps beside them. In a mixed run the due
rows are the dead holds; the rows the sweeper named are those the audit log says it
expired, unless one of its batches failed; reservations that occupy a unit do not overlap
on it, since a hold is granted when all that is in the way is dead and expires with it;
and the live ones fit, since an edit looks at them and a confirmation looks again. A
combination is a pair of units, a reservation longer than none meets at most two
disjoint others on each, and so at most four are in the way of a hold: the overlap set
never meets its bound. In a churn run the answers are those
in the samples and in the buffers: a sum over a sequence, for which the lemmas on folds
are proved by induction on its length.

**The argument for the report.** The quantile of a sample with lower bounds is between
what it would be if every censored value were as it is and if each were infinite,
whatever the completion is (`PercentilesTrue`): the counts of values at or below a
bound only fall when values grow, and ranks follow the counts (section "Orders").
`WaitingTrue`: what waits at the end of a step or a second waited at once at the
last of their arrivals, so that no count exceeds the peak. `ExitTrue` reads the exit
code back to the checks it is made of.

**Induction over data.** The library's induction theorems cannot be instantiated, but
that finite sets are well-founded by inclusion is a theorem without a parameter
(`FS_StrictSubsetOrderingWellFounded`). From it follow that a finite set has a least
and a greatest value of a function (`Least`, `Greatest`), and that a *set* of numbers
with 0 and every successor has all of them (`Induct`), which is what the binary
search, the sums and the plan's times need.

**Model-checked only.** `TransactionsEnd`, `CallsEnd`, `CallsReturn`,
`PoolRecovers`, `RunsEnd`, `StopEnds`, `Drains` and `RunEnds` are liveness under
fairness, which the prover cannot reach. Every invariant and every action property
that a run checks is also proved. `BookingLegal` is proved for
the serial database and carries over by `EngineAtomic`.

## 5. What the models leave out

* *Plain UPDATEs and deadlock.* A plain UPDATE of a blackout takes its row
  before the venue lock and can deadlock with an admin write of the same
  blackout. `CORRECTNESS.md` documents this; `TransactionsEnd` is about the
  paths the engine offers, and its run issues no plain UPDATE. The safety runs
  do. A plain UPDATE that commits between an admin command's read and its write
  is lost; `CommandsKept` is about commands.
* *The config-version row* is the last lock of every configuration write and is
  held by nobody who waits. `Engine` leaves it out; in `Configuration` it is what
  `Write` waits for.
* *Refusals that change nothing* (the live-holds cap, the schedule, a missing
  assignment, the overlap limit) are one nondeterministic abort of `Engine`.
* *Creation* of units, combinations and schedules is in `Configuration`; in
  `Engine` and `Booking` the sets are constants, and the initial configuration
  is any one of a set.
* *Local time.* The conversion of service periods to instants is the
  database's; daylight saving is outside `Slots`.
* *Migrations* are abstract statements: what a transactional file does is its
  taking effect, and a concurrent file is about one index.
* *The API's* validation, problem documents, health and documentation routes,
  and the texts and layout of the harness' reports.
* *The harness'* `race`, `exhaust` and `migrate-under-load` commands and the naive
  baseline. They drive the same components for shorter: a race is two holds, an
  exhausted pool is in `Handle`, a migration under load is `Migrate` beside
  `Engine`. The environment's own answers (a deadline, a lost connection) are
  left out of `Mixed`, whose property is about the engine's; so are a deadlock's and
  a serialization conflict's, which `EngineNoDeadlock` and `TransactionsEnd` are about,
  with the counter of deadlocks among the reasons to fail, and the count of each
  operation below which a run is inconclusive.
* *The cap in the mixed run.* `EXPECTED` (`apps/harness/src/mixed.ts:50`) lists no
  `too_many_live_holds`, though a hold may be so refused (`commands/hold.ts:108`). The
  harness' seed gives its venues a cap of 100 for each actor (`apps/harness/src/seed.ts`),
  which a worker that cancels a quarter of the time hardly reaches, and `AnswersExpected`
  names it as the one exception.
* *What a discarded connection leaves.* A program may exit while a statement of its own
  still runs at the server (`LIMITATIONS.md`, "Cancellation needs a canceller
  connection"); nothing is claimed of the server at exit. A harness run's sweeper has no
  canceller of its own and may borrow a pool connection for a cancel request, as in
  `Handle`; `Sweeping` leaves that connection out.
* *Delivery of the outbox.* Nothing under `src/` publishes events. Retention
  deletes only published ones, so in the model events stay; a publisher that
  deletes or reorders them is outside `EventsFollow`.
* *Tokens* are values that cannot be guessed: a client presents one that was
  minted or will be. The hash stands for its token.
* *Plain UPDATEs* in `Lifecycle` change a status. Those of other columns are one
  more version and entry without an event, as a mint is.
* *Pids* are not reused while a cancel request for them is in flight, and the
  pool serves its waiters in any order.
* *Isolation, client*: see `components` in `PROJECT.json` for the reason of each.

## 6. Plan

Done, in this order: `Rules`, `Booking`, `Engine`, `Idempotency`, `Handle`,
`Lifecycle`, each with its proofs; `Migrate` with its refinement and proofs;
`Configuration` and `Slots`; `Worker`, `Churn`, `Mixed` and their composition;
`Api`, `Report` and `Load`.

The proofs of the invariants of `Slots`, `Programs`, `Handle` and `Report`, and the
order of the locks of `Engine`, followed.

1. That `Engine` and `Lifecycle` agree on the status of every reservation: a
   refinement of one abstract machine of `Status` by both.
2. That a wait of `Idempotency` or `Migrate` is never part of a circle, as
   `EngineNoDeadlock` says of `Engine`.
3. `race` and `exhaust` of the harness, over `Engine` and `Handle`.

## 7. Running

    tlc -config EngineBooking.cfg MCEngine
    tlapm EngineProofs.tla

Each row of `runs` in `PROJECT.json` names the module and the `.cfg`.
