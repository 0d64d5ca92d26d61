# Verification of backend-test-kit

TLA+ modules for the programs of this repository, TLC runs that check them on small instances, and
theorems about them that TLAPS proves for every instance.

The repository is a kit of tests that `setup.sh` adds to a backend service, and the example programs
the kit's tests are written against: a bookings API with a capacity rule, a job that mails reminders, a
product catalog cached in Redis, a queue of reminders, a repository of notes, Express routes. Each of them is short, and what makes each hard
is the same: it is a sequence of awaits, between any two of which something else runs, fails or stops.
The modules model exactly that: an action is what runs from one await to the next.

Contents: [the system](#the-system) · [modules](#modules) · [runs](#runs) ·
[fairness](#fairness) · [proofs](#proofs) · [where the documentation says more](#where-the-documentation-says-more-than-the-code-does) ·
[not modelled](#what-is-not-modelled) · [plan](#plan)

To check a run: `tlc -config service.cfg MCBookingsService`; to check proofs:
`tlapm BookingsServiceProofs.tla`.

## The system

| Part | Source (below `src/`) | State | Operations |
|---|---|---|---|
| Bookings store | `examples/nest/bookings/bookings.store.ts`, its in-memory fake, `examples/nest/typeorm/`; `bookings-store.contract.ts` | rows of bookings, `reminderSentAt` | `findHall`, `guestsBooked`, `save`, `findBooking`, `bookingsFor`, `dueForReminder`, `markReminderSent` |
| Bookings API | `examples/nest/bookings/`, `bookings-api/` | none of its own; what each request carries across its awaits | `POST /bookings`, `GET /bookings/:id`, `GET /bookings/mine`, behind `RolesGuard` and the pipes |
| Reminders job | `examples/nest/reminders/` | what each run has read and not attempted | `sendReminders` at 08:00 on every server |
| Product catalog | `examples/common/product-cache/` | one Redis entry per product, beside the database | `get`, `updatePrice` |
| Reminder queue | `examples/common/reminder-queue/` | a BullMQ job per booking | `enqueue`, the worker's `send` |
| Notes repository | `examples/common/notes-repository.ts` | rows; a pool of connections, each with its transaction | `create`, `createAll`, `list` |
| Test database | `test/helpers/database.ts`, `test/setup/*.ts` | the tables, `test_kit_seed`, a pool of two connections | migrate, record the seeded rows, `resetDatabase` before each test, close |
| Test Redis | `test/helpers/redis.ts` | one connection | `flushRedis` |
| setup.sh | `setup.sh`, `package.additions.json` | the directory of a service | the sections of `main` |
| Express auth | `examples/express/auth/` | none of its own; what each request carries across its await | the middlewares, `POST /halls`, `GET /users/:userId/bookings` |
| Members client | `examples/express/members/`, `examples/nest/members/` | none | `GET /api/members/:id`, which calls another service |
| splitAmount | `examples/common/split-amount.ts` | none | a pure function |
| Kit configuration | `test/setup/tsconfig.cjs`, `jest.base.cjs` | none | options merged when Jest starts |
| Tests and CI | `*.spec.ts`, `ci/` | none | what the others promise |

**How they interact.** The bookings service and the reminders job share the table of bookings and the
clock, in different processes, and never call each other. The catalog shares each product between a
database and Redis, which no transaction spans. Callers of the notes repository meet in its pool and in the
locks of its table. The members app calls the members service; the other Express routes call what they were given.
The unit tests of the services run on the fake store in place of the TypeORM one, and a contract says when they may. The queue's producer and its workers meet only in Redis.
The test database is used by every integration test, one Jest worker at a time, and a container that is
kept carries its rows from one run to the next. `setup.sh` meets the developer in the service's
directory: both write there, in turns, and the script can be stopped anywhere.

**What is hard, and what makes each part correct:**

- *Bookings API.* Two requests interleave between counting the guests and saving (`bookings.service.ts:40-47`);
  a store call can fail with its effect. Correct if overbooking is bounded and has no other cause
  than that race, every request is answered, and nobody is shown another's booking.
- *Reminders job.* Several servers, no lock; an email that is sent and not recorded; a process that stops
  in the loop. Correct if what is recorded was mailed, no server mails twice, and no booking falls
  through a run.
- *Catalog.* A change is two writes (database, then `DEL`), a fill is two (read, then `SET`), and they
  interleave. Correct if an entry is old only for those reasons, what exists is found, and the cache is
  right in the end.
- *Notes.* Transactions wait for each other's titles, are chosen as victims, lose their connection, and share a pool.
  Correct if all the notes of a call are saved in one step or none, what the caller is told fits that, and
  connections come back clean.
- *Express routes.* A handler rejects after its await and Express 4 does not notice; the members service fails in the
  middle of its answer. Correct if an answer fits what happened to its own request, and none is left hanging.
- *Stores.* The fake must answer as MySQL does, whose ids have gaps, whose rows have no order and whose times have no
  milliseconds. Correct if both keep the contract after any sequence of calls, and hold the same.
- *splitAmount.* One rounded division. Correct if the shares add up to the cent.
- *Queue.* Deliveries are repeated after errors, crashes and lost locks. Correct if each repetition has
  such a cause, their number is bounded, and every job ends.
- *Test database.* Triggers write during the reset; seeds are recorded once and migrations added later;
  runs are killed. Correct if a test starts from what the migrations left, or else for a known reason,
  and if rows of tests are never taken for seeds.
- *setup.sh.* Many small writes, any of which may be the last; runs are repeated with other options.
  Correct if no developer's work is lost, a refusal changes nothing, the service is without a runner only between its
  first write and its `npm install`, a finished run is complete and a repeated one changes nothing.

`PROJECT.json` lists the same at single lines of code ("hazards"), with the properties that cover each.

## Modules

| Module | Models | Composed of |
|---|---|---|
| `BookingsStore` | the table of bookings, the halls, the calendar | |
| `BookingsService` | the API's requests over it | extends `BookingsStore` |
| `BookingDesk` | what taking bookings promises (abstract) | extends `BookingsStore`; implemented by `BookingsService` |
| `BookingReminders` | the job on several servers | extends `BookingsStore` |
| `Queries` | SQL's `SUM` and `ORDER BY` over a set of rows | |
| `BookingsStoreContract` | what the contract tests ask of a store (abstract) | extends `Queries` |
| `BookingsStores` | the fake and the TypeORM store given the same calls | extends `Queries`; implements the contract twice |
| `BookingSystem` | the API and the job on one table and one calendar | extends the two |
| `ProductCatalog` | the cache beside the database | |
| `ReminderQueue` | the producer, BullMQ and the workers | |
| `NotesLedger` | what saving notes promises (abstract) | |
| `NotesRepository` | its callers, its pool and MySQL's transactions | implements `NotesLedger` |
| `RequestHandlers` | the Express routers, the members app and the members service | |
| `SplitAmount` | `splitAmount` as a function | |
| `TestDatabase` | the test database over many runs | |
| `KitInstaller` | `setup.sh` over many runs | |

`MC*` modules give the constants their values for TLC, `*Proofs` modules hold the theorems. No module
declares a `RECURSIVE` operator; where the code loops over a list (the job, the reset, the copying of
files) the loop is a variable and an action per iteration, because each iteration awaits.

**Conventions.** `pc` (in `KitInstaller`, `phase`; in the queue, `doing`) says where each actor waits. An
action's guard is that place, and it does everything the code does until the next await. A call that
rejects may have had its effect or not: both are actions. Variables called *history* in their comment
are read by no guard; they record what a property must refer to. Definitions preceded by "Mutant:" are
plausible bugs of the operator after them, used to confirm that the properties notice them;
no specification contains them.

### BookingsStore and BookingsService

The rows are a sequence, a row's id its position. Each operation of the store is a single statement, so
it is one atomic step; `SUM(guests)` is the cardinality of the places the rows take (`PlacesTaken`), which
needs no recursion and can be proved about. Dates are day numbers.

| Code | Actions |
|---|---|
| `RolesGuard.canActivate`, the pipes | `RefuseCaller`, `RefuseInput`, and the guards of `PostBooking`, `GetBooking`, `GetBookings` |
| `create` up to `findHall`, `guestsBooked`, `save` | `FindHall`, `CountGuests`, `SaveBooking`, `SaveUnconfirmed` (saved, and the answer lost) |
| `findOne`, `listMine` | `FindOne`, `ListMine` |
| a store call that rejects | `StoreFails` |
| `clock.now()` | `Midnight`, at any time, between two awaits of a request too |

`BookingDesk` has no HTTP, no awaits and no statuses: a clerk promises a booking that fits the
book, and writes or drops it later; days pass. `ImplementsDesk` maps a request that waits to save to a promise.

### BookingReminders and BookingSystem

A run is a server and a day; `left` is the rest of the list it read. `FetchDue`, `Send`, `MarkReminderSent`
are the three awaits; `FetchRejects` ends the run, since that await is outside the `try`; `SendRejects` and
`MarkRejects` count a failure and go on; `Crash` takes all of a server's runs. `Book` is the environment: the
service, in `BookingSystem`. That module extends both components, which share `bookings` and `today` by name and keep their own
variables apart (`serviceVars`, `jobVars`); a step of one leaves the other's variables alone. `EachUndisturbed` says that a behaviour of
the system is one of `ServiceSpec` and one of `JobSpec`: what the job records is nothing the service reads, and to the job the
service is its `Book`. It is proved, and with it every safety theorem of a component holds of the system.

### BookingsStoreContract and BookingsStores

The contract names halls and bookings by the order they were added in: its tests look at no id that `addHall` or `save` did not
answer. `BookingsStores` has both implementations in one state, the fake's arrays and MySQL's tables (sets of rows, ids from
AUTO_INCREMENT), gives both the same calls one after the other, and records in `given` the ids each answered. Operators named
`Fake...` and `Real...` are the methods of the two; `FakeContract` and `RealContract` map each to the contract. `RollBackInsert` and
`NextTest` are what makes MySQL's ids differ: a failed insert uses one, and a reset does not give them back. Times are
in half seconds, so that `ToSecond` has something to round.

Sums and sorted lists are stated by counting (`Queries`): a sum of guests is the number of pairs of a row and one of its guests, the
k-th row of a list is the one with k - 1 rows before it. So stated they need no recursion, and a bijection between the fake's
positions and MySQL's rows carries them over, which is how they are proved equal for any number of rows.

### ProductCatalog

A product is its version, 0 while it does not exist. `ReadCache`, `Find`, `SetCache` are `get`'s awaits,
`UpdateSource`, `DelCache` those of `updatePrice`, `SetFails`, `UpdateFails`, `DelFails`, `ReadFails` their rejections
(a `DEL` lost with its process among them). `Expire` is Redis's time to live. The history variables `late` and
`tainted` say of a fill or an entry that no pending `DEL` will remove it although it may be old.

### ReminderQueue

`Enqueue` is the code's `add` with a job id, `SendEnds` the worker's `send`; the rest is BullMQ as
the code configures it (`attempts: 3`, a fixed backoff) and with its default of one stall, and is marked
external in the map: `Take`, `Complete`, `Retry`, `ReportTooLate`, `FindStalled`, `DelayEnds`, and `Restart` of a worker.
A worker whose lock has run out goes on working beside the next one.

### NotesRepository and NotesLedger

A call waits for a connection, and is then at one await after another; `Reject` is the way every rejection takes (to the
`rollback` of the `catch`, for `createAll`), `Release` the `finally`. A row inserted in a transaction waits in its connection's
`pending` and locks its title: `Blocked` is an insert that waits for another transaction, which ends with that transaction, with
`LockWaitTimeout` (only the statement is rolled back) or with `Deadlock` (the whole transaction is). "committed" is the
state in which the server has committed and the caller does not know: `LoseConnection` there makes a call reject whose notes are
saved, which `NotesLedger` allows under the answer "lost" and no other. `START TRANSACTION` commits what an earlier user of the
connection left open, as MySQL does, so a missing rollback would be seen.
`NoConnection` is a pool that rejects: `getConnection` stands before the `try`, so such a call ends with nothing to roll back or release.

### RequestHandlers and SplitAmount

A request runs through the middlewares and up to the handler's first await in one step (`PostHall`, `GetBookings`, `GetMember`), and
what is awaited settles in another. A parameter of the URL is a `Text`: whether it is digits, and which number it reads as. `Reject`
is Express 4, the version README.md:10 names: nobody handles the handler's promise, Node ends the process (`up`), and all its connections close. `SaveHall` and
`AnswerHall` are two steps, since the row is there before the handler knows. `Fetch`, `ReadMember` and `CatchAll` are the members
app, with every status the service may answer.

`SplitAmount` has the division as IEEE 754 has it: `Quotients` are the significands over powers of two nearest to
the exact quotient, either of two that are equally near. How many significands there are is a constant.

### TestDatabase

A run starts a new or a kept container (`StartMySql`), applies the files (`RunSqlFile`), records the highest
seeded id of each table (`RecordSeededRows`); each test begins with `resetDatabase` (`GetConnection` .. `CheckAndRelease`),
two passes over the tables in the order `information_schema` lists them. `After` gives the rows after a
`DELETE` and its triggers. `StatementFails`, `CheckFails`, `ConnectionBreaks`, `GetNoConnection` and `EndRun` are the ways it
can go wrong. A table has a numeric id, an id that is no number (`Number()` makes `NaN`, JSON `null`, and
`id > NULL` holds of no row), or none. One id, `AutoId`, stands for all the rows the server numbers itself.

### KitInstaller

`disk` is what the directory holds of each item the script looks at: the kit's files, one by one and in order,
and seventeen others. An item is "theirs" (the developer wrote it), the kit's, or half done ("template" for a
`project.ts` not filled in, "empty" and "copied" for the examples). The script recognises generated settings by a few
of their lines (`is_nest_vitest_template`, the test of the "jest" section), and takes for generated what a developer only added to: such settings
are "extended" here, and pass its checks. A script of the developer's own that runs Vitest is an item of its own, since the conversion deletes it. Each section of `main` that writes
is an action, or several where a stop between two writes can be told apart (`RemoveVitestConfigs`, `ConvertPackage`,
`ConvertTypes`; `CopyProject`, `FillProject`; `ClearExamples`, `LayExamples`, `FitExamples`). `Cut` ends a run anywhere, which is what
`set -e` does when a command fails and what the developer does with Ctrl-C. `Edit` and `InstallModules` are the developer's.

Whether the service's tests can run is a predicate of the directory (`CanTest`): Vitest with its settings, one's own Jest, or the kit's with the
packages of the compiler it names; two places for Jest's settings are none. Between the first file copied and the packages installed there may be no
runner: the conversion takes Vitest out of `package.json` long before `npm install` brings Jest. `RunnerlessHasACause` says that it is only there, or
after a cut there or `--no-install`, and that the old settings do not go before every file of the kit is in place.

## Runs

Ten runs pass; two more show where a comment says more than the code does.

| Run | Instance | Distinct states | Shows |
|---|---|---|---|
| `service` | 2 requests, 1 hall of 3 places and a hall id that does not exist, parties of 1 or 2, 3 rows, 2 days | 438 260 | `OverbookingBounded`, `OverbookingNeedsARace`; every request is answered; the handlers implement `BookingDesk` |
| `reminders` | 2 servers, 2 bookings, 2 days | 111 263 | `RemindedWasMailed`, `OncePerServer`, `RunAccountsForAll`, `RunsEnd` |
| `system` | 1 request, 1 server, an admin, a clerk and a user with no role, 2 rows, 2 days | 289 710 | `EachUndisturbed` (both components); `OnlyOwnBookings`; `RemindsOnlyWhatItRead` |
| `catalog` | 3 calls, 1 product, 3 versions | 113 646 | `StaleIsExplained`, `FoundOnceCreated`, `CoherentInTheEnd` |
| `testdb` | 6 tables, one of each kind, a chain of triggers, 2 SQL files, 3 ids, 2 connections | 1 365 738 | `LeftoverIsExplained`, `OnlySeedsAreRecorded`, `SeededRowsAreKept`, `FreeSessionsCheckForeignKeys` |
| `queue` | 2 bookings, 2 workers, 3 attempts, 1 stall | 394 624 | `OncePerCause`, `FinishedStays`, `JobsEnd` |
| `notes` | 3 callers, 2 connections, 2 titles, batches in opposite orders, one with a repeated title, 3 calls | 322 164 | `ImplementsLedger`, `FreeConnsAreClean`, `ListedInOrderSaved`, `CallsEnd` |
| `handlers` | 2 requests, an admin and a member, 1 of 2 members exists, 2 halls | 20 730 | `AnswersFit`, `HallsAreValid`, `EveryRequestEnds`, `MembersAppAnswers`; before the run, `SplitsAreFair` |
| `stores` | 2 dates, 2 users, parties of 1 or 2, a whole and a half second, 2 hall ids, 3 booking ids | 42 256 | `FakeKeepsContract`, `RealKeepsContract`, `AnswersAsPromised`, `StoresAgree`; before the run, that counting sums and sorts (`QueriesCountRight`) |
| `installer` | 2 runs, 2 of the files, 8 services, 10 sets of options | 1 100 072 | `RunnerlessHasACause`, `DoneIsComplete`, `LeftoversHaveACause`, `RefusalHasACause`, `OwnWorkIsKept`, `SameAgain` |

The modules' `TypeOK`, and the invariants `PromisesBounded`, `SentBounded`, `FailedForAReason`, `CompletedWasSent` and
`RefusedRunChangesNothing`, are in no run: they are proved for every instance. (`BookingsStores` has no `TypeOK`: the contract it implements types
what it answers, and the types of its state are part of `StoresInv`, in the proofs.)

**Bounds, and why they are enough.**

- `service`: the bound on overbooking is reached (one guest, then two parties of two accepted behind each
  other's back: 5 = 3 + 2), and a further request meets negative places. `MaxBookings` and `LastDay` bound the table and the
  calendar; a request that meets the bound on rows can still fail, so it is answered. One user is enough
  here; `system` has the roles. A third request adds nothing the theorem does not cover.
- `reminders`: two servers are the smallest number that race, two bookings the smallest list with a next one,
  and day 0 with bookings for day 1 an eve. Bookings for day 0 and day 1 both exist, and `Midnight` falls
  between any two steps. Days beyond `LastDay` have nothing to remind of. The run has states
  in which nothing more can happen (the table full, the last day over): deadlock is not checked.
- `system`: one request at a time is enough for what the components may do to each other; concurrency
  within each is the matter of the other two runs.
- `catalog`: a late fill, a lost `DEL` and a second change need three calls. `UpdatePrice` does not begin when the
  version could pass `MaxVersion`, so no call is stuck at the bound. Keys of two products never meet.
- `testdb`: the six tables are a ledger to keep, a table with and one without numeric ids, one without an id,
  one that a trigger writes to and one that the second trigger writes to, in an order in which the second
  pass is needed. The second file adds seeds to a kept container. Runs are not bounded: the state space is finite.
- `queue`: two workers are needed for a worker that has lost its lock to meet the one that has it. The
  count of reminders needs no bound: attempts and stalls bound it (`SentBounded`, proved).
- `notes`: three calls on two connections have one waiting for a connection and two for each other's titles; a deadlock, a
  repeated title within a batch and across batches, a row seen after a later id. Nothing is left to happen after the last call: deadlock
  is not checked.
- `handlers`: two requests are the fewest of which one can end the other's process; two halls the fewest with a wrong
  one to name. A text reads as each id in both spellings, or as no number. A request that waits to save into a full
  table can still reject, so it ends.
- `stores`: three bookings make a list with a first, a middle and a last one and a gap; two halls, a sum that must
  leave one out. Dates and users are only compared, so the run uses their symmetry. The ids run out, which only limits how
  much happens.
- `installer`: two runs, since what a run leaves matters to the next; the theorems have no such bound. The services
  are one for each thing the script distinguishes, and one for each it does not: an own Jest, an own Vitest, Nest's default section and one with
  additions, an untouched Vitest template and one with additions (Vitest among its dependencies), TypeORM, a build that compiles the tests, and files
  that are in the way. `--no-install` comes alone or with
  `--force`. After the last run the directory may stay as it is: deadlock is not checked.

## Fairness

Only what the platform gives:

- `BookingsService`, `BookingReminders`, `ProductCatalog`: weak fairness of the next step of each request, run or call. A
  promise that a driver returned settles, with a value or a rejection, and the event loop runs what waits
  for it. Requests, cron and midnight are not fair: nothing makes them happen.
- `ProductCatalog`: weak fairness of `Expire` for each product, the time to live that `set` gives every entry.
- `ReminderQueue`: weak fairness of a worker's next step, of some worker taking a waiting job, of the end of a
  backoff, and of finding an abandoned job stalled: BullMQ's workers look for those on a timer. A worker that is
  at work may be found stalled too, but need not be.
- `NotesRepository`: weak fairness of each call's next step. MySQL answers every statement, a wait for a lock ends with
  `innodb_lock_wait_timeout` at the latest, and the pool serves its queue in order, which for a finite number of calls gives each a connection.
- `RequestHandlers`: weak fairness of what each handler awaits. Neither the members app nor its `fetch` sets a timeout; `fetch` has its own
  (undici's, five minutes for the headers and for the body). Restarts are not fair.
- `BookingsStores`, `TestDatabase` and `KitInstaller`: none. Tests and developers may stop anywhere; the properties are safety.

## Proofs

All theorems are for every value of the constants (any number of requests, servers, workers, tables, files,
runs). They rest on the named `ASSUME`s of the modules (sets of actors are finite, capacities are natural
numbers, marker values are no data, a service starts with nothing of the kit), and TLC evaluates these on each run.

| Module | Theorems | Argument |
|---|---|---|
| `BookingsServiceProofs` | `ServiceTypeCorrect`, `PromisesAreBounded`, `OverbookingIsBounded`, `OneRequestNeverOverbooks`, `OverbookingIsARace`, `OnlyOwnAreShown`, `ImplementsTheDesk` | The bound on the rows alone is not inductive: a save may be by a request accepted long before. Counting places promised but not saved (`PromisesBounded`), and that each fits its hall, makes it so: a save moves places from one count to the other. For the race, `CountsHold`: where nobody saved behind another's count, each count still holds. For the refinement, each step of a request maps to the desk's promise, write or drop, or leaves the book and the promises alone |
| `BookingSystemProofs` | of the job: `JobTypeCorrect`, `RecordedMeansMailed`, `RunsAccountForAll`, `AtMostOncePerServer`, `OneServerRemindsOnce`, `OnlyWhatWasReadIsReminded`; of the system: `NeitherDisturbsTheOther`, `SystemKeepsServicePromises`, `SystemKeepsJobPromises` | Between email and record, the run at "mark" stands for the email (`MarkedWasMailed`). For the count, a server that has mailed a booking has passed it (`PassedBy`) and mails none that it has passed: only its run of the booking's eve reads it (`MailedOnceIfPassed`). For the system, each step of one component is shown to be a step of the other's specification or to leave its variables alone; the promises of each then follow from its own theorems |
| `ProductCatalogProofs` | `TypeCorrect`, `StaleHasACause`, `ExistingIsFound` | What is on its way to the cache must be explained like what is in it (`FillsExplained`); a product once seen to exist exists (`ExistInv`) |
| `ReminderQueueProofs` | `TypeCorrect`, `SendsAreBounded`, `DoublesHaveACause`, `FailureHasAReason`, `CompletedReached`, `FinishedJobsStay` | Sends under way are counted with those that arrived (`RunsPaid`, `DoublesPaid`), so that a worker that lost its lock has its send paid for by the stall |
| `NotesRepositoryProofs` | `TypeCorrect`, `PoolIsClean`, `ListFollowsSaves`, `ImplementsTheLedger` | Who is at a step of a transaction holds exactly one connection with that transaction open, and a free one has none; ids below `nextId` are given once; the rows a call has pending are those of the notes its loop has passed; that titles are unique is MySQL's index, and a lemma. A step then maps to a step of the ledger or a stutter, the commit to `Save` |
| `ExamplesProofs` | of `SplitAmount` and `RequestHandlers`: `FloorIsExact`, `SplitsAreExact`, `TypeCorrect`, `HallsStayValid`, `AnswersAlwaysFit` | A quotient below an integer by at least 1/parts is nearer to a number below that integer than to it, while the total is below 2^53. What a request waits with is what its middlewares let through, and the row it has saved stays where it is |
| | of `BookingsStores`: `FakeHasNotDrifted`, `StoresAnswerAsPromised`, `FakeStoreKeepsContract`, `RealStoreKeepsContract` | That the answers agree is not inductive: it says nothing of the ids the next call will be given. `StoresInv` adds that the fake numbers by position, that MySQL's ids go up with the positions and stay below the next one, and that each table holds exactly the rows that correspond to the fake's positions, rounded. The map from positions to rows is then a bijection that keeps the order, so both stores have the contract's sums (`SameSum`) and lists (`SameOrder`), and each call is the contract's step |
| `TestDatabaseProofs` | `TypeCorrect`, `LeftoverHasACause`, `SeedsAreMigrated`, `SeedsSurvive`, `FreeSessionsCheck` | Until the seeds are recorded the tables hold migrated rows only (`SeedInv`); behind the loop of each pass the tables are swept (`Swept`), after the second settled (`Settled`), up to what triggers may write afterwards (`LeftInv`) |
| `KitInstallerProofs` | `TypeCorrect`, `RefusalsChangeNothing`, `RunnerlessOnlyInTheGap`, `DoneMeansComplete`, `LeftoversAreExplained`, `RefusalsAreExplained`, `DevelopersKeepTheirWork`, `RepeatedRunsChangeNothing` | What each section has established holds in all later ones (`Unread`, `Checked`, `InPlace`, `RunnerInv`, `Progress`); half-done work is at the section that does it or behind a cut of it (`CauseInv`, `Settled`); what `--force` must allow is checked before (`OwnInv`), and own scripts go only beside a template the run began with (`TemplateInv`). For a repeated run, what each section leaves is what makes it leave that alone the next time (`WorkInv`, `Finished`), and a run with the options of the last one stays, section by section, within what the last one left (`Repeating`) |

`OneRequestNeverOverbooks` and `OneServerRemindsOnce` are the documented promises, with the condition under which
they do hold.

**Only model-checked:** liveness (`EveryRequestAnswered`, `RunsEnd`, `CoherentInTheEnd`, `JobsEnd`,
`CallsEnd`, `EveryRequestEnds`, `MembersAppAnswers`), since the prover has no
rules for fairness here. The system assumes the fairness of its components, so that `EachUndisturbed` carries their liveness over
to it, as far as the runs `service` and `reminders` show it.

## Where the documentation says more than the code does

Two have a run that finds a behaviour of the code against the quoted words.

| Run | Words | Behaviour |
|---|---|---|
| `reminded_twice` | booking-reminders.job.ts:8, "Safe to run twice (after a restart, or on two servers)" | Both servers read, then both send |
| `retried` | booking-reminders.job.ts:35, "the next run retries it" | The next run is the next morning's and reads the bookings of another day |

For others a passing property or a theorem says how far the words hold:

- README.md:194, "a booking bigger than the places left that day is refused (409)": two requests count, then both save. `OverbookingBounded` says
  by how much, `OverbookingNeedsARace` that nothing else does it, `OneRequestNeverOverbooks` that one request at a time does not.
- docs/backend-testing-practices.md:78, "After a change, the next read returns the new value, not the cached one": a `get` that read before the change
  fills the cache after its `DEL`. It is what `StaleIsExplained` calls `tainted`, and ends with the entry (`CoherentInTheEnd`).
- README.md:161, "each table is trimmed back to its seeded rows, not emptied": a seeded table without an `id` column is emptied (`MayBeMissing` in
  `LeftoverIsExplained`; `SeededRowsAreKept` is about tables with one).
- setup.sh:61-63, "a project with its own Vitest tests or config is left alone", and README.md:116-117, own `jest.config.*` or a custom `"jest"` section: "The script
  will not touch it". A `vitest.config.ts` that still mentions `vite-tsconfig-paths` and `globals: true`, and a `"jest"` section that still has Nest's three lines,
  are removed with all that was added to them, and own scripts that run Vitest with the former, without `--force`. `OwnWorkIsKept` and its theorem
  say that nothing else is lost so (`TakenForGenerated`); the states in which these are lost are in the run.
- bookings-store.contract.ts:105, "a DATETIME column keeps no milliseconds, and the fake must not either": the fake keeps the `Date` it is given, and the contract
  tests a whole second. `StoresAgree` holds up to that rounding, and only so far does "If the two ever behave differently, one of the two runs fails" (line 13).
- split-amount.ts:2, "shares that add up to exactly the total": up to 2^53 (`SplitsAreExact`). `Number.isInteger` accepts larger totals, and
  100 000 000 000 000 000 into 3 makes three shares of 33 333 333 333 333 332, four cents less.

Smaller ones are named as causes by a passing property:

- `database.ts:70`: the second pass covers rows a trigger wrote during the first, but not those written to a trimmed
  table, nor those at the end of a chain of triggers (`TriggersMayWrite`).
- Tables whose ids are no numbers are never trimmed (`MayBeLeft`); seeds of a migration added to a kept container are deleted
  by the first reset (`SeededLater`).
- README.md:409 says "the same job is not done twice": `OncePerCause` says up to which failures.
- README.md:509: setup.sh chooses ts-jest for TypeORM only when `node_modules` is there to read the TypeScript version in (`SameAgain`).
- A run of setup.sh that is cut within the conversion of a Vitest template is refused ever after, with `--force` too
  (`RefusalHasACause`), and so is one that had Vitest among its dependencies, where the conversion leaves it; one cut between copying and filling `project.ts` leaves it unfilled and "kept yours" (`LeftoversHaveACause`).

## What is not modelled

- **Test Redis**: `flushRedis` is one command; what it empties is modelled where it is used, and no test shares Redis with another.
- **Test files and CI**: read for what they promise; the contract tests are modelled, as the contract.
- **Kit configuration** (`tsconfig.cjs`, `jest.base.cjs`): a merge of options when Jest starts; data, not behaviour.
- Within modelled parts: contact emails, names, wording and layout; the messages of errors; the time zone of the cron
  (08:00 is the server's, tomorrow is UTC's); Jest's own timeouts, which end a hook but not the reset it started; which
  settings `setup.sh` detects for `project.ts` (filled or not is modelled) and the differences of package managers; a template whose tests import Vitest is
  a config of their own ("theirs"); a database
  that is migrated by hand; a connection that drops and is restored within one statement.
- `NotesRepository`: a rollback is taken to reject only when its connection is lost, and the server to notice a lost connection at
  once; a deadlock is approximated as a wait while another insert waits too, which allows more victims than the server chooses. Bodies of notes are
  left out.
- `RequestHandlers`: a process ends only by an unhandled rejection of its own handlers. What `saveHall` and `listBookings` do is their caller's:
  any result, any rejection.
- `BookingsStores`: calls come one after the other, as in the tests of the contract. The fake answers live references to its rows, which a caller
  could change; no code in `src/` does. Halls have a capacity and bookings no contact email.

## Plan

The order is by weight: what the service stores first, then what it sends, then what its tests start from.

1. *Done.* `BookingsStore`, `BookingsService`, `BookingDesk`: the capacity rule under concurrency.
2. *Done.* `BookingReminders`, `BookingSystem`: the job, and both on one table.
3. *Done.* `ProductCatalog`, `ReminderQueue`: the two uses of Redis.
4. *Done.* `TestDatabase`, `KitInstaller`: the kit itself.
5. *Done.* `NotesRepository` over `NotesLedger`: `createAll` under locks, deadlocks and lost connections, with the refinement proved.
6. *Done.* `RequestHandlers`, `SplitAmount`: the Express examples and the pure function.
7. *Done.* `BookingsStoreContract`, `BookingsStores`: that the fake earns the trust of the unit tests.
8. Next: the detection of settings for `project.ts` (prefixes that overlap, such as `DB_` and `DB_READ_`) as a pure function; a reset that
   outlives its hook.
9. *Done.* As theorems: that the service implements the desk, that nobody is shown another's booking, that steps of `BookingSystem` are
   steps of its components, that the two stores keep the contract and agree, and `SameAgain`. Every safety property of a run is a theorem now.
