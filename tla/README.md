# TLA+ models of nw-tracker

nw-tracker is a personal net-worth tracker: a Node server over one SQLite file, a React client, and
an ingest service that reads banks, brokers and mail and feeds the server. This directory holds
specifications of the parts of it whose correctness depends on the order in which things happen,
the TLC runs that check them on small instances, and proofs that hold for every instance.

Three subsystems are modelled:

* the **job queue**: the table of long-running jobs, the policy that decides what may start, the
  executor, the ingest runs and the deploy agent. Several processes (server, ingest service, deploy
  agent, a person) act on shared state with leases, timeouts and retries;
* the **global market sync**: the scheduler whose timers decide when stale sources are fetched again,
  through dropped ticks, suspends of the machine, retries and restarts;
* the **caches**: the aggregation cache, the log of changes that trims the series of daily marks,
  and the background warmer, under writes of this process and of others.

The rest is inventoried below.

## 1. Inventory

### The job queue

| component | state | operations | interacts with |
|---|---|---|---|
| policy (`jobQueuePolicy.ts`) | none: a pure decision | `pickNextJobs`, `coalesceQueued` | called by executor, claim endpoint, Queue page |
| jobs table (`jobQueue.ts`, `246_jobs.sql`) | one row per job: status, slot, producer, `not_before`, `stale_after`, heartbeat | enqueue, claim, heartbeat, release, complete, lost, supersede, cancel | unique index: one queued row per dedupe key |
| executor (`jobQueueExecutor.ts`) | the tick in progress (`ticking`, `again`) | `jobQueueTick`: write-offs, then dispatch, **awaiting** the service | table, runs, ingest service |
| claims (`jobClaims.ts`, `routes/jobs.ts`) | none | `enqueueDeploy`, `claimNextJob`, heartbeat, complete | deploy agent over HTTP |
| scheduler (`ingestRunScheduler.ts`, `ingestRunPolicy.ts`) | none: slots are derived from rows | `ingestSchedulerTick`, `startManualIngestRun`, `dispatchIngestJob` | table, runs, last daily message |
| runs (`ingestRuns.ts`, `routes/ingest.ts`) | one row per (kind, slot) | requested, not started, skipped, lost, complete | closes the run's job in the same transaction |
| ingest service (`ingest/src/service/feederServer.ts`) | `current`, `ran` (in memory) | take a run, heartbeat, report with retries | server over HTTP, both ways |
| deploy agent (`scripts/server-deploy.sh`) | the claimed job | enqueue, claim, heartbeat twice, restart, complete or roll back | restarts the server and perhaps the service |

Hard behaviours: the executor's await in the middle of a decision; a request whose answer is lost
though the service took it; a report that comes after the job was given back, written off or
ended; coalescing into a queued row while older requests of that row are still about; a lease
that runs out while its worker lives; crashes between two commits; a restart of the very server
that owns the queue as a job of the queue.

What makes it correct: conflicting jobs never run together and a deploy runs alone; nothing is
dropped (each request runs, is superseded for a stated reason, or is recorded as lost); a run and
its job end together and keep their outcome; nothing waits for ever.

### The global sync

| component | state | operations | interacts with |
|---|---|---|---|
| scheduler (`globalSyncScheduler.ts`, `...Policy.ts`) | `inFlight`, `pollLoopActive`, the poll interval, the wake and retry timers, retries used, the suspended time observed | `schedulerTick`, `reschedule`, `notifyGlobalSyncScheduler`, `observeTimerFire` | awaits the sync; notified by routes, watchlist, demo visitors |
| sync (`globalSyncAll.ts`, `globalSyncSteps.ts`) | the state object it read at its start | one step per stale source, each awaited | publishers over HTTP, the state file, the caches |
| staleness (`globalSyncStale.ts`, `syncSourceSchedule.ts`) | `.sync-state.json` with `userForcedStale` | what is stale, when it falls due | rows of the database, the calendar |

Hard behaviours: a tick that finds a sync in progress is dropped though its timer is spent; a suspend
is seen by whichever timer fires first; a sync holds an old copy of the state file for minutes. What
makes it correct: whatever is or falls stale has a timer or a running tick that will look at it.

### The caches

| component | state | operations | interacts with |
|---|---|---|---|
| aggregation cache (`aggregationCache.ts`, `cacheDependencies.ts`, `dbWriteCounter.ts`) | entries by key prefix, the live inputs each recorded, the day, `data_version` and write count of the last check | lookups, builds in flight, five invalidations, the drops of stream and poll | every builder, every writer, the change log |
| change log (`markInputChanges.ts`, the triggers of migration 211) | `mark_input_changes`, `lastAppliedId` | triggers log, `applyPendingMarkInputChanges`, prune | any connection writes; the series are trimmed |
| mark series (`markSeriesStore.ts`, `accountMarkDailyCache.ts`) | one run of days per account | read, extend, trim | the change log |
| warmer (`dashboardCacheWarmer.ts`, `apiRequestsInFlight.ts`) | `warming`, `rewarmQueued`, three timers, `lastWarmedDataVersion` | `runWarm` as steps between requests | listener of the cache; polls `data_version` |

Hard behaviours: checks skipped within a stretch of synchronous code; another process that commits
between two queries; a transaction that is rolled back after its rows were acted upon; entries
built from entries; a page bundle cached as a promise while its build goes on; a poll that stores prices
long before it publishes them; an invalidation during the rebuild it should cause. What makes it correct:
what is served is what a rebuild would return.

### The other components

| component | state and hard behaviour | what makes it correct |
|---|---|---|
| run messages (`dailyRunLog.ts`) | last message per title; late reports and write-offs out of order | each badged failure is recovered once, repeats of a day badge once |
| live quotes (`liveMarketQuotes*.ts`, `yahooPriceStream.ts`, `liveQuotesFlushPolicy.ts`, `liveQuotesStamp.ts`) | pending and written prices, due times, retry budget, the log of moves clients ask for | a price that stays is written; a move reaches every client |
| backups (`dbBackupScheduler.ts`, `dbSnapshot.ts`) | last day backed up | one snapshot a day, restarts included |
| ingest guards (`runGuard.ts`, `loginLatch.ts`, `crawlCursor.ts`, `documentLedger.ts`) | small files read and written by several processes | the gap between bank runs, no login after a rejection, no row skipped |
| lots (`usdCashLotWalk.ts`, `taxLots.ts`), mirror pairs (`movementMirrorPairs.ts`), card ledgers (`cc*.ts`) | functions of rows | quantity and cost are conserved; a leg is paired once |
| valuation, performance, flows, payroll, tax | real arithmetic over series | left to the unit tests |
| readers (`ingest/src/*`, `ingest/python`), appliers, HTTP, client, contracts, scripts | I/O, formats, display | left to the unit tests |

`PROJECT.json` lists every component with its status, and the hazards of each at their lines.

## 2. Modules

```
JobQueuePolicy            what may start (sets; no state)
  JobQueuePolicyLoop      the loop of pickNextJobs, compared with it on generated queues
    |  JobQueuePolicyLoopProofs
    MCJobQueuePolicy
  JobQueue                table + executor + claim endpoint; workers left open
    |  refines JobLifecycle     the statuses a row may take
    |  JobQueueProofs           theorems about JobQueue and JobQueuePolicy
    MCJobQueue
    IngestQueue           JobQueue with the scheduler, runs, service, agent, messages, faults
       |  refines JobQueue
       |  IngestQueueProofs     theorems that hold under every fault, the refinement first
       |  IngestWorkersProofs   theorems that need deadlines to be kept
       MCIngestQueue

GlobalSync                the scheduler, the sync it runs, the state file
  |  GlobalSyncProofs     theorems
  MCGlobalSync

MarkInputs                the change log and the series of daily marks
  |  MarkInputsProofs     theorems
  MCMarkInputs

AggregationCache          the entries: lookups, invalidations, ticks
  CacheWarmer             AggregationCache with the background rebuild
    |  CacheWarmerProofs  theorems
    MCCacheWarmer
```

**JobQueuePolicy.** `Start(queue, running, t)` is `pickNextJobs(...).start` without its loop: a
job that is due and fresh starts when no live running job and no *earlier* candidate conflicts
with it. The loop's flags disappear in this form: an earlier conflicting candidate stands in the
way whether it starts or not. **JobQueuePolicyLoop** is the loop with its flags (`busy`, `held`,
`exclusive`, `draining`): `PassBegins` lets the live jobs hold their resources, `PassConsiders` is one
turn, and nothing else happens during a pass, as in JavaScript. The queues a pass is given are generated job by
job. `LoopAgrees` says that the two are the same, so only the first is used in the state machines
and their proofs.

**JobQueue.** `jobs` is the table, `now` the clock, `exec` the tick in progress: the job it awaits
and the tick's instant. One action per transaction of the code, except that a tick runs to its
first await in one go, as JavaScript does. Correspondence:

| action | code |
|---|---|
| `ScheduleRun`, `startManualIngestRun`, `retryJob`, `enqueueDeploy` | the producers, through `enqueueJob` and `coalesceQueued` |
| `TickWritesOff`, `TickStarts`, `TickSupersedes` | `jobQueueTick` up to its await |
| `TickBreaks` | the same, when the process stops or something throws right after `claimJob` |
| `DispatchAccepted`, `DispatchRefused` | `dispatchIngestJob` after its await; a release refused by the unique index leaves the row running and ends the tick |
| `claimNextJob`, `heartbeatJob`, `completeJob`, `cancelQueuedJob` | the endpoints, with the guards of their callers |
| `ServerRestart` | the process restarts: `exec` is lost, the table is not |

Workers are open: any running job may get a heartbeat and any job a report at any moment. What
holds of `JobQueue` therefore holds whatever the workers do.

**IngestQueue** adds the workers that exist: `runs` (ingest_runs), `daily` (instant of the last
daily message), `wire`, `answer` and `reports` (messages under way), `service`, `agent`. A dispatch
takes three steps (send, take or refuse, read the answer). What can go wrong is a set of fault
kinds that a run chooses from, with a bound on how many happen; `faults` lists those that did:

| fault | what it stands for |
|---|---|
| `timeout` | the server gives up (`REQUEST_TIMEOUT_MS`, 10 s) on a request that is, or will be, taken |
| `stall` | a process or the machine sleeps, so that time passes over a message or a due heartbeat |
| `server-crash` | during the await, between claim and run row, or between release and run row |
| `service-crash` | the run dies with its report |
| `agent-crash` | SIGKILL, no exit trap |
| `claim-lost` | the server granted the deploy, the agent never learnt it |
| `report-lost` | `reportWithRetry` or `job_complete` gives up |
| `outside-run` | a runner started by hand makes the service answer busy |

Without `stall`, `TimePasses` waits until messages are delivered and live workers have sent their
heartbeats: a request takes at most 10 s and a heartbeat comes every minute against leases of 5
and 20 minutes, while a clock unit stands for a good part of an hour. The agent sends only two
heartbeats; that its build and restart fit in 20 minutes between them is an assumption here.

`NewInstant` assumes that two requests by hand of one kind do not fall in the same millisecond as
each other or as a slot. `ReportArrives` is enabled only for a run that waits for a report; a
report for any other is refused until the service gives up (`ReportDropped`, no fault needed).

Null is zero (`JobQueuePolicy` says why that is faithful). `dedupe_key` is the kind, as it is for
all three producers; priority, resources and lease are functions of the kind, as in `JOB_KINDS`.

**GlobalSync.** Time is what is left: `due[s]` units until source s falls due, and for each timer
the units until it fires, negative when the machine slept past it. `natural` are the sources that fell
due and were not synced since, `forced` the marks of the state file, `sch` the variables of the
scheduler and of the tick in progress. The functions of the scheduler (`reschedule`, `schedulerTick`,
`notifyScheduler`, `scheduleRetryAfterTick`, `ensurePollInterval`) are operators from its variables
to its variables, composed as the code calls them; an action is one callback of the event loop.

| action | code |
|---|---|
| `IntervalFires`, `WakeFires`, `RetryFires` | the three timer callbacks, with `observeTimerFire` |
| `NetworkWaitEnds` | the grace after a wake; what is stale is read again |
| `StepSucceeds`, `StepFails`, `SyncAborts` | one awaited step (`runSyncStepIfStale`); an error outside a step |
| `StepSkipped` | UF, UTM and IPC before day 9 of the month (`globalSyncAll.ts:1364`), forced or not: the source stays stale |
| `SyncEnds`, `SyncThrows` | the state object written over the file, the `finally` of the tick; the run log that cannot be written |
| `ForceStale`, `WatchTicker`, `VisitorArrives` | the notifications |
| `SyncedElsewhere` | `npm run sync:all` and imports store what was missing |
| `TimePasses`, `Suspend`, `ServerRestarts` | the clock; the machine asleep for at least `WakeGap` |

`Period` stands for the calendars of `syncSourceSchedule.ts`: one due time to the next, at least a
suspend apart. A step that succeeds while its publisher has nothing yet leaves its source stale
(`published`). `reschedule` and the tick nested in it each compute what is stale; both computations are
taken to agree, since no await lies between them. Stopping the scheduler is left out (only tests do it).

**MarkInputs.** `log` is every row of `mark_input_changes` not rolled back, its place its id; `pruned`
the ids deleted. `series[a]` are the days stored for an account and `wrong[a]` those whose quantity
is no longer what a build returns: the model keeps no values, only which of them a write has moved.
`Moves(r, a)` is the fact (which days a written row moves), `Trims` and `From` the code's rules about it.
A change of the proxy basket has no date: it moves the days back from the one it is logged on (`Recent`),
and trims as many back from the one it is *applied* on. `reading` is a read between the log and its last
query, the only place where another connection can commit inside a function of this process; `ApplyLog`
can fall inside it, in the first lookup of its queries. `Begin`, `Commit` and `Rollback` are a
transaction of this process that may be taken back, ids included, as SQLite does. `lapsed` are the wrong
days whose row was applied without taking them, for the two reasons section 3 gives.

**AggregationCache.** An entry is the set of <<input, value>> pairs that its build read, those of its
parts included; it is right while every value is current. The tiers are the key prefixes that
invalidations name. `Parts`, `Direct` and `Later` (what a build looks up, what it reads itself, and what
of either it comes to only after its first stretch) are given: the builders are other modules, and
`BuildersAssumption` is what the invalidations count on them for. The check is two actions, `CheckLog` and
`CheckVersion`, since another process can commit between its two queries; `StretchEnds` is the microtask
that ends the skipping.

| action | code |
|---|---|
| `Build` | a lookup that misses, with all it builds on the way |
| `FlightReads`, `FlightFails` | a page bundle is cached as a promise (`dashboardPageBundle.ts:41-88`): its entry and node grow as its build goes on (`left`), a part at a time; a rejection drops the whole prefix |
| `SyncRates` | the expense lines compared with the cards' live rate |
| `AccountWrite`, `ApiWrite` and later `ApiFinishes`, `Report` | writes, with the invalidations each runs before it returns; the rolled-back transaction of the mortgage sheet |
| `SyncWrite` and later `SyncAnnounces` | the global sync stores, and invalidates after a later await (`owed`) |
| `StreamTick` | `writeStreamQuotes`: prices stored and their readers dropped in one stretch |
| `PollWrites`, `PollCloses` and later `PollPublishes` | `syncAllLiveMarketQuotes` stores each price, and the dollar's close, between its awaits (`moved`) and publishes all of them at its end |
| `PollFails`, `WriteFails` | something throws between storing and publishing: nobody will publish that move (`unheard`) |
| `OtherCommit`, `NewDay` | another connection; Chile midnight |

Nodes are linked in the code and copied here. That is the same as long as no build looks up an entry
still in flight, which `BuildersAssumption` states: only the home page's bundle is a promise, and only its
route and the warmer call `buildDashboardPageBundle`. What is in flight itself records reads late, and
that is modelled (`FlightReads`; its mutant drops the link). A build goes on when its entry is dropped:
its later lookups and its rejection stay possible at any time (`Asked` in `Build`, `FlightFails`), its result
reaches only those that await it and may then be a mixture of old and new.

The series are not here: the log is its last id (`head`, `applied`), and MarkInputs says what becomes of
the series. One account; one API write, one sync and one poll at a time; the minute after which live memos
expire is left out, as dropping more is safe.

**CacheWarmer** adds the warmer: `step` is the step of the warm in progress, each a stretch of its own
between requests, `awaits` the bundle that step waits for (`WarmStep` looks it up, `WarmResumes` goes on
when the promise resolves, its entry dropped meanwhile or not), `rewarm` the queued flag, `debounce` and
`midnight` the armed timers, whose delays are left out (an armed timer fires at any later time). `excused`
records what the warmer leaves to requests by design: the drops of stream and poll, answers of API writes,
a build or a step that failed, and another connection's commit during a warm, which the end of the warm
takes as seen (`dashboardCacheWarmer.ts:88`).

## 3. Runs

In the queue runs, clock units are small; leases are 1 to 3 units and stale delays 1 or 2, so that within `MaxTime` 3
or 4 a lease can run out, be renewed, a slot go stale and a newer slot come. A slot of each kind,
requests by hand at any instant, and two or three rows cover a job running, one queued of the same
kind, and a deploy beside them. `RoomToWriteOff` and `RoomToDispatch` keep a step from needing a run
row beyond `MaxRuns`.

| run | configuration | states | shows |
|---|---|---|---|
| `policy_loop` | up to 3 queued, 1 running, 4 kinds (a third resource so that two jobs start in one pass) | 643 482 | loop = definition; compatible; never stuck; one verdict each, with a true reason |
| `job_queue` | 2 rows, time 3, fair | 221 870 | the dedupe key, one executor job, the awaited job, alone, drain, window, lifecycle; an expired lease does not hold for good |
| `ingest_faults` | 2 rows, 2 runs, time 4, two faults of any kind but a server crash | 753 213 | a lost job is on record; slots advance |
| `ingest_live` | 2 rows, 5 runs, time 3, one fault of any kind, fair | 248 196 | IngestQueue implements JobQueue; run and job end together; outcomes stay; a due job is decided |
| `ingest_workers` | 3 rows, 3 runs, time 4, one of service-crash, agent-crash, claim-lost, report-lost | 1 201 390 | a holding ingest job has somebody behind it; no deploy over a run; holders compatible; cancelled is idle; a finished job ran its slot |
| `global_sync` | 2 sources (polled fast; monthly, in the state file only, marked by hand), periods 4, intervals 2 and 3, suspend 2, 2 retries, demo and not, fair | 411 891 | a stale source has a tick to come; a fresh one a timer by its due time; retries belong to a recovery; an observed wake is waited for; stale sources are tried |
| `mark_inputs` | 3 accounts, two of them with a series at a time, 3 days and the midnights between, 4 kinds of row, 2 rows | 542 490 | wrong days are pending; what is read is right; series are runs; trims are no wider than the change |
| `cache_warmer` | 8 entries of 8 tiers, one of them built in two stretches, 2 quotes; two moves among log row, plain row, tick and midnight; one foreign commit | 531 363 | what is served is right; prices are recorded; a warmer at rest is warm |

Each property of a passing run has a mutant in `PROJECT.json`: a change of one definition, of the
kind a slip in the code would be, that makes the property fail in its run. The mutant bodies sit
right before the definitions they change, marked `Mutant:`.

`VIEW View` (in `ingest_faults` and `ingest_workers`, which check safety only) drops the columns of
finished rows that no guard, action or property reads: all but kind, status and slot. Lost rows keep
theirs, since a retry and a late report read them.

Constraints keep the cache runs small; the proofs know none of them. `UntilSkipped` (in `cache_warmer`; in
`TwoHeld` of `mark_inputs`) ends a behaviour after a log row came under an id that counts as applied, since
the properties about what is right set that aside. `TwoMoves` lets any two inputs move, each at most once.
`TwoHeld` also keeps the series to two of the three accounts at a time.

`CHECK_DEADLOCK FALSE` in the IngestQueue, mark and cache runs: with the clock, the tables and the
writes at their bounds and everything ended, the bounded system has nothing left to do.

`global_sync` needs no bound on time (it is relative) nor on the number of syncs, suspends or
restarts: its state space is finite as it is. The due times differ (1 and 3 at the start) so that one
source falls due while the other is synced, and the suspend is as long as the fast poll. Only the monthly
source is marked by hand in it; a mark of the fast one is in `forced_mark_is_lost`, and in the proofs.
`mark_inputs` has one row of each reach: of one account that drags another along (the two depto
accounts), of every account and reaching a day back, a rate that leaves the shares alone, and a change of
the basket on a day after which one more can pass; two rows are enough for one to be applied, pruned or
rolled back and the other not. `cache_warmer` has one key per tier that is treated differently, nested three
deep (page, table, memo), the page looking the table up in a second stretch; one write of each kind
suffices, since a write drops what every earlier one outdated, and one tick lies before, inside or after
each stretch of the page.

### Where the code departs from what it says

Four runs are expected to end in a violation. Each checks one property taken from a comment or a
document; the traces are 4 to 9 states long. The first two hold in a passing run without the fault that breaks them.

| run | trace in short | statement it contradicts |
|---|---|---|
| `timeout_leaves_job_running` | dispatch hourly; request hourly again (a new row); the request times out; `releaseJob` hits the unique index and throws; the job stays running with no worker | "gets it back in the queue" (`ingestRunScheduler.ts:262`) |
| `crash_leaves_no_record` | `claimJob` commits, the server stops before the run row; lease out; lost, no run, no message | "never silently dropped" (`job-queue-plan.md:37`), "a restart loses nothing" (`:116`) |
| `forced_mark_is_lost` | a sync starts and reads the state file; a user marks a source stale; the tick is dropped; the sync writes its old object over the mark | "until the next successful sync for that source" (`globalSyncStale.ts:153`) |
| `rolled_back_rows` | a report transaction writes a row and applies it; rollback; the next committed row takes the same id, counts as applied, and the days it moved are served | "in whichever connection wrote it ... Before serving cached marks, the pending rows are applied" (`markInputChanges.ts:14-17`) |

`WrongIsPending`, `ServedIsRight` and `ServesRight` set the last one aside through `skipped`, which says
that a row was logged under an id already counted as applied.

What else the properties set aside, the first and the third against a comment of the code:

* *A basket change applied on a later day* (`OutOfReach`, `lapsed`). `markInputChanges.ts:66-67` says the
  basket re-values "30 days before the change"; line 172 trims 30 days before the day the row is applied.
  When a day passes between the two, the oldest day moved stays stored and served with nothing pending.
* *A trim during a read* (`lapsed`). `cachedSeriesCovering` holds the stored days, runs queries that can
  look things up in the caches and so apply the log, and then stores what it held
  (`accountMarkDailyCache.ts:262-287`): a row another process committed meanwhile counts as applied and its
  trim is undone. The same happens when the read finds the day changed.
* *A price stored and not published* (`moved`, `unheard`). A poll stores prices between its awaits and drops
  their readers at its end (`liveMarketQuotesSync.ts:363-388`): until then a hit serves the old price. When
  something throws in between, the next poll finds the price as stored and takes it for no move, so the
  entry stays until its price moves again or something else drops it, against "A write moved a price: publish
  the change ... and drop the aggregates that read it" (`:260-261`). A published close, a new day or another
  connection's commit ends it; the models follow which (`unheard'`).
* *The rows of a sync, or of a day's close, not announced yet*, in the months and what is built on them
  (`Behind`); *the rows of an API write not answered yet*; a commit of another connection after the check
  of the stretch.

Of an entry only the inputs named are set aside (and the rate of the expense lines, compared whenever they
are asked for): during a poll its rows, its day and every price that did not move must still be right.

One disagreement in the queue is settled by reading too: `coalesceQueued` (`jobQueuePolicy.ts:169`) takes
`stale_after` and the producer from the newer request, so an hourly slot absorbed by a manual run
that waits makes that run go stale, against "a nightly and a manual run wait however long it takes"
(`ingestRunScheduler.ts:178`). `Coalesced` in JobQueue does as the code does.

The two timeouts share a root with other failures: a job without an answer returns to the plain
queued state, where it looks like a job nobody works on. Adding `timeout` to the faults of
`ingest_workers` breaks `CancelledIsIdle` (released, taken late, cancelled by hand, and the report
is then refused) and `EndedJobRanItsSlot` (released, taken late, the row absorbs a newer request,
the report of the old slot ends it and the newer request never runs). Adding `stall` breaks
`HoldersAreCompatible`: a job whose lease ran out counts as free before a tick writes it off, a
deploy is granted beside it, and the next heartbeat revives it. `outside-run` breaks
`RunningJobIsInHands` like a timeout: the busy answer cannot put the job back either when a newer
one is queued.

## 4. Fairness

`JobQueue!Fairness`: ticks of the executor (a 30 s interval, and every change of the queue) and the end of its
await (`AbortSignal.timeout`). Nothing is assumed of workers or of the clock.

`IngestFairness`: weak fairness of the executor's ticks, of the answer or its timeout, of the
service reading a request, of a run ending, of a report arriving or being given up
(`reportWithRetry` stops after about 15 minutes), of the agent asking for its claim (every 3
minutes) and of its completing. Heartbeats, producers, crashes and cancellations are not fair. The clock is fair
only while a running job has no worker: a queue that needed time to pass in order to move on
otherwise would fail `DueJobIsDecided`. At the bound of the clock the lease of a dead worker
cannot run out any more, so the property excuses exactly that (`WaitsForLease`).

`GlobalSync!FairSpec`: weak fairness of the timers that are due, of the sync's work and of the
clock. The event loop runs what is due; each request of a step ends, by its own `AbortSignal` or by the
default deadline of `fetch`, so a step ends. Nothing is assumed of visitors, notifications,
suspends or success: `StaleIsTried` says that a sync starts, not that it succeeds.

The mark and cache runs check safety only.

## 5. Proofs

Every safety invariant and every action property of the passing runs is proved, and both refinements.
Each proof module but one states its inductive invariant first; `JobQueueProofs` begins with the facts
about `Start`.

### The job queue

`JobQueuePolicyLoopProofs` proves, for any kinds, resources, priorities, leases and queue: `LoopIsStart`
(the loop of `pickNextJobs` starts exactly `Start`), `LoopIsCompatible`, `LoopIsNeverStuck` and
`LoopExplains`. None is inductive: the flags say less than the set definition, which looks at every
earlier candidate. The invariant ties them (`CandidatesHold`): a due job the loop has come to holds its
resource or stands behind its holder, or an exclusive job drains the queue. That is why looking at `held`
alone is enough for the next one. Assumptions: `PolicyAssumption`, `LoopAssumption` (types).

`JobQueueProofs` proves, for any kinds, resources, priorities, leases, number of rows and clock:

| theorem | statement |
|---|---|
| `StartIsCompatible` | what one pass starts can run together and beside every live running job |
| `TypeCorrect` | `Spec => []TypeOK` |
| `QueueInvariant` | the inductive invariant below |
| `OneQueued`, `OneExecutorJob`, `AwaitedIsOut` | the three safety invariants of `job_queue` |
| `StartsAreAlone`, `DrainHolds`, `StartsAreTimely` | its three action properties |
| `LifecycleKept` | `JobQueue` implements `JobLifecycle` |

Assumptions: `PolicyAssumption` (each constant has its type, leases are positive), `QueueAssumption`, and
`ExecutorAssumption` (the executor's kinds share one resource that is not the exclusive one, as both
ingest kinds do); TLC evaluates all three in every run.

The invariant is `TypeOK` with the three safety invariants. They lean on each other. That an executor job
is alone needs the policy's rule *and* that the tick writes expired jobs off in the same step that
claims, since the policy lets a job start beside an expired one. That a given-back job is the only queued
one of its kind is the index guard; nothing else ensures it, which is why the finding
`timeout_leaves_job_running` exists. The awaited job stays out because a single tick is in progress at a
time and no other action turns a running executor job back. The action properties need no invariant
beyond the types: each start is one of three actions, two guarded by `MayStart`, and for these the
properties are facts about `Start`. The exception is a late tick: `TickBreaks` and `TickStarts` also
write other rows off, and the proof shows that no row starts by that.

`IngestQueueProofs` proves, for any number of rows, runs and faults of any kinds:

| theorem | statement |
|---|---|
| `IngestInvariant`, `IngestTypeCorrect` | the inductive invariant; types, run ids in messages and in the service's memory included |
| `IngestImplementsQueue` | `IngestSpec => ImplementsJobQueue`: each step of the scheduler, the service, the agent and every fault is a step of `JobQueue` or leaves its variables alone |
| `IngestStartsAlone`, `IngestKeepsPromises` | so all that is proved of `JobQueue` carries over to the real workers |
| `ReportEndsJob` | a run that is over has no job that waits, runs or counts as lost |
| `OutcomesStay`, `SlotsOnlyAdvance` | the two action properties |
| `LostJobsAreRecorded` | unless `server-crash` is among the faults, a lost ingest job has a run that tells |

The invariant is about slots: a kind's slots are dealt out upwards, so a slot belongs to one job
(`SlotsAreDistinct`) and to one run (`OneRunPerSlot`), the run of that job (`SlotIsOfItsJob`); coalescing
only moves a job to a later slot (`RunFollowsJob`); and a reported run has its job over
(`ReportedIsOver`). `ReportedRunEndsItsJob` is not inductive without the rest: the executor writes the
run of a job's slot, and only the pairing says that this is not a run that ended already, for another
job. The refinement needs the pairing too, since an answer and a report name a run, and the row that
`JobQueue` has moved is the job of that run. `LostJobsAreRecorded` adds that a running or lost ingest job
has a run of its slot (`RecordInv`); its hypothesis is that of its run, and `crash_leaves_no_record`
shows what happens without it. Assumptions, besides those above: `IngestAssumption` (types, two ingest
kinds) and `ClaimAssumption` (a job another process claims holds the exclusive resource, as
`server-deploy` does).

`IngestWorkersProofs` proves, under the hypothesis `Faults \subseteq WorkerFaults` (that of
`ingest_workers`: the service or the agent may die, a claim or a report may be lost, deadlines are kept
and the server lives): `HoldersCompatible`, `RunningIsInHands`, `EndedRanItsSlot`, `DeployIsAlone` and
`CancelledAreIdle`. The argument follows a run from hand to hand: a request on the wire, the run in
progress and a report being delivered each stand for a job that still holds the ingest service
(`RequestIsAwaited`, `InProgressIsOut`, `ReportIsOut`). Two such jobs would conflict, so there is one at
a time, and none while a deploy is held (`AgentHolds`). That in turn needs what the executor may conclude
from a silence: a request without an answer was not read, or the service died (`UnansweredIsUnread`), and
one accepted was taken (`AcceptedWasTaken`). Section 3 says which of the properties fall with which other
faults.

### The global sync and the caches

`GlobalSyncProofs` proves, for any sources, periods, poll intervals, retry delays and suspend length:
`TypeCorrect`, `StaleIsAlwaysPolled`, `DueIsAlwaysOnTime`, `RetryAlwaysRecovers` and
`WakeIsAlwaysWaitedFor`, that is every safety property of `global_sync`. Assumption:
`GlobalSyncAssumption` (types; the fast poll is no longer than the slow one; a period is no shorter than
a suspend), whichever sources are monthly and markable. `StaleIsPolled` is not inductive: whether a
stale source has a tick to come depends on which sources the wake timer was armed without. The invariant
adds that: `Armed` (an interval belongs to the poll loop and is never longer than its period, a retry to
a recovery) and `Watching` (an idle scheduler of an awake server polls, or has a timer for every source
that is not in `skip`, by the time it falls due). One lemma per function of the scheduler says that it
leaves `Ready` behind, and the steps follow.

`MarkInputsProofs` proves, for any accounts, rows, days and reaches: `MarkInvariant`, `TypeCorrect`,
`WrongAlwaysPending`, `ServedIsAlwaysRight`, `SeriesStaysARun` and `RightIsAlwaysKept`, that is every
property of `mark_inputs`. Assumption: `MarkInputsAssumption` (types; the depto accounts depend on
rates). `WrongIsPending` is not inductive: a rollback puts back the wrong days its transaction began
with, and a read stores days it built before a commit. `IInv` says that those days wait to be trimmed
too, within the rows the log will have then, or have lapsed (a read carries along, in `spent`, which of the
days moved meanwhile had their rows applied); with it go the bounds of `pruned` and `tx` and that a stored
series and the part being built form one run. The lemma `TrimsWhatMoves` is the heart: the rules of the
consumer reach every day that the facts in `Moves` reach, but for the basket's days older than `Recent` when
the row is applied. A day waits by being moved by an unapplied row (`Waiting`), which midnight cannot change,
and not by being in the reach of its trim, which midnight can.

`CacheWarmerProofs` proves, for any keys, parts, inputs, prices, warm list and bounds: `CacheInvariant`,
`WarmerTypeCorrect`, `NodesTellPrices`, `LookupsServeRight` and `WarmerRestsWarm`, that is every property
of `cache_warmer`. Assumptions: `CacheAssumption` and `WarmerAssumption` (types; a flows payload that is
warmed looks up every key of expense lines) and `BuildersAssumption`, which is what the
invalidations take for granted of the builders: no build asks for itself; the history tier reads no
price; what reads a price, or a row no funnel covers, or is built on such an entry, is of a tier that is
dropped with it; only page bundles are built over several stretches, and no build looks one up. TLC
evaluates it for the instance of the run; a new builder that breaks it breaks the cache.

`ServesRight` is not inductive: whether an entry will be dropped in time depends on how it came to be
wrong. The invariant has a part for each kind of input, because another mechanism watches each. A day in
an entry is the cache's day (`OfItsDay`). Rows no funnel covers are current, or `data_version` moved, or
an answer is to be sent (`PlainIsDropped`). Logged rows are current, or the log was not read since, or
the version moved, or a sync or a poll is going to say so (`RowsAreKnown`). Prices are current or stored
and not published (`AtPrice`), but in the expense lines, which are compared when they are asked for
(`PricesAreCurrent`); the node of an entry names its prices (`PricesInNodes`). `WarmSoFar` follows a warm
step by step, the entry it awaits included (`Begun`), and asks nothing of contents while a price is
unpublished: what ends that drops the reader and is excused.

Most steps do one of two things to the entries, whatever the action: they keep some as they were (`Kept`), or
also fill missing ones with what their builds read now (`Filled`); `FlightReads` alone changes one that is
held (`Grown`). The parts of the invariant are proved of these three, and `StepIsFilled` says that there are
no other steps. `Content`, `Node` and `Missing` are recursive functions over the parts of an entry; the
library's induction cannot be used, so the module first proves that they exist, as least fixed points
(`Fixpoint`), and does induction by taking a first key of a set of counterexamples (`NoFirst`), which acyclic
parts have.

### Only model-checked

Liveness, which the prover has no rules for under fairness: `SilentJobIsWrittenOff`, `DueJobIsDecided`
and `StaleIsTried`; and the four expected violations.

## 6. Not modelled

* Of the queue: what a request asks the service to read (`runRequestExtras`), dry-run reports (they
  record no daily message), the sweep of runs from before the queue (`sweepLostIngestRuns`: no such run is
  made any more), notification texts and the "unreachable" badge; the deploy that finds the server not
  listening, which bypasses the queue by design; the git and build steps; a slot's arithmetic in Chilean
  time; `attempt` and `max_attempts`, which nothing reads.
* Of the sync: what each fetcher reads and stores, the calendars, the `sync:all` process's own write of
  the state file (the hazard of `forced_mark_is_lost` again, between processes), and what happens
  when reading the state throws inside the wake timer.
* Of the caches: the values, the builders, the memory bounds of the series store, the visited pages a
  warm ends with; the result of a bundle whose entry was dropped while it was built, which those that await
  it get though it may mix old and new. Not covered by a property: a commit of another process during a warm
  (excused above).
* Live quotes: what the poll and the stream fetch, the flush policy and the stamp log. What they do to the
  cache is modelled (section 2). Reading them showed one order no test covers: moves of a poll are logged at
  the instant the poll *started*, so a client that saw the stamp of a stream write published during it
  asks for what is later and misses them (`liveQuotesStamp.ts:62`).
* Run messages, backups, ingest guards: small state read and written by one function each.
* Lots, mirror pairs, card ledgers, valuation, flows, payroll, tax: arithmetic and SQL over rows, which
  unit tests reach better than bounded models. Readers, appliers, HTTP, client, contracts and scripts:
  I/O, formats and display.

## 7. Plan

1. Weaken the hypothesis of `IngestWorkersProofs` property by property: `DeployFindsServiceIdle`, for one, may
   stand more faults than `HoldersAreCompatible`.
2. Models that would take the place of narrower runs: live quotes (stamp log, stream against poll) and
   run messages.
