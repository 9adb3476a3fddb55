----------------------------- MODULE GlobalSync -----------------------------
(***************************************************************************)
(* The scheduler of the market syncs (globalSyncScheduler.ts and its       *)
(* policy), the sync it runs (runGlobalSyncAll, runSyncStepIfStale) and    *)
(* the state file the two share with the HTTP handlers.                    *)
(*                                                                         *)
(* Three timers drive it: the poll interval while a source is stale, one   *)
(* wake timer for the next source to fall due, and a retry after a failed  *)
(* sync that followed a suspend of the machine.  All three lead to         *)
(* schedulerTick, which drops a tick while a sync is in progress; a sync   *)
(* awaits each of its steps, so anything may happen between two of them.   *)
(*                                                                         *)
(* Time is what is left: of each source until it falls due again, and of   *)
(* each timer until it fires, negative when the machine slept past it.     *)
(***************************************************************************)
EXTENDS Integers, Sequences

CONSTANTS
    StepOrder,    \* the enabled sync sources, as runGlobalSyncAll runs them
    FastSources,  \* stocks_nyse, stocks_santiago: polled faster while due
    StateSources, \* those whose freshness is recorded in the state file only
    Rechecked,    \* those whose mark survives a success that left them stale
    Monthly,      \* UF, UTM and IPC: not fetched before the ninth of the month
    Period,       \* Period[s]: units from one due time of s to the next
    FirstDue,     \* FirstDue[s]: units until the first one
    Markable,     \* bound: the sources a user marks stale
    Poll,         \* GLOBAL_SYNC_INTERVAL_MS
    FastPoll,     \* GLOBAL_SYNC_NYSE_STALE_INTERVAL_MS
    WakeGap,      \* GLOBAL_SYNC_WAKE_GAP_MS, the length of a suspend
    RetryDelays,  \* GLOBAL_SYNC_RETRY_DELAYS_MS
    Off           \* a timer that is not armed

Sources == {StepOrder[i] : i \in DOMAIN StepOrder}

ASSUME GlobalSyncAssumption ==
    /\ StepOrder \in Seq(Sources)
    /\ FastSources \subseteq Sources /\ StateSources \subseteq Sources
    /\ Rechecked \subseteq Sources /\ Monthly \subseteq Sources
    /\ Markable \subseteq Sources
    /\ Poll \in Nat \ {0} /\ FastPoll \in 1..Poll /\ WakeGap \in Nat \ {0}
    /\ Period \in [Sources -> Nat] /\ FirstDue \in [Sources -> Nat \ {0}]
    /\ \A s \in Sources : Period[s] >= WakeGap
    /\ RetryDelays \in Seq(Nat \ {0})
    /\ Off \notin Int

VARIABLES
    demo,     \* the hosted demo: it syncs only while it is browsed
    due,      \* due[s]: units until s falls due again
    natural,  \* sources that fell due and were not synced since
    forced,   \* userForcedStale of the state file
    awake,    \* demoMarketAwake()
    sch       \* the module variables of the scheduler, and its tick

vars == <<demo, due, natural, forced, awake, sch>>

Stale == natural \cup forced

Scheduler ==
    [active : BOOLEAN,                   \* pollLoopActive
     interval : Int \cup {Off},          \* pollIntervalHandle
     every : {Poll, FastPoll, Off},      \* activePollIntervalMs
     wake : Int \cup {Off},              \* wakeTimerHandle
     skip : SUBSET Sources,              \* stale when the wake was chosen
     retry : Int \cup {Off},             \* retryTimerHandle
     spent : 0..Len(RetryDelays),        \* retriesUsed
     observed : BOOLEAN,                 \* observedSuspendedMs >= wakeGapMs
     unseen : BOOLEAN,                   \* a suspend since the last activity
     phase : {"idle", "waiting", "running"},  \* inFlight: not "idle"
     resumed : BOOLEAN,                  \* tickPlan.resumed
     list : SUBSET Sources,              \* staleAtStart of the sync
     todo : SUBSET Sources,              \* its steps to come
     failed : SUBSET Sources,            \* stepErrors
     marks : SUBSET Sources,             \* userForcedStale of its state object
     behind : SUBSET StateSources]       \* stale by its state object

Started ==
    [active |-> FALSE, interval |-> Off, every |-> Off, wake |-> Off,
     skip |-> {}, retry |-> Off, spent |-> 0, observed |-> FALSE,
     unseen |-> FALSE, phase |-> "idle", resumed |-> FALSE, list |-> {},
     todo |-> {}, failed |-> {}, marks |-> {}, behind |-> {}]

-----------------------------------------------------------------------------
(* What the clock says. *)

\* The next due time of the sources of S.
earliestNextWake(S) ==
    IF S = {} THEN Off
    ELSE CHOOSE d \in {due[s] : s \in S} : \A s \in S : d <= due[s]

\* The sources that fall due in the next n units.
FallDue(n) == {s \in Sources : due[s] <= n}

Left(timer, n) ==
    IF timer = Off THEN Off
    ELSE IF timer - n < 0 - WakeGap THEN 0 - WakeGap ELSE timer - n

Fires(timer) == timer # Off /\ timer <= 0

\* Any armed timer due now keeps time from passing.
NothingFires == \A t \in {sch.interval, sch.wake, sch.retry} : ~Fires(t)

-----------------------------------------------------------------------------
(* The scheduler's functions: from its variables s, with nat and mk the    *)
(* sources naturally stale and marked stale, to its variables after.       *)

pollInterval(nat) == IF nat \cap FastSources # {} THEN FastPoll ELSE Poll

\* Mutant: the state object is taken to say which prices are missing.
StartSyncAllBehind(s, nat, mk) ==
    [s EXCEPT !.phase = "running", !.list = nat \cup mk, !.todo = nat \cup mk,
              !.failed = {}, !.marks = mk, !.behind = nat]

\* runGlobalSyncAll up to its first await: the state file is read once.
StartSync(s, nat, mk) ==
    [s EXCEPT !.phase = "running", !.list = nat \cup mk, !.todo = nat \cup mk,
              !.failed = {}, !.marks = mk, !.behind = nat \cap StateSources]

\* Mutant: the wake is taken off the record before the tick is dropped.
TakeTickForgetful(s, nat, mk, up) ==
    LET t == [s EXCEPT !.observed = FALSE, !.resumed = s.observed]
    IN  IF s.phase # "idle" \/ ~up THEN [t EXCEPT !.resumed = s.resumed]
        ELSE IF s.observed THEN [t EXCEPT !.phase = "waiting", !.unseen = FALSE]
        ELSE StartSync([t EXCEPT !.unseen = FALSE], nat, mk)

\* schedulerTick up to its first await, when something is stale.
TakeTick(s, nat, mk, up) ==
    IF s.phase # "idle" \/ ~up THEN s
    ELSE LET t == [s EXCEPT !.observed = FALSE, !.unseen = FALSE,
                            !.resumed = s.observed]
         IN  IF s.observed THEN [t EXCEPT !.phase = "waiting"]
             ELSE StartSync(t, nat, mk)

\* Mutant: no wake while polling.
noFreshSourceWake(S, every) == Off

\* The wake timer while polling: only for a due time before the next poll.
freshSourceWake(S, every) ==
    LET next == earliestNextWake(S)
    IN  IF next # Off /\ next < every THEN next ELSE Off

\* Mutant: the interval is left as it is.
keepPollInterval(s, every) == s

ensurePollInterval(s, every) ==
    IF s.interval # Off /\ s.every = every THEN s
    ELSE [s EXCEPT !.interval = every, !.every = every]

reschedule(s, nat, mk, up) ==
    LET stale == nat \cup mk
        every == pollInterval(nat)
        polling == IF s.active THEN ensurePollInterval(s, every)
                   ELSE TakeTick([s EXCEPT !.active = TRUE], nat, mk, up)
    IN  IF stale # {}
        THEN [polling EXCEPT !.unseen = FALSE, !.skip = stale,
                             !.wake = freshSourceWake(Sources \ stale, every)]
        ELSE [s EXCEPT !.active = FALSE, !.interval = Off, !.every = Off,
                       !.unseen = FALSE, !.skip = {},
                       !.wake = earliestNextWake(Sources)]

\* Mutant: a success leaves the pending retry.
scheduleRetryKeeps(s, resumed, ok) ==
    IF ok THEN [s EXCEPT !.spent = 0]
    ELSE IF (resumed \/ s.spent > 0) /\ s.spent < Len(RetryDelays)
    THEN [s EXCEPT !.retry = RetryDelays[s.spent + 1], !.spent = s.spent + 1]
    ELSE s

\* planAfterGlobalSync and the timer it asks for.
scheduleRetryAfterTick(s, resumed, ok) ==
    IF ok THEN [s EXCEPT !.retry = Off, !.spent = 0]
    ELSE IF (resumed \/ s.spent > 0) /\ s.spent < Len(RetryDelays)
    THEN [s EXCEPT !.retry = RetryDelays[s.spent + 1], !.spent = s.spent + 1]
    ELSE s

\* The finally block of schedulerTick.
FinishTick(s, ok, nat, mk, up) ==
    LET idle == [s EXCEPT !.phase = "idle", !.resumed = FALSE, !.list = {},
                          !.todo = {}, !.failed = {}, !.marks = {},
                          !.behind = {}]
    IN  reschedule(scheduleRetryAfterTick(idle, s.resumed, ok), nat, mk, up)

schedulerTick(s, nat, mk, up) ==
    IF s.phase = "idle" /\ up /\ ~s.observed /\ nat \cup mk = {}
    THEN FinishTick(s, TRUE, nat, mk, up)
    ELSE TakeTick(s, nat, mk, up)

notifyScheduler(s, nat, mk, up) ==
    IF s.active THEN schedulerTick(s, nat, mk, up)
    ELSE reschedule(s, nat, mk, up)

\* observeTimerFire: a late timer, or clocks that diverged.
observe(s, timer) ==
    [s EXCEPT !.observed = s.observed \/ s.unseen \/ timer <= 0 - WakeGap]

-----------------------------------------------------------------------------
(* What fires. *)

Init ==
    /\ demo \in BOOLEAN /\ due = FirstDue /\ natural \in SUBSET Sources
    /\ forced = {} /\ awake = ~demo
    /\ sch = reschedule(Started, natural, forced, awake)

IntervalFires ==
    /\ Fires(sch.interval)
    /\ LET s == [observe(sch, sch.interval) EXCEPT !.interval = sch.every]
       IN  sch' = schedulerTick(s, natural, forced, awake)
    /\ UNCHANGED <<demo, due, natural, forced, awake>>

\* The wake timer of an idle scheduler re-evaluates, that of a polling one
\* ticks: every reschedule that changes "active" replaces the timer.
WakeFires ==
    /\ Fires(sch.wake)
    /\ LET s == [observe(sch, sch.wake) EXCEPT !.wake = Off]
       IN  sch' = notifyScheduler(s, natural, forced, awake)
    /\ UNCHANGED <<demo, due, natural, forced, awake>>

RetryFires ==
    /\ Fires(sch.retry)
    /\ LET s == [observe(sch, sch.retry) EXCEPT !.retry = Off]
       IN  sch' = schedulerTick(s, natural, forced, awake)
    /\ UNCHANGED <<demo, due, natural, forced, awake>>

\* The 10 s grace after a wake are over.
NetworkWaitEnds ==
    /\ sch.phase = "waiting"
    /\ sch' = IF Stale = {}
              THEN FinishTick(sch, TRUE, natural, forced, awake)
              ELSE StartSync(sch, natural, forced)
    /\ UNCHANGED <<demo, due, natural, forced, awake>>

-----------------------------------------------------------------------------
(* The sync in progress. *)

\* The steps of the stale sources run one after another.
NextStep(s) ==
    /\ sch.phase = "running" /\ s \in sch.todo
    /\ \E i \in DOMAIN StepOrder :
        StepOrder[i] = s /\ \A j \in 1..i - 1 : StepOrder[j] \notin sch.todo

\* runSyncStepIfStale: the step of s succeeds; its publisher may not have
\* what is due yet, and s stays stale.
StepSucceeds(s, published) ==
    /\ NextStep(s)
    /\ LET still == ~published /\ s \in natural
       IN  /\ natural' = IF still \/ s \in StateSources THEN natural
                         ELSE natural \ {s}
           /\ sch' = [sch EXCEPT
                !.todo = sch.todo \ {s},
                !.marks = IF still /\ s \in Rechecked THEN sch.marks
                          ELSE sch.marks \ {s},
                !.behind = IF still THEN sch.behind ELSE sch.behind \ {s}]
    /\ UNCHANGED <<demo, due, forced, awake>>

StepFails(s) ==
    /\ NextStep(s)
    /\ sch' = [sch EXCEPT !.todo = sch.todo \ {s},
                          !.failed = sch.failed \cup {s}]
    /\ UNCHANGED <<demo, due, natural, forced, awake>>

\* Before the ninth, the steps of the monthly series are passed over; only a
\* mark, which stays, puts one of them on the list then.
StepSkipped(s) ==
    /\ NextStep(s) /\ s \in Monthly \cap sch.marks
    /\ sch' = [sch EXCEPT !.todo = sch.todo \ {s}]
    /\ UNCHANGED <<demo, due, natural, forced, awake>>

\* An error outside a step ends the run: "sync:all - fatal".
SyncAborts ==
    /\ sch.phase = "running" /\ sch.todo # {}
    /\ sch' = [sch EXCEPT !.todo = {}, !.failed = sch.failed \cup sch.todo]
    /\ UNCHANGED <<demo, due, natural, forced, awake>>

\* The state object read at the start is written over the file.
SyncEnds ==
    /\ sch.phase = "running" /\ sch.todo = {}
    /\ natural' = (natural \ StateSources) \cup sch.behind
    /\ forced' = sch.marks
    /\ sch' = FinishTick(sch, sch.failed = {}, natural', forced', awake)
    /\ UNCHANGED <<demo, due, awake>>

\* The log of the run cannot be written: runGlobalSyncAll throws, unsaved.
SyncThrows ==
    /\ sch.phase = "running" /\ sch.todo = {}
    /\ sch' = FinishTick(sch, FALSE, natural, forced, awake)
    /\ UNCHANGED <<demo, due, natural, forced, awake>>

-----------------------------------------------------------------------------
(* What happens around the scheduler. *)

\* POST /api/sync/force-stale, while a sync may await a step.
ForceStale(s) ==
    /\ s \in Markable
    /\ forced' = forced \cup {s}
    /\ sch' = notifyScheduler(sch, natural, forced', awake)
    /\ UNCHANGED <<demo, due, natural, awake>>

\* A ticker without prices joins the watchlist: its exchange is stale.
WatchTicker(s) ==
    /\ s \in FastSources
    /\ natural' = natural \cup {s}
    /\ sch' = notifyScheduler(sch, natural', forced, awake)
    /\ UNCHANGED <<demo, due, forced, awake>>

\* Another process (npm run sync:all, an import) stores what s was missing.
SyncedElsewhere(s) ==
    /\ s \in natural \ StateSources
    /\ natural' = natural \ {s}
    /\ UNCHANGED <<demo, due, forced, awake, sch>>

\* Mutant: the scheduler does not listen.
VisitorUnheard ==
    /\ demo /\ ~awake
    /\ awake' = TRUE
    /\ UNCHANGED <<demo, due, natural, forced, sch>>

VisitorArrives ==
    /\ demo /\ ~awake
    /\ awake' = TRUE
    /\ sch' = notifyScheduler(sch, natural, forced, TRUE)
    /\ UNCHANGED <<demo, due, natural, forced>>

VisitorsLeave ==
    /\ demo /\ awake
    /\ awake' = FALSE
    /\ UNCHANGED <<demo, due, natural, forced, sch>>

ServerRestarts ==
    /\ awake' = ~demo
    /\ sch' = reschedule(Started, natural, forced, ~demo)
    /\ UNCHANGED <<demo, due, natural, forced>>

\* n units pass, awake or suspended; the timers move with the wall clock.
Passes(n, suspended) ==
    /\ due' = [s \in Sources |-> IF s \in FallDue(n) THEN due[s] - n + Period[s]
                                  ELSE due[s] - n]
    /\ natural' = natural \cup FallDue(n)
    /\ sch' = [sch EXCEPT
         !.interval = Left(sch.interval, n), !.wake = Left(sch.wake, n),
         !.retry = Left(sch.retry, n),
         !.unseen = sch.unseen \/ suspended,
         !.behind = IF sch.phase = "running"
                    THEN sch.behind \cup (FallDue(n) \cap StateSources)
                    ELSE {}]
    /\ UNCHANGED <<demo, forced, awake>>

TimePasses ==
    /\ NothingFires /\ sch.phase # "waiting"
    /\ Passes(1, FALSE)

\* The machine sleeps (the demo's host does not).  Suspends the process did
\* nothing between are one suspend.
Suspend == ~demo /\ ~sch.unseen /\ Passes(WakeGap, TRUE)

Timers == IntervalFires \/ WakeFires \/ RetryFires \/ NetworkWaitEnds
Steps == \E s \in Sources :
            \/ StepFails(s) \/ StepSkipped(s)
            \/ \E published \in BOOLEAN : StepSucceeds(s, published)
SyncWork == Steps \/ SyncAborts \/ SyncEnds \/ SyncThrows
Around == \E s \in Sources : ForceStale(s) \/ WatchTicker(s) \/ SyncedElsewhere(s)

Next ==
    \/ Timers \/ SyncWork \/ Around
    \/ VisitorArrives \/ VisitorsLeave \/ ServerRestarts
    \/ TimePasses \/ Suspend

Spec == Init /\ [][Next]_vars

\* The event loop runs what is due, and a step ends: each of its requests
\* has a deadline, its own or the default one of fetch.
FairSpec ==
    /\ Spec
    /\ WF_vars(Timers) /\ WF_vars(SyncWork) /\ WF_vars(TimePasses)

-----------------------------------------------------------------------------
(* Properties. *)

TypeOK ==
    /\ due \in [Sources -> Nat \ {0}] /\ demo \in BOOLEAN /\ awake \in BOOLEAN
    /\ natural \subseteq Sources /\ forced \subseteq Sources
    /\ sch \in Scheduler

\* A stale source of an awake server is never left without a tick to come:
\* one is in progress, the poll interval runs, or the wake timer is due now.
\* (A tick dropped because a sync was in progress, or because the demo slept,
\* had already used up its timer.)
StaleIsPolled ==
    Stale # {} /\ awake /\ sch.phase = "idle" =>
        \/ sch.active /\ sch.interval # Off
        \/ Fires(sch.wake)

\* A fresh source is looked at when it falls due, not at the poll after: a
\* timer fires by then.  (skip: what was stale when the timer was chosen.)
DueIsOnTime ==
    awake /\ sch.phase = "idle" =>
        \A s \in Sources \ (Stale \cup sch.skip) :
            \E t \in {sch.wake, sch.interval} : t # Off /\ t <= due[s]

\* A retry is pending only within the recovery from a wake that has not
\* succeeded yet.
RetryOnlyRecovers == sch.retry # Off => sch.spent > 0

\* A wake that a timer saw is forgotten only by waiting for the network: the
\* tick it meets may be dropped, and the next one has to wait instead.
WakeIsWaitedFor ==
    [][sch.observed /\ ~sch'.observed =>
        sch'.phase = "waiting" \/ ServerRestarts]_vars

\* "Mark a source stale from the UI until the next successful sync for that
\* source": the mark goes only when a sync ran the source and it succeeded.
MarkedUntilSynced ==
    [][\A s \in forced \ forced' : s \in sch.list \ sch.failed]_vars

\* While something is stale and somebody is there, a sync starts sooner or
\* later: whatever falls due, is marked, or is dropped on the way.
StaleIsTried ==
    Stale # {} ~> sch.phase = "running" \/ Stale = {} \/ ~awake

=============================================================================
