-------------------------- MODULE GlobalSyncProofs --------------------------
(***************************************************************************)
(* Theorems about GlobalSync, for any sources, periods, intervals, delays  *)
(* and gaps that satisfy its assumption.                                   *)
(*                                                                         *)
(* Ready says what every function of the scheduler leaves behind; with the *)
(* types it is inductive, and the invariants of the runs follow from it.   *)
(***************************************************************************)
EXTENDS GlobalSync, WellFoundedInduction, TLAPS

\* Some timer fires within n units.
FiresWithin(s, n) == \E t \in {s.wake, s.interval} : t # Off /\ t <= n

\* The poll interval belongs to the poll loop and is never longer than its
\* period; a retry belongs to a recovery.
Armed(s) ==
    /\ s.interval # Off => s.every # Off /\ s.interval <= s.every
    /\ ~s.active => s.interval = Off /\ s.skip = {}
    /\ s.retry # Off => s.spent > 0

\* An idle scheduler of an awake server looks again at whatever it did not
\* leave out: a stale source now, a fresh one when it falls due.
Watching(s, nat, mk) ==
    /\ s.active => s.interval # Off
    /\ mk \subseteq s.skip
    /\ \A x \in Sources \ s.skip :
        FiresWithin(s, IF x \in nat THEN 0 ELSE due[x])

Ready(s, nat, mk, up) ==
    Armed(s) /\ (s.phase = "idle" /\ up => Watching(s, nat, mk))

IInv == TypeOK /\ Ready(sch, natural, forced, awake)

-----------------------------------------------------------------------------
(* The wake time. *)

LEMMA EarliestIsEarliest ==
    ASSUME NEW S \in SUBSET Sources, S # {}, due \in [Sources -> Nat \ {0}]
    PROVE  /\ earliestNextWake(S) \in Nat \ {0}
           /\ \A x \in S : earliestNextWake(S) <= due[x]
<1> DEFINE T == {due[x] : x \in S}
<1>1. T \subseteq Nat /\ T # {}
  OBVIOUS
<1> DEFINE R == {ss \in Nat \X Nat : ss[1] < ss[2]}
<1>2. IsWellFoundedOn(R, Nat)
  BY NatLessThanWellFounded DEF OpToRel
<1>3. \E m \in T : \A y \in T : ~(<<y, m>> \in R)
  <2> HIDE DEF T, R
  <2> QED
    BY <1>1, <1>2, WFMin
<1>4. \E m \in T : \A y \in T : m <= y
  <2> HIDE DEF T
  <2>1. PICK m \in T : \A y \in T : ~(<<y, m>> \in R)
    BY <1>3
  <2>2. ASSUME NEW y \in T
        PROVE  m <= y
    <3>1. y \in Nat /\ m \in Nat
      BY <1>1
    <3>2. ~(y < m)
      BY <2>1, <3>1
    <3> QED
      BY <3>1, <3>2
  <2> QED
    BY <2>2
<1>5. \E d \in {due[x] : x \in S} : \A x \in S : d <= due[x]
  BY <1>4
<1>6. earliestNextWake(S) \in T /\ \A x \in S : earliestNextWake(S) <= due[x]
  BY <1>5 DEF earliestNextWake
<1> QED
  BY <1>6

LEMMA WakeType ==
    ASSUME NEW S \in SUBSET Sources, due \in [Sources -> Nat \ {0}]
    PROVE  earliestNextWake(S) \in Int \cup {Off}
<1>1. CASE S = {}
  BY <1>1 DEF earliestNextWake
<1>2. CASE S # {}
  BY <1>2, EarliestIsEarliest
<1> QED
  BY <1>1, <1>2

(* While polling, a source that falls due before the next poll has a wake. *)
LEMMA FreshWake ==
    ASSUME NEW S \in SUBSET Sources, due \in [Sources -> Nat \ {0}],
           NEW every \in Nat
    PROVE  /\ freshSourceWake(S, every) \in Int \cup {Off}
           /\ \A x \in S : due[x] < every =>
                /\ freshSourceWake(S, every) # Off
                /\ freshSourceWake(S, every) <= due[x]
<1>1. CASE S = {}
  BY <1>1 DEF earliestNextWake, freshSourceWake
<1>2. CASE S # {}
  <2>1. /\ earliestNextWake(S) \in Nat \ {0}
        /\ \A x \in S : earliestNextWake(S) <= due[x]
    BY <1>2, EarliestIsEarliest
  <2>2. earliestNextWake(S) # Off
    BY <2>1, GlobalSyncAssumption
  <2> QED
    BY <2>1, <2>2 DEF freshSourceWake
<1> QED
  BY <1>1, <1>2

-----------------------------------------------------------------------------
(* The scheduler's functions. *)

LEMMA StartSyncType ==
    ASSUME NEW s \in Scheduler, NEW nat \in SUBSET Sources,
           NEW mk \in SUBSET Sources
    PROVE  /\ StartSync(s, nat, mk) \in Scheduler
           /\ StartSync(s, nat, mk).phase = "running"
           /\ Armed(s) => Armed(StartSync(s, nat, mk))
BY DEF StartSync, Scheduler, Armed

LEMMA TakeTickType ==
    ASSUME NEW s \in Scheduler, NEW nat \in SUBSET Sources,
           NEW mk \in SUBSET Sources, NEW up \in BOOLEAN
    PROVE  LET t == TakeTick(s, nat, mk, up)
           IN  /\ t \in Scheduler
               /\ ~(t.phase = "idle" /\ up)
               /\ Armed(s) => Armed(t)
               /\ t.active = s.active /\ t.interval = s.interval
               /\ t.every = s.every /\ t.retry = s.retry
               /\ t.spent = s.spent /\ t.skip = s.skip
<1>1. CASE s.phase # "idle" \/ ~up
  BY <1>1 DEF TakeTick
<1>2. CASE s.phase = "idle" /\ up
  <2> DEFINE t == [s EXCEPT !.observed = FALSE, !.unseen = FALSE,
                            !.resumed = s.observed]
  <2>1. t \in Scheduler /\ (Armed(s) => Armed(t))
    BY DEF Scheduler, Armed
  <2>2. CASE s.observed
    <3>1. TakeTick(s, nat, mk, up) = [t EXCEPT !.phase = "waiting"]
      BY <1>2, <2>2 DEF TakeTick
    <3>2. [t EXCEPT !.phase = "waiting"] \in Scheduler
      BY <2>1 DEF Scheduler
    <3> QED
      BY <3>1, <3>2 DEF Scheduler, Armed
  <2>3. CASE ~s.observed
    <3>1. TakeTick(s, nat, mk, up) = StartSync(t, nat, mk)
      BY <1>2, <2>3 DEF TakeTick
    <3>2. /\ StartSync(t, nat, mk).active = s.active
          /\ StartSync(t, nat, mk).interval = s.interval
          /\ StartSync(t, nat, mk).every = s.every
          /\ StartSync(t, nat, mk).retry = s.retry
          /\ StartSync(t, nat, mk).spent = s.spent
          /\ StartSync(t, nat, mk).skip = s.skip
      BY DEF StartSync, Scheduler
    <3> QED
      BY <2>1, <3>1, <3>2, StartSyncType
  <2> QED
    BY <2>2, <2>3
<1> QED
  BY <1>1, <1>2

(* A reschedule leaves the scheduler ready, whatever it finds. *)
LEMMA RescheduleReady ==
    ASSUME due \in [Sources -> Nat \ {0}], NEW s \in Scheduler, Armed(s),
           NEW nat \in SUBSET Sources, NEW mk \in SUBSET Sources,
           NEW up \in BOOLEAN
    PROVE  /\ reschedule(s, nat, mk, up) \in Scheduler
           /\ Ready(reschedule(s, nat, mk, up), nat, mk, up)
<1> DEFINE stale == nat \cup mk
           every == pollInterval(nat)
           on == IF s.active THEN ensurePollInterval(s, every)
                 ELSE TakeTick([s EXCEPT !.active = TRUE], nat, mk, up)
           wake == freshSourceWake(Sources \ stale, every)
<1>1. every \in {Poll, FastPoll} /\ every \in Nat /\ every # Off
  BY GlobalSyncAssumption DEF pollInterval
<1>2. CASE stale # {}
  <2> DEFINE t == [on EXCEPT !.unseen = FALSE, !.skip = stale, !.wake = wake]
  <2>1. reschedule(s, nat, mk, up) = t
    BY <1>2 DEF reschedule
  <2>2. /\ wake \in Int \cup {Off}
        /\ \A x \in Sources \ stale : due[x] < every => wake # Off /\ wake <= due[x]
    BY <1>1, FreshWake
  <2>3. /\ on \in Scheduler /\ on.active
        /\ on.interval # Off => on.every # Off /\ on.interval <= on.every
        /\ on.retry # Off => on.spent > 0
        /\ on.phase = "idle" /\ up => on.interval # Off /\ on.every = every
    <3>1. CASE s.active
      <4>1. on = ensurePollInterval(s, every)
        BY <3>1
      <4> HIDE DEF on, every
      <4>2. CASE s.interval # Off /\ s.every = every
        BY <3>1, <4>1, <4>2 DEF ensurePollInterval, Armed
      <4>3. CASE ~(s.interval # Off /\ s.every = every)
        <5> DEFINE r == [s EXCEPT !.interval = every, !.every = every]
        <5>1. on = r
          BY <4>1, <4>3 DEF ensurePollInterval
        <5>2. r \in Scheduler
          <6>1. every \in Int \cup {Off} /\ every \in {Poll, FastPoll, Off}
            BY <1>1
          <6> QED
            BY <6>1 DEF Scheduler
        <5>3. /\ r.active = s.active /\ r.interval = every
              /\ r.every = every /\ r.retry = s.retry /\ r.spent = s.spent
          BY DEF Scheduler
        <5> HIDE DEF r
        <5> QED
          BY <1>1, <3>1, <5>1, <5>2, <5>3 DEF Armed
      <4> QED
        BY <4>2, <4>3
    <3>2. CASE ~s.active
      <4> DEFINE a == [s EXCEPT !.active = TRUE]
      <4>1. a \in Scheduler /\ a.active /\ a.interval = Off
            /\ (a.retry # Off => a.spent > 0)
        BY <3>2 DEF Scheduler, Armed
      <4>2. on = TakeTick(a, nat, mk, up)
        BY <3>2
      <4> HIDE DEF a, on
      <4> QED
        BY <4>1, <4>2, TakeTickType
    <3> QED
      BY <3>1, <3>2
  <2> HIDE DEF on, wake, every
  <2>4. t \in Scheduler
    BY <2>2, <2>3 DEF Scheduler
  <2>5. /\ t.active /\ t.interval = on.interval /\ t.every = on.every
        /\ t.retry = on.retry /\ t.spent = on.spent /\ t.phase = on.phase
        /\ t.skip = stale /\ t.wake = wake
    BY <2>3 DEF Scheduler
  <2>6. Armed(t)
    BY <2>3, <2>5 DEF Armed
  <2>7. ASSUME t.phase = "idle", up
        PROVE  Watching(t, nat, mk)
    <3>1. t.interval # Off /\ t.interval <= every /\ t.interval \in Int
      BY <2>3, <2>4, <2>5, <2>7 DEF Scheduler
    <3>2. ASSUME NEW x \in Sources \ t.skip
          PROVE  FiresWithin(t, IF x \in nat THEN 0 ELSE due[x])
      <4>1. x \notin nat /\ x \in Sources \ stale /\ due[x] \in Nat
        BY <2>5, <3>2
      <4>2. CASE due[x] < every
        BY <2>2, <2>5, <4>1, <4>2 DEF FiresWithin
      <4>3. CASE due[x] >= every
        BY <1>1, <3>1, <4>1, <4>3 DEF FiresWithin
      <4> QED
        BY <1>1, <4>1, <4>2, <4>3
    <3> HIDE DEF t
    <3> QED
      BY <2>5, <3>1, <3>2 DEF Watching
  <2> QED
    BY <2>1, <2>4, <2>6, <2>7 DEF Ready
<1>3. CASE stale = {}
  <2> DEFINE t == [s EXCEPT !.active = FALSE, !.interval = Off, !.every = Off,
                            !.unseen = FALSE, !.skip = {},
                            !.wake = earliestNextWake(Sources)]
  <2>1. reschedule(s, nat, mk, up) = t
    BY <1>3 DEF reschedule
  <2>2. earliestNextWake(Sources) \in Int \cup {Off}
    BY WakeType
  <2>3. t \in Scheduler
    BY <2>2 DEF Scheduler
  <2>4. Armed(t)
    BY DEF Scheduler, Armed
  <2>5. t.wake = earliestNextWake(Sources) /\ t.skip = {} /\ ~t.active
    BY DEF Scheduler
  <2>6. Watching(t, nat, mk)
    <3>1. ASSUME NEW x \in Sources
          PROVE  FiresWithin(t, IF x \in nat THEN 0 ELSE due[x])
      <4>1. earliestNextWake(Sources) \in Nat /\ earliestNextWake(Sources) <= due[x]
        BY EarliestIsEarliest
      <4>2. t.wake # Off /\ t.wake <= due[x] /\ x \notin nat
        BY <1>3, <2>5, <4>1, GlobalSyncAssumption
      <4> QED
        BY <4>2 DEF FiresWithin
    <3> HIDE DEF t
    <3> QED
      BY <1>3, <2>5, <3>1 DEF Watching
  <2> QED
    BY <2>1, <2>3, <2>4, <2>6 DEF Ready
<1> QED
  BY <1>2, <1>3

LEMMA RetryTimerType ==
    ASSUME NEW s \in Scheduler, Armed(s), NEW resumed \in BOOLEAN, NEW ok \in BOOLEAN
    PROVE  /\ scheduleRetryAfterTick(s, resumed, ok) \in Scheduler
           /\ Armed(scheduleRetryAfterTick(s, resumed, ok))
<1>1. CASE ok
  <2> DEFINE r == [s EXCEPT !.retry = Off, !.spent = 0]
  <2>1. scheduleRetryAfterTick(s, resumed, ok) = r
    BY <1>1 DEF scheduleRetryAfterTick
  <2>2. r \in Scheduler
    <3>1. 0 \in 0..Len(RetryDelays) /\ Off \in Int \cup {Off}
      BY GlobalSyncAssumption
    <3> QED
      BY <3>1 DEF Scheduler
  <2>3. /\ r.active = s.active /\ r.interval = s.interval
        /\ r.every = s.every /\ r.skip = s.skip /\ r.retry = Off
    BY DEF Scheduler
  <2> HIDE DEF r
  <2> QED
    BY <2>1, <2>2, <2>3 DEF Armed
<1>2. CASE ~ok /\ (resumed \/ s.spent > 0) /\ s.spent < Len(RetryDelays)
  <2> DEFINE r == [s EXCEPT !.retry = RetryDelays[s.spent + 1],
                               !.spent = s.spent + 1]
  <2>1. scheduleRetryAfterTick(s, resumed, ok) = r
    BY <1>2 DEF scheduleRetryAfterTick
  <2>2. /\ s.spent \in Nat /\ s.spent + 1 \in 1..Len(RetryDelays)
        /\ RetryDelays[s.spent + 1] \in Int
    BY <1>2, GlobalSyncAssumption DEF Scheduler
  <2>3. r \in Scheduler
    <3>1. /\ s.spent + 1 \in 0..Len(RetryDelays)
          /\ RetryDelays[s.spent + 1] \in Int \cup {Off}
      BY <2>2
    <3> QED
      BY <3>1 DEF Scheduler
  <2>4. /\ r.active = s.active /\ r.interval = s.interval
        /\ r.every = s.every /\ r.skip = s.skip
        /\ r.spent = s.spent + 1
    BY DEF Scheduler
  <2> HIDE DEF r
  <2> QED
    BY <2>1, <2>2, <2>3, <2>4 DEF Armed
<1>3. CASE ~ok /\ ~((resumed \/ s.spent > 0) /\ s.spent < Len(RetryDelays))
  BY <1>3 DEF scheduleRetryAfterTick
<1> QED
  BY <1>1, <1>2, <1>3

LEMMA FinishReady ==
    ASSUME due \in [Sources -> Nat \ {0}], NEW s \in Scheduler, Armed(s),
           NEW ok \in BOOLEAN, NEW nat \in SUBSET Sources,
           NEW mk \in SUBSET Sources, NEW up \in BOOLEAN
    PROVE  /\ FinishTick(s, ok, nat, mk, up) \in Scheduler
           /\ Ready(FinishTick(s, ok, nat, mk, up), nat, mk, up)
<1> DEFINE idle == [s EXCEPT !.phase = "idle", !.resumed = FALSE, !.list = {},
                             !.todo = {}, !.failed = {}, !.marks = {},
                             !.behind = {}]
           after == scheduleRetryAfterTick(idle, s.resumed, ok)
<1>1. idle \in Scheduler /\ Armed(idle)
  BY DEF Scheduler, Armed
<1>2. after \in Scheduler /\ Armed(after)
  <2> HIDE DEF idle
  <2> QED
    BY <1>1, RetryTimerType DEF Scheduler
<1>3. FinishTick(s, ok, nat, mk, up) = reschedule(after, nat, mk, up)
  BY DEF FinishTick
<1> HIDE DEF idle, after
<1> QED
  BY <1>2, <1>3, RescheduleReady

LEMMA TickReady ==
    ASSUME due \in [Sources -> Nat \ {0}], NEW s \in Scheduler, Armed(s),
           NEW nat \in SUBSET Sources, NEW mk \in SUBSET Sources,
           NEW up \in BOOLEAN
    PROVE  /\ schedulerTick(s, nat, mk, up) \in Scheduler
           /\ Ready(schedulerTick(s, nat, mk, up), nat, mk, up)
<1>1. CASE s.phase = "idle" /\ up /\ ~s.observed /\ nat \cup mk = {}
  BY <1>1, FinishReady DEF schedulerTick
<1>2. CASE ~(s.phase = "idle" /\ up /\ ~s.observed /\ nat \cup mk = {})
  <2>1. schedulerTick(s, nat, mk, up) = TakeTick(s, nat, mk, up)
    BY <1>2 DEF schedulerTick
  <2> QED
    BY <2>1, TakeTickType DEF Ready
<1> QED
  BY <1>1, <1>2

LEMMA NotifyReady ==
    ASSUME due \in [Sources -> Nat \ {0}], NEW s \in Scheduler, Armed(s),
           NEW nat \in SUBSET Sources, NEW mk \in SUBSET Sources,
           NEW up \in BOOLEAN
    PROVE  /\ notifyScheduler(s, nat, mk, up) \in Scheduler
           /\ Ready(notifyScheduler(s, nat, mk, up), nat, mk, up)
BY TickReady, RescheduleReady DEF notifyScheduler

LEMMA ObserveType ==
    ASSUME NEW s \in Scheduler, NEW timer \in Int
    PROVE  LET t == observe(s, timer)
           IN  /\ t \in Scheduler /\ (Armed(s) => Armed(t))
               /\ t.interval = s.interval /\ t.every = s.every
               /\ t.active = s.active /\ t.skip = s.skip
               /\ t.phase = s.phase
BY GlobalSyncAssumption DEF observe, Scheduler, Armed

LEMMA StartedReady == Started \in Scheduler /\ Armed(Started)
BY GlobalSyncAssumption DEF Started, Scheduler, Armed

-----------------------------------------------------------------------------
(* The inductive invariant. *)

LEMMA InitIInv == Init => IInv
<1> SUFFICES ASSUME Init
             PROVE  IInv
  OBVIOUS
<1>1. /\ demo \in BOOLEAN /\ due \in [Sources -> Nat \ {0}] /\ awake \in BOOLEAN
      /\ natural \in SUBSET Sources /\ forced \in SUBSET Sources
  BY GlobalSyncAssumption DEF Init
<1>2. sch \in Scheduler /\ Ready(sch, natural, forced, awake)
  BY <1>1, StartedReady, RescheduleReady DEF Init
<1> QED
  BY <1>1, <1>2 DEF IInv, TypeOK

LEMMA LeftType ==
    ASSUME NEW t \in Int \cup {Off}, NEW n \in Nat
    PROVE  /\ Left(t, n) \in Int \cup {Off} /\ (Left(t, n) = Off <=> t = Off)
           /\ t # Off => \/ Left(t, n) <= t - n
                         \/ Left(t, n) <= 0
           /\ t # Off => Left(t, n) <= t \/ Left(t, n) <= 0
BY GlobalSyncAssumption DEF Left

(* A step that leaves the sources and the visitors alone keeps IInv when it *)
(* leaves the scheduler typed and ready.                                   *)
LEMMA SameWorld ==
    ASSUME TypeOK, UNCHANGED <<demo, due, natural, forced, awake>>,
           sch' \in Scheduler, Ready(sch', natural, forced, awake)
    PROVE  IInv'
BY DEF IInv, TypeOK, Ready, Watching, FiresWithin

LEMMA TimersKeepIInv == IInv /\ Timers => IInv'
<1> SUFFICES ASSUME IInv, Timers
             PROVE  IInv'
  OBVIOUS
<1> USE DEF IInv
<1>1. /\ sch \in Scheduler /\ Armed(sch) /\ due \in [Sources -> Nat \ {0}]
      /\ natural \in SUBSET Sources /\ forced \in SUBSET Sources /\ awake \in BOOLEAN
  BY DEF TypeOK, Ready
<1>2. CASE IntervalFires
  <2> DEFINE o == observe(sch, sch.interval)
             s == [o EXCEPT !.interval = sch.every]
  <2>1. sch.interval \in Int /\ sch.every \in Int /\ sch.every # Off
    BY <1>1, <1>2, GlobalSyncAssumption DEF IntervalFires, Fires, Scheduler, Armed
  <2>2. /\ o \in Scheduler /\ Armed(o) /\ o.interval = sch.interval
        /\ o.every = sch.every
    BY <1>1, <2>1, ObserveType
  <2>3. s \in Scheduler /\ Armed(s)
    <3> HIDE DEF o
    <3>1. s \in Scheduler
      BY <2>1, <2>2 DEF Scheduler
    <3>2. /\ s.interval = sch.every /\ s.every = sch.every /\ s.skip = o.skip
          /\ s.active = o.active /\ s.retry = o.retry /\ s.spent = o.spent
      BY <2>2 DEF Scheduler
    <3>3. o.interval # Off
      BY <1>2, <2>2 DEF IntervalFires, Fires
    <3> HIDE DEF s
    <3> QED
      BY <2>1, <2>2, <3>1, <3>2, <3>3 DEF Armed
  <2>4. sch' = schedulerTick(s, natural, forced, awake)
        /\ UNCHANGED <<demo, due, natural, forced, awake>>
    BY <1>2 DEF IntervalFires
  <2> HIDE DEF s
  <2> QED
    BY <1>1, <2>3, <2>4, TickReady, SameWorld
<1>3. CASE WakeFires
  <2> DEFINE o == observe(sch, sch.wake)
             s == [o EXCEPT !.wake = Off]
  <2>1. sch.wake \in Int
    BY <1>1, <1>3 DEF WakeFires, Fires, Scheduler
  <2>2. o \in Scheduler /\ Armed(o)
    BY <1>1, <2>1, ObserveType
  <2>3. s \in Scheduler /\ Armed(s)
    <3> HIDE DEF o
    <3> QED
      BY <2>2 DEF Scheduler, Armed
  <2>4. sch' = notifyScheduler(s, natural, forced, awake)
        /\ UNCHANGED <<demo, due, natural, forced, awake>>
    BY <1>3 DEF WakeFires
  <2> HIDE DEF s
  <2> QED
    BY <1>1, <2>3, <2>4, NotifyReady, SameWorld
<1>4. CASE RetryFires
  <2> DEFINE o == observe(sch, sch.retry)
             s == [o EXCEPT !.retry = Off]
  <2>1. sch.retry \in Int
    BY <1>1, <1>4 DEF RetryFires, Fires, Scheduler
  <2>2. o \in Scheduler /\ Armed(o)
    BY <1>1, <2>1, ObserveType
  <2>3. s \in Scheduler /\ Armed(s)
    <3> HIDE DEF o
    <3> QED
      BY <2>2 DEF Scheduler, Armed
  <2>4. sch' = schedulerTick(s, natural, forced, awake)
        /\ UNCHANGED <<demo, due, natural, forced, awake>>
    BY <1>4 DEF RetryFires
  <2> HIDE DEF s
  <2> QED
    BY <1>1, <2>3, <2>4, TickReady, SameWorld
<1>5. CASE NetworkWaitEnds
  <2>1. CASE Stale = {}
    BY <1>1, <1>5, <2>1, FinishReady, SameWorld DEF NetworkWaitEnds
  <2>2. CASE Stale # {}
    <3>1. sch' = StartSync(sch, natural, forced)
          /\ UNCHANGED <<demo, due, natural, forced, awake>>
      BY <1>5, <2>2 DEF NetworkWaitEnds
    <3>2. /\ sch' \in Scheduler /\ Armed(sch') /\ sch'.phase = "running"
      BY <1>1, <3>1, StartSyncType
    <3> QED
      BY <3>1, <3>2, SameWorld DEF Ready
  <2> QED
    BY <2>1, <2>2
<1> QED
  BY <1>2, <1>3, <1>4, <1>5 DEF Timers

LEMMA SyncWorkKeepsIInv == IInv /\ SyncWork => IInv'
<1> SUFFICES ASSUME IInv, SyncWork
             PROVE  IInv'
  OBVIOUS
<1> USE DEF IInv
<1>1. /\ sch \in Scheduler /\ Armed(sch) /\ due \in [Sources -> Nat \ {0}]
      /\ natural \in SUBSET Sources /\ forced \in SUBSET Sources /\ awake \in BOOLEAN
      /\ demo \in BOOLEAN
  BY DEF TypeOK, Ready
<1>2. ASSUME NEW x \in Sources, NEW published \in BOOLEAN,
             StepSucceeds(x, published)
      PROVE  IInv'
  <2> DEFINE still == ~published /\ x \in natural
             marks == IF still /\ x \in Rechecked THEN sch.marks
                      ELSE sch.marks \ {x}
             behind == IF still THEN sch.behind ELSE sch.behind \ {x}
             r == [sch EXCEPT !.todo = sch.todo \ {x}, !.marks = marks,
                              !.behind = behind]
  <2>1. /\ sch' = r /\ natural' \in SUBSET Sources /\ sch.phase = "running"
        /\ UNCHANGED <<demo, due, forced, awake>>
    BY <1>1, <1>2 DEF StepSucceeds, NextStep
  <2>2. marks \in SUBSET Sources /\ behind \in SUBSET StateSources
    BY <1>1 DEF Scheduler
  <2> HIDE DEF marks, behind
  <2>3. r \in Scheduler /\ Armed(r) /\ r.phase = "running"
    BY <1>1, <2>1, <2>2 DEF Scheduler, Armed
  <2> HIDE DEF r
  <2> QED
    BY <1>1, <2>1, <2>3 DEF TypeOK, Ready
<1>3. ASSUME NEW x \in Sources, StepFails(x)
      PROVE  IInv'
  <2>1. /\ UNCHANGED <<demo, due, natural, forced, awake>>
        /\ sch' \in Scheduler /\ Armed(sch') /\ sch'.phase = "running"
    BY <1>1, <1>3 DEF StepFails, NextStep, Scheduler, Armed
  <2> QED
    BY <2>1, SameWorld DEF Ready
<1>4. CASE SyncAborts
  <2>1. /\ UNCHANGED <<demo, due, natural, forced, awake>>
        /\ sch' \in Scheduler /\ Armed(sch') /\ sch'.phase = "running"
    BY <1>1, <1>4 DEF SyncAborts, Scheduler, Armed
  <2> QED
    BY <2>1, SameWorld DEF Ready
<1>5. CASE SyncEnds
  <2>1. /\ natural' \in SUBSET Sources /\ forced' \in SUBSET Sources
        /\ UNCHANGED <<demo, due, awake>>
        /\ sch' = FinishTick(sch, sch.failed = {}, natural', forced', awake)
    BY <1>1, <1>5, GlobalSyncAssumption DEF SyncEnds, Scheduler
  <2>2. ASSUME NEW ok \in BOOLEAN, NEW nat \in SUBSET Sources,
               NEW mk \in SUBSET Sources
        PROVE  /\ FinishTick(sch, ok, nat, mk, awake) \in Scheduler
               /\ Ready(FinishTick(sch, ok, nat, mk, awake), nat, mk, awake)
    BY <1>1, FinishReady
  <2> DEFINE ok == sch.failed = {}
  <2>3. ok \in BOOLEAN /\ sch' = FinishTick(sch, ok, natural', forced', awake)
    BY <2>1
  <2> HIDE DEF ok
  <2>4. sch' \in Scheduler /\ Ready(sch', natural', forced', awake)
    BY <2>1, <2>2, <2>3
  <2>5. TypeOK'
    BY <1>1, <2>1, <2>4 DEF TypeOK
  <2>6. Ready(sch, natural, forced, awake)'
    BY <2>1, <2>4 DEF Ready, Watching, FiresWithin
  <2> QED
    BY <2>5, <2>6
<1>6. CASE SyncThrows
  BY <1>1, <1>6, FinishReady, SameWorld DEF SyncThrows
<1>7. ASSUME NEW x \in Sources, StepSkipped(x)
      PROVE  IInv'
  <2>1. /\ UNCHANGED <<demo, due, natural, forced, awake>>
        /\ sch' \in Scheduler /\ Armed(sch') /\ sch'.phase = "running"
    BY <1>1, <1>7 DEF StepSkipped, NextStep, Scheduler, Armed
  <2> QED
    BY <2>1, SameWorld DEF Ready
<1> QED
  BY <1>2, <1>3, <1>4, <1>5, <1>6, <1>7 DEF SyncWork, Steps

(* The requests, the other processes, the visitors and a restart.          *)
LEMMA AroundKeepsIInv ==
    IInv /\ (Around \/ VisitorArrives \/ VisitorsLeave \/ ServerRestarts) => IInv'
<1> SUFFICES ASSUME IInv, Around \/ VisitorArrives \/ VisitorsLeave \/ ServerRestarts
             PROVE  IInv'
  OBVIOUS
<1>1. /\ sch \in Scheduler /\ Armed(sch) /\ due \in [Sources -> Nat \ {0}]
      /\ natural \in SUBSET Sources /\ forced \in SUBSET Sources /\ awake \in BOOLEAN
      /\ demo \in BOOLEAN /\ Ready(sch, natural, forced, awake)
  BY DEF IInv, TypeOK, Ready
<1>2. ASSUME NEW nat \in SUBSET Sources, NEW mk \in SUBSET Sources,
             NEW up \in BOOLEAN, UNCHANGED <<demo, due>>,
             natural' = nat, forced' = mk, awake' = up,
             \/ sch' = notifyScheduler(sch, nat, mk, up)
             \/ sch' = reschedule(Started, nat, mk, up)
      PROVE  IInv'
  <2>1. sch' \in Scheduler /\ Ready(sch', nat, mk, up)
    BY <1>1, <1>2, NotifyReady, StartedReady, RescheduleReady
  <2>2. TypeOK'
    BY <1>1, <1>2, <2>1 DEF TypeOK
  <2>3. Ready(sch, natural, forced, awake)'
    BY <1>2, <2>1 DEF Ready, Watching, FiresWithin
  <2> QED
    BY <2>2, <2>3 DEF IInv
<1>3. ASSUME NEW x \in Sources, ForceStale(x)
      PROVE  IInv'
  <2> DEFINE mk == forced \cup {x}
  <2>1. /\ mk \in SUBSET Sources /\ forced' = mk /\ natural' = natural
        /\ awake' = awake /\ UNCHANGED <<demo, due>>
        /\ sch' = notifyScheduler(sch, natural, mk, awake)
    BY <1>1, <1>3 DEF ForceStale
  <2> HIDE DEF mk
  <2> QED
    BY <1>1, <1>2, <2>1
<1>4. ASSUME NEW x \in Sources, WatchTicker(x)
      PROVE  IInv'
  <2> DEFINE nat == natural \cup {x}
  <2>1. /\ nat \in SUBSET Sources /\ natural' = nat /\ forced' = forced
        /\ awake' = awake /\ UNCHANGED <<demo, due>>
        /\ sch' = notifyScheduler(sch, nat, forced, awake)
    BY <1>1, <1>4 DEF WatchTicker
  <2> HIDE DEF nat
  <2> QED
    BY <1>1, <1>2, <2>1
<1>5. ASSUME NEW x \in Sources, SyncedElsewhere(x)
      PROVE  IInv'
  <2>1. natural' = natural \ {x} /\ UNCHANGED <<demo, due, forced, awake, sch>>
    BY <1>5 DEF SyncedElsewhere
  <2>2. ASSUME Watching(sch, natural, forced)
        PROVE  Watching(sch, natural', forced)
    <3>1. ASSUME NEW y \in Sources \ sch.skip
          PROVE  FiresWithin(sch, IF y \in natural' THEN 0 ELSE due[y])
      <4>1. FiresWithin(sch, IF y \in natural THEN 0 ELSE due[y])
        BY <2>2, <3>1 DEF Watching
      <4>2. due[y] \in Nat /\ sch.wake \in Int \cup {Off}
            /\ sch.interval \in Int \cup {Off}
        BY <1>1 DEF Scheduler
      <4> QED
        BY <2>1, <4>1, <4>2 DEF FiresWithin
    <3> QED
      BY <2>2, <3>1 DEF Watching
  <2>3. TypeOK'
    BY <1>1, <2>1 DEF TypeOK
  <2>4. Ready(sch, natural', forced, awake)
    BY <1>1, <2>2 DEF Ready
  <2>5. Ready(sch, natural, forced, awake)'
    BY <2>1, <2>4 DEF Ready, Watching, FiresWithin
  <2> QED
    BY <2>3, <2>5 DEF IInv
<1>6. CASE VisitorArrives
  BY <1>1, <1>2, <1>6 DEF VisitorArrives
<1>7. CASE VisitorsLeave
  <2>1. ~awake' /\ awake' \in BOOLEAN /\ UNCHANGED <<demo, due, natural, forced, sch>>
    BY <1>7 DEF VisitorsLeave
  <2>2. TypeOK'
    BY <1>1, <2>1 DEF TypeOK
  <2>3. Ready(sch, natural, forced, awake)'
    BY <1>1, <2>1 DEF Ready
  <2> QED
    BY <2>2, <2>3 DEF IInv
<1>8. CASE ServerRestarts
  <2> DEFINE up == ~demo
  <2>1. /\ up \in BOOLEAN /\ awake' = up /\ natural' = natural /\ forced' = forced
        /\ UNCHANGED <<demo, due>> /\ sch' = reschedule(Started, natural, forced, up)
    BY <1>1, <1>8 DEF ServerRestarts
  <2> HIDE DEF up
  <2> QED
    BY <1>1, <1>2, <2>1
<1> QED
  BY <1>3, <1>4, <1>5, <1>6, <1>7, <1>8 DEF Around

(* Time brings the timers as much closer as the due times they watch.      *)
LEMMA PassesKeepIInv ==
    ASSUME IInv, NEW n \in 1..WakeGap, NEW suspended \in BOOLEAN,
           Passes(n, suspended)
    PROVE  IInv'
<1>1. /\ sch \in Scheduler /\ Armed(sch) /\ due \in [Sources -> Nat \ {0}]
      /\ natural \in SUBSET Sources /\ forced \in SUBSET Sources /\ awake \in BOOLEAN
      /\ demo \in BOOLEAN /\ Ready(sch, natural, forced, awake) /\ n \in Nat
  BY GlobalSyncAssumption DEF IInv, TypeOK, Ready
<1> DEFINE behind == IF sch.phase = "running"
                     THEN sch.behind \cup (FallDue(n) \cap StateSources)
                     ELSE {}
           r == [sch EXCEPT
                  !.interval = Left(sch.interval, n), !.wake = Left(sch.wake, n),
                  !.retry = Left(sch.retry, n),
                  !.unseen = sch.unseen \/ suspended, !.behind = behind]
<1>2. /\ sch' = r /\ natural' = natural \cup FallDue(n)
      /\ due' = [s \in Sources |-> IF s \in FallDue(n) THEN due[s] - n + Period[s]
                                    ELSE due[s] - n]
      /\ UNCHANGED <<demo, forced, awake>>
  BY DEF Passes
<1>3. due' \in [Sources -> Nat \ {0}]
  <2>1. ASSUME NEW x \in Sources
        PROVE  (IF x \in FallDue(n) THEN due[x] - n + Period[x] ELSE due[x] - n)
                 \in Nat \ {0}
    <3>1. due[x] \in Nat \ {0} /\ Period[x] \in Nat /\ Period[x] >= n
      BY <1>1, GlobalSyncAssumption
    <3>2. x \in FallDue(n) <=> due[x] <= n
      BY DEF FallDue
    <3> QED
      BY <1>1, <3>1, <3>2
  <2> QED
    BY <1>2, <2>1
<1>4. r \in Scheduler
  <2>1. /\ Left(sch.interval, n) \in Int \cup {Off}
        /\ Left(sch.wake, n) \in Int \cup {Off}
        /\ Left(sch.retry, n) \in Int \cup {Off}
    BY <1>1, LeftType DEF Scheduler
  <2>2. behind \in SUBSET StateSources /\ (sch.unseen \/ suspended) \in BOOLEAN
    BY <1>1 DEF Scheduler
  <2> HIDE DEF behind
  <2> QED
    BY <1>1, <2>1, <2>2 DEF Scheduler
<1>5. /\ r.interval = Left(sch.interval, n) /\ r.wake = Left(sch.wake, n)
      /\ r.retry = Left(sch.retry, n) /\ r.every = sch.every
      /\ r.active = sch.active /\ r.skip = sch.skip /\ r.phase = sch.phase
      /\ r.spent = sch.spent
  BY <1>1 DEF Scheduler
<1> HIDE DEF r
<1>6. Armed(r)
  <2>1. r.retry # Off => r.spent > 0
    BY <1>1, <1>5, LeftType DEF Armed, Scheduler
  <2>2. ~r.active => r.interval = Off /\ r.skip = {}
    BY <1>5, <1>1, LeftType DEF Armed, Scheduler
  <2>3. r.interval # Off => r.every # Off /\ r.interval <= r.every
    <3>1. ASSUME r.interval # Off
          PROVE  r.every # Off /\ r.interval <= r.every
      <4>1. sch.interval # Off /\ sch.interval \in Int
        BY <1>1, <1>5, <3>1, LeftType DEF Scheduler
      <4>2. sch.every # Off /\ sch.interval <= sch.every
        BY <1>1, <4>1 DEF Armed
      <4>3. sch.every \in Nat
        BY <1>1, <4>2, GlobalSyncAssumption DEF Scheduler
      <4>4. r.interval \in Int /\ (r.interval <= sch.interval \/ r.interval <= 0)
        BY <1>1, <1>5, <3>1, <4>1, LeftType
      <4> QED
        BY <1>5, <4>1, <4>2, <4>3, <4>4
    <3> QED
      BY <3>1
  <2> QED
    BY <2>1, <2>2, <2>3 DEF Armed
<1>7. ASSUME Watching(sch, natural, forced)
      PROVE  /\ r.active => r.interval # Off
             /\ forced \subseteq r.skip
             /\ \A x \in Sources \ r.skip :
                 \E t \in {r.wake, r.interval} :
                   t # Off /\ t <= (IF x \in natural' THEN 0 ELSE due'[x])
  <2>1. ASSUME NEW x \in Sources \ r.skip
        PROVE  \E t \in {r.wake, r.interval} :
                 t # Off /\ t <= (IF x \in natural' THEN 0 ELSE due'[x])
    <3>1. PICK t \in {sch.wake, sch.interval} :
            t # Off /\ t <= (IF x \in natural THEN 0 ELSE due[x])
      BY <1>5, <1>7 DEF Watching, FiresWithin
    <3>2. t \in Int /\ Left(t, n) \in {r.wake, r.interval}
      BY <1>1, <1>5, <3>1 DEF Scheduler
    <3>3. /\ Left(t, n) # Off /\ Left(t, n) \in Int
          /\ Left(t, n) <= t - n \/ Left(t, n) <= 0
      BY <1>1, <3>1, <3>2, LeftType
    <3>4. due[x] \in Nat /\ due'[x] \in Nat
      BY <1>1, <1>3
    <3>5. x \in FallDue(n) <=> due[x] <= n
      BY DEF FallDue
    <3>6. x \notin FallDue(n) => due'[x] = due[x] - n
      BY <1>2
    <3>7. Left(t, n) <= (IF x \in natural' THEN 0 ELSE due'[x])
      <4>1. CASE x \in natural'
        <5>1. x \in natural \/ due[x] <= n
          BY <1>2, <3>5, <4>1
        <5>2. t - n <= 0
          BY <1>1, <3>1, <3>2, <3>4, <5>1
        <5> QED
          BY <1>1, <3>2, <3>3, <4>1, <5>2
      <4>2. CASE x \notin natural'
        <5>1. x \notin natural /\ due'[x] = due[x] - n
          BY <1>2, <3>6, <4>2
        <5>2. t - n <= due'[x]
          BY <1>1, <3>1, <3>2, <3>4, <5>1
        <5> QED
          BY <1>1, <3>2, <3>3, <3>4, <4>2, <5>2
      <4> QED
        BY <4>1, <4>2
    <3> QED
      BY <3>2, <3>3, <3>7
  <2>2. (r.active => r.interval # Off) /\ forced \subseteq r.skip
    BY <1>1, <1>5, <1>7, LeftType DEF Watching, Scheduler
  <2> QED
    BY <2>1, <2>2
<1>8. TypeOK'
  <2>1. sch' \in Scheduler
    BY <1>2, <1>4
  <2>2. natural' \subseteq Sources /\ forced' \subseteq Sources
        /\ demo' \in BOOLEAN /\ awake' \in BOOLEAN
    BY <1>1, <1>2 DEF FallDue
  <2> QED
    BY <1>3, <2>1, <2>2 DEF TypeOK
<1>9. Armed(sch')
  BY <1>2, <1>6
<1>10. sch'.phase = "idle" /\ awake' => Watching(sch, natural, forced)'
  <2>1. ASSUME sch'.phase = "idle", awake'
        PROVE  Watching(sch, natural, forced)
    BY <1>1, <1>2, <1>5, <2>1 DEF Ready
  <2> QED
    BY <1>2, <1>7, <2>1 DEF Watching, FiresWithin
<1> QED
  BY <1>8, <1>9, <1>10 DEF IInv, Ready, Armed

LEMMA Invariance == Spec => []IInv
<1>0. 1 \in 1..WakeGap /\ WakeGap \in 1..WakeGap
  BY GlobalSyncAssumption
<1>1. IInv /\ [Next]_vars => IInv'
  <2> SUFFICES ASSUME IInv, [Next]_vars
               PROVE  IInv'
    OBVIOUS
  <2>1. CASE Timers
    BY <2>1, TimersKeepIInv
  <2>2. CASE SyncWork
    BY <2>2, SyncWorkKeepsIInv
  <2>3. CASE Around \/ VisitorArrives \/ VisitorsLeave \/ ServerRestarts
    BY <2>3, AroundKeepsIInv
  <2>4. CASE TimePasses
    <3>1. PICK n \in 1..WakeGap, suspended \in BOOLEAN : Passes(n, suspended)
      BY <2>4, <1>0, Zenon DEF TimePasses
    <3> QED
      BY <3>1, PassesKeepIInv
  <2>5. CASE Suspend
    <3>1. PICK n \in 1..WakeGap, suspended \in BOOLEAN : Passes(n, suspended)
      BY <2>5, <1>0, Zenon DEF Suspend
    <3> QED
      BY <3>1, PassesKeepIInv
  <2>6. CASE UNCHANGED vars
    BY <2>6 DEF vars, IInv, TypeOK, Ready, Watching, FiresWithin
  <2> QED
    BY <2>1, <2>2, <2>3, <2>4, <2>5, <2>6 DEF Next
<1> QED
  BY <1>1, InitIInv, PTL DEF Spec

-----------------------------------------------------------------------------
(* The theorems. *)

\* Every reachable state of the scheduler, its timers and its sync has the
\* type the module states, for any sources, periods and intervals.
THEOREM TypeCorrect == Spec => []TypeOK
<1>1. IInv => TypeOK
  BY DEF IInv
<1> QED
  BY <1>1, Invariance, PTL

\* A stale source of an awake server always has a tick to come: the dropped
\* ticks of globalSyncScheduler.ts (a sync in progress, a demo asleep) never
\* leave it without a timer.
THEOREM StaleIsAlwaysPolled == Spec => []StaleIsPolled
<1>1. IInv => StaleIsPolled
  <2> SUFFICES ASSUME IInv, Stale # {}, awake, sch.phase = "idle"
               PROVE  (sch.active /\ sch.interval # Off) \/ Fires(sch.wake)
    BY DEF StaleIsPolled
  <2>1. Armed(sch) /\ Watching(sch, natural, forced) /\ natural \subseteq Sources
        /\ forced \subseteq Sources
    BY DEF IInv, Ready, TypeOK
  <2>2. CASE sch.active
    BY <2>1, <2>2 DEF Watching
  <2>3. CASE ~sch.active
    <3>1. sch.skip = {} /\ forced = {} /\ sch.interval = Off
      BY <2>1, <2>3 DEF Armed, Watching
    <3>2. PICK x \in Sources : x \in natural
      BY <2>1, <3>1 DEF Stale
    <3>3. FiresWithin(sch, 0)
      BY <2>1, <3>1, <3>2 DEF Watching
    <3> QED
      BY <3>1, <3>3 DEF FiresWithin, Fires
  <2> QED
    BY <2>2, <2>3
<1> QED
  BY <1>1, Invariance, PTL

\* The wake timer and the poll interval cover every fresh source: one of them
\* fires no later than the source falls due.
THEOREM DueIsAlwaysOnTime == Spec => []DueIsOnTime
<1>1. IInv => DueIsOnTime
  <2> SUFFICES ASSUME IInv, awake, sch.phase = "idle",
                      NEW s \in Sources \ (Stale \cup sch.skip)
               PROVE  \E t \in {sch.wake, sch.interval} : t # Off /\ t <= due[s]
    BY DEF DueIsOnTime
  <2>1. Watching(sch, natural, forced) /\ s \in Sources \ sch.skip /\ s \notin natural
    BY DEF IInv, Ready, Stale
  <2>2. FiresWithin(sch, due[s])
    BY <2>1 DEF Watching
  <2> QED
    BY <2>2 DEF FiresWithin
<1> QED
  BY <1>1, Invariance, PTL

\* A pending retry always belongs to a recovery: planAfterGlobalSync never
\* leaves one behind a success.
THEOREM RetryAlwaysRecovers == Spec => []RetryOnlyRecovers
<1>1. IInv => RetryOnlyRecovers
  BY DEF IInv, Ready, Armed, RetryOnlyRecovers
<1> QED
  BY <1>1, Invariance, PTL

(* What the scheduler's functions do with a wake that a timer saw.         *)
LEMMA TakeTickWaits ==
    ASSUME NEW s \in Scheduler, NEW nat \in SUBSET Sources,
           NEW mk \in SUBSET Sources, NEW up \in BOOLEAN, s.observed,
           ~TakeTick(s, nat, mk, up).observed
    PROVE  TakeTick(s, nat, mk, up).phase = "waiting"
<1>1. CASE s.phase # "idle" \/ ~up
  <2>1. TakeTick(s, nat, mk, up) = s
    BY <1>1 DEF TakeTick
  <2> QED
    BY <2>1
<1>2. CASE s.phase = "idle" /\ up
  <2> DEFINE t == [s EXCEPT !.observed = FALSE, !.unseen = FALSE,
                            !.resumed = s.observed]
  <2>1. TakeTick(s, nat, mk, up) = [t EXCEPT !.phase = "waiting"]
    BY <1>2 DEF TakeTick
  <2>2. t \in Scheduler
    BY DEF Scheduler
  <2> HIDE DEF t
  <2> QED
    BY <2>1, <2>2 DEF Scheduler
<1> QED
  BY <1>1, <1>2

LEMMA RescheduleWaits ==
    ASSUME NEW s \in Scheduler, NEW nat \in SUBSET Sources,
           NEW mk \in SUBSET Sources, NEW up \in BOOLEAN, s.observed,
           ~reschedule(s, nat, mk, up).observed
    PROVE  reschedule(s, nat, mk, up).phase = "waiting"
<1> DEFINE stale == nat \cup mk
           every == pollInterval(nat)
           wake == freshSourceWake(Sources \ stale, every)
           on == IF s.active THEN ensurePollInterval(s, every)
                 ELSE TakeTick([s EXCEPT !.active = TRUE], nat, mk, up)
<1>1. CASE stale = {}
  BY <1>1 DEF reschedule, Scheduler
<1>2. CASE stale # {}
  <2>1. reschedule(s, nat, mk, up) =
          [on EXCEPT !.unseen = FALSE, !.skip = stale, !.wake = wake]
    BY <1>2 DEF reschedule
  <2> HIDE DEF stale, wake
  <2>2. CASE s.active
    BY <2>1, <2>2 DEF ensurePollInterval, Scheduler
  <2>3. CASE ~s.active
    <3> DEFINE a == [s EXCEPT !.active = TRUE]
    <3>1. a \in Scheduler /\ a.observed
      BY DEF Scheduler
    <3>2. on = TakeTick(a, nat, mk, up)
      BY <2>3
    <3> HIDE DEF a, on
    <3>3. on \in Scheduler
      BY <3>1, <3>2, TakeTickType
    <3>4. /\ reschedule(s, nat, mk, up).observed = on.observed
          /\ reschedule(s, nat, mk, up).phase = on.phase
      BY <2>1, <3>3 DEF Scheduler
    <3> QED
      BY <3>1, <3>2, <3>4, TakeTickWaits
  <2> QED
    BY <2>2, <2>3
<1> QED
  BY <1>1, <1>2

LEMMA FinishWaits ==
    ASSUME NEW s \in Scheduler, Armed(s), NEW ok \in BOOLEAN,
           NEW nat \in SUBSET Sources, NEW mk \in SUBSET Sources,
           NEW up \in BOOLEAN, s.observed,
           ~FinishTick(s, ok, nat, mk, up).observed
    PROVE  FinishTick(s, ok, nat, mk, up).phase = "waiting"
<1> DEFINE idle == [s EXCEPT !.phase = "idle", !.resumed = FALSE, !.list = {},
                             !.todo = {}, !.failed = {}, !.marks = {},
                             !.behind = {}]
           after == scheduleRetryAfterTick(idle, s.resumed, ok)
<1>1. idle \in Scheduler /\ Armed(idle) /\ idle.observed
  BY DEF Scheduler, Armed
<1>2. after \in Scheduler /\ after.observed
  <2> HIDE DEF idle
  <2>1. after \in Scheduler
    BY <1>1, RetryTimerType DEF Scheduler
  <2>2. after.observed = idle.observed
    BY <1>1 DEF scheduleRetryAfterTick, Scheduler
  <2> QED
    BY <1>1, <2>1, <2>2
<1>3. FinishTick(s, ok, nat, mk, up) = reschedule(after, nat, mk, up)
  BY DEF FinishTick
<1> HIDE DEF idle, after
<1> QED
  BY <1>2, <1>3, RescheduleWaits

LEMMA TickWaits ==
    ASSUME NEW s \in Scheduler, Armed(s), NEW nat \in SUBSET Sources,
           NEW mk \in SUBSET Sources, NEW up \in BOOLEAN, s.observed
    PROVE  /\ ~schedulerTick(s, nat, mk, up).observed
                => schedulerTick(s, nat, mk, up).phase = "waiting"
           /\ ~notifyScheduler(s, nat, mk, up).observed
                => notifyScheduler(s, nat, mk, up).phase = "waiting"
BY TakeTickWaits, RescheduleWaits DEF schedulerTick, notifyScheduler

LEMMA ObserveKeeps ==
    ASSUME NEW s \in Scheduler, Armed(s), NEW timer \in Int, s.observed
    PROVE  observe(s, timer).observed
BY DEF observe, Scheduler

\* A wake of the machine that a timer observed is never lost: it is cleared
\* only by the tick that waits for the network.
THEOREM WakeIsAlwaysWaitedFor == Spec => WakeIsWaitedFor
<1>1. ASSUME IInv, Next, sch.observed, ~sch'.observed
      PROVE  sch'.phase = "waiting" \/ ServerRestarts
  <2>1. /\ sch \in Scheduler /\ Armed(sch)
        /\ natural \in SUBSET Sources /\ forced \in SUBSET Sources
        /\ awake \in BOOLEAN /\ demo \in BOOLEAN
    BY <1>1 DEF IInv, TypeOK, Ready
  <2>2. CASE IntervalFires
    <3> DEFINE o == observe(sch, sch.interval)
               s == [o EXCEPT !.interval = sch.every]
    <3>1. sch.interval \in Int /\ sch.every \in Int /\ sch.every # Off
          /\ sch.interval # Off
      BY <2>1, <2>2, GlobalSyncAssumption DEF IntervalFires, Fires, Scheduler, Armed
    <3>2. /\ o \in Scheduler /\ Armed(o) /\ o.observed /\ o.interval = sch.interval
          /\ o.every = sch.every
      BY <1>1, <2>1, <3>1, ObserveType, ObserveKeeps
    <3> HIDE DEF o
    <3>3. s \in Scheduler
      BY <3>1, <3>2 DEF Scheduler
    <3>4. /\ s.interval = sch.every /\ s.every = sch.every /\ s.skip = o.skip
          /\ s.active = o.active /\ s.retry = o.retry /\ s.spent = o.spent
          /\ s.observed
      BY <3>2 DEF Scheduler
    <3>5. sch' = schedulerTick(s, natural, forced, awake)
      BY <2>2 DEF IntervalFires, o
    <3> HIDE DEF s
    <3>6. Armed(s)
      BY <3>1, <3>2, <3>3, <3>4 DEF Armed
    <3> QED
      BY <1>1, <2>1, <3>3, <3>4, <3>5, <3>6, TickWaits
  <2>3. CASE WakeFires
    <3> DEFINE o == observe(sch, sch.wake)
               s == [o EXCEPT !.wake = Off]
    <3>1. sch.wake \in Int
      BY <2>1, <2>3 DEF WakeFires, Fires, Scheduler
    <3>2. o \in Scheduler /\ Armed(o) /\ o.observed
      BY <1>1, <2>1, <3>1, ObserveType, ObserveKeeps
    <3> HIDE DEF o
    <3>3. s \in Scheduler /\ Armed(s) /\ s.observed
      BY <3>2 DEF Scheduler, Armed
    <3>4. sch' = notifyScheduler(s, natural, forced, awake)
      BY <2>3 DEF WakeFires, o
    <3> HIDE DEF s
    <3> QED
      BY <1>1, <2>1, <3>3, <3>4, TickWaits
  <2>4. CASE RetryFires
    <3> DEFINE o == observe(sch, sch.retry)
               s == [o EXCEPT !.retry = Off]
    <3>1. sch.retry \in Int
      BY <2>1, <2>4 DEF RetryFires, Fires, Scheduler
    <3>2. o \in Scheduler /\ Armed(o) /\ o.observed
      BY <1>1, <2>1, <3>1, ObserveType, ObserveKeeps
    <3> HIDE DEF o
    <3>3. s \in Scheduler /\ Armed(s) /\ s.observed
      BY <3>2 DEF Scheduler, Armed
    <3>4. sch' = schedulerTick(s, natural, forced, awake)
      BY <2>4 DEF RetryFires, o
    <3> HIDE DEF s
    <3> QED
      BY <1>1, <2>1, <3>3, <3>4, TickWaits
  <2>5. CASE NetworkWaitEnds
    <3>1. CASE Stale = {}
      BY <1>1, <2>1, <2>5, <3>1, FinishWaits DEF NetworkWaitEnds
    <3>2. CASE Stale # {}
      <4>1. sch'.observed = sch.observed
        BY <2>1, <2>5, <3>2 DEF NetworkWaitEnds, StartSync, Scheduler
      <4> QED
        BY <1>1, <4>1
    <3> QED
      BY <3>1, <3>2
  <2>6. CASE Steps
    <3>1. sch'.observed = sch.observed
      BY <2>1, <2>6 DEF Steps, StepFails, StepSkipped, StepSucceeds, Scheduler
    <3> QED
      BY <1>1, <3>1
  <2>7. CASE SyncAborts
    <3>1. sch'.observed = sch.observed
      BY <2>1, <2>7 DEF SyncAborts, Scheduler
    <3> QED
      BY <1>1, <3>1
  <2>8. CASE SyncEnds \/ SyncThrows
    <3>1. ASSUME NEW ok \in BOOLEAN, NEW nat \in SUBSET Sources,
                 NEW mk \in SUBSET Sources, sch' = FinishTick(sch, ok, nat, mk, awake)
          PROVE  sch'.phase = "waiting"
      BY <1>1, <2>1, <3>1, FinishWaits
    <3>2. CASE SyncEnds
      <4> DEFINE ok == sch.failed = {}
                 nat == (natural \ StateSources) \cup sch.behind
                 mk == sch.marks
      <4>1. /\ ok \in BOOLEAN /\ nat \in SUBSET Sources /\ mk \in SUBSET Sources
            /\ sch' = FinishTick(sch, ok, nat, mk, awake)
        BY <2>1, <3>2, GlobalSyncAssumption DEF SyncEnds, Scheduler
      <4> HIDE DEF ok, nat, mk
      <4> QED
        BY <3>1, <4>1
    <3>3. CASE SyncThrows
      BY <2>1, <3>1, <3>3 DEF SyncThrows
    <3> QED
      BY <2>8, <3>2, <3>3
  <2>9. ASSUME NEW x \in Sources, ForceStale(x)
        PROVE  sch'.phase = "waiting"
    <3> DEFINE mk == forced \cup {x}
    <3>1. mk \in SUBSET Sources /\ sch' = notifyScheduler(sch, natural, mk, awake)
      BY <2>1, <2>9 DEF ForceStale
    <3> HIDE DEF mk
    <3> QED
      BY <1>1, <2>1, <3>1, TickWaits
  <2>10. ASSUME NEW x \in Sources, WatchTicker(x)
         PROVE  sch'.phase = "waiting"
    <3> DEFINE nat == natural \cup {x}
    <3>1. nat \in SUBSET Sources /\ sch' = notifyScheduler(sch, nat, forced, awake)
      BY <2>1, <2>10 DEF WatchTicker
    <3> HIDE DEF nat
    <3> QED
      BY <1>1, <2>1, <3>1, TickWaits
  <2>11. CASE VisitorArrives
    BY <1>1, <2>1, <2>11, TickWaits DEF VisitorArrives
  <2>12. CASE (\E x \in Sources : SyncedElsewhere(x)) \/ VisitorsLeave
    BY <1>1, <2>12 DEF SyncedElsewhere, VisitorsLeave
  <2>13. CASE TimePasses \/ Suspend
    <3>1. sch'.observed = sch.observed
      BY <2>1, <2>13 DEF TimePasses, Suspend, Passes, Scheduler
    <3> QED
      BY <1>1, <3>1
  <2> QED
    BY <1>1, <2>2, <2>3, <2>4, <2>5, <2>6, <2>7, <2>8, <2>9, <2>10, <2>11, <2>12,
       <2>13 DEF Next, Timers, SyncWork, Around
<1>2. IInv /\ [Next]_vars
        => [sch.observed /\ ~sch'.observed
              => sch'.phase = "waiting" \/ ServerRestarts]_vars
  BY <1>1 DEF vars
<1> QED
  BY <1>2, Invariance, PTL DEF Spec, WakeIsWaitedFor

=============================================================================
