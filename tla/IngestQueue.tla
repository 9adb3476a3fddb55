----------------------------- MODULE IngestQueue -----------------------------
(***************************************************************************)
(* The job queue with the workers that use it: the slot scheduler          *)
(* (ingestRunScheduler.ts, ingestRunPolicy.ts), the ingest_runs table      *)
(* (ingestRuns.ts), the ingest service (feederServer.ts) and the deploy    *)
(* agent (server-deploy.sh), with the messages between them.               *)
(*                                                                         *)
(* A dispatch is three steps: the server claims the job, writes the run    *)
(* and sends the request; the service takes or refuses it; the server      *)
(* reads the answer, or times out, maybe after the service took the run.   *)
(* A run ends with a report the service repeats until it gives up.         *)
(*                                                                         *)
(* What can fail is listed in Faults; a run of the model chooses which may *)
(* happen, and MaxFaults bounds how often.                                 *)
(***************************************************************************)
EXTENDS JobQueue, Sequences

CONSTANTS
    Nightly, Hourly,  \* the two executor kinds
    NightlySlots,     \* the instants of the 22:00 slots
    HourlySlots,      \* the instants of the :30 slots
    RepeatWindow,     \* DAILY_RUN_REPEAT_WINDOW_MINUTES
    MaxRuns,          \* bound: rows of ingest_runs
    Faults,           \* what may go wrong, of the FaultKinds
    MaxFaults         \* bound: how many times

FaultKinds ==
    {"timeout",         \* the server gives up on the service's answer
     "stall",           \* a process or the machine sleeps past its deadlines
     "server-crash",    \* also between two statements of a dispatch
     "service-crash",   \* the run in progress dies with its report
     "agent-crash",     \* SIGKILL: no trap completes the job
     "claim-lost",      \* the answer to a granted claim is lost
     "report-lost",     \* reportWithRetry or job_complete gives up
     "outside-run"}     \* a runner the service did not start is at work

ASSUME IngestAssumption ==
    /\ ExecutorKinds = {Nightly, Hourly} /\ Nightly # Hourly
    /\ NightlySlots \subseteq Nat \ {0} /\ HourlySlots \subseteq Nat \ {0}
    /\ RepeatWindow \in Nat /\ MaxRuns \in Nat /\ MaxFaults \in Nat
    /\ Faults \subseteq FaultKinds

\* JOB_KINDS: what another process claims, a deploy, holds server-restart.
ASSUME ClaimAssumption ==
    \A k \in ClaimKinds : ResourceOf[k] = Exclusive

VARIABLES
    runs,     \* the ingest_runs table
    daily,    \* lastDailyRunAt: when a nightly's outcome was last recorded
    wire,     \* run requests the service has not read yet
    answer,   \* its answer to the request the executor awaits
    service,  \* the feeder: the run in progress and the ids it ran
    reports,  \* run reports being delivered
    agent,    \* the deploy agent
    faults    \* what went wrong so far, of the Faults

network == <<wire, answer, service, reports>>
allVars == <<jobs, now, exec, runs, daily, wire, answer, service, reports,
             agent, faults>>

RunIds == 1..MaxRuns
RunStatus == {"absent", "requested", "done", "failed", "lost", "skipped",
              "not_started"}
Run == [status : RunStatus, kind : ExecutorKinds, slot : Nat,
        job : JobIds \cup {NoJob}]
Request == [run : RunIds, job : JobIds, at : Nat]
NoRequest == [run |-> 0, job |-> NoJob, at |-> 0]
AgentIdle == [phase |-> "idle", job |-> NoJob]

Fault(kind) ==
    /\ kind \in Faults /\ Len(faults) < MaxFaults
    /\ faults' = Append(faults, kind)
NoFault == UNCHANGED faults
Happened(kind) == \E i \in 1..Len(faults) : faults[i] = kind

Latest(S) == CHOOSE x \in S \cup {0} : \A y \in S : y <= x

-----------------------------------------------------------------------------
(* The ingest_runs table.  A slot has one row: UNIQUE (kind, slot_at). *)

\* The row of a slot, or the id the next insert takes.
RunIdOf(table, k, slot) ==
    LET rows == {r \in RunIds : /\ table[r].status # "absent"
                                /\ table[r].kind = k /\ table[r].slot = slot}
        free == {r \in RunIds : table[r].status = "absent"}
    IN  IF rows # {} THEN CHOOSE r \in rows : TRUE
        ELSE CHOOSE r \in free : \A q \in free : r <= q

HasRoom(table) == \E r \in RunIds : table[r].status = "absent"

RunRow(status, k, slot, j) ==
    [status |-> status, kind |-> k, slot |-> slot, job |-> j]

markIngestRunRequested(table, k, slot, j) ==
    [table EXCEPT ![RunIdOf(table, k, slot)] = RunRow("requested", k, slot, j)]

\* Only a slot that did not run becomes skipped.
markIngestRunSkipped(table, k, slot, j) ==
    LET r == RunIdOf(table, k, slot)
    IN  IF table[r].status \in {"absent", "skipped", "not_started"}
        THEN [table EXCEPT ![r] = RunRow("skipped", k, slot, j)]
        ELSE table

\* The request markIngestRunLostForJob finds for job j, if any.
InFlight(j) == {r \in RunIds : runs[r].status = "requested" /\ runs[r].job = j}

LostRuns ==
    {r \in RunIds : \E j \in JobIds :
        /\ Running(j) /\ LeaseExpired(jobs[j], now)
        /\ r \in InFlight(j) /\ \A q \in InFlight(j) : r <= q}

StaleRuns == {j \in JobIds : /\ jobs[j].status = "queued" /\ Stale(jobs[j], now)
                             /\ jobs[j].kind \in ExecutorKinds}

\* Mutant: a lost job leaves its run requested.
AfterWriteOffsOfJobs ==
    IF StaleRuns = {} THEN runs
    ELSE LET j == CHOOSE j \in StaleRuns : TRUE
         IN  markIngestRunSkipped(runs, jobs[j].kind, jobs[j].slot, j)

\* The table after the write-offs of a tick (one ingest job at most is
\* stale: only the scheduled hourly ever is).
AfterWriteOffs ==
    LET lost == [r \in RunIds |-> IF r \in LostRuns
                                  THEN [runs[r] EXCEPT !.status = "lost"]
                                  ELSE runs[r]]
    IN  IF StaleRuns = {} THEN lost
        ELSE LET j == CHOOSE j \in StaleRuns : TRUE
             IN  markIngestRunSkipped(lost, jobs[j].kind, jobs[j].slot, j)

\* The bound leaves a row for each of the slots a tick may have to write.
RoomToWriteOff == StaleRuns # {} => HasRoom(runs)
RoomToDispatch == RoomToWriteOff /\ HasRoom(AfterWriteOffs)

\* A nightly written off is recorded as a failed daily run.
DailyAfterWriteOffs ==
    IF \E r \in LostRuns : runs[r].kind = Nightly THEN now ELSE daily

-----------------------------------------------------------------------------
(* The slots. *)

nightlySlotAtOrBefore == Latest({s \in NightlySlots : s <= now})
hourlySlotAtOrBefore == Latest({s \in HourlySlots : s <= now})

\* lastJobSlot and lastAnsweredSlot: the newest slot already dealt with.
LastSlot(k) ==
    Latest({jobs[j].slot : j \in {i \in JobIds : /\ jobs[i].status # "absent"
                                                 /\ jobs[i].kind = k}}
           \cup {runs[r].slot : r \in {q \in RunIds :
                    /\ runs[q].status # "absent" /\ runs[q].kind = k
                    /\ k = Nightly => runs[q].status # "not_started"}})

RanLately(d) == d # 0 /\ now - d < RepeatWindow

NightlyAnswered ==
    \/ LastSlot(Nightly) >= nightlySlotAtOrBefore
    \/ daily # 0 /\ daily >= nightlySlotAtOrBefore

\* coveredByDailyRun, after the write-offs of the same tick.
Covered(j) ==
    LET d == DailyAfterWriteOffs
    IN  /\ jobs[j].by = "scheduler"
        /\ d # 0
        /\ IF jobs[j].kind = Nightly
           THEN d >= jobs[j].slot \/ RanLately(d)
           ELSE d > jobs[j].slot

-----------------------------------------------------------------------------
IngestInit ==
    /\ Init
    /\ runs = [r \in RunIds |-> RunRow("absent", Nightly, 0, NoJob)]
    /\ daily = 0
    /\ wire = {} /\ answer = "none" /\ reports = {}
    /\ service = [current |-> NoRequest, ran |-> {}]
    /\ agent = AgentIdle
    /\ faults = <<>>

(* The producers. *)

SchedulerSkips ==
    /\ ~NightlyAnswered /\ RanLately(daily) /\ HasRoom(runs)
    /\ runs' = markIngestRunSkipped(runs, Nightly, nightlySlotAtOrBefore, NoJob)
    /\ UNCHANGED <<jobs, now, exec, daily, network, agent, faults>>

\* Mutant: a slot is queued although a newer one was dealt with.
SchedulerEnqueuesAlways ==
    /\ \/ ~RanLately(daily) /\ nightlySlotAtOrBefore # 0
          /\ ScheduleRun(Nightly, nightlySlotAtOrBefore)
       \/ hourlySlotAtOrBefore # 0 /\ ScheduleRun(Hourly, hourlySlotAtOrBefore)
    /\ UNCHANGED <<runs, daily, network, agent, faults>>

SchedulerEnqueues ==
    /\ \/ ~NightlyAnswered /\ ~RanLately(daily)
          /\ ScheduleRun(Nightly, nightlySlotAtOrBefore)
       \/ NightlyAnswered /\ LastSlot(Hourly) < hourlySlotAtOrBefore
          /\ ScheduleRun(Hourly, hourlySlotAtOrBefore)
    /\ UNCHANGED <<runs, daily, network, agent, faults>>

ingestSchedulerTick == SchedulerSkips \/ SchedulerEnqueues

\* Two requests of a kind never share the millisecond that is their slot.
NewInstant(k) ==
    /\ now \notin NightlySlots \cup HourlySlots
    /\ \A j \in JobIds : ~(jobs[j].kind = k /\ jobs[j].slot = now)
    /\ \A r \in RunIds : ~(runs[r].kind = k /\ runs[r].slot = now)

RunByHand ==
    /\ \/ \E k \in ExecutorKinds : NewInstant(k) /\ startManualIngestRun(k)
       \/ \E j \in JobIds : /\ jobs[j].kind \in ExecutorKinds
                            /\ NewInstant(jobs[j].kind) /\ retryJob(j)
    /\ UNCHANGED <<runs, daily, network, agent, faults>>

CancelByHand(j) ==
    /\ cancelQueuedJob(j)
    /\ IF jobs[j].kind \in ExecutorKinds
       THEN /\ HasRoom(runs)
            /\ runs' = markIngestRunSkipped(runs, jobs[j].kind, jobs[j].slot, j)
       ELSE UNCHANGED runs
    /\ UNCHANGED <<daily, network, agent, faults>>

-----------------------------------------------------------------------------
(* The executor. *)

RequestOf(table, j) ==
    [run |-> RunIdOf(table, jobs[j].kind, jobs[j].slot), job |-> j, at |-> now]

ExecutorDispatches(j) ==
    /\ TickStarts(j) /\ ~Covered(j) /\ RoomToDispatch
    /\ runs' = markIngestRunRequested(AfterWriteOffs, jobs[j].kind, jobs[j].slot, j)
    /\ daily' = DailyAfterWriteOffs
    /\ wire' = wire \cup {RequestOf(AfterWriteOffs, j)}
    /\ answer' = "none"
    /\ UNCHANGED <<service, reports, agent, faults>>

ExecutorSupersedes(j) ==
    /\ TickSupersedes(j) /\ Covered(j) /\ RoomToDispatch
    /\ runs' = markIngestRunSkipped(AfterWriteOffs, jobs[j].kind, jobs[j].slot, j)
    /\ daily' = DailyAfterWriteOffs
    /\ UNCHANGED <<network, agent, faults>>

ExecutorWritesOff ==
    /\ TickWritesOff /\ RoomToWriteOff
    /\ runs' = AfterWriteOffs
    /\ daily' = DailyAfterWriteOffs
    /\ UNCHANGED <<network, agent, faults>>

ExecutorTick ==
    \/ ExecutorWritesOff
    \/ \E j \in JobIds : ExecutorDispatches(j) \/ ExecutorSupersedes(j)

AnswerAccepted ==
    /\ answer = "accepted"
    /\ DispatchAccepted
    /\ answer' = "none"
    /\ UNCHANGED <<runs, daily, wire, service, reports, agent, faults>>

AwaitedRun == RunIdOf(runs, jobs[exec.job].kind, jobs[exec.job].slot)

Awaited(r) == r.job = exec.job /\ r.at = exec.at

\* Mutant: the run is marked not started although the job did not go back.
AnswerRefusedMarksFirst ==
    /\ IF answer = "busy" \/ (answer = "none" /\ ~\E r \in wire : Awaited(r))
       THEN NoFault ELSE Fault("timeout")
    /\ DispatchRefused
    /\ runs' = [runs EXCEPT ![AwaitedRun].status = "not_started"]
    /\ answer' = "none"
    /\ UNCHANGED <<daily, wire, service, reports, agent>>

\* Busy, the connection broken, or no answer in time; when releaseJob throws,
\* the run keeps its status.
AnswerRefused ==
    /\ IF answer = "busy" \/ (answer = "none" /\ ~\E r \in wire : Awaited(r))
       THEN NoFault ELSE Fault("timeout")
    /\ DispatchRefused
    /\ runs' = IF ReleaseSucceeds
               THEN [runs EXCEPT ![AwaitedRun].status = "not_started"]
               ELSE runs
    /\ answer' = "none"
    /\ UNCHANGED <<daily, wire, service, reports, agent>>

\* The server dies during the await, or between two statements around it:
\* the job claimed but no run written (what reads the request's extras may
\* also throw there), or released but the run not marked.
ServerCrash ==
    /\ Fault("server-crash")
    /\ \/ ServerRestart /\ UNCHANGED <<runs, daily>>
       \/ /\ \E j \in JobIds : TickBreaks(j) /\ ~Covered(j)
          /\ RoomToWriteOff
          /\ runs' = AfterWriteOffs
          /\ daily' = DailyAfterWriteOffs
       \/ DispatchRefused /\ ReleaseSucceeds /\ UNCHANGED <<runs, daily>>
    /\ answer' = "none"
    /\ UNCHANGED <<wire, service, reports, agent>>

-----------------------------------------------------------------------------
(* The ingest service: POST /runs, the run, its heartbeats and its report. *)

Answered(r, a) ==
    answer' = IF Awaited(r) THEN a ELSE answer

\* Mutant: the service does not remember the runs it took.
ServiceReadsForgets(r) ==
    /\ wire' = wire \ {r}
    /\ service' = IF service.current = NoRequest
                  THEN [current |-> r, ran |-> service.ran] ELSE service
    /\ Answered(r, "accepted")
    /\ UNCHANGED <<jobs, now, exec, runs, daily, reports, agent, faults>>

ServiceReads(r) ==
    /\ wire' = wire \ {r}
    /\ \/ /\ r.run \in service.ran
          /\ Answered(r, "accepted")
          /\ UNCHANGED service
          /\ NoFault
       \/ /\ r.run \notin service.ran
          /\ IF service.current = NoRequest THEN Fault("outside-run") ELSE NoFault
          /\ Answered(r, "busy")
          /\ UNCHANGED service
       \/ /\ r.run \notin service.ran
          /\ service.current = NoRequest
          /\ service' = [current |-> r, ran |-> service.ran \cup {r.run}]
          /\ Answered(r, "accepted")
          /\ NoFault
    /\ UNCHANGED <<jobs, now, exec, runs, daily, reports, agent>>

\* Mutant: a heartbeat is written whatever the status of the job.
ServiceHeartbeatsBlindly ==
    /\ service.current # NoRequest
    /\ jobs' = [jobs EXCEPT ![service.current.job].beat = now]
    /\ UNCHANGED <<now, exec, runs, daily, network, agent, faults>>

ServiceHeartbeats ==
    /\ service.current # NoRequest
    /\ heartbeatJob(service.current.job)
    /\ UNCHANGED <<runs, daily, network, agent, faults>>

RunEnds(outcome) ==
    /\ service.current # NoRequest
    /\ service' = [service EXCEPT !.current = NoRequest]
    /\ reports' = reports \cup {[run |-> service.current.run, outcome |-> outcome]}
    /\ UNCHANGED <<jobs, now, exec, runs, daily, wire, answer, agent, faults>>

AcceptsReport(r) == runs[r].status \in {"requested", "not_started", "lost"}

\* Mutant: a job given back to the queue is not ended by its report.
ReportArrivesRunning(p) ==
    /\ AcceptsReport(p.run)
    /\ runs' = [runs EXCEPT ![p.run].status = p.outcome]
    /\ daily' = IF runs[p.run].kind = Nightly THEN now ELSE daily
    /\ LET j == runs[p.run].job
       IN  IF jobs[j].status \in {"running", "lost"}
           THEN completeJob(j, p.outcome)
           ELSE UNCHANGED <<jobs, now, exec>>
    /\ reports' = reports \ {p}
    /\ UNCHANGED <<wire, answer, service, agent, faults>>

\* completeIngestRun: the run and, unless it already ended, its job.
ReportArrives(p) ==
    /\ AcceptsReport(p.run)
    /\ runs' = [runs EXCEPT ![p.run].status = p.outcome]
    /\ daily' = IF runs[p.run].kind = Nightly THEN now ELSE daily
    /\ LET j == runs[p.run].job
       IN  IF jobs[j].status \in {"running", "lost", "queued"}
           THEN completeJob(j, p.outcome)
           ELSE UNCHANGED <<jobs, now, exec>>
    /\ reports' = reports \ {p}
    /\ UNCHANGED <<wire, answer, service, agent, faults>>

\* Refused until the service gives up, or never answered.
ReportDropped(p) ==
    /\ IF AcceptsReport(p.run) THEN Fault("report-lost") ELSE NoFault
    /\ reports' = reports \ {p}
    /\ UNCHANGED <<jobs, now, exec, runs, daily, wire, answer, service, agent>>

ServiceStops ==
    /\ service' = [current |-> NoRequest, ran |-> {}]
    /\ wire' = {} /\ reports' = {}

ServiceCrash ==
    /\ Fault("service-crash")
    /\ ServiceStops
    /\ UNCHANGED <<jobs, now, exec, runs, daily, answer, agent>>

-----------------------------------------------------------------------------
(* The deploy agent. *)

AgentEnqueues ==
    /\ agent = AgentIdle
    /\ \E k \in ClaimKinds : enqueueDeploy(k)
    /\ UNCHANGED <<runs, daily, network, agent, faults>>

AgentClaims(j) ==
    /\ agent = AgentIdle
    /\ claimNextJob(j)
    /\ \/ agent' = [phase |-> "deploying", job |-> j] /\ NoFault
       \/ agent' = AgentIdle /\ Fault("claim-lost")
    /\ UNCHANGED <<runs, daily, network>>

AgentHeartbeats ==
    /\ agent.phase = "deploying"
    /\ heartbeatJob(agent.job)
    /\ UNCHANGED <<runs, daily, network, agent, faults>>

\* launchctl kickstart -k: the server, and the service when its code changed;
\* a second time to roll back.
AgentRestarts ==
    /\ \E next \in {"restarted", "rolled-back"} :
          /\ <<agent.phase, next>> \in {<<"deploying", "restarted">>,
                                       <<"restarted", "rolled-back">>}
          /\ agent' = [agent EXCEPT !.phase = next]
    /\ ServerRestart
    /\ answer' = "none"
    /\ ServiceStops \/ UNCHANGED <<service, wire, reports>>
    /\ UNCHANGED <<runs, daily, faults>>

\* Mutant: the agent forgets only its phase.
AgentCompletesKeepsJob ==
    /\ agent # AgentIdle
    /\ completeJob(agent.job, "done")
    /\ agent' = [agent EXCEPT !.phase = "idle"]
    /\ UNCHANGED <<runs, daily, network, faults>>

\* job_complete: true once healthy, false after a rollback or from the exit
\* trap; refused for a job that ended, or never answered.
AgentCompletes ==
    /\ agent # AgentIdle
    /\ \/ \E outcome \in {"done", "failed"} :
             /\ outcome = "done" => agent.phase = "restarted"
             /\ completeJob(agent.job, outcome)
             /\ NoFault
       \/ /\ IF jobs[agent.job].status \in {"running", "lost"}
             THEN Fault("report-lost") ELSE NoFault
          /\ UNCHANGED <<jobs, now, exec>>
    /\ agent' = AgentIdle
    /\ UNCHANGED <<runs, daily, network>>

AgentCrash ==
    /\ agent # AgentIdle
    /\ Fault("agent-crash")
    /\ agent' = AgentIdle
    /\ UNCHANGED <<jobs, now, exec, runs, daily, network>>

-----------------------------------------------------------------------------
(* Time.  Without a stall a request is read and answered and a report      *)
(* arrives within a clock unit, and a live worker heartbeats before its    *)
(* lease runs out.                                                         *)

Alive(j) ==
    j \in JobIds /\ (service.current.job = j \/ agent.job = j)

Punctual ==
    /\ exec = Idle /\ wire = {} /\ reports = {}
    /\ \A j \in JobIds : Alive(j) /\ Running(j)
                         => now + 1 < leaseExpiresAt(jobs[j])

TimePasses ==
    /\ Elapse
    /\ IF Punctual THEN NoFault ELSE Fault("stall")
    /\ UNCHANGED <<runs, daily, network, agent>>

IngestNext ==
    \/ ingestSchedulerTick
    \/ RunByHand
    \/ \E j \in JobIds : CancelByHand(j)
    \/ ExecutorTick
    \/ AnswerAccepted
    \/ AnswerRefused
    \/ ServerCrash
    \/ \E r \in wire : ServiceReads(r)
    \/ ServiceHeartbeats
    \/ \E outcome \in {"done", "failed"} : RunEnds(outcome)
    \/ \E p \in reports : ReportArrives(p) \/ ReportDropped(p)
    \/ ServiceCrash
    \/ AgentEnqueues
    \/ \E j \in JobIds : AgentClaims(j)
    \/ AgentHeartbeats
    \/ AgentRestarts
    \/ AgentCompletes
    \/ AgentCrash
    \/ TimePasses

IngestSpec == IngestInit /\ [][IngestNext]_allVars

\* The executor ticks every 30 s, requests are answered, runs and deploys
\* end, reports arrive or are given up, and the agent asks every 3 minutes.
\* The clock is assumed to go on only while a running job has no worker: a
\* job must not need the passing of time to be let through otherwise.
IngestFairness ==
    /\ WF_allVars(ExecutorTick)
    /\ WF_allVars(AnswerAccepted \/ AnswerRefused)
    /\ WF_allVars(\E r \in wire : ServiceReads(r))
    /\ WF_allVars(RunEnds("done"))
    /\ WF_allVars(\E p \in reports : ReportArrives(p) \/ ReportDropped(p))
    /\ WF_allVars(\E j \in JobIds : AgentClaims(j))
    /\ WF_allVars(AgentCompletes)
    /\ WF_allVars(TimePasses /\ \E j \in JobIds : Running(j) /\ ~Alive(j))

FairIngestSpec == IngestSpec /\ IngestFairness

-----------------------------------------------------------------------------
IngestTypeOK ==
    /\ TypeOK
    /\ runs \in [RunIds -> Run]
    /\ daily \in Nat
    /\ wire \subseteq Request
    /\ answer \in {"none", "accepted", "busy"}
    /\ service \in [current : Request \cup {NoRequest}, ran : SUBSET RunIds]
    /\ reports \subseteq [run : RunIds, outcome : {"done", "failed"}]
    /\ agent \in [phase : {"idle", "deploying", "restarted", "rolled-back"},
                 job : JobIds \cup {NoJob}]
    /\ agent.phase = "idle" <=> agent.job = NoJob
    /\ faults \in Seq(Faults) /\ Len(faults) <= MaxFaults

(* IngestQueue implements JobQueue: the workers of this module are among   *)
(* the workers JobQueue leaves open, so its theorems hold here too.        *)
ImplementsJobQueue == Spec

(* "Never restart under an ingest run": while the agent holds a deploy the *)
(* service runs nothing.                                                   *)
DeployFindsServiceIdle ==
    agent # AgentIdle => service.current = NoRequest

(* A report closes the run and the job of the run in one transaction: a    *)
(* job whose run is over no longer waits, runs or counts as lost.          *)
ReportedRunEndsItsJob ==
    \A r \in RunIds :
        runs[r].status \in {"done", "failed"}
        => jobs[runs[r].job].status \notin {"queued", "running", "lost"}

(* What a report recorded stays: no retry, cancellation, skip or write-off *)
(* of the same slot overwrites the outcome of a run.                       *)
OutcomeStaysStep ==
    \A r \in RunIds :
        runs[r].status \in {"done", "failed"} => runs'[r] = runs[r]

OutcomeStays == [][OutcomeStaysStep]_allVars

(* The newest slot dealt with never moves back, whatever coalescing does   *)
(* to the queued job that carries it: a slot is not queued twice.          *)
SlotsAdvance ==
    [][\A k \in ExecutorKinds : LastSlot(k)' >= LastSlot(k)]_allVars

(* An ingest job that holds the service is in somebody's hands: the        *)
(* executor awaits the service's answer, or the service took its run (or   *)
(* died with the memory of it).                                            *)
RunningJobIsInHands ==
    \A j \in JobIds :
        Holding(j) /\ jobs[j].kind \in ExecutorKinds
        => \/ exec.job = j
           \/ \E r \in service.ran : runs[r].job = j
           \/ Happened("service-crash")

(* Two jobs whose leases both hold never conflict: server-restart is held  *)
(* alone.                                                                  *)
HoldersAreCompatible ==
    \A i, j \in JobIds :
        i # j /\ Holding(i) /\ Holding(j)
        => ~Conflict(jobs[i].kind, jobs[j].kind)

(* A run that is lost leaves a trace: its run row is lost, or ended late.  *)
LostJobIsOnRecord ==
    \A j \in JobIds :
        jobs[j].status = "lost" /\ jobs[j].kind \in ExecutorKinds
        => \E r \in RunIds : /\ runs[r].job = j
                             /\ runs[r].status \in {"lost", "done", "failed"}

(* A job that ended did so with the report of a run made for its slot, the *)
(* slot it carries after coalescing: a request put in a queued job runs.   *)
EndedJobRanItsSlot ==
    \A j \in JobIds :
        jobs[j].status \in {"done", "failed"} /\ jobs[j].kind \in ExecutorKinds
        => \E r \in RunIds : /\ runs[r].kind = jobs[j].kind
                             /\ runs[r].slot = jobs[j].slot
                             /\ runs[r].status \in {"done", "failed"}

(* A cancelled job is in no worker's hands. *)
CancelledIsIdle ==
    \A j \in JobIds :
        jobs[j].status = "cancelled" => service.current.job # j

(* A queued job that is due is started, ended or put off: no mix of kinds, *)
(* draining, retries, crashes and expired leases makes the queue wait on   *)
(* itself.  Only a dead worker's lease may still have to run out.          *)
WaitsForLease == now = MaxTime /\ \E i \in JobIds : Holding(i) /\ ~Alive(i)

Waits(j) == jobs[j].status = "queued" /\ Due(jobs[j], now)

DueJobIsDecided == \A j \in JobIds : Waits(j) ~> (~Waits(j) \/ WaitsForLease)

=============================================================================
