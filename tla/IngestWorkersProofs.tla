------------------------ MODULE IngestWorkersProofs -------------------------
(***************************************************************************)
(* Theorems about who has which job, for the faults under which deadlines  *)
(* are kept: the ingest service and the agent may die, and claims and      *)
(* reports may be lost, but no process sleeps past its deadlines, the      *)
(* server does not die and no stranger occupies the service.               *)
(*                                                                         *)
(* The argument follows one run from hand to hand.  From its dispatch on,  *)
(* a request on the wire, the run in progress and the report being         *)
(* delivered each stand for a job that still holds the ingest service;     *)
(* two such jobs would conflict, so there is only one of them at a time,   *)
(* and none while a deploy is held.                                        *)
(***************************************************************************)
EXTENDS IngestQueueProofs

\* What may go wrong here.
WorkerFaults == {"service-crash", "agent-crash", "claim-lost", "report-lost"}

\* Job j holds the service and r is the run it was dispatched for.
Out(j, r) ==
    /\ j \in JobIds
    /\ runs[r].status = "requested" /\ runs[r].job = j
    /\ runs[r].kind = jobs[j].kind /\ runs[r].slot = jobs[j].slot
    /\ Holding(j)

-----------------------------------------------------------------------------
(* The inductive invariant, hand by hand. *)

RequestIsAwaited ==
    \A r \in wire : /\ exec = [job |-> r.job, at |-> r.at] /\ answer = "none"
                    /\ Out(r.job, r.run)

UnansweredIsUnread ==
    exec # Idle /\ answer = "none"
    => /\ service.current = NoRequest /\ reports = {}
       /\ (\E r \in wire : Awaited(r)) \/ Happened("service-crash")

AcceptedWasTaken ==
    exec # Idle /\ answer = "accepted"
    => \/ \E r \in service.ran : runs[r].job = exec.job
       \/ Happened("service-crash")

InProgressIsOut ==
    service.current # NoRequest
    => /\ Out(service.current.job, service.current.run)
       /\ service.current.run \in service.ran
       /\ reports = {}

ReportIsOut ==
    /\ \A p \in reports : Out(runs[p.run].job, p.run) /\ p.run \in service.ran
    /\ \A p, q \in reports : p = q

AgentHolds ==
    agent # AgentIdle => Holding(agent.job) /\ jobs[agent.job].kind \in ClaimKinds

RanHasRow == \A r \in service.ran : Present(runs[r])

NeverBusy == answer # "busy"

HandsInv ==
    /\ RequestIsAwaited
    /\ UnansweredIsUnread
    /\ AcceptedWasTaken
    /\ InProgressIsOut
    /\ ReportIsOut
    /\ AgentHolds
    /\ RanHasRow
    /\ NeverBusy

WorkersInv ==
    /\ HandsInv
    /\ HoldersAreCompatible
    /\ RunningJobIsInHands
    /\ EndedJobRanItsSlot

-----------------------------------------------------------------------------
(* Faults. *)

LEMMA FaultsOnlyGrow ==
    ASSUME IngestInv, [IngestNext]_allVars, NEW kind, Happened(kind)
    PROVE  Happened(kind)'
<1>1. faults \in Seq(Faults)
  BY DEF IngestInv, IngestTypeOK
<1>2. faults' = faults \/ \E f \in Faults : faults' = Append(faults, f)
  BY DEF IngestNext, allVars, ingestSchedulerTick, SchedulerSkips,
         SchedulerEnqueues, RunByHand, CancelByHand, ExecutorTick,
         ExecutorWritesOff, ExecutorDispatches, ExecutorSupersedes,
         AnswerAccepted, AnswerRefused, ServerCrash, ServiceReads,
         ServiceHeartbeats, RunEnds, ReportArrives, ReportDropped, ServiceCrash,
         AgentEnqueues, AgentClaims, AgentHeartbeats, AgentRestarts,
         AgentCompletes, AgentCrash, TimePasses, Fault, NoFault
<1>3. PICK i \in 1..Len(faults) : faults[i] = kind
  BY DEF Happened
<1>4. CASE \E f \in Faults : faults' = Append(faults, f)
  <2>1. PICK f \in Faults : faults' = Append(faults, f)
    BY <1>4
  <2>2. Len(faults') = Len(faults) + 1 /\ faults'[i] = faults[i]
    BY <1>1, <1>3, <2>1
  <2>3. i \in 1..Len(faults')
    BY <1>1, <1>3, <2>2
  <2> QED
    BY <1>3, <2>2, <2>3 DEF Happened
<1> QED
  BY <1>2, <1>3, <1>4 DEF Happened

LEMMA CrashHappened ==
    ASSUME IngestInv, Fault("service-crash")
    PROVE  Happened("service-crash")'
<1>1. /\ faults \in Seq(Faults) /\ "service-crash" \in Faults
      /\ faults' = Append(faults, "service-crash")
  BY DEF IngestInv, IngestTypeOK, Fault
<1>2. /\ Len(faults') = Len(faults) + 1 /\ Len(faults) \in Nat
      /\ faults'[Len(faults) + 1] = "service-crash"
  BY <1>1
<1> QED
  BY <1>2 DEF Happened

-----------------------------------------------------------------------------
(* Leases. *)

LEMMA FreshLease ==
    ASSUME NEW row \in Job, NEW t \in Nat, row.beat = t
    PROVE  ~LeaseExpired(row, t)
<1>1. LeaseOf[row.kind] \in Nat \ {0}
  BY PolicyAssumption DEF Job
<1> QED
  BY <1>1 DEF LeaseExpired, leaseExpiresAt

LEMMA HoldingWrittenOff ==
    ASSUME NEW row \in Job, row.status = "running", ~LeaseExpired(row, now)
    PROVE  WrittenOff(row) = row
BY DEF WrittenOff

\* The job still holds its resource after the step, for the same slot.
StillHolds(j) ==
    Holding(j)' /\ jobs'[j].kind = jobs[j].kind /\ jobs'[j].slot = jobs[j].slot

\* What almost every step leaves: the jobs that are out, the deploys that
\* hold the server, the runs and the faults.
HandsStay ==
    /\ \A j \in JobIds, r \in RunIds : Out(j, r) => Out(j, r)'
    /\ \A j \in JobIds : Holding(j) /\ jobs[j].kind \in ClaimKinds
                         => Holding(j)' /\ jobs'[j].kind = jobs[j].kind
    /\ \A kind : Happened(kind) => Happened(kind)'
    /\ KeepsRows(runs, runs')

LEMMA HandsStayWhen ==
    ASSUME IngestInv, [IngestNext]_allVars,
           \A j \in JobIds : Holding(j) => StillHolds(j),
           \A r \in RunIds : runs[r].status = "requested"
                             => \/ runs'[r] = runs[r]
                                \/ ~Holding(runs[r].job)
    PROVE  HandsStay
<1>1. KeepsRows(runs, runs')
  BY RunsSide DEF RunsGood
<1>2. \A kind : Happened(kind) => Happened(kind)'
  BY FaultsOnlyGrow
<1>3. ASSUME NEW j \in JobIds, NEW r \in RunIds, Out(j, r)
      PROVE  Out(j, r)'
  BY <1>3 DEF Out, StillHolds
<1>4. \A j \in JobIds : Holding(j) => Holding(j)' /\ jobs'[j].kind = jobs[j].kind
  BY DEF StillHolds
<1> QED
  BY <1>1, <1>2, <1>3, <1>4 DEF HandsStay

\* At most job s starts (none does when s is NoJob), and no lease that ran
\* out comes back.
OnlyStarts(s) ==
    /\ \A j \in JobIds \ {s} :
          Holding(j)' => Holding(j) /\ jobs'[j].kind = jobs[j].kind
    /\ s \in JobIds => /\ Starts(s) /\ jobs'[s].kind = jobs[s].kind
                       /\ jobs'[s].status = "running"

\* No ingest job ends.
NoneEnds ==
    \A j \in JobIds :
        jobs'[j].status \in {"done", "failed"} /\ jobs'[j].kind \in ExecutorKinds
        => jobs[j].status = jobs'[j].status

LEMMA CompatibleStep ==
    ASSUME IngestInv, [IngestNext]_allVars, HoldersAreCompatible,
           NEW s \in JobIds \cup {NoJob}, OnlyStarts(s)
    PROVE  HoldersAreCompatible'
<1>1. \A j \in JobIds : Starts(s) /\ s \in JobIds /\ s # j /\ Holding(j)
                        => ~Conflict(jobs[s].kind, jobs[j].kind)
  <2> SUFFICES ASSUME NEW j \in JobIds, Starts(s), s \in JobIds, Holding(j)
               PROVE  ~Conflict(jobs[s].kind, jobs[j].kind)
    OBVIOUS
  <2>1. jobs[s] \in Start(Rows("queued"), Rows("running"), now)
    BY Parts, IngestStep, RowMoves DEF MayStart
  <2>2. jobs[j] \in Live(Rows("running"), now)
    BY DEF Live, Rows, Holding, Running
  <2> QED
    BY <2>1, <2>2 DEF Start, Conflict
<1> SUFFICES ASSUME NEW i \in JobIds, NEW j \in JobIds, i # j,
                    Holding(i)', Holding(j)'
             PROVE  ~Conflict(jobs'[i].kind, jobs'[j].kind)
  BY DEF HoldersAreCompatible
<1>2. CASE i # s /\ j # s
  BY <1>2 DEF OnlyStarts, HoldersAreCompatible
<1>3. CASE i = s
  BY <1>1, <1>3 DEF OnlyStarts
<1>4. CASE j = s
  <2>1. ~Conflict(jobs[j].kind, jobs[i].kind)
    BY <1>1, <1>4 DEF OnlyStarts
  <2> QED
    BY <1>4, <2>1 DEF OnlyStarts, Conflict
<1> QED
  BY <1>2, <1>3, <1>4

(* A run's outcome and the slot of a job that ended both stay.             *)
LEMMA EndedRowStays ==
    ASSUME IngestInv, [IngestNext]_allVars, EndedJobRanItsSlot,
           NEW j \in JobIds, jobs[j].status \in {"done", "failed"},
           jobs'[j].kind \in ExecutorKinds
    PROVE  \E r \in RunIds : /\ runs'[r].kind = jobs'[j].kind
                             /\ runs'[r].slot = jobs'[j].slot
                             /\ runs'[r].status \in {"done", "failed"}
<1>1. jobs'[j].kind = jobs[j].kind /\ jobs'[j].slot = jobs[j].slot
  BY IngestStep DEF SlotsStay, SlotDealt, Present
<1>2. PICK r \in RunIds : /\ runs[r].kind = jobs[j].kind
                          /\ runs[r].slot = jobs[j].slot
                          /\ runs[r].status \in {"done", "failed"}
  BY <1>1 DEF EndedJobRanItsSlot
<1>3. runs'[r] = runs[r]
  BY <1>2, RunsSide DEF RunsGood, OutcomeStaysStep
<1> QED
  BY <1>1, <1>2, <1>3

LEMMA EndedStep ==
    ASSUME IngestInv, [IngestNext]_allVars, EndedJobRanItsSlot, NoneEnds
    PROVE  EndedJobRanItsSlot'
<1> SUFFICES ASSUME NEW j \in JobIds, jobs'[j].status \in {"done", "failed"},
                    jobs'[j].kind \in ExecutorKinds
             PROVE  \E r \in RunIds : /\ runs'[r].kind = jobs'[j].kind
                                      /\ runs'[r].slot = jobs'[j].slot
                                      /\ runs'[r].status \in {"done", "failed"}
  BY DEF EndedJobRanItsSlot
<1>1. jobs[j].status \in {"done", "failed"}
  BY DEF NoneEnds
<1> QED
  BY <1>1, EndedRowStays

-----------------------------------------------------------------------------
(* The jobs' side of the steps. *)

\* No job that holds its resource gives it up.
NoneLeaves == \A j \in JobIds : Holding(j) => StillHolds(j)

LEMMA DealtSide ==
    ASSUME TypeOK, SlotDealt, UNCHANGED now
    PROVE  NoneLeaves /\ OnlyStarts(NoJob) /\ NoneEnds
<1>1. PICK id \in JobIds :
         /\ \A i \in JobIds \ {id} : jobs'[i] = jobs[i]
         /\ jobs'[id].status = "queued"
         /\ jobs[id].status # "running"
  BY DEF SlotDealt, Present
<1> QED
  BY <1>1 DEF NoneLeaves, OnlyStarts, NoneEnds, StillHolds, Holding, Running,
              JobIds, NoJob

LEMMA EnqueueSide ==
    ASSUME IngestInv, SchedulerEnqueues \/ RunByHand \/ AgentEnqueues
    PROVE  NoneLeaves /\ OnlyStarts(NoJob) /\ NoneEnds
<1>1. SlotDealt
  BY SchedulerDeals, RunByHandDeals, DeployEnqueueDeals, Parts DEF AgentEnqueues
<1>2. UNCHANGED now
  BY DEF SchedulerEnqueues, RunByHand, AgentEnqueues, ScheduleRun,
         enqueueIngestRun, startManualIngestRun, retryJob, enqueueDeploy
<1> QED
  BY <1>1, <1>2, Parts, DealtSide

LEMMA CancelJobSide ==
    ASSUME IngestInv, NEW j \in JobIds, cancelQueuedJob(j)
    PROVE  NoneLeaves /\ OnlyStarts(NoJob) /\ NoneEnds
<1>1. /\ \A i \in JobIds \ {j} : jobs'[i] = jobs[i]
      /\ jobs[j].status = "queued" /\ jobs'[j].status = "cancelled" /\ now' = now
  BY Parts DEF cancelQueuedJob, Job
<1> QED
  BY <1>1 DEF NoneLeaves, OnlyStarts, NoneEnds, StillHolds, Holding, Running,
              JobIds, NoJob

LEMMA HeartbeatSide ==
    ASSUME IngestInv, NEW j \in JobIds, heartbeatJob(j), Holding(j)
    PROVE  NoneLeaves /\ OnlyStarts(NoJob) /\ NoneEnds
<1>1. /\ \A i \in JobIds \ {j} : jobs'[i] = jobs[i]
      /\ jobs'[j] = [jobs[j] EXCEPT !.beat = now] /\ now' = now
  BY Parts DEF heartbeatJob
<1>2. /\ jobs'[j] \in Job /\ jobs'[j].beat = now /\ jobs'[j].status = "running"
      /\ jobs'[j].kind = jobs[j].kind /\ jobs'[j].slot = jobs[j].slot
  BY <1>1, Parts DEF Job, Holding, Running
<1>3. StillHolds(j)
  BY <1>1, <1>2, Parts, FreshLease DEF StillHolds, Holding, Running
<1>4. \A i \in JobIds \ {j} : (Holding(i)' <=> Holding(i)) /\ jobs'[i] = jobs[i]
  BY <1>1 DEF Holding, Running
<1>5. NoneLeaves
  BY <1>3, <1>4 DEF NoneLeaves, StillHolds
<1>6. OnlyStarts(NoJob)
  BY <1>2, <1>4 DEF OnlyStarts, JobIds, NoJob
<1>7. NoneEnds
  BY <1>2, <1>4 DEF NoneEnds
<1> QED
  BY <1>5, <1>6, <1>7

(* A row after the write-offs of a tick. *)
LEMMA WrittenOffSide ==
    ASSUME IngestInv, UNCHANGED now, NEW i \in JobIds, JobAfterWriteOffs(i)
    PROVE  /\ Holding(i) => StillHolds(i)
           /\ Holding(i)' => Holding(i) /\ jobs'[i].kind = jobs[i].kind
           /\ jobs'[i].status \in {"done", "failed"}
              => jobs[i].status = jobs'[i].status
<1>1. jobs[i] \in Job
  BY Parts
<1>2. CASE jobs'[i] = WrittenOff(jobs[i])
  BY <1>1, <1>2, WrittenOffRow DEF StillHolds, Holding, Running, WrittenOff
<1>3. CASE jobs[i].status = "queued" /\ jobs'[i].status = "superseded"
  BY <1>3 DEF StillHolds, Holding, Running
<1> QED
  BY <1>2, <1>3 DEF JobAfterWriteOffs

LEMMA ClaimSide ==
    ASSUME IngestInv, NEW j \in JobIds, claimNextJob(j)
    PROVE  /\ NoneLeaves /\ OnlyStarts(j) /\ NoneEnds
           /\ Holding(j)' /\ jobs'[j].kind = jobs[j].kind
           /\ jobs[j].kind \in ClaimKinds
<1>1. /\ \A i \in JobIds \ {j} : jobs'[i] = jobs[i]
      /\ jobs'[j] = Claimed(jobs[j]) /\ now' = now
      /\ jobs[j].status = "queued" /\ jobs[j].kind \in ClaimKinds
  BY Parts DEF claimNextJob, MayStart
<1>2. /\ jobs'[j] \in Job /\ jobs'[j].kind = jobs[j].kind
      /\ jobs'[j].status = "running" /\ jobs'[j].beat = now
  BY <1>1, Parts, ClaimedRow DEF Claimed, Job
<1>3. Holding(j)'
  BY <1>1, <1>2, Parts, FreshLease DEF Holding, Running
<1> QED
  BY <1>1, <1>2, <1>3 DEF NoneLeaves, OnlyStarts, NoneEnds, StillHolds, Holding,
                          Running, Starts

-----------------------------------------------------------------------------
(* One run at a time. *)

(* An ingest job that is out is the only one. *)
LEMMA OneIsOut ==
    ASSUME IngestInv, NEW i, NEW q \in RunIds, NEW j, NEW r \in RunIds,
           Out(i, q), Out(j, r)
    PROVE  i = j /\ q = r /\ jobs[i].kind \in ExecutorKinds
<1>1. runs[q].kind \in ExecutorKinds /\ runs[r].kind \in ExecutorKinds
  BY Parts DEF Run
<1>2. i = j
  BY <1>1 DEF Out, Holding, IngestInv, QueueInv, OneExecutorJobRunning
<1>3. q = r
  BY <1>2 DEF Out, IngestInv, RunsInv, OneRunPerSlot, Present
<1> QED
  BY <1>1, <1>2, <1>3 DEF Out

(* A deploy that is held leaves nothing out. *)
LEMMA DeployExcludes ==
    ASSUME IngestInv, HoldersAreCompatible, NEW d \in JobIds, Holding(d),
           jobs[d].kind \in ClaimKinds
    PROVE  \A j \in JobIds : Holding(j) => jobs[j].kind \notin ExecutorKinds
<1> SUFFICES ASSUME NEW j \in JobIds, Holding(j), jobs[j].kind \in ExecutorKinds
             PROVE  FALSE
  OBVIOUS
<1>1. j # d
  BY DEF ClaimKinds
<1>2. Conflict(jobs[d].kind, jobs[j].kind)
  BY ClaimAssumption DEF Conflict
<1> QED
  BY <1>1, <1>2 DEF HoldersAreCompatible

LEMMA OutIsIngest ==
    ASSUME IngestInv, NEW j, NEW r \in RunIds, Out(j, r)
    PROVE  j \in JobIds /\ Holding(j) /\ jobs[j].kind \in ExecutorKinds
BY Parts DEF Out, Run

(* What the hands hold, in its types. *)
LEMMA HandsTyped ==
    ASSUME IngestInv
    PROVE  /\ \A r \in wire : r \in Request /\ r.run \in RunIds
           /\ service.current # NoRequest => service.current.run \in RunIds
           /\ service.ran \subseteq RunIds
           /\ service \in [current : Request \cup {NoRequest}, ran : SUBSET RunIds]
           /\ agent # AgentIdle <=> agent.job # NoJob
<1>1. /\ wire \subseteq Request
      /\ service \in [current : Request \cup {NoRequest}, ran : SUBSET RunIds]
      /\ agent \in [phase : {"idle", "deploying", "restarted", "rolled-back"},
                    job : JobIds \cup {NoJob}]
      /\ agent.phase = "idle" <=> agent.job = NoJob
  BY DEF IngestInv, IngestTypeOK
<1> QED
  BY <1>1 DEF Request, AgentIdle

-----------------------------------------------------------------------------
(* The steps that leave every hand as it is. *)

LEMMA InHandsStep ==
    ASSUME IngestInv, WorkersInv, [IngestNext]_allVars,
           NEW s \in JobIds \cup {NoJob}, OnlyStarts(s),
           s \in JobIds => jobs[s].kind \in ClaimKinds,
           exec' = exec, service.ran \subseteq service'.ran
    PROVE  RunningJobIsInHands'
<1>1. KeepsRows(runs, runs')
  BY RunsSide DEF RunsGood
<1>2. \A kind : Happened(kind) => Happened(kind)'
  BY FaultsOnlyGrow
<1>3. \A r \in service.ran : Present(runs[r]) /\ r \in RunIds
  BY HandsTyped DEF WorkersInv, HandsInv, RanHasRow
<1> SUFFICES ASSUME NEW j \in JobIds, Holding(j)', jobs'[j].kind \in ExecutorKinds
             PROVE  \/ exec'.job = j
                    \/ \E r \in service'.ran : runs'[r].job = j
                    \/ Happened("service-crash")'
  BY DEF RunningJobIsInHands
<1>4. Holding(j) /\ jobs[j].kind \in ExecutorKinds
  BY DEF OnlyStarts, ClaimKinds
<1>5. \/ exec.job = j
      \/ \E r \in service.ran : runs[r].job = j
      \/ Happened("service-crash")
  BY <1>4 DEF WorkersInv, RunningJobIsInHands
<1> QED
  BY <1>1, <1>2, <1>3, <1>5 DEF KeepsRows

LEMMA HandsQuiet ==
    ASSUME IngestInv, HandsInv, HandsStay,
           UNCHANGED <<exec, wire, answer, service, reports, agent>>
    PROVE  HandsInv'
<1> USE DEF HandsInv
<1>1. \A j : \A r \in RunIds : Out(j, r) => Out(j, r)'
  BY DEF HandsStay, Out
<1>2. RequestIsAwaited'
  BY <1>1, HandsTyped DEF RequestIsAwaited
<1>3. UnansweredIsUnread'
  BY DEF UnansweredIsUnread, HandsStay, Awaited
<1>4. \A r \in service.ran : Present(runs[r])' /\ runs'[r].job = runs[r].job
  BY HandsTyped DEF RanHasRow, HandsStay, KeepsRows, Present
<1>5. AcceptedWasTaken'
  BY <1>4 DEF AcceptedWasTaken, HandsStay
<1>6. InProgressIsOut'
  BY <1>1, HandsTyped DEF InProgressIsOut
<1>7. ReportIsOut'
  <2>1. ASSUME NEW p \in reports
        PROVE  Out(runs[p.run].job, p.run)'
    <3>1. PICK j : j = runs[p.run].job
      OBVIOUS
    <3>2. Out(j, p.run)'
      BY <1>1, <2>1, <3>1, Parts DEF ReportIsOut
    <3>3. runs'[p.run].job = j
      BY <3>2 DEF Out
    <3> QED
      BY <3>2, <3>3
  <2> QED
    BY <2>1 DEF ReportIsOut, Out
<1>8. AgentHolds'
  BY Parts DEF AgentHolds, HandsStay
<1>9. RanHasRow'
  BY <1>4 DEF RanHasRow, Present
<1>10. NeverBusy'
  BY DEF NeverBusy
<1> QED
  BY <1>2, <1>3, <1>5, <1>6, <1>7, <1>8, <1>9, <1>10

LEMMA QuietKeeps ==
    ASSUME IngestInv, WorkersInv, [IngestNext]_allVars,
           NoneLeaves, NoneEnds,
           NEW s \in JobIds \cup {NoJob}, OnlyStarts(s),
           s \in JobIds => jobs[s].kind \in ClaimKinds,
           \A r \in RunIds : runs[r].status = "requested"
                             => runs'[r] = runs[r] \/ ~Holding(runs[r].job),
           UNCHANGED <<exec, wire, answer, service, reports, agent>>
    PROVE  WorkersInv'
<1>1. HandsInv'
  BY HandsStayWhen, HandsQuiet DEF NoneLeaves, WorkersInv
<1>2. RunningJobIsInHands'
  BY InHandsStep
<1> QED
  BY <1>1, <1>2, CompatibleStep, EndedStep DEF WorkersInv

-----------------------------------------------------------------------------
(* The producers, the ticks and the heartbeats: no hand moves. *)

\* A run that is requested keeps its row, unless its job has lost its lease.
RequestsKept ==
    \A r \in RunIds : runs[r].status = "requested"
                      => runs'[r] = runs[r] \/ ~Holding(runs[r].job)

LEMMA ProducersKeep ==
    ASSUME IngestInv, WorkersInv, [IngestNext]_allVars,
           \/ SchedulerSkips \/ SchedulerEnqueues \/ RunByHand \/ AgentEnqueues
           \/ (\E j \in JobIds : CancelByHand(j))
    PROVE  WorkersInv'
<1>1. CASE SchedulerEnqueues \/ RunByHand \/ AgentEnqueues
  <2>1. /\ UNCHANGED <<runs, exec, wire, answer, service, reports, agent>>
    BY <1>1 DEF SchedulerEnqueues, RunByHand, AgentEnqueues, network,
       ScheduleRun, enqueueIngestRun, startManualIngestRun, retryJob, enqueueDeploy
  <2> QED
    BY <1>1, <2>1, EnqueueSide, QuietKeeps DEF JobIds, NoJob
<1>2. CASE SchedulerSkips
  <2>1. UNCHANGED <<jobs, now, exec, wire, answer, service, reports, agent>>
    BY <1>2 DEF SchedulerSkips, network
  <2>2. NoneLeaves /\ NoneEnds /\ OnlyStarts(NoJob)
    BY <2>1 DEF NoneLeaves, NoneEnds, OnlyStarts, StillHolds, Holding, Running,
                JobIds, NoJob
  <2>3. RequestsKept
    BY <1>2, Parts DEF SchedulerSkips, markIngestRunSkipped, RequestsKept
  <2> QED
    BY <2>1, <2>2, <2>3, QuietKeeps DEF RequestsKept, JobIds, NoJob
<1>3. ASSUME NEW j \in JobIds, CancelByHand(j)
      PROVE  WorkersInv'
  <2>1. UNCHANGED <<exec, wire, answer, service, reports, agent>>
    BY <1>3 DEF CancelByHand, cancelQueuedJob, network
  <2>2. NoneLeaves /\ NoneEnds /\ OnlyStarts(NoJob)
    BY <1>3, CancelJobSide DEF CancelByHand
  <2>3. RequestsKept
    BY <1>3, Parts DEF CancelByHand, markIngestRunSkipped, RequestsKept
  <2> QED
    BY <2>1, <2>2, <2>3, QuietKeeps DEF RequestsKept, JobIds, NoJob
<1> QED
  BY <1>1, <1>2, <1>3

LEMMA HeartbeatsKeep ==
    ASSUME IngestInv, WorkersInv, [IngestNext]_allVars,
           ServiceHeartbeats \/ AgentHeartbeats
    PROVE  WorkersInv'
<1>1. PICK j \in JobIds : heartbeatJob(j) /\ Holding(j)
  <2>1. CASE ServiceHeartbeats
    BY <2>1 DEF ServiceHeartbeats, WorkersInv, HandsInv, InProgressIsOut, Out
  <2>2. CASE AgentHeartbeats
    <3>1. agent # AgentIdle
      BY <2>2 DEF AgentHeartbeats, AgentIdle
    <3> QED
      BY <2>2, <3>1, Parts DEF AgentHeartbeats, WorkersInv, HandsInv, AgentHolds
  <2> QED
    BY <2>1, <2>2
<1>2. UNCHANGED <<runs, exec, wire, answer, service, reports, agent>>
  BY DEF ServiceHeartbeats, AgentHeartbeats, heartbeatJob, network
<1> QED
  BY <1>1, <1>2, HeartbeatSide, QuietKeeps DEF JobIds, NoJob

(* A requested run of the write-offs is one whose job's lease ran out. *)
LEMMA WriteOffsKeepRequests ==
    ASSUME IngestInv, NEW r \in RunIds, RunAfterWriteOffs(r),
           runs[r].status = "requested"
    PROVE  runs'[r] = runs[r] \/ ~Holding(runs[r].job)
<1>1. CASE r \in LostRuns
  BY <1>1 DEF LostRuns, InFlight, Holding
<1> QED
  BY <1>1 DEF RunAfterWriteOffs

\* A tick that starts nothing.
TickWithoutStart ==
    /\ \A i \in JobIds : JobAfterWriteOffs(i)
    /\ \A r \in RunIds : RunAfterWriteOffs(r)
    /\ exec' = exec
    /\ UNCHANGED <<wire, answer, service, reports, agent, faults>>

LEMMA TickWithoutStartKeeps ==
    ASSUME IngestInv, WorkersInv, ExecutorTick, TickWithoutStart
    PROVE  WorkersInv'
<1>1. [IngestNext]_allVars /\ UNCHANGED now
  BY DEF IngestNext, ExecutorTick, ExecutorWritesOff, ExecutorDispatches,
         ExecutorSupersedes, TickWritesOff, TickStarts, TickSupersedes
<1>2. NoneLeaves
  BY <1>1, WrittenOffSide DEF TickWithoutStart, NoneLeaves
<1>3. NoneEnds
  BY <1>1, WrittenOffSide DEF TickWithoutStart, NoneEnds
<1>4. OnlyStarts(NoJob)
  BY <1>1, WrittenOffSide DEF TickWithoutStart, OnlyStarts, JobIds, NoJob
<1>5. RequestsKept
  BY WriteOffsKeepRequests DEF TickWithoutStart, RequestsKept
<1> QED
  BY <1>1, <1>2, <1>3, <1>4, <1>5, QuietKeeps
  DEF TickWithoutStart, RequestsKept, JobIds, NoJob

-----------------------------------------------------------------------------
(* A dispatch: the job that starts found no other at the service. *)

\* A tick that starts job j for run id.
TickWithStart(j, id) ==
    /\ ExecutorDispatches(j)
    /\ jobs[j].status = "queued" /\ jobs[j].kind \in ExecutorKinds
    /\ jobs'[j] = Claimed(jobs[j])
    /\ \A i \in JobIds \ {j} : JobAfterWriteOffs(i)
    /\ runs'[id] = RunRow("requested", jobs[j].kind, jobs[j].slot, j)
    /\ Present(runs[id]) => runs[id].job = j
    /\ \A r \in RunIds \ {id} : RunAfterWriteOffs(r)
    /\ exec' = [job |-> j, at |-> now]
    /\ wire' = wire \cup {[run |-> id, job |-> j, at |-> now]}
    /\ answer' = "none"
    /\ UNCHANGED <<service, reports, agent, faults>>

LEMMA TickWithStartKeeps ==
    ASSUME IngestInv, WorkersInv, NEW j \in JobIds, NEW id \in RunIds,
           TickWithStart(j, id)
    PROVE  WorkersInv'
<1>0. /\ [IngestNext]_allVars /\ now' = now
      /\ exec = Idle /\ MayStart(j)
  BY DEF IngestNext, ExecutorTick, TickWithStart, ExecutorDispatches, TickStarts,
         Dispatchable
<1>a. jobs \in [JobIds -> Job] /\ now \in Nat /\ jobs[j] \in Job
  BY Parts
<1>1. /\ jobs'[j].kind = jobs[j].kind /\ jobs'[j].slot = jobs[j].slot
      /\ jobs'[j].status = "running" /\ Holding(j)' /\ Starts(j)
  <2>1. /\ jobs'[j] \in Job /\ jobs'[j].kind = jobs[j].kind
        /\ jobs'[j].slot = jobs[j].slot
        /\ jobs'[j].status = "running" /\ jobs'[j].beat = now
    BY <1>a DEF TickWithStart, Claimed, Job, JobStatus
  <2>2. ~LeaseExpired(jobs'[j], now')
    BY <1>0, <1>a, <2>1, FreshLease
  <2> QED
    BY <2>1, <2>2 DEF Holding, Running, Starts, TickWithStart
<1>2. ASSUME NEW i \in JobIds, Holding(i)
      PROVE  jobs[i].kind \notin ExecutorKinds
  <2>1. jobs[i] \in Live(Rows("running"), now)
    BY <1>2 DEF Live, Rows, Holding, Running
  <2>2. ~Conflict(jobs[i].kind, jobs[j].kind)
    BY <1>0, <2>1 DEF MayStart, Start
  <2> QED
    BY <2>2, ExecutorAssumption DEF Conflict, TickWithStart
<1>3. wire = {} /\ service.current = NoRequest /\ reports = {}
  <2>1. \A i : \A r \in RunIds : ~Out(i, r)
    BY <1>2, OutIsIngest
  <2>2. wire = {}
    BY <2>1, HandsTyped DEF WorkersInv, HandsInv, RequestIsAwaited
  <2>3. service.current = NoRequest
    BY <2>1, HandsTyped DEF WorkersInv, HandsInv, InProgressIsOut
  <2>4. reports = {}
    BY <2>1, Parts DEF WorkersInv, HandsInv, ReportIsOut
  <2> QED
    BY <2>2, <2>3, <2>4
<1>4. Out(j, id)'
  BY <1>1 DEF Out, TickWithStart, RunRow
<1>5. \A i \in JobIds \ {j} : /\ Holding(i) => StillHolds(i)
                              /\ Holding(i)' => Holding(i)
                                                /\ jobs'[i].kind = jobs[i].kind
  BY <1>0, WrittenOffSide DEF TickWithStart
<1>6. NoneEnds
  BY <1>0, <1>1, WrittenOffSide DEF TickWithStart, NoneEnds
<1>7. OnlyStarts(j)
  BY <1>1, <1>5 DEF OnlyStarts
<1>8. KeepsRows(runs, runs')
  BY <1>0, RunsSide DEF RunsGood
<1>9. HandsInv'
  <2>1. wire' = {[run |-> id, job |-> j, at |-> now]}
    BY <1>3 DEF TickWithStart
  <2>2. RequestIsAwaited'
    BY <1>4, <2>1 DEF RequestIsAwaited, TickWithStart
  <2>3. UnansweredIsUnread'
    BY <1>3, <2>1 DEF UnansweredIsUnread, TickWithStart, Awaited
  <2>4. AcceptedWasTaken' /\ NeverBusy'
    BY DEF AcceptedWasTaken, NeverBusy, TickWithStart
  <2>5. InProgressIsOut' /\ ReportIsOut'
    BY <1>3 DEF InProgressIsOut, ReportIsOut, TickWithStart
  <2>6. AgentHolds'
    <3> SUFFICES ASSUME agent # AgentIdle
                 PROVE  Holding(agent.job)' /\ jobs'[agent.job].kind \in ClaimKinds
      BY DEF AgentHolds, TickWithStart
    <3>1. /\ agent.job \in JobIds /\ Holding(agent.job)
          /\ jobs[agent.job].kind \in ClaimKinds
      BY Parts DEF WorkersInv, HandsInv, AgentHolds
    <3> QED
      BY <3>1, <1>5 DEF ClaimKinds, TickWithStart, StillHolds
  <2>7. RanHasRow'
    BY <1>8, HandsTyped DEF WorkersInv, HandsInv, RanHasRow, KeepsRows, TickWithStart
  <2> QED
    BY <2>2, <2>3, <2>4, <2>5, <2>6, <2>7 DEF HandsInv
<1>10. RunningJobIsInHands'
  <2> SUFFICES ASSUME NEW i \in JobIds, Holding(i)', jobs'[i].kind \in ExecutorKinds
               PROVE  exec'.job = i
    BY DEF RunningJobIsInHands
  <2>1. i = j
    BY <1>2, <1>5
  <2> QED
    BY <2>1 DEF TickWithStart
<1> QED
  BY <1>0, <1>6, <1>7, <1>9, <1>10, CompatibleStep, EndedStep DEF WorkersInv

LEMMA TicksKeep ==
    ASSUME IngestInv, WorkersInv, ExecutorTick
    PROVE  WorkersInv'
<1>1. TickWithoutStart \/ \E j \in JobIds, id \in RunIds : TickWithStart(j, id)
  BY TickEffect DEF TickWithoutStart, TickWithStart
<1> QED
  BY <1>1, TickWithoutStartKeeps, TickWithStartKeeps

-----------------------------------------------------------------------------
(* A run from hand to hand. *)

(* Steps that leave the jobs and the runs alone. *)
LEMMA SameTables ==
    ASSUME IngestInv, [IngestNext]_allVars, UNCHANGED <<jobs, now, runs>>
    PROVE  NoneLeaves /\ NoneEnds /\ OnlyStarts(NoJob) /\ HandsStay
<1>1. NoneLeaves /\ NoneEnds /\ OnlyStarts(NoJob)
  BY DEF NoneLeaves, NoneEnds, OnlyStarts, StillHolds, Holding, Running,
         JobIds, NoJob
<1> QED
  BY <1>1, HandsStayWhen DEF NoneLeaves

(* What HandsStay means for each hand. *)
LEMMA HandsCarry ==
    ASSUME IngestInv, HandsInv, HandsStay
    PROVE  /\ \A j : \A r \in RunIds : Out(j, r) => Out(j, r)'
           /\ \A r \in wire : Out(r.job, r.run)'
           /\ \A r \in service.ran : Present(runs'[r]) /\ runs'[r].job = runs[r].job
           /\ UNCHANGED agent => AgentHolds'
<1>1. \A j : \A r \in RunIds : Out(j, r) => Out(j, r)'
  BY DEF HandsStay, Out
<1>2. \A r \in wire : Out(r.job, r.run)'
  BY <1>1, HandsTyped DEF HandsInv, RequestIsAwaited
<1>3. \A r \in service.ran : Present(runs'[r]) /\ runs'[r].job = runs[r].job
  BY HandsTyped DEF HandsInv, RanHasRow, HandsStay, KeepsRows
<1>4. UNCHANGED agent => AgentHolds'
  BY Parts DEF HandsInv, AgentHolds, HandsStay
<1> QED
  BY <1>1, <1>2, <1>3, <1>4

LEMMA AcceptedKeeps ==
    ASSUME IngestInv, WorkersInv, [IngestNext]_allVars, AnswerAccepted
    PROVE  WorkersInv'
<1>1. /\ exec # Idle /\ answer = "accepted" /\ exec' = Idle /\ answer' = "none"
      /\ UNCHANGED <<jobs, now, runs, wire, service, reports, agent>>
  BY DEF AnswerAccepted, DispatchAccepted
<1>2. NoneEnds /\ OnlyStarts(NoJob) /\ HandsStay
  BY <1>1, SameTables
<1>3. wire = {}
  BY <1>1 DEF WorkersInv, HandsInv, RequestIsAwaited
<1>4. HandsInv'
  <2> USE DEF WorkersInv, HandsInv
  <2>1. RequestIsAwaited' /\ UnansweredIsUnread' /\ AcceptedWasTaken' /\ NeverBusy'
    BY <1>1, <1>3 DEF RequestIsAwaited, UnansweredIsUnread, AcceptedWasTaken,
                      NeverBusy
  <2>2. InProgressIsOut' /\ ReportIsOut'
    BY <1>1 DEF InProgressIsOut, ReportIsOut, Out, Holding, Running
  <2>3. AgentHolds' /\ RanHasRow'
    BY <1>1, <1>2, HandsCarry DEF AgentHolds, RanHasRow
  <2> QED
    BY <2>1, <2>2, <2>3
<1>5. RunningJobIsInHands'
  <2> SUFFICES ASSUME NEW j \in JobIds, Holding(j)', jobs'[j].kind \in ExecutorKinds
               PROVE  \/ \E r \in service.ran : runs[r].job = j
                      \/ Happened("service-crash")'
    BY <1>1 DEF RunningJobIsInHands
  <2>1. Holding(j) /\ jobs[j].kind \in ExecutorKinds
    BY <1>1 DEF Holding, Running
  <2>2. \/ \E r \in service.ran : runs[r].job = exec.job
        \/ Happened("service-crash")
    BY <1>1 DEF WorkersInv, HandsInv, AcceptedWasTaken
  <2>3. \/ exec.job = j
        \/ \E r \in service.ran : runs[r].job = j
        \/ Happened("service-crash")
    BY <2>1 DEF WorkersInv, RunningJobIsInHands
  <2> QED
    BY <1>2, <2>2, <2>3 DEF HandsStay
<1> QED
  BY <1>2, <1>4, <1>5, CompatibleStep, EndedStep DEF WorkersInv, JobIds, NoJob

(* Without timeouts a refusal comes from a service that died. *)
LEMMA RefusedKeeps ==
    ASSUME Faults \subseteq WorkerFaults,
           IngestInv, WorkersInv, [IngestNext]_allVars, AnswerRefused
    PROVE  WorkersInv'
<1>1. /\ exec # Idle /\ exec.job \in JobIds /\ exec' = Idle /\ answer' = "none"
      /\ UNCHANGED <<now, wire, service, reports, agent>>
  BY Parts DEF AnswerRefused, DispatchRefused, TypeOK
<1>2. answer = "none" /\ ~\E r \in wire : Awaited(r)
  BY DEF AnswerRefused, Fault, WorkerFaults, WorkersInv, HandsInv, NeverBusy
<1>3. service.current = NoRequest /\ reports = {} /\ Happened("service-crash")'
  BY <1>1, <1>2, FaultsOnlyGrow DEF WorkersInv, HandsInv, UnansweredIsUnread
<1>4. wire = {}
  BY <1>2 DEF WorkersInv, HandsInv, RequestIsAwaited, Awaited
<1>5. \A i \in JobIds : \/ jobs'[i] = jobs[i]
                        \/ i = exec.job /\ jobs'[i].status = "queued"
  <2>1. CASE ReleaseSucceeds
    <3>1. jobs' = [jobs EXCEPT ![exec.job] = Released(@, exec.at + RetryDelay)]
      BY <2>1 DEF AnswerRefused, DispatchRefused
    <3>2. Released(jobs[exec.job], exec.at + RetryDelay).status = "queued"
      BY <1>1, Parts DEF Released, Job
    <3> QED
      BY <1>1, <3>1, <3>2, Parts
  <2>2. CASE ~ReleaseSucceeds
    BY <2>2 DEF AnswerRefused, DispatchRefused
  <2> QED
    BY <2>1, <2>2
<1>6. OnlyStarts(NoJob) /\ NoneEnds
  BY <1>1, <1>5 DEF OnlyStarts, NoneEnds, Holding, Running, JobIds, NoJob
<1>7. KeepsRows(runs, runs')
  BY RunsSide DEF RunsGood
<1>8. AgentHolds'
  <2> SUFFICES ASSUME agent # AgentIdle
               PROVE  Holding(agent.job)' /\ jobs'[agent.job].kind \in ClaimKinds
    BY <1>1 DEF AgentHolds
  <2>1. /\ agent.job \in JobIds /\ Holding(agent.job)
        /\ jobs[agent.job].kind \in ClaimKinds
    BY Parts DEF WorkersInv, HandsInv, AgentHolds
  <2>2. agent.job # exec.job
    BY <1>1, <2>1 DEF IngestInv, QueueInv, AwaitedJobIsOut, ClaimKinds
  <2> QED
    BY <1>1, <1>5, <2>1, <2>2 DEF Holding, Running
<1>9. RanHasRow'
  BY <1>1, <1>7, HandsTyped DEF WorkersInv, HandsInv, RanHasRow, KeepsRows
<1>10. HandsInv'
  BY <1>1, <1>3, <1>4, <1>8, <1>9
  DEF HandsInv, RequestIsAwaited, UnansweredIsUnread, AcceptedWasTaken, NeverBusy,
      InProgressIsOut, ReportIsOut
<1>11. RunningJobIsInHands'
  BY <1>3 DEF RunningJobIsInHands
<1> QED
  BY <1>6, <1>10, <1>11, CompatibleStep, EndedStep DEF WorkersInv, JobIds, NoJob

LEMMA ReadsKeep ==
    ASSUME Faults \subseteq WorkerFaults,
           IngestInv, WorkersInv, [IngestNext]_allVars,
           NEW r \in wire, ServiceReads(r)
    PROVE  WorkersInv'
<1>1. /\ exec = [job |-> r.job, at |-> r.at] /\ answer = "none" /\ Out(r.job, r.run)
      /\ r \in Request /\ r.run \in RunIds
  BY HandsTyped DEF WorkersInv, HandsInv, RequestIsAwaited
<1>2. exec # Idle /\ Awaited(r)
  BY <1>1, QueueAssumption DEF Idle, NoJob, Out, JobIds, Awaited
<1>3. service.current = NoRequest /\ reports = {}
  BY <1>1, <1>2 DEF WorkersInv, HandsInv, UnansweredIsUnread
<1>4. wire' = {}
  <2>1. ASSUME NEW q \in wire
        PROVE  q = r
    <3>1. /\ exec = [job |-> q.job, at |-> q.at] /\ Out(q.job, q.run)
          /\ q \in Request /\ q.run \in RunIds
      BY HandsTyped DEF WorkersInv, HandsInv, RequestIsAwaited
    <3>2. q.job = r.job /\ q.at = r.at
      BY <1>1, <3>1
    <3>3. q.run = r.run
      BY <1>1, <3>1, OneIsOut
    <3> QED
      BY <1>1, <3>1, <3>2, <3>3 DEF Request
  <2> QED
    BY <2>1 DEF ServiceReads
<1>5. /\ UNCHANGED <<jobs, now, exec, runs, reports, agent>>
      /\ answer' = "accepted"
      /\ \/ service' = service /\ r.run \in service.ran
         \/ service' = [current |-> r, ran |-> service.ran \cup {r.run}]
  BY <1>2, <1>3 DEF ServiceReads, Answered, Fault, WorkerFaults
<1>6. NoneEnds /\ OnlyStarts(NoJob) /\ HandsStay
  BY <1>5, SameTables
<1>7. Out(r.job, r.run)' /\ runs'[r.run].job = exec.job
  BY <1>1, <1>5 DEF Out, Holding, Running
<1>8. r.run \in service'.ran /\ service.ran \subseteq service'.ran
  BY <1>5
<1>9. HandsInv'
  <2>1. RequestIsAwaited' /\ UnansweredIsUnread' /\ NeverBusy'
    BY <1>4, <1>5 DEF RequestIsAwaited, UnansweredIsUnread, NeverBusy
  <2>2. AcceptedWasTaken'
    BY <1>5, <1>7, <1>8 DEF AcceptedWasTaken
  <2>3. InProgressIsOut' /\ ReportIsOut'
    BY <1>3, <1>5, <1>7 DEF InProgressIsOut, ReportIsOut
  <2>4. AgentHolds'
    BY <1>5, <1>6, HandsCarry DEF AgentHolds, WorkersInv
  <2>5. RanHasRow'
    BY <1>1, <1>5 DEF RanHasRow, WorkersInv, HandsInv, Out, Present
  <2> QED
    BY <2>1, <2>2, <2>3, <2>4, <2>5 DEF HandsInv
<1>10. RunningJobIsInHands'
  BY <1>5, <1>6, <1>8, InHandsStep DEF JobIds, NoJob
<1> QED
  BY <1>6, <1>9, <1>10, CompatibleStep, EndedStep DEF WorkersInv, JobIds, NoJob

LEMMA EndsKeep ==
    ASSUME IngestInv, WorkersInv, [IngestNext]_allVars,
           NEW outcome \in {"done", "failed"}, RunEnds(outcome)
    PROVE  WorkersInv'
<1> DEFINE c == service.current
           p == [run |-> c.run, outcome |-> outcome]
<1>1. /\ c # NoRequest /\ c.run \in RunIds /\ c.run \in service.ran /\ reports = {}
      /\ Out(c.job, c.run)
  BY HandsTyped DEF RunEnds, WorkersInv, HandsInv, InProgressIsOut
<1>2. /\ UNCHANGED <<jobs, now, exec, runs, wire, answer, agent>>
      /\ reports' = {p}
  BY <1>1 DEF RunEnds
<1>3. service'.current = NoRequest /\ service'.ran = service.ran
  BY HandsTyped DEF RunEnds
<1>4. NoneEnds /\ OnlyStarts(NoJob) /\ HandsStay
  BY <1>2, SameTables
<1>5. ~(exec # Idle /\ answer = "none") /\ wire = {}
  <2>1. ~(exec # Idle /\ answer = "none")
    BY <1>1 DEF WorkersInv, HandsInv, UnansweredIsUnread
  <2>2. ASSUME NEW r \in wire
        PROVE  FALSE
    <3>1. exec = [job |-> r.job, at |-> r.at] /\ answer = "none" /\ r.job \in JobIds
      BY DEF WorkersInv, HandsInv, RequestIsAwaited, Out
    <3> QED
      BY <2>1, <3>1, QueueAssumption DEF Idle, NoJob, JobIds
  <2> QED
    BY <2>1, <2>2
<1>6. HandsInv'
  <2>1. RequestIsAwaited' /\ UnansweredIsUnread' /\ NeverBusy'
    BY <1>2, <1>5 DEF RequestIsAwaited, UnansweredIsUnread, NeverBusy, WorkersInv,
                      HandsInv
  <2>2. AcceptedWasTaken' /\ RanHasRow'
    BY <1>2, <1>3, <1>4, HandsCarry
    DEF AcceptedWasTaken, RanHasRow, WorkersInv, HandsInv, HandsStay
  <2>3. InProgressIsOut'
    BY <1>3 DEF InProgressIsOut
  <2>4. ReportIsOut'
    <3>1. PICK j \in JobIds, id \in RunIds : j = c.job /\ id = c.run
      BY <1>1 DEF Out
    <3>2. Out(j, id)' /\ runs'[id].job = j /\ id \in service'.ran
      BY <1>1, <1>2, <1>3, <3>1 DEF Out, Holding, Running
    <3>3. \A q \in reports' : q = p /\ q.run = id
      BY <1>2, <3>1
    <3> QED
      BY <3>2, <3>3 DEF ReportIsOut
  <2>5. AgentHolds'
    BY <1>2, <1>4, HandsCarry DEF WorkersInv
  <2> QED
    BY <2>1, <2>2, <2>3, <2>4, <2>5 DEF HandsInv
<1>7. RunningJobIsInHands'
  BY <1>2, <1>3, <1>4, InHandsStep DEF JobIds, NoJob
<1> QED
  BY <1>4, <1>6, <1>7, CompatibleStep, EndedStep DEF WorkersInv, JobIds, NoJob

(* While a report is delivered nothing else is out. *)
LEMMA ReportIsAlone ==
    ASSUME IngestInv, HandsInv, NEW p \in reports
    PROVE  /\ service.current = NoRequest /\ wire = {} /\ reports = {p}
           /\ ~(exec # Idle /\ answer = "none")
           /\ p.run \in RunIds /\ Out(runs[p.run].job, p.run)
<1>1. service.current = NoRequest
  BY DEF HandsInv, InProgressIsOut
<1>2. ~(exec # Idle /\ answer = "none")
  BY DEF HandsInv, UnansweredIsUnread
<1>3. ASSUME NEW r \in wire
      PROVE  FALSE
  <2>1. exec = [job |-> r.job, at |-> r.at] /\ answer = "none" /\ r.job \in JobIds
    BY DEF HandsInv, RequestIsAwaited, Out
  <2> QED
    BY <1>2, <2>1, QueueAssumption DEF Idle, NoJob, JobIds
<1>4. reports = {p} /\ p.run \in RunIds /\ Out(runs[p.run].job, p.run)
  BY Parts DEF HandsInv, ReportIsOut
<1> QED
  BY <1>1, <1>2, <1>3, <1>4

LEMMA DroppedKeeps ==
    ASSUME IngestInv, WorkersInv, [IngestNext]_allVars,
           NEW p \in reports, ReportDropped(p)
    PROVE  WorkersInv'
<1>1. /\ UNCHANGED <<jobs, now, exec, runs, wire, answer, service, agent>>
      /\ reports' = {} /\ service.current = NoRequest /\ wire = {}
      /\ ~(exec # Idle /\ answer = "none")
  BY ReportIsAlone DEF ReportDropped, WorkersInv
<1>2. NoneEnds /\ OnlyStarts(NoJob) /\ HandsStay
  BY <1>1, SameTables
<1>3. HandsInv'
  <2>1. RequestIsAwaited' /\ UnansweredIsUnread' /\ NeverBusy'
    BY <1>1 DEF RequestIsAwaited, UnansweredIsUnread, NeverBusy, WorkersInv, HandsInv
  <2>2. AcceptedWasTaken' /\ RanHasRow'
    BY <1>1, <1>2, HandsCarry
    DEF AcceptedWasTaken, RanHasRow, WorkersInv, HandsInv, HandsStay
  <2>3. InProgressIsOut' /\ ReportIsOut'
    BY <1>1 DEF InProgressIsOut, ReportIsOut
  <2>4. AgentHolds'
    BY <1>1, <1>2, HandsCarry DEF WorkersInv
  <2> QED
    BY <2>1, <2>2, <2>3, <2>4 DEF HandsInv
<1>4. RunningJobIsInHands'
  BY <1>1, <1>2, InHandsStep DEF JobIds, NoJob
<1> QED
  BY <1>2, <1>3, <1>4, CompatibleStep, EndedStep DEF WorkersInv, JobIds, NoJob

(* The job of an arriving report is running, and the run is of its slot. *)
LEMMA ArrivesKeeps ==
    ASSUME IngestInv, WorkersInv, [IngestNext]_allVars,
           NEW p \in reports, ReportArrives(p)
    PROVE  WorkersInv'
<1> DEFINE id == p.run
           j == runs[id].job
<1>1. /\ service.current = NoRequest /\ wire = {} /\ reports = {p}
      /\ ~(exec # Idle /\ answer = "none")
      /\ id \in RunIds /\ Out(j, id) /\ p.outcome \in {"done", "failed"}
  BY ReportIsAlone, Parts DEF WorkersInv
<1>2. /\ j \in JobIds /\ Holding(j) /\ jobs[j].kind \in ExecutorKinds
      /\ runs[id].kind = jobs[j].kind /\ runs[id].slot = jobs[j].slot
      /\ jobs[j].status = "running"
  BY <1>1, OutIsIngest DEF Out, Holding, Running
<1>3. /\ jobs' = [jobs EXCEPT ![j].status = p.outcome]
      /\ runs' = [runs EXCEPT ![id].status = p.outcome]
      /\ UNCHANGED <<now, exec, wire, answer, service, agent>> /\ reports' = {}
  BY <1>1, <1>2 DEF ReportArrives, completeJob
<1>4. /\ \A i \in JobIds \ {j} : jobs'[i] = jobs[i]
      /\ jobs'[j].status = p.outcome /\ jobs'[j].kind = jobs[j].kind
      /\ jobs'[j].slot = jobs[j].slot
      /\ runs'[id].status = p.outcome
      /\ runs'[id].kind = jobs[j].kind /\ runs'[id].slot = jobs[j].slot
  <2>1. jobs[j] \in Job /\ runs[id] \in Run
    BY <1>1, <1>2, Parts
  <2> QED
    BY <1>1, <1>2, <1>3, <2>1, Parts DEF Job, Run
<1> HIDE DEF id, j
<1>5. OnlyStarts(NoJob)
  BY <1>1, <1>3, <1>4 DEF OnlyStarts, Holding, Running, JobIds, NoJob
<1>6. KeepsRows(runs, runs')
  BY RunsSide DEF RunsGood
<1>7. \A kind : Happened(kind) => Happened(kind)'
  BY FaultsOnlyGrow
<1>8. \A r \in service.ran : Present(runs'[r]) /\ runs'[r].job = runs[r].job
  BY <1>6, HandsTyped DEF WorkersInv, HandsInv, RanHasRow, KeepsRows
<1>9. AgentHolds'
  <2> SUFFICES ASSUME agent # AgentIdle
               PROVE  Holding(agent.job)' /\ jobs'[agent.job].kind \in ClaimKinds
    BY <1>3 DEF AgentHolds
  <2>1. /\ agent.job \in JobIds /\ Holding(agent.job)
        /\ jobs[agent.job].kind \in ClaimKinds
    BY Parts DEF WorkersInv, HandsInv, AgentHolds
  <2>2. agent.job # j
    BY <1>2, <2>1 DEF ClaimKinds
  <2> QED
    BY <1>3, <1>4, <2>1, <2>2 DEF Holding, Running
<1>10. HandsInv'
  <2>1. RequestIsAwaited' /\ UnansweredIsUnread' /\ NeverBusy'
    BY <1>1, <1>3 DEF RequestIsAwaited, UnansweredIsUnread, NeverBusy, WorkersInv,
                      HandsInv
  <2>2. AcceptedWasTaken' /\ RanHasRow'
    BY <1>3, <1>7, <1>8 DEF AcceptedWasTaken, RanHasRow, WorkersInv, HandsInv
  <2>3. InProgressIsOut' /\ ReportIsOut'
    BY <1>1, <1>3 DEF InProgressIsOut, ReportIsOut
  <2> QED
    BY <1>9, <2>1, <2>2, <2>3 DEF HandsInv
<1>11. RunningJobIsInHands'
  BY <1>3, <1>5, InHandsStep DEF JobIds, NoJob
<1>12. EndedJobRanItsSlot'
  <2> SUFFICES ASSUME NEW i \in JobIds, jobs'[i].status \in {"done", "failed"},
                      jobs'[i].kind \in ExecutorKinds
               PROVE  \E r \in RunIds : /\ runs'[r].kind = jobs'[i].kind
                                        /\ runs'[r].slot = jobs'[i].slot
                                        /\ runs'[r].status \in {"done", "failed"}
    BY DEF EndedJobRanItsSlot
  <2>1. CASE i = j
    BY <1>1, <1>4, <2>1
  <2>2. CASE i # j
    BY <1>4, <2>2, EndedRowStays DEF WorkersInv
  <2> QED
    BY <2>1, <2>2
<1> QED
  BY <1>5, <1>10, <1>11, <1>12, CompatibleStep DEF WorkersInv, JobIds, NoJob

LEMMA ServiceCrashKeeps ==
    ASSUME IngestInv, WorkersInv, [IngestNext]_allVars, ServiceCrash
    PROVE  WorkersInv'
<1>1. /\ UNCHANGED <<jobs, now, exec, runs, answer, agent>>
      /\ wire' = {} /\ reports' = {}
      /\ service' = [current |-> NoRequest, ran |-> {}]
      /\ Happened("service-crash")'
  BY CrashHappened DEF ServiceCrash, ServiceStops
<1>2. NoneEnds /\ OnlyStarts(NoJob) /\ HandsStay
  BY <1>1, SameTables
<1>3. HandsInv'
  <2>1. AgentHolds'
    BY <1>1, <1>2, HandsCarry DEF WorkersInv
  <2> QED
    BY <1>1, <2>1
    DEF WorkersInv, HandsInv, RequestIsAwaited, UnansweredIsUnread,
        AcceptedWasTaken, InProgressIsOut, ReportIsOut, RanHasRow, NeverBusy
<1>4. RunningJobIsInHands'
  BY <1>1 DEF RunningJobIsInHands
<1> QED
  BY <1>2, <1>3, <1>4, CompatibleStep, EndedStep DEF WorkersInv, JobIds, NoJob

-----------------------------------------------------------------------------
(* The deploy agent. *)

LEMMA ClaimsKeep ==
    ASSUME IngestInv, WorkersInv, [IngestNext]_allVars,
           NEW j \in JobIds, AgentClaims(j)
    PROVE  WorkersInv'
<1>1. /\ UNCHANGED <<exec, runs, wire, answer, service, reports>>
      /\ claimNextJob(j)
  BY DEF AgentClaims, claimNextJob, network
<1>2. /\ NoneLeaves /\ OnlyStarts(j) /\ NoneEnds
      /\ Holding(j)' /\ jobs'[j].kind = jobs[j].kind /\ jobs[j].kind \in ClaimKinds
  BY <1>1, ClaimSide
<1>3. HandsStay
  BY <1>1, <1>2, HandsStayWhen DEF NoneLeaves
<1>4. AgentHolds'
  BY <1>2 DEF AgentHolds, AgentClaims
<1>5. HandsInv'
  <2> USE DEF WorkersInv, HandsInv
  <2>1. RequestIsAwaited'
    BY <1>1, <1>3, HandsCarry DEF RequestIsAwaited
  <2>2. UnansweredIsUnread' /\ NeverBusy'
    BY <1>1, <1>3 DEF UnansweredIsUnread, NeverBusy, Awaited, HandsStay
  <2>3. AcceptedWasTaken' /\ RanHasRow'
    BY <1>1, <1>3, HandsCarry DEF AcceptedWasTaken, RanHasRow, HandsStay
  <2>4. InProgressIsOut'
    BY <1>1, <1>3, HandsCarry, HandsTyped DEF InProgressIsOut
  <2>5. ReportIsOut'
    <3>1. \A p \in reports : Out(runs[p.run].job, p.run)'
      BY <1>1, <1>3, HandsCarry, Parts DEF ReportIsOut
    <3> QED
      BY <1>1, <3>1 DEF ReportIsOut
  <2> QED
    BY <1>4, <2>1, <2>2, <2>3, <2>4, <2>5
<1>6. RunningJobIsInHands'
  BY <1>1, <1>2, InHandsStep
<1> QED
  BY <1>2, <1>5, <1>6, CompatibleStep, EndedStep DEF WorkersInv

(* "Never restart under an ingest run". *)
LEMMA RestartsKeep ==
    ASSUME IngestInv, WorkersInv, [IngestNext]_allVars, AgentRestarts
    PROVE  WorkersInv'
<1>1. /\ UNCHANGED <<jobs, now, runs>> /\ exec' = Idle /\ answer' = "none"
      /\ agent # AgentIdle /\ agent'.job = agent.job
  BY Parts DEF AgentRestarts, ServerRestart, AgentIdle, IngestInv, IngestTypeOK
<1>2. /\ agent.job \in JobIds /\ Holding(agent.job)
      /\ jobs[agent.job].kind \in ClaimKinds
  BY <1>1, Parts DEF WorkersInv, HandsInv, AgentHolds
<1>3. \A j \in JobIds : Holding(j) => jobs[j].kind \notin ExecutorKinds
  BY <1>2, DeployExcludes DEF WorkersInv
<1>4. \A j : \A r \in RunIds : ~Out(j, r)
  BY <1>3, OutIsIngest
<1>5. wire = {} /\ service.current = NoRequest /\ reports = {}
  <2>1. wire = {}
    BY <1>4, HandsTyped DEF WorkersInv, HandsInv, RequestIsAwaited
  <2>2. service.current = NoRequest
    BY <1>4, HandsTyped DEF WorkersInv, HandsInv, InProgressIsOut
  <2>3. reports = {}
    BY <1>4, Parts DEF WorkersInv, HandsInv, ReportIsOut
  <2> QED
    BY <2>1, <2>2, <2>3
<1>6. /\ wire' = {} /\ reports' = {} /\ service'.current = NoRequest
      /\ service'.ran \subseteq service.ran
  BY <1>5 DEF AgentRestarts, ServiceStops
<1>7. NoneEnds /\ OnlyStarts(NoJob)
  BY <1>1, SameTables
<1>8. HandsInv'
  <2>1. AgentHolds'
    BY <1>1, <1>2 DEF AgentHolds, Holding, Running
  <2>2. RanHasRow'
    BY <1>1, <1>6 DEF RanHasRow, WorkersInv, HandsInv
  <2> QED
    BY <1>1, <1>6, <2>1, <2>2
    DEF HandsInv, RequestIsAwaited, UnansweredIsUnread, AcceptedWasTaken,
        InProgressIsOut, ReportIsOut, NeverBusy
<1>9. RunningJobIsInHands'
  BY <1>1, <1>3 DEF RunningJobIsInHands, Holding, Running
<1> QED
  BY <1>7, <1>8, <1>9, CompatibleStep, EndedStep DEF WorkersInv, JobIds, NoJob

(* The agent lets go: of a job it ends, or by dying. *)
LEMMA LetsGoKeeps ==
    ASSUME IngestInv, WorkersInv, [IngestNext]_allVars, AgentCompletes \/ AgentCrash
    PROVE  WorkersInv'
<1>1. /\ agent # AgentIdle /\ agent' = AgentIdle
      /\ UNCHANGED <<now, exec, runs, wire, answer, service, reports>>
  BY DEF AgentCompletes, AgentCrash, completeJob, network
<1> DEFINE d == agent.job
<1>2. d \in JobIds /\ jobs[d].kind \in ClaimKinds /\ Holding(d)
  BY <1>1, Parts DEF WorkersInv, HandsInv, AgentHolds
<1>3. /\ \A i \in JobIds \ {d} : jobs'[i] = jobs[i]
      /\ jobs'[d].kind = jobs[d].kind
      /\ jobs'[d] = jobs[d] \/ jobs'[d].status \in {"done", "failed"}
  <2>1. CASE UNCHANGED jobs
    BY <2>1
  <2>2. CASE \E outcome \in {"done", "failed"} :
               jobs' = [jobs EXCEPT ![d].status = outcome]
    <3>1. jobs[d] \in Job
      BY <1>2, Parts
    <3> QED
      BY <1>2, <2>2, <3>1, Parts DEF Job
  <2> QED
    BY <2>1, <2>2 DEF AgentCompletes, AgentCrash, completeJob
<1> HIDE DEF d
<1>4. NoneEnds /\ OnlyStarts(NoJob)
  BY <1>1, <1>2, <1>3 DEF NoneEnds, OnlyStarts, Holding, Running, ClaimKinds,
                          JobIds, NoJob
<1>5. KeepsRows(runs, runs')
  BY <1>1 DEF KeepsRows
<1>6. \A kind : Happened(kind) => Happened(kind)'
  BY FaultsOnlyGrow
<1>7. \A j : \A r \in RunIds : Out(j, r) => Out(j, r)'
  <2> SUFFICES ASSUME NEW j, NEW r \in RunIds, Out(j, r)
               PROVE  Out(j, r)'
    OBVIOUS
  <2>1. j \in JobIds /\ j # d
    BY <1>2, OutIsIngest DEF ClaimKinds
  <2> QED
    BY <1>1, <1>3, <2>1 DEF Out, Holding, Running
<1>8. HandsInv'
  <2> USE DEF WorkersInv, HandsInv
  <2>1. RequestIsAwaited'
    BY <1>1, <1>7, HandsTyped DEF RequestIsAwaited
  <2>2. UnansweredIsUnread' /\ NeverBusy'
    BY <1>1, <1>6 DEF UnansweredIsUnread, NeverBusy, Awaited
  <2>3. AcceptedWasTaken' /\ RanHasRow'
    BY <1>1, <1>6 DEF AcceptedWasTaken, RanHasRow
  <2>4. InProgressIsOut'
    BY <1>1, <1>7, HandsTyped DEF InProgressIsOut
  <2>5. ReportIsOut'
    <3>1. \A p \in reports : Out(runs[p.run].job, p.run)'
      BY <1>1, <1>7, Parts DEF ReportIsOut
    <3> QED
      BY <1>1, <3>1 DEF ReportIsOut
  <2>6. AgentHolds'
    BY <1>1 DEF AgentHolds
  <2> QED
    BY <2>1, <2>2, <2>3, <2>4, <2>5, <2>6
<1>9. RunningJobIsInHands'
  BY <1>1, <1>4, InHandsStep DEF JobIds, NoJob
<1> QED
  BY <1>4, <1>8, <1>9, CompatibleStep, EndedStep DEF WorkersInv, JobIds, NoJob

-----------------------------------------------------------------------------
(* Time. *)

(* Without stalls nothing that is in a worker's hands outlasts its lease. *)
LEMMA TimeKeeps ==
    ASSUME Faults \subseteq WorkerFaults,
           IngestInv, WorkersInv, [IngestNext]_allVars, TimePasses
    PROVE  WorkersInv'
<1>1. /\ exec = Idle /\ wire = {} /\ reports = {}
      /\ \A j \in JobIds : Alive(j) /\ Running(j)
                           => now + 1 < leaseExpiresAt(jobs[j])
      /\ now' = now + 1
      /\ UNCHANGED <<jobs, exec, runs, wire, answer, service, reports, agent>>
  BY DEF TimePasses, Elapse, Punctual, Fault, WorkerFaults, network
<1>2. \A j \in JobIds : leaseExpiresAt(jobs[j]) \in Nat
  <2> SUFFICES ASSUME NEW j \in JobIds
               PROVE  leaseExpiresAt(jobs[j]) \in Nat
    OBVIOUS
  <2>1. jobs[j] \in Job
    BY Parts
  <2>2. jobs[j].beat \in Nat /\ LeaseOf[jobs[j].kind] \in Nat
    BY <2>1, PolicyAssumption DEF Job
  <2> QED
    BY <2>2 DEF leaseExpiresAt
<1>3. \A j \in JobIds : Holding(j)' => Holding(j)
  BY <1>1, <1>2, Parts DEF Holding, Running, LeaseExpired
<1>4. \A j \in JobIds : Alive(j) /\ Running(j) => Holding(j)'
  BY <1>1, <1>2, Parts DEF Holding, Running, LeaseExpired, leaseExpiresAt
<1>5. NoneEnds /\ OnlyStarts(NoJob)
  BY <1>1, <1>3 DEF NoneEnds, OnlyStarts, JobIds, NoJob
<1>6. \A kind : Happened(kind) => Happened(kind)'
  BY FaultsOnlyGrow
<1>7. HandsInv'
  <2> USE DEF WorkersInv, HandsInv
  <2>1. RequestIsAwaited' /\ UnansweredIsUnread' /\ AcceptedWasTaken'
    BY <1>1 DEF RequestIsAwaited, UnansweredIsUnread, AcceptedWasTaken
  <2>2. InProgressIsOut'
    <3> SUFFICES ASSUME service.current # NoRequest
                 PROVE  /\ Out(service.current.job, service.current.run)'
                        /\ service.current.run \in service.ran
      BY <1>1 DEF InProgressIsOut
    <3>1. /\ Out(service.current.job, service.current.run)
          /\ service.current.run \in service.ran
      BY DEF InProgressIsOut
    <3>2. Holding(service.current.job)'
      BY <1>1, <1>4, <3>1 DEF Out, Alive, Holding, Running
    <3> QED
      BY <1>1, <3>1, <3>2 DEF Out
  <2>3. ReportIsOut' /\ RanHasRow' /\ NeverBusy'
    BY <1>1 DEF ReportIsOut, RanHasRow, NeverBusy
  <2>4. AgentHolds'
    <3> SUFFICES ASSUME agent # AgentIdle
                 PROVE  Holding(agent.job)' /\ jobs'[agent.job].kind \in ClaimKinds
      BY <1>1 DEF AgentHolds
    <3>1. /\ agent.job \in JobIds /\ Holding(agent.job)
          /\ jobs[agent.job].kind \in ClaimKinds
      BY Parts DEF AgentHolds
    <3> QED
      BY <1>1, <1>4, <3>1 DEF Alive, Holding
  <2> QED
    BY <2>1, <2>2, <2>3, <2>4
<1>8. RunningJobIsInHands'
  BY <1>1, <1>5, InHandsStep DEF JobIds, NoJob
<1> QED
  BY <1>5, <1>7, <1>8, CompatibleStep, EndedStep DEF WorkersInv, JobIds, NoJob

-----------------------------------------------------------------------------
LEMMA WorkersInit == IngestInit => WorkersInv
<1> SUFFICES ASSUME IngestInit
             PROVE  WorkersInv
  OBVIOUS
<1>1. /\ exec = Idle /\ wire = {} /\ answer = "none" /\ reports = {}
      /\ service = [current |-> NoRequest, ran |-> {}] /\ agent = AgentIdle
      /\ \A j \in JobIds : jobs[j].status = "absent"
  BY NoRowType DEF IngestInit, Init
<1>2. HandsInv
  BY <1>1 DEF HandsInv, RequestIsAwaited, UnansweredIsUnread, AcceptedWasTaken,
              InProgressIsOut, ReportIsOut, AgentHolds, RanHasRow, NeverBusy
<1>3. \A j \in JobIds : ~Holding(j) /\ jobs[j].status \notin {"done", "failed"}
  BY <1>1 DEF Holding, Running
<1> QED
  BY <1>2, <1>3 DEF WorkersInv, HoldersAreCompatible, RunningJobIsInHands,
                    EndedJobRanItsSlot

LEMMA WorkersStep ==
    ASSUME Faults \subseteq WorkerFaults
    PROVE  IngestInv /\ WorkersInv /\ [IngestNext]_allVars => WorkersInv'
<1> SUFFICES ASSUME IngestInv, WorkersInv, [IngestNext]_allVars
             PROVE  WorkersInv'
  OBVIOUS
<1>1. CASE UNCHANGED allVars
  BY <1>1, SameTables, QuietKeeps DEF allVars, JobIds, NoJob
<1>2. CASE \/ ingestSchedulerTick \/ RunByHand \/ AgentEnqueues
           \/ (\E j \in JobIds : CancelByHand(j))
  BY <1>2, ProducersKeep DEF ingestSchedulerTick
<1>3. CASE ExecutorTick
  BY <1>3, TicksKeep
<1>4. CASE ServiceHeartbeats \/ AgentHeartbeats
  BY <1>4, HeartbeatsKeep
<1>5. CASE AnswerAccepted
  BY <1>5, AcceptedKeeps
<1>6. CASE AnswerRefused
  BY <1>6, RefusedKeeps
<1>7. CASE ServerCrash
  BY <1>7 DEF ServerCrash, Fault, WorkerFaults
<1>8. ASSUME NEW r \in wire, ServiceReads(r)
      PROVE  WorkersInv'
  BY <1>8, ReadsKeep
<1>9. ASSUME NEW outcome \in {"done", "failed"}, RunEnds(outcome)
      PROVE  WorkersInv'
  BY <1>9, EndsKeep
<1>10. ASSUME NEW p \in reports, ReportArrives(p) \/ ReportDropped(p)
       PROVE  WorkersInv'
  BY <1>10, ArrivesKeeps, DroppedKeeps
<1>11. CASE ServiceCrash
  BY <1>11, ServiceCrashKeeps
<1>12. ASSUME NEW j \in JobIds, AgentClaims(j)
       PROVE  WorkersInv'
  BY <1>12, ClaimsKeep
<1>13. CASE AgentRestarts
  BY <1>13, RestartsKeep
<1>14. CASE AgentCompletes \/ AgentCrash
  BY <1>14, LetsGoKeeps
<1>15. CASE TimePasses
  BY <1>15, TimeKeeps
<1> QED
  BY <1>1, <1>2, <1>3, <1>4, <1>5, <1>6, <1>7, <1>8, <1>9, <1>10, <1>11, <1>12,
     <1>13, <1>14, <1>15
  DEF IngestNext

(* The inductive invariant holds as long as deadlines are kept and the     *)
(* server lives.                                                           *)
THEOREM WorkersInvariant ==
    ASSUME Faults \subseteq WorkerFaults
    PROVE  IngestSpec => [](IngestInv /\ WorkersInv)
<1>1. IngestInv /\ WorkersInv /\ [IngestNext]_allVars => WorkersInv'
  BY WorkersStep
<1> QED
  BY <1>1, IngestInvInit, WorkersInit, IngestInvStep, PTL DEF IngestSpec

(* Two jobs whose leases both hold never conflict: the agent has           *)
(* server-restart alone, although leases are renewed, jobs go back to the  *)
(* queue and claims get lost.                                              *)
THEOREM HoldersCompatible ==
    ASSUME Faults \subseteq WorkerFaults
    PROVE  IngestSpec => []HoldersAreCompatible
<1>1. WorkersInv => HoldersAreCompatible
  BY DEF WorkersInv
<1> QED
  BY <1>1, WorkersInvariant, PTL

(* An ingest job that holds the service is awaited by the executor, or the *)
(* service took its run, or died with the memory of it.                    *)
THEOREM RunningIsInHands ==
    ASSUME Faults \subseteq WorkerFaults
    PROVE  IngestSpec => []RunningJobIsInHands
<1>1. WorkersInv => RunningJobIsInHands
  BY DEF WorkersInv
<1> QED
  BY <1>1, WorkersInvariant, PTL

(* A job that ended did so with a run of the slot it carries.              *)
THEOREM EndedRanItsSlot ==
    ASSUME Faults \subseteq WorkerFaults
    PROVE  IngestSpec => []EndedJobRanItsSlot
<1>1. WorkersInv => EndedJobRanItsSlot
  BY DEF WorkersInv
<1> QED
  BY <1>1, WorkersInvariant, PTL

(* "Never restart under an ingest run": the run in progress is that of an  *)
(* ingest job that holds its resource, and a deploy is held alone.         *)
THEOREM DeployIsAlone ==
    ASSUME Faults \subseteq WorkerFaults
    PROVE  IngestSpec => []DeployFindsServiceIdle
<1>1. ASSUME IngestInv, WorkersInv
      PROVE  DeployFindsServiceIdle
  <2> SUFFICES ASSUME agent # AgentIdle, service.current # NoRequest
               PROVE  FALSE
    BY DEF DeployFindsServiceIdle
  <2>1. /\ Out(service.current.job, service.current.run)
        /\ service.current.run \in RunIds
    BY <1>1, HandsTyped DEF WorkersInv, HandsInv, InProgressIsOut
  <2>2. /\ agent.job \in JobIds /\ Holding(agent.job)
        /\ jobs[agent.job].kind \in ClaimKinds
    BY <1>1, Parts DEF WorkersInv, HandsInv, AgentHolds
  <2> QED
    BY <1>1, <2>1, <2>2, OutIsIngest, DeployExcludes DEF WorkersInv
<1> QED
  BY <1>1, WorkersInvariant, PTL

(* A cancelled job is not in the service's hands: the run in progress is   *)
(* that of a job that is still running.                                    *)
THEOREM CancelledAreIdle ==
    ASSUME Faults \subseteq WorkerFaults
    PROVE  IngestSpec => []CancelledIsIdle
<1>1. ASSUME IngestInv, WorkersInv
      PROVE  CancelledIsIdle
  <2> SUFFICES ASSUME NEW j \in JobIds, jobs[j].status = "cancelled",
                      service.current.job = j
               PROVE  FALSE
    BY DEF CancelledIsIdle
  <2>1. service.current # NoRequest
    BY QueueAssumption DEF NoRequest, NoJob, JobIds
  <2> QED
    BY <1>1, <2>1 DEF WorkersInv, HandsInv, InProgressIsOut, Out, Holding, Running
<1> QED
  BY <1>1, WorkersInvariant, PTL

=============================================================================
