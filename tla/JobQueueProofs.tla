--------------------------- MODULE JobQueueProofs ---------------------------
(***************************************************************************)
(* Theorems about JobQueue, for every table of kinds, resources, leases,   *)
(* priorities and delays that satisfies its assumptions, and every bound.  *)
(***************************************************************************)
EXTENDS JobQueue, TLAPS

-----------------------------------------------------------------------------
(* The decision. *)

(* Whatever one pass of pickNextJobs starts conflicts neither with a live  *)
(* running job nor with another job of the pass, in any queue of rows with *)
(* distinct ids.                                                           *)
THEOREM StartIsCompatible ==
    ASSUME NEW queue, NEW running, NEW t \in Nat,
           \A j \in queue : j.id \in Nat /\ j.kind \in Kinds
                            /\ j.not_before \in Nat,
           \A i, j \in queue : i.id = j.id => i = j,
           NEW j \in Start(queue, running, t)
    PROVE  /\ \A l \in Live(running, t) : ~Conflict(l.kind, j.kind)
           /\ \A i \in Start(queue, running, t) :
                 i # j => ~Conflict(i.kind, j.kind)
<1>1. j \in Candidates(queue, t) /\ j \in queue
  BY DEF Start, Candidates
<1>2. \A l \in Live(running, t) : ~Conflict(l.kind, j.kind)
  BY DEF Start
<1>3. ASSUME NEW i \in Start(queue, running, t), i # j
      PROVE  ~Conflict(i.kind, j.kind)
  <2>1. i \in Candidates(queue, t) /\ i \in queue
    BY DEF Start, Candidates
  <2>2. Before(i, j) \/ Before(j, i)
    <3>1. PriorityOf[i.kind] \in Nat /\ PriorityOf[j.kind] \in Nat
      BY <1>1, <2>1, PolicyAssumption
    <3>2. i.id # j.id
      BY <1>1, <2>1, <1>3
    <3> QED
      BY <3>1, <3>2, <1>1, <2>1 DEF Before
  <2>3. CASE Before(i, j)
    BY <2>1, <2>3 DEF Start
  <2>4. CASE Before(j, i)
    BY <1>1, <1>3, <2>4 DEF Start, Conflict
  <2> QED
    BY <2>2, <2>3, <2>4
<1> QED
  BY <1>2, <1>3

-----------------------------------------------------------------------------
(* Types. *)

LEMMA NoRowType ==
    ASSUME NEW id \in JobIds
    PROVE  NoRow(id) \in Job /\ NoRow(id).id = id /\ NoRow(id).status = "absent"
<1>1. (CHOOSE k \in Kinds : TRUE) \in Kinds
  BY QueueAssumption
<1> QED
  BY <1>1 DEF NoRow, Job, JobStatus, Producers, Null

LEMMA EarlierType ==
    ASSUME NEW a \in Nat, NEW b \in Nat
    PROVE  Earlier(a, b) \in Nat
BY DEF Earlier

(* What enqueueJob does to the table: it rewrites the queued row of the    *)
(* kind in place, or inserts one when none is queued; no other row moves.  *)
LEMMA EnqueueEffect ==
    ASSUME TypeOK, NEW k \in Kinds, NEW slot \in Nat, NEW by \in Producers,
           NEW nb \in Nat, NEW st \in Nat, EnqueueRow(k, slot, by, nb, st)
    PROVE  /\ jobs' \in [JobIds -> Job]
           /\ \E id \in JobIds :
                 /\ \A i \in JobIds \ {id} : jobs'[i] = jobs[i]
                 /\ jobs'[id].id = id
                 /\ jobs'[id].kind = k
                 /\ jobs'[id].slot = slot
                 /\ jobs'[id].status = "queued"
                 /\ \/ jobs[id].status = "queued" /\ jobs[id].kind = k
                    \/ jobs[id].status = "absent" /\ QueuedOfKind(k) = {}
<1>1. CASE \E id \in QueuedOfKind(k) :
             jobs' = [jobs EXCEPT ![id] = Coalesced(jobs[id], slot, by, nb, st)]
  <2>1. PICK id \in QueuedOfKind(k) :
             jobs' = [jobs EXCEPT ![id] = Coalesced(jobs[id], slot, by, nb, st)]
    BY <1>1
  <2>2. id \in JobIds /\ jobs[id] \in Job /\ jobs[id].id = id
        /\ jobs[id].status = "queued" /\ jobs[id].kind = k
    BY <2>1 DEF QueuedOfKind, TypeOK
  <2>3. Earlier(jobs[id].not_before, nb) \in Nat
    BY <2>2, EarlierType DEF Job
  <2>4. Coalesced(jobs[id], slot, by, nb, st) \in Job
    BY <2>2, <2>3 DEF Coalesced, Job
  <2> QED
    BY <2>1, <2>2, <2>4 DEF Coalesced, TypeOK, Job
<1>2. CASE /\ QueuedOfKind(k) = {}
           /\ \E id \in FreeIds :
                 /\ \A i \in FreeIds : id <= i
                 /\ jobs' = [jobs EXCEPT ![id] = NewRow(id, k, slot, by, nb, st)]
  <2>1. PICK id \in FreeIds :
             jobs' = [jobs EXCEPT ![id] = NewRow(id, k, slot, by, nb, st)]
    BY <1>2
  <2>2. id \in JobIds /\ jobs[id].status = "absent"
    BY <2>1 DEF FreeIds
  <2>3. NewRow(id, k, slot, by, nb, st) \in Job
    BY <2>2 DEF NewRow, Job, JobStatus, Null
  <2> QED
    BY <1>2, <2>1, <2>2, <2>3 DEF NewRow, TypeOK
<1> QED
  BY <1>1, <1>2 DEF EnqueueRow

LEMMA WrittenOffRow ==
    ASSUME NEW row \in Job
    PROVE  /\ WrittenOff(row) \in Job
           /\ WrittenOff(row).id = row.id
           /\ WrittenOff(row).kind = row.kind
           /\ \/ WrittenOff(row) = row
              \/ row.status = "running" /\ LeaseExpired(row, now)
                 /\ WrittenOff(row).status = "lost"
              \/ row.status = "queued" /\ WrittenOff(row).status = "superseded"
BY DEF WrittenOff, Job, JobStatus

LEMMA ClaimedRow ==
    ASSUME NEW row \in Job, now \in Nat
    PROVE  /\ Claimed(row) \in Job
           /\ Claimed(row).id = row.id
           /\ Claimed(row).kind = row.kind
           /\ Claimed(row).status = "running"
BY DEF Claimed, Job, JobStatus

LEMMA ReleasedRow ==
    ASSUME NEW row \in Job, NEW nb \in Nat
    PROVE  /\ Released(row, nb) \in Job
           /\ Released(row, nb).id = row.id
           /\ Released(row, nb).kind = row.kind
           /\ Released(row, nb).status = "queued"
BY DEF Released, Job, JobStatus, Null

LEMMA TypeInit == Init => TypeOK
BY NoRowType DEF Init, TypeOK, Idle, NoJob

LEMMA EnqueueKeepsTypes ==
    ASSUME TypeOK, NEW k \in Kinds, NEW slot \in Nat, NEW by \in Producers,
           NEW nb \in Nat, NEW st \in Nat, EnqueueRow(k, slot, by, nb, st),
           UNCHANGED <<now, exec>>
    PROVE  TypeOK'
<1>1. jobs' \in [JobIds -> Job]
  BY EnqueueEffect
<1>2. \A id \in JobIds : jobs'[id].id = id
  BY EnqueueEffect DEF TypeOK
<1> QED
  BY <1>1, <1>2 DEF TypeOK

LEMMA StaleInstant ==
    ASSUME NEW k \in Kinds, NEW base \in Nat
    PROVE  base + StaleDelay[k] \in Nat
BY QueueAssumption

LEMMA IngestEnqueue ==
    ASSUME TypeOK, NEW k, NEW slot \in Nat, NEW by \in Producers,
           enqueueIngestRun(k, slot, by)
    PROVE  /\ k \in Kinds
           /\ UNCHANGED <<now, exec>>
           /\ \E st \in Nat : EnqueueRow(k, slot, by, slot, st)
<1>1. k \in Kinds
  BY QueueAssumption DEF enqueueIngestRun
<1>2. (IF by = "scheduler" /\ StaleDelay[k] # 0
       THEN slot + StaleDelay[k] ELSE Null) \in Nat
  BY <1>1, StaleInstant DEF Null
<1> QED
  BY <1>1, <1>2 DEF enqueueIngestRun

(* Each of the four ways to enqueue is one EnqueueRow on typed columns. *)
LEMMA Producing ==
    ASSUME TypeOK,
           \/ \E k \in ExecutorKinds, slot \in 1..MaxTime : ScheduleRun(k, slot)
           \/ \E k \in ExecutorKinds : startManualIngestRun(k)
           \/ \E k \in ClaimKinds : enqueueDeploy(k)
           \/ \E id \in JobIds : retryJob(id)
    PROVE  /\ UNCHANGED <<now, exec>>
           /\ \E k \in Kinds, slot \in Nat, by \in Producers, nb, st \in Nat :
                 EnqueueRow(k, slot, by, nb, st)
<1> now \in Nat
  BY DEF TypeOK
<1> "scheduler" \in Producers /\ "manual" \in Producers
    /\ "deploy-agent" \in Producers
  BY DEF Producers
<1>1. ASSUME NEW k, NEW slot \in Nat, NEW by \in Producers,
             enqueueIngestRun(k, slot, by)
      PROVE  /\ UNCHANGED <<now, exec>>
             /\ \E kk \in Kinds, sl \in Nat, b \in Producers, nb, st \in Nat :
                   EnqueueRow(kk, sl, b, nb, st)
  BY <1>1, IngestEnqueue
<1>2. CASE \E k \in ExecutorKinds, slot \in 1..MaxTime : ScheduleRun(k, slot)
  <2>1. PICK k \in ExecutorKinds, slot \in 1..MaxTime : ScheduleRun(k, slot)
    BY <1>2
  <2>2. slot \in Nat /\ enqueueIngestRun(k, slot, "scheduler")
    BY <2>1, QueueAssumption DEF ScheduleRun
  <2> QED
    BY <1>1, <2>2
<1>3. CASE \E k \in ExecutorKinds : startManualIngestRun(k)
  BY <1>1, <1>3 DEF startManualIngestRun
<1>4. CASE \E k \in ClaimKinds : enqueueDeploy(k)
  <2>1. PICK k \in ClaimKinds : enqueueDeploy(k)
    BY <1>4
  <2>2. k \in Kinds /\ now + StaleDelay[k] \in Nat
    BY <2>1, StaleInstant DEF ClaimKinds
  <2>3. /\ UNCHANGED <<now, exec>>
        /\ EnqueueRow(k, 0, "deploy-agent", Null, now + StaleDelay[k])
    BY <2>1 DEF enqueueDeploy
  <2>4. 0 \in Nat /\ Null \in Nat
    BY DEF Null
  <2> QED
    BY <2>2, <2>3, <2>4
<1>5. CASE \E id \in JobIds : retryJob(id)
  BY <1>1, <1>5 DEF retryJob, startManualIngestRun
<1> QED
  BY <1>2, <1>3, <1>4, <1>5

LEMMA TypeStep == TypeOK /\ [Next]_vars => TypeOK'
<1> SUFFICES ASSUME TypeOK, [Next]_vars
             PROVE  TypeOK'
  OBVIOUS
<1> USE DEF TypeOK
<1>1. CASE \/ \E k \in ExecutorKinds, slot \in 1..MaxTime : ScheduleRun(k, slot)
           \/ \E k \in ExecutorKinds : startManualIngestRun(k)
           \/ \E k \in ClaimKinds : enqueueDeploy(k)
           \/ \E id \in JobIds : retryJob(id)
  <2>1. PICK k \in Kinds, slot \in Nat, by \in Producers, nb \in Nat, st \in Nat :
             EnqueueRow(k, slot, by, nb, st)
    BY <1>1, Producing
  <2>2. UNCHANGED <<now, exec>>
    BY <1>1, Producing
  <2> QED
    BY <2>1, <2>2, EnqueueKeepsTypes
<1>2. ASSUME NEW id \in JobIds, TickStarts(id) \/ TickBreaks(id)
      PROVE  TypeOK'
  <2>1. Claimed(jobs[id]) \in Job /\ Claimed(jobs[id]).id = id
    BY ClaimedRow
  <2>2. \A i \in JobIds : WrittenOff(jobs[i]) \in Job /\ WrittenOff(jobs[i]).id = i
    BY WrittenOffRow
  <2>3. id # NoJob
    BY DEF JobIds, NoJob
  <2> QED
    BY <1>2, <2>1, <2>2, <2>3 DEF TickStarts, Dispatch, TickBreaks, Idle
<1>3. ASSUME NEW id \in JobIds, TickSupersedes(id)
      PROVE  TypeOK'
  <2>1. [jobs[id] EXCEPT !.status = "superseded"] \in Job
        /\ [jobs[id] EXCEPT !.status = "superseded"].id = id
    BY DEF Job, JobStatus
  <2>2. \A i \in JobIds : WrittenOff(jobs[i]) \in Job /\ WrittenOff(jobs[i]).id = i
    BY WrittenOffRow
  <2> QED
    BY <1>3, <2>1, <2>2 DEF TickSupersedes, SupersedeCovered
<1>4. CASE TickWritesOff
  <2>1. \A i \in JobIds : WrittenOff(jobs[i]) \in Job /\ WrittenOff(jobs[i]).id = i
    BY WrittenOffRow
  <2> QED
    BY <1>4, <2>1 DEF TickWritesOff
<1>5. CASE DispatchAccepted
  BY <1>5 DEF DispatchAccepted, Idle, NoJob
<1>6. CASE DispatchRefused
  <2>1. exec.job \in JobIds
    BY <1>6 DEF DispatchRefused
  <2>2. exec.at + RetryDelay \in Nat
    BY QueueAssumption
  <2>3. Released(jobs[exec.job], exec.at + RetryDelay) \in Job
        /\ Released(jobs[exec.job], exec.at + RetryDelay).id = exec.job
    BY <2>1, <2>2, ReleasedRow
  <2> QED
    BY <1>6, <2>1, <2>3 DEF DispatchRefused, Idle, NoJob
<1>7. ASSUME NEW id \in JobIds, claimNextJob(id)
      PROVE  TypeOK'
  BY <1>7, ClaimedRow DEF claimNextJob
<1>8. ASSUME NEW id \in JobIds, heartbeatJob(id)
      PROVE  TypeOK'
  <2>1. [jobs[id] EXCEPT !.beat = now] \in Job
    BY DEF Job
  <2> QED
    BY <1>8, <2>1 DEF heartbeatJob
<1>9. ASSUME NEW id \in JobIds, NEW outcome \in {"done", "failed"},
             completeJob(id, outcome)
      PROVE  TypeOK'
  <2>1. [jobs[id] EXCEPT !.status = outcome] \in Job
    BY DEF Job, JobStatus
  <2> QED
    BY <1>9, <2>1 DEF completeJob
<1>10. ASSUME NEW id \in JobIds, cancelQueuedJob(id)
       PROVE  TypeOK'
  <2>1. [jobs[id] EXCEPT !.status = "cancelled"] \in Job
    BY DEF Job, JobStatus
  <2> QED
    BY <1>10, <2>1 DEF cancelQueuedJob
<1>11. CASE ServerRestart
  BY <1>11 DEF ServerRestart, Idle, NoJob
<1>12. CASE Elapse
  BY <1>12 DEF Elapse
<1>13. CASE UNCHANGED vars
  BY <1>13 DEF vars
<1> QED
  BY <1>1, <1>2, <1>3, <1>4, <1>5, <1>6, <1>7, <1>8, <1>9, <1>10, <1>11,
     <1>12, <1>13 DEF Next, jobQueueTick

(* Every reachable table is well typed: ids, kinds and statuses in range,  *)
(* and the awaited job of the executor, when there is one, a row.          *)
THEOREM TypeCorrect == Spec => []TypeOK
BY TypeInit, TypeStep, PTL DEF Spec

-----------------------------------------------------------------------------
(* The inductive invariant. *)

QueueInv ==
    /\ TypeOK
    /\ OneQueuedPerKind
    /\ OneExecutorJobRunning
    /\ AwaitedJobIsOut

(* A step that puts no row back to queued or running, and lets the awaited *)
(* job be, keeps the invariant: the ends of jobs and the stuttering steps. *)
LEMMA QuietStep ==
    ASSUME QueueInv, TypeOK',
           \A i \in JobIds :
              /\ jobs'[i].kind = jobs[i].kind
              /\ jobs'[i].status = "queued" => jobs[i].status = "queued"
              /\ jobs'[i].status = "running" => jobs[i].status = "running",
           \/ exec' = Idle
           \/ /\ exec' = exec
              /\ exec # Idle =>
                    jobs'[exec.job].status \in {"running", "done", "failed"}
    PROVE  QueueInv'
<1>1. OneQueuedPerKind'
  BY DEF QueueInv, OneQueuedPerKind
<1>2. OneExecutorJobRunning'
  BY DEF QueueInv, OneExecutorJobRunning, Running
<1>3. AwaitedJobIsOut'
  <2>1. CASE exec' = Idle
    BY <2>1 DEF AwaitedJobIsOut, Idle
  <2>2. CASE exec' = exec /\ exec # Idle
    <3>1. exec.job \in JobIds
      BY <2>2 DEF QueueInv, TypeOK
    <3> QED
      BY <2>2, <3>1 DEF QueueInv, AwaitedJobIsOut, Idle
  <2> QED
    BY <2>1, <2>2
<1> QED
  BY <1>1, <1>2, <1>3 DEF QueueInv

(* Enqueueing touches one row, queued or new, which the executor cannot be *)
(* waiting on.                                                             *)
LEMMA EnqueueKeepsInv ==
    ASSUME QueueInv, TypeOK', UNCHANGED <<now, exec>>,
           NEW k \in Kinds, NEW slot \in Nat, NEW by \in Producers,
           NEW nb \in Nat, NEW st \in Nat, EnqueueRow(k, slot, by, nb, st)
    PROVE  QueueInv'
<1>0. TypeOK
  BY DEF QueueInv
<1>1. PICK id \in JobIds :
           /\ \A i \in JobIds \ {id} : jobs'[i] = jobs[i]
           /\ jobs'[id].kind = k
           /\ jobs'[id].status = "queued"
           /\ \/ jobs[id].status = "queued" /\ jobs[id].kind = k
              \/ jobs[id].status = "absent" /\ QueuedOfKind(k) = {}
  BY <1>0, EnqueueEffect
<1>2. OneQueuedPerKind'
  <2>1. ASSUME NEW j \in JobIds, j # id, jobs[j].status = "queued",
               jobs[j].kind = k
        PROVE  FALSE
    BY <1>1, <2>1 DEF QueueInv, OneQueuedPerKind, QueuedOfKind
  <2> QED
    BY <1>1, <2>1 DEF QueueInv, OneQueuedPerKind
<1>3. OneExecutorJobRunning'
  BY <1>1 DEF QueueInv, OneExecutorJobRunning, Running
<1>4. AwaitedJobIsOut'
  <2>1. CASE exec # Idle
    <3>1. exec.job \in JobIds
      BY <1>0, <2>1 DEF TypeOK
    <3>2. exec.job # id
      BY <1>1, <2>1 DEF QueueInv, AwaitedJobIsOut
    <3> QED
      BY <1>1, <2>1, <3>1, <3>2 DEF QueueInv, AwaitedJobIsOut
  <2> QED
    BY <2>1 DEF AwaitedJobIsOut, Idle
<1> QED
  BY <1>2, <1>3, <1>4 DEF QueueInv

(* The tick that starts a job leaves no other executor job running: a live *)
(* one would conflict with the decision, a silent one is written off.      *)
LEMMA StartKeepsInv ==
    ASSUME QueueInv, TypeOK', NEW id \in JobIds,
           TickStarts(id) \/ TickBreaks(id)
    PROVE  QueueInv'
<1>0. TypeOK
  BY DEF QueueInv
<1>1. /\ jobs[id].status = "queued"
      /\ jobs[id].kind \in ExecutorKinds
      /\ jobs[id] \in Start(Rows("queued"), Rows("running"), now)
  BY DEF TickStarts, TickBreaks, Dispatchable, MayStart
<1>2. /\ jobs'[id].status = "running"
      /\ jobs'[id].kind = jobs[id].kind
      /\ \A i \in JobIds \ {id} : jobs'[i] = WrittenOff(jobs[i])
      /\ exec' = [job |-> id, at |-> now] \/ exec' = Idle
  BY <1>0, ClaimedRow DEF TickStarts, Dispatch, TickBreaks, TypeOK
<1>3. ASSUME NEW i \in JobIds, i # id
      PROVE  /\ jobs'[i].kind = jobs[i].kind
             /\ jobs'[i].status = "queued" => jobs[i].status = "queued"
             /\ jobs'[i].status = "running" =>
                   jobs[i].status = "running" /\ ~LeaseExpired(jobs[i], now)
  <2>1. jobs[i] \in Job
    BY <1>0 DEF TypeOK
  <2> QED
    BY <1>2, <1>3, <2>1 DEF WrittenOff, Job
<1>4. OneQueuedPerKind'
  BY <1>2, <1>3 DEF QueueInv, OneQueuedPerKind
<1>5. OneExecutorJobRunning'
  <2>1. ASSUME NEW i \in JobIds, i # id, jobs'[i].status = "running",
               jobs'[i].kind \in ExecutorKinds
        PROVE  FALSE
    <3>1. jobs[i] \in Live(Rows("running"), now)
      BY <1>3, <2>1 DEF Live, Rows
    <3>2. ~Conflict(jobs[i].kind, jobs[id].kind)
      BY <1>1, <3>1 DEF Start
    <3>3. ResourceOf[jobs[i].kind] = ResourceOf[jobs[id].kind]
      BY <1>1, <1>3, <2>1, ExecutorAssumption
    <3> QED
      BY <3>2, <3>3 DEF Conflict
  <2> QED
    BY <2>1 DEF OneExecutorJobRunning, Running
<1>6. AwaitedJobIsOut'
  BY <1>1, <1>2 DEF AwaitedJobIsOut, Idle
<1> QED
  BY <1>4, <1>5, <1>6 DEF QueueInv

(* A job goes back to the queue only when the index lets it. *)
LEMMA RefusedKeepsInv ==
    ASSUME QueueInv, TypeOK', DispatchRefused
    PROVE  QueueInv'
<1>0. TypeOK
  BY DEF QueueInv
<1>1. exec.job \in JobIds /\ exec.at + RetryDelay \in Nat
  BY <1>0, QueueAssumption DEF TypeOK, DispatchRefused
<1>2. CASE ReleaseSucceeds
  <2>1. /\ jobs'[exec.job].status = "queued"
        /\ jobs'[exec.job].kind = jobs[exec.job].kind
        /\ \A i \in JobIds \ {exec.job} : jobs'[i] = jobs[i]
        /\ exec' = Idle
    <3>1. jobs[exec.job] \in Job
      BY <1>0, <1>1 DEF TypeOK
    <3>2. /\ Released(jobs[exec.job], exec.at + RetryDelay).status = "queued"
          /\ Released(jobs[exec.job], exec.at + RetryDelay).kind
                = jobs[exec.job].kind
      BY <1>1, <3>1, ReleasedRow
    <3> QED
      BY <1>0, <1>1, <1>2, <3>2 DEF TypeOK, DispatchRefused
  <2>2. \A i \in JobIds : jobs[i].status = "queued"
                          /\ jobs[i].kind = jobs[exec.job].kind
                          => i = exec.job
    BY <1>2 DEF ReleaseSucceeds, IndexAllows, QueuedOfKind
  <2>3. OneQueuedPerKind'
    BY <2>1, <2>2 DEF QueueInv, OneQueuedPerKind
  <2>4. OneExecutorJobRunning'
    BY <2>1 DEF QueueInv, OneExecutorJobRunning, Running
  <2>5. AwaitedJobIsOut'
    BY <2>1 DEF AwaitedJobIsOut, Idle
  <2> QED
    BY <2>3, <2>4, <2>5 DEF QueueInv
<1>3. CASE ~ReleaseSucceeds
  BY <1>3, QuietStep DEF DispatchRefused
<1> QED
  BY <1>2, <1>3

LEMMA ClaimKeepsInv ==
    ASSUME QueueInv, TypeOK', NEW id \in JobIds, claimNextJob(id)
    PROVE  QueueInv'
<1>0. TypeOK
  BY DEF QueueInv
<1>1. /\ jobs[id].status = "queued"
      /\ jobs[id].kind \notin ExecutorKinds
      /\ jobs'[id].status = "running"
      /\ jobs'[id].kind = jobs[id].kind
      /\ \A i \in JobIds \ {id} : jobs'[i] = jobs[i]
      /\ exec' = exec
  BY <1>0, ClaimedRow DEF TypeOK, claimNextJob, MayStart, ClaimKinds
<1>2. OneQueuedPerKind'
  BY <1>1 DEF QueueInv, OneQueuedPerKind
<1>3. OneExecutorJobRunning'
  BY <1>1 DEF QueueInv, OneExecutorJobRunning, Running
<1>4. AwaitedJobIsOut'
  <2>1. exec # Idle => exec.job \in JobIds /\ exec.job # id
    BY <1>0, <1>1 DEF QueueInv, AwaitedJobIsOut, TypeOK
  <2> QED
    BY <1>1, <2>1 DEF QueueInv, AwaitedJobIsOut
<1> QED
  BY <1>2, <1>3, <1>4 DEF QueueInv

LEMMA InvInit == Init => QueueInv
BY TypeInit, NoRowType
   DEF Init, QueueInv, OneQueuedPerKind, OneExecutorJobRunning, Running,
       AwaitedJobIsOut

LEMMA InvStep == QueueInv /\ [Next]_vars => QueueInv'
<1> SUFFICES ASSUME QueueInv, [Next]_vars
             PROVE  QueueInv'
  OBVIOUS
<1>0. TypeOK /\ TypeOK'
  BY TypeStep DEF QueueInv
<1>a. \A i \in JobIds : jobs[i] \in Job
  BY <1>0 DEF TypeOK
<1>1. CASE \/ \E k \in ExecutorKinds, slot \in 1..MaxTime : ScheduleRun(k, slot)
           \/ \E k \in ExecutorKinds : startManualIngestRun(k)
           \/ \E k \in ClaimKinds : enqueueDeploy(k)
           \/ \E id \in JobIds : retryJob(id)
  <2>1. PICK k \in Kinds, slot \in Nat, by \in Producers, nb \in Nat, st \in Nat :
             EnqueueRow(k, slot, by, nb, st)
    BY <1>0, <1>1, Producing
  <2>2. UNCHANGED <<now, exec>>
    BY <1>0, <1>1, Producing
  <2> QED
    BY <1>0, <2>1, <2>2, EnqueueKeepsInv
<1>2. ASSUME NEW id \in JobIds, TickStarts(id) \/ TickBreaks(id)
      PROVE  QueueInv'
  BY <1>0, <1>2, StartKeepsInv
<1>3. ASSUME NEW id \in JobIds, TickSupersedes(id)
      PROVE  QueueInv'
  <2>1. \A i \in JobIds :
           /\ jobs'[i].kind = jobs[i].kind
           /\ jobs'[i].status = "queued" => jobs[i].status = "queued"
           /\ jobs'[i].status = "running" => jobs[i].status = "running"
    BY <1>3, <1>a, WrittenOffRow DEF TickSupersedes, SupersedeCovered, Job
  <2>2. exec = Idle /\ exec' = exec
    BY <1>3 DEF TickSupersedes, SupersedeCovered
  <2> QED
    BY <1>0, <2>1, <2>2, QuietStep
<1>4. CASE TickWritesOff
  <2>1. \A i \in JobIds :
           /\ jobs'[i].kind = jobs[i].kind
           /\ jobs'[i].status = "queued" => jobs[i].status = "queued"
           /\ jobs'[i].status = "running" => jobs[i].status = "running"
    BY <1>4, <1>a, WrittenOffRow DEF TickWritesOff
  <2> QED
    BY <1>0, <1>4, <2>1, QuietStep DEF TickWritesOff
<1>5. CASE DispatchAccepted
  BY <1>0, <1>5, QuietStep DEF DispatchAccepted
<1>6. CASE DispatchRefused
  BY <1>0, <1>6, RefusedKeepsInv
<1>7. ASSUME NEW id \in JobIds, claimNextJob(id)
      PROVE  QueueInv'
  BY <1>0, <1>7, ClaimKeepsInv
<1>8. ASSUME NEW id \in JobIds, heartbeatJob(id)
      PROVE  QueueInv'
  <2>1. \A i \in JobIds : jobs'[i].kind = jobs[i].kind
                          /\ jobs'[i].status = jobs[i].status
    BY <1>0, <1>8, <1>a DEF heartbeatJob, TypeOK, Job
  <2>2. exec # Idle => exec.job \in JobIds
    BY <1>0 DEF TypeOK
  <2> QED
    BY <1>0, <1>8, <2>1, <2>2, QuietStep
    DEF heartbeatJob, QueueInv, AwaitedJobIsOut
<1>9. ASSUME NEW id \in JobIds, NEW outcome \in {"done", "failed"},
             completeJob(id, outcome)
      PROVE  QueueInv'
  <2>1. \A i \in JobIds : /\ jobs'[i].kind = jobs[i].kind
                          /\ jobs'[i].status = IF i = id THEN outcome
                                               ELSE jobs[i].status
    BY <1>0, <1>9, <1>a DEF completeJob, TypeOK, Job
  <2>2. exec # Idle => exec.job \in JobIds
    BY <1>0 DEF TypeOK
  <2> QED
    BY <1>0, <1>9, <2>1, <2>2, QuietStep
    DEF completeJob, QueueInv, AwaitedJobIsOut
<1>10. ASSUME NEW id \in JobIds, cancelQueuedJob(id)
       PROVE  QueueInv'
  <2>1. \A i \in JobIds : /\ jobs'[i].kind = jobs[i].kind
                          /\ jobs'[i].status = IF i = id THEN "cancelled"
                                               ELSE jobs[i].status
    BY <1>0, <1>10, <1>a DEF cancelQueuedJob, TypeOK, Job
  <2>2. exec # Idle => exec.job \in JobIds /\ exec.job # id
    BY <1>0, <1>10 DEF cancelQueuedJob, QueueInv, AwaitedJobIsOut, TypeOK
  <2> QED
    BY <1>0, <1>10, <2>1, <2>2, QuietStep
    DEF cancelQueuedJob, QueueInv, AwaitedJobIsOut
<1>11. CASE ServerRestart
  BY <1>0, <1>11, QuietStep DEF ServerRestart
<1>12. CASE Elapse
  <2>1. exec # Idle => exec.job \in JobIds
    BY <1>0 DEF TypeOK
  <2> QED
    BY <1>0, <1>12, <2>1, QuietStep DEF Elapse, QueueInv, AwaitedJobIsOut
<1>13. CASE UNCHANGED vars
  <2>1. exec # Idle => exec.job \in JobIds
    BY <1>0 DEF TypeOK
  <2> QED
    BY <1>0, <1>13, <2>1, QuietStep DEF vars, QueueInv, AwaitedJobIsOut
<1> QED
  BY <1>1, <1>2, <1>3, <1>4, <1>5, <1>6, <1>7, <1>8, <1>9, <1>10, <1>11,
     <1>12, <1>13 DEF Next, jobQueueTick

(* The conjunction is inductive: at most one queued job per kind, at most  *)
(* one executor job running, and the awaited job out of the executor's     *)
(* hands, whatever the workers do and however often the server restarts.   *)
THEOREM QueueInvariant == Spec => []QueueInv
BY InvInit, InvStep, PTL DEF Spec

(* At most one queued row per dedupe key. *)
THEOREM OneQueued == Spec => []OneQueuedPerKind
BY QueueInvariant, PTL DEF QueueInv

(* The ingest service is given one job at a time. *)
THEOREM OneExecutorJob == Spec => []OneExecutorJobRunning
BY QueueInvariant, PTL DEF QueueInv

(* Nobody takes the awaited job away during the await. *)
THEOREM AwaitedIsOut == Spec => []AwaitedJobIsOut
BY QueueInvariant, PTL DEF QueueInv

-----------------------------------------------------------------------------
(* What a step may do to a row. *)

(* A row's status moves along the lifecycle, and a job starts only when    *)
(* the decision lets it, whoever starts it.                                *)
LEMMA RowMoves ==
    ASSUME TypeOK, [Next]_vars, NEW i \in JobIds
    PROVE  /\ \/ jobs'[i].status = jobs[i].status
              \/ <<jobs[i].status, jobs'[i].status>> \in Lifecycle!Moves
           /\ Starts(i) => MayStart(i)
<1> DEFINE Moved(a, b) == a = b \/ <<a, b>> \in Lifecycle!Moves
           Good == /\ Moved(jobs[i].status, jobs'[i].status)
                   /\ Starts(i) => MayStart(i)
<1> SUFFICES Good
  OBVIOUS
<1>a. \A j \in JobIds : jobs[j] \in Job
  BY DEF TypeOK
<1>m. /\ Moved("absent", "queued")
      /\ \A b \in {"running", "cancelled", "superseded", "done", "failed"} :
            Moved("queued", b)
      /\ \A b \in {"queued", "done", "failed", "lost"} : Moved("running", b)
      /\ Moved("lost", "done") /\ Moved("lost", "failed")
      /\ \A a : Moved(a, a)
  BY DEF Lifecycle!Moves
<1> HIDE DEF Moved
<1>w. \A j \in JobIds : Moved(jobs[j].status, WrittenOff(jobs[j]).status)
                        /\ (WrittenOff(jobs[j]).status = "running"
                            => jobs[j].status = "running")
  BY <1>a, <1>m DEF WrittenOff, Job
<1>1. CASE \/ \E k \in ExecutorKinds, slot \in 1..MaxTime : ScheduleRun(k, slot)
           \/ \E k \in ExecutorKinds : startManualIngestRun(k)
           \/ \E k \in ClaimKinds : enqueueDeploy(k)
           \/ \E id \in JobIds : retryJob(id)
  <2>1. PICK k \in Kinds, slot \in Nat, by \in Producers, nb \in Nat, st \in Nat :
             EnqueueRow(k, slot, by, nb, st)
    BY <1>1, Producing
  <2>2. PICK id \in JobIds :
             /\ \A j \in JobIds \ {id} : jobs'[j] = jobs[j]
             /\ jobs'[id].status = "queued"
             /\ jobs[id].status \in {"queued", "absent"}
    BY <2>1, EnqueueEffect
  <2> QED
    BY <2>2, <1>m DEF Starts, Running
<1>2. ASSUME NEW id \in JobIds, TickStarts(id) \/ TickBreaks(id)
      PROVE  Good
  <2>1. jobs[id].status = "queued" /\ MayStart(id)
    BY <1>2 DEF TickStarts, TickBreaks, Dispatchable, MayStart
  <2>2. jobs'[id].status = "running"
    BY <1>2, <1>a, ClaimedRow DEF TickStarts, Dispatch, TickBreaks, TypeOK
  <2>3. \A j \in JobIds \ {id} : jobs'[j] = WrittenOff(jobs[j])
    BY <1>2 DEF TickStarts, Dispatch, TickBreaks
  <2> QED
    BY <2>1, <2>2, <2>3, <1>m, <1>w DEF Starts, Running
<1>3. ASSUME NEW id \in JobIds, TickSupersedes(id)
      PROVE  Good
  <2>1. jobs[id].status = "queued"
    BY <1>3 DEF TickSupersedes, Dispatchable, MayStart
  <2>2. /\ jobs'[id].status = "superseded"
        /\ \A j \in JobIds \ {id} : jobs'[j] = WrittenOff(jobs[j])
    BY <1>3, <1>a DEF TickSupersedes, SupersedeCovered, Job
  <2> QED
    BY <2>1, <2>2, <1>m, <1>w DEF Starts, Running
<1>4. CASE TickWritesOff
  BY <1>4, <1>w DEF TickWritesOff, Starts, Running
<1>5. CASE DispatchAccepted \/ ServerRestart \/ Elapse \/ UNCHANGED vars
  BY <1>5, <1>m
  DEF DispatchAccepted, ServerRestart, Elapse, vars, Starts, Running
<1>6. CASE DispatchRefused
  <2>1. CASE ReleaseSucceeds
    <3>1. exec.job \in JobIds /\ exec.at + RetryDelay \in Nat
      BY <1>6, QueueAssumption DEF TypeOK, DispatchRefused
    <3>2. jobs[exec.job].status = "running"
          /\ Released(jobs[exec.job], exec.at + RetryDelay).status = "queued"
      BY <1>a, <2>1, <3>1, ReleasedRow DEF ReleaseSucceeds
    <3>3. jobs'[i].status = IF i = exec.job THEN "queued" ELSE jobs[i].status
      BY <1>6, <2>1, <3>1, <3>2 DEF DispatchRefused, TypeOK
    <3> QED
      BY <3>2, <3>3, <1>m DEF Starts, Running
  <2>2. CASE ~ReleaseSucceeds
    BY <1>6, <2>2, <1>m DEF DispatchRefused, Starts, Running
  <2> QED
    BY <2>1, <2>2
<1>7. ASSUME NEW id \in JobIds, claimNextJob(id)
      PROVE  Good
  <2>1. jobs[id].status = "queued" /\ MayStart(id)
    BY <1>7 DEF claimNextJob, MayStart
  <2>2. jobs'[i].status = IF i = id THEN "running" ELSE jobs[i].status
    BY <1>7, <1>a, ClaimedRow DEF claimNextJob, TypeOK
  <2> QED
    BY <2>1, <2>2, <1>m DEF Starts, Running
<1>8. ASSUME NEW id \in JobIds, heartbeatJob(id)
      PROVE  Good
  <2>1. jobs'[i].status = jobs[i].status
    BY <1>8, <1>a DEF heartbeatJob, TypeOK, Job
  <2> QED
    BY <2>1, <1>m DEF Starts, Running
<1>9. ASSUME NEW id \in JobIds, NEW outcome \in {"done", "failed"},
             completeJob(id, outcome)
      PROVE  Good
  <2>1. jobs'[i].status = IF i = id THEN outcome ELSE jobs[i].status
    BY <1>9, <1>a DEF completeJob, TypeOK, Job
  <2>2. jobs[id].status \in {"running", "lost", "queued"}
    BY <1>9 DEF completeJob
  <2> QED
    BY <2>1, <2>2, <1>m DEF Starts, Running
<1>10. ASSUME NEW id \in JobIds, cancelQueuedJob(id)
       PROVE  Good
  <2>1. jobs'[i].status = IF i = id THEN "cancelled" ELSE jobs[i].status
    BY <1>10, <1>a DEF cancelQueuedJob, TypeOK, Job
  <2> QED
    BY <1>10, <2>1, <1>m DEF cancelQueuedJob, Starts, Running
<1> QED
  BY <1>1, <1>2, <1>3, <1>4, <1>5, <1>6, <1>7, <1>8, <1>9, <1>10
  DEF Next, jobQueueTick

(* A job starts only when no live running job conflicts with it. *)
THEOREM StartsAreAlone == Spec => StartsAlone
<1>1. TypeOK /\ [Next]_vars => [StartsAloneStep]_vars
  <2> SUFFICES ASSUME TypeOK, [Next]_vars, NEW id \in JobIds,
                      NEW other \in JobIds, Starts(id), id # other,
                      Holding(other)
               PROVE  ~Conflict(jobs[id].kind, jobs[other].kind)
    BY DEF StartsAloneStep
  <2>1. jobs[id] \in Start(Rows("queued"), Rows("running"), now)
    BY RowMoves DEF MayStart
  <2>2. jobs[other] \in Live(Rows("running"), now)
    BY DEF Live, Rows, Holding, Running
  <2> QED
    BY <2>1, <2>2 DEF Start, Conflict
<1> QED
  BY <1>1, TypeCorrect, PTL DEF Spec, StartsAlone

(* Nothing of lower priority starts while a due exclusive job is queued. *)
THEOREM DrainHolds == Spec => Drains
<1>1. TypeOK /\ [Next]_vars => [DrainsStep]_vars
  <2> SUFFICES ASSUME TypeOK, [Next]_vars, NEW id \in JobIds, NEW d \in JobIds,
                      Starts(id),
                      jobs[d] \in Candidates(Rows("queued"), now),
                      ResourceOf[jobs[d].kind] = Exclusive
               PROVE  PriorityOf[jobs[d].kind] <= PriorityOf[jobs[id].kind]
    BY DEF DrainsStep
  <2>1. jobs[id] \in Start(Rows("queued"), Rows("running"), now)
    BY RowMoves DEF MayStart
  <2>2. ~Before(jobs[d], jobs[id])
    BY <2>1 DEF Start, Conflict
  <2>3. /\ PriorityOf[jobs[d].kind] \in Nat
        /\ PriorityOf[jobs[id].kind] \in Nat
    BY PolicyAssumption DEF TypeOK, Job
  <2> QED
    BY <2>2, <2>3 DEF Before
<1> QED
  BY <1>1, TypeCorrect, PTL DEF Spec, Drains

(* No job starts before its not_before or past its stale_after. *)
THEOREM StartsAreTimely == Spec => StartsInItsWindow
<1>1. TypeOK /\ [Next]_vars => [StartsInItsWindowStep]_vars
  <2> SUFFICES ASSUME TypeOK, [Next]_vars, NEW id \in JobIds, Starts(id)
               PROVE  Due(jobs[id], now) /\ ~Stale(jobs[id], now)
    BY DEF StartsInItsWindowStep
  <2>1. jobs[id] \in Start(Rows("queued"), Rows("running"), now)
    BY RowMoves DEF MayStart
  <2> QED
    BY <2>1 DEF Start, Candidates
<1> QED
  BY <1>1, TypeCorrect, PTL DEF Spec, StartsInItsWindow

(* JobQueue implements JobLifecycle: every step moves each row along the   *)
(* lifecycle or leaves it, so a finished job keeps its outcome.            *)
THEOREM LifecycleKept == Spec => KeepsLifecycle
<1> DEFINE st == [id \in JobIds |-> jobs[id].status]
<1>1. Init => Lifecycle!Init
  BY NoRowType DEF Init, Lifecycle!Init
<1>2. TypeOK /\ TypeOK' /\ [Next]_vars => [Lifecycle!Next]_st
  <2> SUFFICES ASSUME TypeOK, TypeOK', [Next]_vars
               PROVE  Lifecycle!Next
    OBVIOUS
  <2>1. [id \in JobIds |-> jobs'[id].status] \in [JobIds -> Lifecycle!Status]
    BY DEF TypeOK, Job, JobStatus, Lifecycle!Status, Lifecycle!Waiting,
           Lifecycle!Finished
  <2>2. \A id \in JobIds :
           jobs'[id].status # jobs[id].status
           => <<jobs[id].status, jobs'[id].status>> \in Lifecycle!Moves
    BY RowMoves
  <2> QED
    BY <2>1, <2>2 DEF Lifecycle!Next
<1> QED
  BY <1>1, <1>2, TypeCorrect, PTL DEF Spec, KeepsLifecycle, Lifecycle!Spec

=============================================================================
