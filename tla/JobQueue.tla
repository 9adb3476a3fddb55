------------------------------ MODULE JobQueue ------------------------------
(***************************************************************************)
(* The jobs table (jobQueue.ts), the executor (jobQueueExecutor.ts), the   *)
(* claim endpoint (jobClaims.ts) and the producers, as the server sees     *)
(* them.  The workers are left open: any of them may heartbeat or report   *)
(* any job at any moment, and the ingest service may answer anything, so   *)
(* what holds here holds whatever the workers do.  IngestQueue closes the  *)
(* system with the ingest service, its runs and the deploy agent.          *)
(*                                                                         *)
(* A row keeps the columns that decide anything.  dedupe_key is the kind   *)
(* (so it is for all three producers), priority, resources and lease are   *)
(* the kind's, beat is COALESCE(heartbeat_at, claimed_at), slot is the     *)
(* payload's slot, by is enqueued_by.                                      *)
(***************************************************************************)
EXTENDS JobQueuePolicy

CONSTANTS
    ExecutorKinds,  \* dispatch "executor": the ingest runs
    StaleDelay,     \* how long after its base instant a job goes stale, 0 = never
    RetryDelay,     \* INGEST_DISPATCH_RETRY_MS
    MaxJobs,        \* bound: rows of the jobs table
    MaxTime         \* bound: the clock

ClaimKinds == Kinds \ ExecutorKinds

ASSUME QueueAssumption ==
    /\ ExecutorKinds \subseteq Kinds
    /\ Kinds # {}
    /\ StaleDelay \in [Kinds -> Nat]
    /\ RetryDelay \in Nat
    /\ MaxJobs \in Nat
    /\ MaxTime \in Nat \ {0}

\* The executor's kinds hold one and the same shared resource.
ASSUME ExecutorAssumption ==
    \A k, l \in ExecutorKinds :
        ResourceOf[k] = ResourceOf[l] /\ ResourceOf[k] # Exclusive

JobIds == 1..MaxJobs

NoJob == 0

Producers == {"scheduler", "manual", "deploy-agent"}

JobStatus == {"absent", "queued", "running", "done", "failed",
              "cancelled", "superseded", "lost"}

Job == [id : JobIds, kind : Kinds, status : JobStatus, slot : Nat,
        by : Producers, not_before : Nat, stale_after : Nat, beat : Nat]

VARIABLES
    jobs,   \* the table: a record for every id, "absent" until inserted
    now,    \* the wall clock
    exec    \* jobQueueTick awaiting the service: the job and the tick's instant

vars == <<jobs, now, exec>>

Idle == [job |-> NoJob, at |-> 0]

-----------------------------------------------------------------------------
(* Reading the table. *)

Rows(status) == {jobs[id] : id \in {i \in JobIds : jobs[i].status = status}}

\* Mutant: the decision forgets the order of the queue.
MayStartAnyOrder(id) ==
    /\ jobs[id].status = "queued"
    /\ jobs[id] \in Candidates(Rows("queued"), now)
    /\ \A l \in Live(Rows("running"), now) : ~Conflict(l.kind, jobs[id].kind)

\* currentJobQueueDecision: what pickNextJobs starts now.
MayStart(id) ==
    /\ jobs[id].status = "queued"
    /\ jobs[id] \in Start(Rows("queued"), Rows("running"), now)

\* Mutant: an enqueue is coalesced into a running job too.
UnfinishedOfKind(k) ==
    {id \in JobIds : jobs[id].status \in {"queued", "running"} /\ jobs[id].kind = k}

QueuedOfKind(k) == {id \in JobIds : jobs[id].status = "queued" /\ jobs[id].kind = k}

FreeIds == {id \in JobIds : jobs[id].status = "absent"}

-----------------------------------------------------------------------------
(* Writing rows: each definition is the row (or the table) after one UPDATE. *)

\* An id no row has yet; its kind means nothing.
NoRow(id) ==
    [id |-> id, kind |-> CHOOSE k \in Kinds : TRUE, status |-> "absent",
     slot |-> 0, by |-> "manual", not_before |-> Null, stale_after |-> Null,
     beat |-> Null]

\* coalesceQueued: the newest payload and producer, the earlier start.
Coalesced(row, slot, by, nb, st) ==
    [row EXCEPT !.slot = slot, !.by = by, !.stale_after = st,
                !.not_before = Earlier(row.not_before, nb)]

NewRow(id, k, slot, by, nb, st) ==
    [id |-> id, kind |-> k, status |-> "queued", slot |-> slot, by |-> by,
     not_before |-> nb, stale_after |-> st, beat |-> Null]

\* enqueueJob: update the queued row of the key, or insert one.
EnqueueRow(k, slot, by, nb, st) ==
    \/ \E id \in QueuedOfKind(k) :
          jobs' = [jobs EXCEPT ![id] = Coalesced(jobs[id], slot, by, nb, st)]
    \/ /\ QueuedOfKind(k) = {}
       /\ \E id \in FreeIds :
             /\ \A i \in FreeIds : id <= i
             /\ jobs' = [jobs EXCEPT ![id] = NewRow(id, k, slot, by, nb, st)]

Claimed(row) == [row EXCEPT !.status = "running", !.beat = now]

Released(row, nb) ==
    [row EXCEPT !.status = "queued", !.not_before = nb, !.beat = Null]

\* Mutant: no unique index.
NoIndex(id) == TRUE

\* The unique index jobs_queued_dedupe: no second queued row of a kind.
IndexAllows(id) == QueuedOfKind(jobs[id].kind) \subseteq {id}

\* Mutant: the tick writes off stale jobs only.
WrittenOffStale(row) ==
    IF row.status = "queued" /\ Stale(row, now)
    THEN [row EXCEPT !.status = "superseded"]
    ELSE row

\* writeOffLost and writeOffStale, for every row of the decision.
WrittenOff(row) ==
    IF row.status = "running" /\ LeaseExpired(row, now)
    THEN [row EXCEPT !.status = "lost"]
    ELSE IF row.status = "queued" /\ Stale(row, now)
    THEN [row EXCEPT !.status = "superseded"]
    ELSE row

-----------------------------------------------------------------------------
Init ==
    /\ jobs = [id \in JobIds |-> NoRow(id)]
    /\ now = 1
    /\ exec = Idle

(* The producers. *)

\* enqueueIngestRun, for a slot of the scheduler or a request by hand.
enqueueIngestRun(k, slot, by) ==
    /\ k \in ExecutorKinds
    /\ EnqueueRow(k, slot, by, slot,
                  IF by = "scheduler" /\ StaleDelay[k] # 0
                  THEN slot + StaleDelay[k] ELSE Null)
    /\ UNCHANGED <<now, exec>>

ScheduleRun(k, slot) == slot <= now /\ enqueueIngestRun(k, slot, "scheduler")

startManualIngestRun(k) == enqueueIngestRun(k, now, "manual")

\* retryJob: a failed or lost ingest run is queued again as a manual one.
retryJob(id) ==
    /\ jobs[id].status \in {"failed", "lost"}
    /\ startManualIngestRun(jobs[id].kind)

enqueueDeploy(k) ==
    /\ k \in ClaimKinds
    /\ EnqueueRow(k, 0, "deploy-agent", Null, now + StaleDelay[k])
    /\ UNCHANGED <<now, exec>>

(* The executor.  A tick runs to its first await in one go: the write-offs, *)
(* then the dispatch of the job the decision starts, if the server starts   *)
(* that kind itself.                                                        *)

\* claimJob by the executor, which then awaits the service's answer.
Dispatch(id) ==
    /\ jobs' = [i \in JobIds |->
                   IF i = id THEN Claimed(jobs[i]) ELSE WrittenOff(jobs[i])]
    /\ exec' = [job |-> id, at |-> now]

\* coveredByDailyRun said the slot needs no run; a manual job always runs.
SupersedeCovered(id) ==
    /\ jobs[id].by = "scheduler"
    /\ jobs' = [i \in JobIds |->
                   IF i = id THEN [jobs[i] EXCEPT !.status = "superseded"]
                   ELSE WrittenOff(jobs[i])]
    /\ UNCHANGED exec

Dispatchable == {id \in JobIds : MayStart(id) /\ jobs[id].kind \in ExecutorKinds}

TickStarts(id) ==
    /\ exec = Idle
    /\ id \in Dispatchable
    /\ Dispatch(id)
    /\ UNCHANGED now

TickSupersedes(id) ==
    /\ exec = Idle
    /\ id \in Dispatchable
    /\ SupersedeCovered(id)
    /\ UNCHANGED now

TickWritesOff ==
    /\ exec = Idle
    /\ Dispatchable = {}
    /\ jobs' = [i \in JobIds |-> WrittenOff(jobs[i])]
    /\ UNCHANGED <<now, exec>>

jobQueueTick ==
    \/ TickWritesOff
    \/ \E id \in JobIds : TickStarts(id) \/ TickSupersedes(id)

(* The rest of dispatchIngestJob, when the service has answered. *)

\* Mutant: the tick's instant is left behind.
DispatchAcceptedKeepsInstant ==
    /\ exec # Idle
    /\ exec' = [exec EXCEPT !.job = NoJob]
    /\ UNCHANGED <<jobs, now>>

DispatchAccepted ==
    /\ exec # Idle
    /\ exec' = Idle
    /\ UNCHANGED <<jobs, now>>

\* releaseJob's UPDATE finds the row running and the index lets it back.
ReleaseSucceeds ==
    jobs[exec.job].status = "running" /\ IndexAllows(exec.job)

\* Busy, unreachable or timed out: back to the queue, or the tick throws.
DispatchRefused ==
    /\ exec # Idle
    /\ IF ReleaseSucceeds
       THEN jobs' = [jobs EXCEPT ![exec.job] = Released(@, exec.at + RetryDelay)]
       ELSE UNCHANGED jobs
    /\ exec' = Idle
    /\ UNCHANGED now

(* The endpoints. *)

\* Mutant: a claim takes the queued job without asking the policy.
claimQueuedJob(id) ==
    /\ jobs[id].status = "queued"
    /\ jobs[id].kind \in ClaimKinds
    /\ jobs' = [jobs EXCEPT ![id] = Claimed(@)]
    /\ UNCHANGED <<now, exec>>

claimNextJob(id) ==
    /\ MayStart(id)
    /\ jobs[id].kind \in ClaimKinds
    /\ jobs' = [jobs EXCEPT ![id] = Claimed(@)]
    /\ UNCHANGED <<now, exec>>

heartbeatJob(id) ==
    /\ jobs[id].status = "running"
    /\ jobs' = [jobs EXCEPT ![id].beat = now]
    /\ UNCHANGED <<now, exec>>

\* Mutant: a report ends a job whatever its status.
completeAnyJob(id, outcome) ==
    /\ jobs' = [jobs EXCEPT ![id].status = outcome]
    /\ UNCHANGED <<now, exec>>

\* completeJob, as each of its two callers guards it: an ingest report also
\* completes a job that went back to the queue, a deploy's does not.
completeJob(id, outcome) ==
    /\ \/ jobs[id].status \in {"running", "lost"}
       \/ jobs[id].status = "queued" /\ jobs[id].kind \in ExecutorKinds
    /\ jobs' = [jobs EXCEPT ![id].status = outcome]
    /\ UNCHANGED <<now, exec>>

\* Mutant: a running job can be cancelled.
cancelJobAtWork(id) ==
    /\ jobs[id].status \in {"queued", "running"}
    /\ jobs' = [jobs EXCEPT ![id].status = "cancelled"]
    /\ UNCHANGED <<now, exec>>

cancelQueuedJob(id) ==
    /\ jobs[id].status = "queued"
    /\ jobs' = [jobs EXCEPT ![id].status = "cancelled"]
    /\ UNCHANGED <<now, exec>>

\* The process stops and comes back: the table stays, the tick is gone.
ServerRestart ==
    /\ exec' = Idle
    /\ UNCHANGED <<jobs, now>>

\* The same right after claimJob, or what follows it in dispatchIngestJob
\* throws: the job is running and no request was sent.
TickBreaks(id) ==
    /\ exec = Idle
    /\ id \in Dispatchable
    /\ jobs' = [i \in JobIds |->
                   IF i = id THEN Claimed(jobs[i]) ELSE WrittenOff(jobs[i])]
    /\ UNCHANGED <<now, exec>>

Elapse ==
    /\ now < MaxTime
    /\ now' = now + 1
    /\ UNCHANGED <<jobs, exec>>

Next ==
    \/ \E k \in ExecutorKinds, slot \in 1..MaxTime : ScheduleRun(k, slot)
    \/ \E k \in ExecutorKinds : startManualIngestRun(k)
    \/ \E k \in ClaimKinds : enqueueDeploy(k)
    \/ jobQueueTick
    \/ DispatchAccepted
    \/ DispatchRefused
    \/ \E id \in JobIds :
          \/ retryJob(id)
          \/ claimNextJob(id)
          \/ heartbeatJob(id)
          \/ \E outcome \in {"done", "failed"} : completeJob(id, outcome)
          \/ cancelQueuedJob(id)
          \/ TickBreaks(id)
    \/ ServerRestart
    \/ Elapse

Spec == Init /\ [][Next]_vars

\* The 30 s interval and notifyJobQueue keep the executor ticking, and a
\* request to the service is answered or times out after 10 s.
Fairness ==
    /\ WF_vars(jobQueueTick)
    /\ WF_vars(DispatchAccepted \/ DispatchRefused)

FairSpec == Spec /\ Fairness

-----------------------------------------------------------------------------
TypeOK ==
    /\ jobs \in [JobIds -> Job]
    /\ \A id \in JobIds : jobs[id].id = id
    /\ now \in Nat \ {0}
    /\ exec \in [job : JobIds \cup {NoJob}, at : Nat]
    /\ exec.job = NoJob => exec = Idle

Running(id) == jobs[id].status = "running"

Holding(id) == Running(id) /\ ~LeaseExpired(jobs[id], now)

Starts(id) == ~Running(id) /\ Running(id)'

StartsAloneStep ==
    \A id, other \in JobIds :
        Starts(id) /\ id # other /\ Holding(other)
        => ~Conflict(jobs[id].kind, jobs[other].kind)

DrainsStep ==
    \A id, d \in JobIds :
        /\ Starts(id)
        /\ jobs[d] \in Candidates(Rows("queued"), now)
        /\ ResourceOf[jobs[d].kind] = Exclusive
        => PriorityOf[jobs[d].kind] <= PriorityOf[jobs[id].kind]

StartsInItsWindowStep ==
    \A id \in JobIds : Starts(id) => Due(jobs[id], now) /\ ~Stale(jobs[id], now)

(* At most one job per dedupe key waits, although enqueueing, retrying and *)
(* giving a job back to the queue all put rows there.                      *)
OneQueuedPerKind ==
    \A i, j \in JobIds :
        /\ jobs[i].status = "queued" /\ jobs[j].status = "queued"
        /\ jobs[i].kind = jobs[j].kind
        => i = j

(* The ingest service is never given a second job while the first is       *)
(* running, not even one whose lease ran out and that may still heartbeat: *)
(* the tick that starts a job first writes the silent one off.             *)
OneExecutorJobRunning ==
    \A i, j \in JobIds :
        /\ Running(i) /\ Running(j)
        /\ jobs[i].kind \in ExecutorKinds /\ jobs[j].kind \in ExecutorKinds
        => i = j

(* The job a tick waits on is still running, or its report came in before  *)
(* the answer did: nobody gives it back, cancels it or writes it off       *)
(* during the await.                                                       *)
AwaitedJobIsOut ==
    exec # Idle =>
        /\ jobs[exec.job].status \in {"running", "done", "failed"}
        /\ jobs[exec.job].kind \in ExecutorKinds

(* A job starts only when no running job whose lease still holds conflicts *)
(* with it: server-restart is granted alone, and nothing starts under it.  *)
StartsAlone == [][StartsAloneStep]_vars

(* A due exclusive job drains the queue: from the moment it waits, no job  *)
(* of lower priority starts, so an hourly run every hour cannot starve it. *)
Drains == [][DrainsStep]_vars

(* A job never starts before its time or after it went stale, whichever of *)
(* the executor and the claim endpoint starts it.                          *)
StartsInItsWindow == [][StartsInItsWindowStep]_vars

(* The rows keep the lifecycle of JobLifecycle. *)
Lifecycle == INSTANCE JobLifecycle WITH
    status <- [id \in JobIds |-> jobs[id].status]

KeepsLifecycle == Lifecycle!Spec

(* A lease that ran out does not hold its resource for good: the job is    *)
(* written off, or its worker turns out to be alive.                       *)
SilentJobIsWrittenOff ==
    \A id \in JobIds :
        (Running(id) /\ LeaseExpired(jobs[id], now))
        ~> (~Running(id) \/ Holding(id))

=============================================================================
