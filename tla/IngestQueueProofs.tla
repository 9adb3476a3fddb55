------------------------- MODULE IngestQueueProofs --------------------------
(***************************************************************************)
(* Theorems about IngestQueue that hold whatever goes wrong: every mix of  *)
(* faults, every bound, every table of slots, leases and delays.           *)
(*                                                                         *)
(* The argument is about slots.  A kind's slots are dealt out upwards: the *)
(* scheduler and the requests by hand take a slot later than any a job or  *)
(* a run of the kind has.  So a slot belongs to one job and to one run,    *)
(* the run of that job, and whoever writes the run of a slot writes the    *)
(* row of the job at hand.                                                 *)
(***************************************************************************)
EXTENDS IngestQueue, JobQueueProofs, WellFoundedInduction

Present(row) == row.status # "absent"

\* Ended for good: no step takes a job from here but a late report a lost one.
Over(status) == status \in {"done", "failed", "cancelled", "superseded"}

-----------------------------------------------------------------------------
(* The inductive invariant.  The tables are parameters: a tick writes two  *)
(* rows of ingest_runs one after the other.                                *)

\* A slot belongs to one job.
SlotsAreDistinct(jb) ==
    \A i, j \in JobIds :
        /\ Present(jb[i]) /\ Present(jb[j])
        /\ jb[i].kind = jb[j].kind /\ jb[i].kind \in ExecutorKinds
        /\ jb[i].slot = jb[j].slot
        => i = j

\* The unique index of ingest_runs: UNIQUE (kind, slot_at).
OneRunPerSlot(t) ==
    \A q, r \in RunIds :
        /\ Present(t[q]) /\ Present(t[r])
        /\ t[q].kind = t[r].kind /\ t[q].slot = t[r].slot
        => q = r

\* Only a slot the scheduler skipped has a run without a job.
NoJobIsSkipped(t) ==
    \A r \in RunIds :
        Present(t[r]) /\ t[r].job = NoJob => t[r].status = "skipped"

\* A run's job is a row of its kind, and coalescing only moves it later.
RunFollowsJob(t, jb) ==
    \A r \in RunIds :
        Present(t[r]) /\ t[r].job # NoJob
        => /\ Present(jb[t[r].job])
           /\ jb[t[r].job].kind = t[r].kind
           /\ t[r].slot <= jb[t[r].job].slot

\* The run of a job's slot is the run of that job.
SlotIsOfItsJob(t, jb) ==
    \A j \in JobIds, r \in RunIds :
        /\ Present(jb[j]) /\ Present(t[r])
        /\ jb[j].kind = t[r].kind /\ jb[j].slot = t[r].slot
        => t[r].job = j

\* A report closes the run and its job.
ReportedIsOver(t, jb) ==
    \A r \in RunIds :
        t[r].status \in {"done", "failed"}
        => t[r].job # NoJob /\ Over(jb[t[r].job].status)

RunsInv(t, jb) ==
    /\ t \in [RunIds -> Run]
    /\ OneRunPerSlot(t)
    /\ NoJobIsSkipped(t)
    /\ RunFollowsJob(t, jb)
    /\ SlotIsOfItsJob(t, jb)
    /\ ReportedIsOver(t, jb)

JobSlotsArePast ==
    \A j \in JobIds :
        Present(jobs[j]) /\ jobs[j].kind \in ExecutorKinds => jobs[j].slot <= now

RunSlotsArePast == \A r \in RunIds : Present(runs[r]) => runs[r].slot <= now

\* The answer, when it comes, has a run to be written in.
AwaitedHasRun ==
    exec # Idle =>
        \E r \in RunIds : /\ Present(runs[r])
                          /\ runs[r].kind = jobs[exec.job].kind
                          /\ runs[r].slot = jobs[exec.job].slot

IngestInv ==
    /\ IngestTypeOK
    /\ QueueInv
    /\ now <= MaxTime
    /\ SlotsAreDistinct(jobs)
    /\ JobSlotsArePast
    /\ RunsInv(runs, jobs)
    /\ RunSlotsArePast
    /\ AwaitedHasRun

-----------------------------------------------------------------------------
(* The least and the greatest of a set of instants. *)

LEMMA LeastNat ==
    ASSUME NEW S \in SUBSET Nat, S # {}
    PROVE  \E m \in S : \A y \in S : m <= y
<1> DEFINE R == {ss \in Nat \X Nat : ss[1] < ss[2]}
<1>1. IsWellFoundedOn(R, Nat)
  BY NatLessThanWellFounded DEF OpToRel
<1>2. \E m \in S : \A y \in S : ~(<<y, m>> \in R)
  <2> HIDE DEF R
  <2> QED
    BY <1>1, WFMin
<1>3. PICK m \in S : \A y \in S : ~(<<y, m>> \in R)
  BY <1>2
<1>4. ASSUME NEW y \in S
      PROVE  m <= y
  <2>1. ~(y < m)
    BY <1>3
  <2> QED
    BY <2>1
<1> QED
  BY <1>4

(* Latest is the greatest element, or 0 when there is none. *)
LEMMA LatestIs ==
    ASSUME NEW n \in Nat, NEW S \in SUBSET (0..n)
    PROVE  /\ Latest(S) \in S \cup {0}
           /\ \A y \in S : y <= Latest(S)
<1> DEFINE T == S \cup {0}
           D == {n - y : y \in T}
<1>1. D \subseteq Nat /\ D # {}
  OBVIOUS
<1>2. PICK d \in D : \A y \in D : d <= y
  <2> HIDE DEF D
  <2> QED
    BY <1>1, LeastNat
<1>3. PICK x \in T : d = n - x
  BY <1>2
<1>4. \A y \in T : y <= x
  <2> SUFFICES ASSUME NEW y \in T
               PROVE  y <= x
    OBVIOUS
  <2>1. n - x <= n - y
    BY <1>2, <1>3
  <2> QED
    BY <2>1
<1>5. \E z \in S \cup {0} : \A y \in S : y <= z
  BY <1>4
<1> QED
  BY <1>5 DEF Latest

-----------------------------------------------------------------------------
(* The ingest_runs table. *)

(* RunIdOf finds the one row of a slot, or a free row for it. *)
LEMMA RunIdOfIs ==
    ASSUME NEW t \in [RunIds -> Run], NEW k, NEW s,
           \/ HasRoom(t)
           \/ \E r \in RunIds : Present(t[r]) /\ t[r].kind = k /\ t[r].slot = s
    PROVE  /\ RunIdOf(t, k, s) \in RunIds
           /\ \/ LET r == RunIdOf(t, k, s)
                 IN  Present(t[r]) /\ t[r].kind = k /\ t[r].slot = s
              \/ /\ ~Present(t[RunIdOf(t, k, s)])
                 /\ \A r \in RunIds :
                       Present(t[r]) => ~(t[r].kind = k /\ t[r].slot = s)
<1> DEFINE rows == {r \in RunIds : /\ t[r].status # "absent"
                                   /\ t[r].kind = k /\ t[r].slot = s}
           free == {r \in RunIds : t[r].status = "absent"}
<1>1. CASE rows # {}
  <2>1. RunIdOf(t, k, s) \in rows
    BY <1>1 DEF RunIdOf
  <2> QED
    BY <2>1 DEF Present
<1>2. CASE rows = {}
  <2>1. free # {} /\ free \subseteq Nat
    BY <1>2 DEF HasRoom, RunIds, Present
  <2>2. \E r \in free : \A q \in free : r <= q
    <3> HIDE DEF free
    <3> QED
      BY <2>1, LeastNat
  <2>3. RunIdOf(t, k, s) \in free
    BY <1>2, <2>2 DEF RunIdOf
  <2> QED
    BY <1>2, <2>3 DEF Present
<1> QED
  BY <1>1, <1>2

\* Rows keep their slot and their job once they are written.
KeepsRows(t, u) ==
    \A r \in RunIds :
        Present(t[r])
        => /\ Present(u[r])
           /\ u[r].kind = t[r].kind /\ u[r].slot = t[r].slot
           /\ u[r].job = t[r].job

\* A row without a job was there before.
NoneLosesJob(t, u) == \A r \in RunIds : u[r].job = NoJob => u[r] = t[r]

(* Writing the run of a job's slot keeps the invariant: the row that is    *)
(* there is the job's own.                                                 *)
LEMMA WriteKeeps ==
    ASSUME NEW jb \in [JobIds -> Job], NEW t, RunsInv(t, jb),
           SlotsAreDistinct(jb),
           NEW j \in JobIds, Present(jb[j]), jb[j].kind \in ExecutorKinds,
           NEW id \in RunIds,
           \/ /\ Present(t[id])
              /\ t[id].kind = jb[j].kind /\ t[id].slot = jb[j].slot
           \/ /\ ~Present(t[id])
              /\ \A r \in RunIds :
                    Present(t[r]) => ~(t[r].kind = jb[j].kind
                                       /\ t[r].slot = jb[j].slot),
           NEW st \in {"requested", "skipped"},
           NEW u, u = [t EXCEPT ![id] = RunRow(st, jb[j].kind, jb[j].slot, j)]
    PROVE  RunsInv(u, jb) /\ KeepsRows(t, u) /\ NoneLosesJob(t, u)
<1> DEFINE row == RunRow(st, jb[j].kind, jb[j].slot, j)
<1>1. /\ row \in Run /\ Present(row) /\ row.status = st /\ row.job = j
      /\ row.kind = jb[j].kind /\ row.slot = jb[j].slot
  BY DEF RunRow, Run, RunStatus, Present, Job
<1>2. u[id] = row /\ \A r \in RunIds \ {id} : u[r] = t[r]
  BY DEF RunsInv
<1>3. u \in [RunIds -> Run]
  BY <1>1 DEF RunsInv
<1>4. j # NoJob /\ jb[j].slot \in Nat
  BY DEF JobIds, NoJob, Job
<1>5. Present(t[id]) => t[id].job = j
  BY DEF RunsInv, SlotIsOfItsJob
<1> HIDE DEF row
<1>6. OneRunPerSlot(u)
  BY <1>1, <1>2 DEF RunsInv, OneRunPerSlot
<1>7. NoJobIsSkipped(u)
  BY <1>1, <1>2, <1>4 DEF RunsInv, NoJobIsSkipped
<1>8. RunFollowsJob(u, jb)
  BY <1>1, <1>2, <1>4 DEF RunsInv, RunFollowsJob
<1>9. SlotIsOfItsJob(u, jb)
  BY <1>1, <1>2 DEF RunsInv, SlotIsOfItsJob, SlotsAreDistinct
<1>10. ReportedIsOver(u, jb)
  BY <1>1, <1>2 DEF RunsInv, ReportedIsOver
<1>11. KeepsRows(t, u)
  BY <1>1, <1>2, <1>5 DEF KeepsRows
<1>12. NoneLosesJob(t, u)
  BY <1>1, <1>2, <1>4 DEF NoneLosesJob
<1> QED
  BY <1>3, <1>6, <1>7, <1>8, <1>9, <1>10, <1>11, <1>12 DEF RunsInv

(* The scheduler's skip writes a slot no job and no run has. *)
LEMMA SkipKeeps ==
    ASSUME NEW jb \in [JobIds -> Job], NEW t, RunsInv(t, jb),
           NEW k \in ExecutorKinds, NEW s \in Nat,
           NEW id \in RunIds, ~Present(t[id]),
           \A r \in RunIds : Present(t[r]) => ~(t[r].kind = k /\ t[r].slot = s),
           \A j \in JobIds : Present(jb[j]) => ~(jb[j].kind = k /\ jb[j].slot = s),
           NEW u, u = [t EXCEPT ![id] = RunRow("skipped", k, s, NoJob)]
    PROVE  RunsInv(u, jb) /\ KeepsRows(t, u)
<1> DEFINE row == RunRow("skipped", k, s, NoJob)
<1>1. /\ row \in Run /\ Present(row) /\ row.status = "skipped"
      /\ row.job = NoJob /\ row.kind = k /\ row.slot = s
  BY DEF RunRow, Run, RunStatus, Present
<1>2. u[id] = row /\ \A r \in RunIds \ {id} : u[r] = t[r]
  BY DEF RunsInv
<1>3. u \in [RunIds -> Run]
  BY <1>1 DEF RunsInv
<1> HIDE DEF row
<1>4. OneRunPerSlot(u) /\ NoJobIsSkipped(u) /\ RunFollowsJob(u, jb)
  BY <1>1, <1>2 DEF RunsInv, OneRunPerSlot, NoJobIsSkipped, RunFollowsJob
<1>5. SlotIsOfItsJob(u, jb) /\ ReportedIsOver(u, jb)
  BY <1>1, <1>2 DEF RunsInv, SlotIsOfItsJob, ReportedIsOver
<1>6. KeepsRows(t, u)
  BY <1>1, <1>2 DEF KeepsRows
<1> QED
  BY <1>3, <1>4, <1>5, <1>6 DEF RunsInv

\* Only the status of rows that have a job moved, none to absent, and a row
\* became done or failed only as its job ended.
OnlyStatus(t, u, jb) ==
    \A r \in RunIds :
        \/ u[r] = t[r]
        \/ /\ Present(t[r]) /\ t[r].job # NoJob
           /\ u[r].status # "absent"
           /\ u[r].kind = t[r].kind /\ u[r].slot = t[r].slot
           /\ u[r].job = t[r].job
           /\ u[r].status \in {"done", "failed"} => Over(jb[t[r].job].status)

LEMMA StatusKeeps ==
    ASSUME NEW jb, NEW t, RunsInv(t, jb), NEW u \in [RunIds -> Run],
           OnlyStatus(t, u, jb)
    PROVE  RunsInv(u, jb) /\ KeepsRows(t, u) /\ NoneLosesJob(t, u)
<1>1. KeepsRows(t, u) /\ NoneLosesJob(t, u)
  BY DEF OnlyStatus, KeepsRows, NoneLosesJob, Present
<1>2. \A r \in RunIds : Present(u[r]) => Present(t[r]) /\ u[r].job = t[r].job
         /\ u[r].kind = t[r].kind /\ u[r].slot = t[r].slot
  BY DEF OnlyStatus, Present
<1>3. OneRunPerSlot(u)
  BY <1>2 DEF RunsInv, OneRunPerSlot
<1>4. NoJobIsSkipped(u)
  BY DEF RunsInv, NoJobIsSkipped, OnlyStatus
<1>5. RunFollowsJob(u, jb)
  BY <1>2 DEF RunsInv, RunFollowsJob
<1>6. SlotIsOfItsJob(u, jb)
  BY <1>2 DEF RunsInv, SlotIsOfItsJob
<1>7. ReportedIsOver(u, jb)
  BY DEF RunsInv, ReportedIsOver, OnlyStatus
<1> QED
  BY <1>1, <1>3, <1>4, <1>5, <1>6, <1>7 DEF RunsInv

-----------------------------------------------------------------------------
(* The slots of the jobs table. *)

\* A slot later than any job or run of its kind has.
Fresh(k, s) ==
    /\ \A j \in JobIds :
          Present(jobs[j]) /\ jobs[j].kind = k => jobs[j].slot < s
    /\ \A r \in RunIds :
          Present(runs[r]) /\ runs[r].kind = k => runs[r].slot < s

\* The rows keep their kinds and slots, and none appears.
SlotsStay ==
    \A i \in JobIds :
        /\ Present(jobs'[i]) <=> Present(jobs[i])
        /\ jobs'[i].kind = jobs[i].kind /\ jobs'[i].slot = jobs[i].slot

\* One row, new or queued, takes a fresh slot.
SlotDealt ==
    \E id \in JobIds, k \in Kinds, s \in Nat :
        /\ \A i \in JobIds \ {id} : jobs'[i] = jobs[i]
        /\ jobs'[id].kind = k /\ jobs'[id].slot = s
        /\ jobs'[id].status = "queued"
        /\ \/ jobs[id].status = "queued" /\ jobs[id].kind = k
           \/ ~Present(jobs[id])
        /\ k \in ExecutorKinds => Fresh(k, s) /\ s <= now

\* The runs the scheduler counts: a nightly not started was not dealt with.
Counted(k, r) ==
    /\ Present(runs[r]) /\ runs[r].kind = k
    /\ k = Nightly => runs[r].status # "not_started"

LastSlotIsNewest ==
    \A k \in ExecutorKinds :
        /\ LastSlot(k) \in Nat
        /\ \A j \in JobIds : Present(jobs[j]) /\ jobs[j].kind = k
                            => jobs[j].slot <= LastSlot(k)
        /\ \A r \in RunIds : Counted(k, r) => runs[r].slot <= LastSlot(k)
        /\ \/ LastSlot(k) = 0
           \/ \E j \in JobIds : /\ Present(jobs[j]) /\ jobs[j].kind = k
                                /\ jobs[j].slot = LastSlot(k)
           \/ \E r \in RunIds : Counted(k, r) /\ runs[r].slot = LastSlot(k)

LEMMA LastSlotNewest == IngestInv => LastSlotIsNewest
<1> SUFFICES ASSUME IngestInv, NEW k \in ExecutorKinds
             PROVE  LastSlotIsNewest!(k)
  BY DEF LastSlotIsNewest
<1> DEFINE J == {jobs[j].slot : j \in {i \in JobIds :
                    jobs[i].status # "absent" /\ jobs[i].kind = k}}
           R == {runs[r].slot : r \in {q \in RunIds :
                    /\ runs[q].status # "absent" /\ runs[q].kind = k
                    /\ k = Nightly => runs[q].status # "not_started"}}
<1>1. now \in Nat /\ jobs \in [JobIds -> Job] /\ runs \in [RunIds -> Run]
  BY DEF IngestInv, RunsInv, QueueInv, TypeOK
<1>2. J \subseteq 0..now
  <2> SUFFICES ASSUME NEW j \in JobIds, jobs[j].status # "absent",
                      jobs[j].kind = k
               PROVE  jobs[j].slot \in 0..now
    OBVIOUS
  <2>1. jobs[j].slot \in Nat /\ jobs[j].slot <= now
    BY <1>1 DEF IngestInv, JobSlotsArePast, Present, Job
  <2> QED
    BY <1>1, <2>1
<1>3. R \subseteq 0..now
  <2> SUFFICES ASSUME NEW r \in RunIds, runs[r].status # "absent"
               PROVE  runs[r].slot \in 0..now
    OBVIOUS
  <2>1. runs[r].slot \in Nat /\ runs[r].slot <= now
    BY <1>1 DEF IngestInv, RunSlotsArePast, Present, Run
  <2> QED
    BY <1>1, <2>1
<1>4. Latest(J \cup R) = LastSlot(k)
  BY DEF LastSlot
<1>5. /\ LastSlot(k) \in Nat
      /\ LastSlot(k) \in J \cup R \cup {0}
      /\ \A y \in J \cup R : y <= LastSlot(k)
  <2> HIDE DEF J, R
  <2>1. J \cup R \in SUBSET (0..now)
    BY <1>2, <1>3
  <2>2. Latest(J \cup R) \in (J \cup R) \cup {0}
        /\ \A y \in J \cup R : y <= Latest(J \cup R)
    BY <1>1, <2>1, LatestIs
  <2> QED
    BY <1>1, <1>4, <2>1, <2>2
<1>6. /\ \A j \in JobIds : Present(jobs[j]) /\ jobs[j].kind = k
                          => jobs[j].slot \in J
      /\ \A r \in RunIds : Counted(k, r) => runs[r].slot \in R
  BY DEF Present, Counted
<1>7. \A y \in J : \E j \in JobIds : /\ Present(jobs[j]) /\ jobs[j].kind = k
                                    /\ jobs[j].slot = y
  BY DEF Present
<1>8. \A y \in R : \E r \in RunIds : Counted(k, r) /\ runs[r].slot = y
  BY DEF Present, Counted
<1> HIDE DEF J, R
<1> QED
  BY <1>5, <1>6, <1>7, <1>8

(* What is newer than the newest slot dealt with is newer than any: a run  *)
(* the scheduler does not count, a nightly not started, has its job there. *)
LEMMA AboveLastSlot ==
    ASSUME IngestInv, NEW k \in ExecutorKinds, NEW s \in Nat, ~(LastSlot(k) >= s)
    PROVE  Fresh(k, s)
<1>1. jobs \in [JobIds -> Job] /\ runs \in [RunIds -> Run]
  BY DEF IngestInv, RunsInv, QueueInv, TypeOK
<1>2. LastSlotIsNewest!(k)
  BY LastSlotNewest DEF LastSlotIsNewest
<1>3. ASSUME NEW j \in JobIds, Present(jobs[j]), jobs[j].kind = k
      PROVE  jobs[j].slot < s
  BY <1>1, <1>2, <1>3 DEF Job
<1>4. ASSUME NEW r \in RunIds, Present(runs[r]), runs[r].kind = k
      PROVE  runs[r].slot < s
  <2>1. runs[r].slot \in Nat
    BY <1>1 DEF Run
  <2>2. CASE runs[r].status = "not_started"
    <3>1. /\ runs[r].job \in JobIds /\ Present(jobs[runs[r].job])
          /\ jobs[runs[r].job].kind = k
          /\ runs[r].slot <= jobs[runs[r].job].slot
      BY <1>1, <1>4, <2>2
      DEF IngestInv, RunsInv, NoJobIsSkipped, RunFollowsJob, Run
    <3>2. jobs[runs[r].job].slot < s /\ jobs[runs[r].job].slot \in Nat
      BY <1>1, <1>3, <3>1 DEF Job
    <3> QED
      BY <2>1, <3>1, <3>2
  <2>3. CASE runs[r].status # "not_started"
    BY <1>2, <1>4, <2>1, <2>3 DEF Counted
  <2> QED
    BY <2>2, <2>3
<1> QED
  BY <1>3, <1>4 DEF Fresh

LEMMA NewInstantIsFresh ==
    ASSUME IngestInv, NEW k \in ExecutorKinds, NewInstant(k)
    PROVE  Fresh(k, now)
<1>1. now \in Nat /\ jobs \in [JobIds -> Job] /\ runs \in [RunIds -> Run]
  BY DEF IngestInv, RunsInv, QueueInv, TypeOK
<1>2. ASSUME NEW j \in JobIds, Present(jobs[j]), jobs[j].kind = k
      PROVE  jobs[j].slot < now
  <2>1. jobs[j].slot \in Nat /\ jobs[j].slot <= now /\ jobs[j].slot # now
    BY <1>1, <1>2 DEF IngestInv, JobSlotsArePast, Job, NewInstant
  <2> QED
    BY <1>1, <2>1
<1>3. ASSUME NEW r \in RunIds, Present(runs[r]), runs[r].kind = k
      PROVE  runs[r].slot < now
  <2>1. runs[r].slot \in Nat /\ runs[r].slot <= now /\ runs[r].slot # now
    BY <1>1, <1>3 DEF IngestInv, RunSlotsArePast, Run, NewInstant
  <2> QED
    BY <1>1, <2>1
<1> QED
  BY <1>2, <1>3 DEF Fresh

\* Every step of the queue but enqueueing.
Serves ==
    \/ jobQueueTick \/ DispatchAccepted \/ DispatchRefused
    \/ \E id \in JobIds :
          \/ claimNextJob(id) \/ heartbeatJob(id)
          \/ \E outcome \in {"done", "failed"} : completeJob(id, outcome)
          \/ cancelQueuedJob(id) \/ TickBreaks(id)
    \/ ServerRestart \/ Elapse \/ UNCHANGED vars

(* Only enqueueing gives out slots. *)
LEMMA ServesKeepsSlots ==
    ASSUME TypeOK, Serves
    PROVE  SlotsStay
<1>a. \A j \in JobIds : jobs[j] \in Job
  BY DEF TypeOK
<1> USE DEF SlotsStay, Present
<1>w. \A j \in JobIds : /\ WrittenOff(jobs[j]).slot = jobs[j].slot
                        /\ WrittenOff(jobs[j]).kind = jobs[j].kind
                        /\ WrittenOff(jobs[j]).status = "absent"
                           <=> jobs[j].status = "absent"
  BY <1>a DEF WrittenOff, Job
<1>c. \A j \in JobIds : /\ Claimed(jobs[j]).slot = jobs[j].slot
                        /\ Claimed(jobs[j]).kind = jobs[j].kind
                        /\ Claimed(jobs[j]).status = "running"
  BY <1>a DEF Claimed, Job
<1>1. ASSUME NEW id \in JobIds, TickStarts(id) \/ TickBreaks(id)
      PROVE  SlotsStay
  <2>1. jobs[id].status = "queued"
    BY <1>1 DEF TickStarts, TickBreaks, Dispatchable, MayStart
  <2>2. \A i \in JobIds :
           jobs'[i] = IF i = id THEN Claimed(jobs[i]) ELSE WrittenOff(jobs[i])
    BY <1>1 DEF TickStarts, Dispatch, TickBreaks
  <2> QED
    BY <2>1, <2>2, <1>w, <1>c
<1>2. ASSUME NEW id \in JobIds, TickSupersedes(id)
      PROVE  SlotsStay
  <2>1. jobs[id].status = "queued"
    BY <1>2 DEF TickSupersedes, Dispatchable, MayStart
  <2>2. \A i \in JobIds :
           jobs'[i] = IF i = id THEN [jobs[i] EXCEPT !.status = "superseded"]
                      ELSE WrittenOff(jobs[i])
    BY <1>2 DEF TickSupersedes, SupersedeCovered
  <2>3. jobs'[id].status = "superseded" /\ jobs'[id].slot = jobs[id].slot
        /\ jobs'[id].kind = jobs[id].kind
    BY <1>a, <2>2 DEF Job
  <2> QED
    BY <2>1, <2>2, <2>3, <1>w
<1>3. CASE TickWritesOff
  BY <1>3, <1>w DEF TickWritesOff
<1>4. CASE DispatchAccepted \/ ServerRestart \/ Elapse \/ UNCHANGED vars
  BY <1>4 DEF DispatchAccepted, ServerRestart, Elapse, vars
<1>5. CASE DispatchRefused
  <2>1. CASE ReleaseSucceeds
    <3>1. exec.job \in JobIds /\ jobs[exec.job].status = "running"
      BY <1>5, <2>1 DEF TypeOK, DispatchRefused, ReleaseSucceeds
    <3> DEFINE new == Released(jobs[exec.job], exec.at + RetryDelay)
    <3>2. new.slot = jobs[exec.job].slot /\ new.kind = jobs[exec.job].kind
          /\ new.status = "queued"
      BY <1>a, <3>1 DEF Released, Job
    <3>3. \A i \in JobIds : jobs'[i] = IF i = exec.job THEN new ELSE jobs[i]
      BY <1>5, <2>1 DEF DispatchRefused, TypeOK
    <3> QED
      BY <3>1, <3>2, <3>3
  <2>2. CASE ~ReleaseSucceeds
    BY <1>5, <2>2 DEF DispatchRefused
  <2> QED
    BY <2>1, <2>2
<1>6. ASSUME NEW id \in JobIds, claimNextJob(id)
      PROVE  SlotsStay
  <2>1. /\ jobs[id].status = "queued"
        /\ \A i \in JobIds : jobs'[i] = IF i = id THEN Claimed(jobs[i])
                                         ELSE jobs[i]
    BY <1>6 DEF claimNextJob, MayStart, TypeOK
  <2> QED
    BY <2>1, <1>c
<1>7. ASSUME NEW id \in JobIds, heartbeatJob(id)
      PROVE  SlotsStay
  BY <1>7, <1>a DEF heartbeatJob, TypeOK, Job
<1>8. ASSUME NEW id \in JobIds, NEW st \in {"done", "failed", "cancelled"},
             jobs[id].status \in {"queued", "running", "lost"},
             jobs' = [jobs EXCEPT ![id].status = st]
      PROVE  SlotsStay
  BY <1>8, <1>a DEF TypeOK, Job
<1>9. ASSUME NEW id \in JobIds, NEW outcome \in {"done", "failed"},
             completeJob(id, outcome)
      PROVE  SlotsStay
  BY <1>8, <1>9 DEF completeJob
<1>10. ASSUME NEW id \in JobIds, cancelQueuedJob(id)
       PROVE  SlotsStay
  BY <1>8, <1>10 DEF cancelQueuedJob
<1> HIDE DEF SlotsStay, Present
<1> QED
  BY <1>1, <1>2, <1>3, <1>4, <1>5, <1>6, <1>7, <1>9, <1>10
  DEF Serves, jobQueueTick

LEMMA ServesIsStep == Serves => [Next]_vars
BY DEF Serves, Next

(* Enqueueing an ingest run for a fresh slot, or a deploy. *)
LEMMA IngestEnqueueDeals ==
    ASSUME TypeOK, NEW k, NEW s \in Nat, NEW by \in Producers,
           enqueueIngestRun(k, s, by), Fresh(k, s), s <= now
    PROVE  SlotDealt
<1>1. k \in Kinds
  BY QueueAssumption DEF enqueueIngestRun
<1>2. PICK st \in Nat : EnqueueRow(k, s, by, s, st)
  BY IngestEnqueue
<1>3. PICK id \in JobIds :
         /\ \A i \in JobIds \ {id} : jobs'[i] = jobs[i]
         /\ jobs'[id].kind = k /\ jobs'[id].slot = s
         /\ jobs'[id].status = "queued"
         /\ \/ jobs[id].status = "queued" /\ jobs[id].kind = k
            \/ jobs[id].status = "absent"
  BY <1>1, <1>2, EnqueueEffect
<1> QED
  BY <1>1, <1>3 DEF SlotDealt, Present

LEMMA DeployEnqueueDeals ==
    ASSUME TypeOK, NEW k \in ClaimKinds, enqueueDeploy(k)
    PROVE  SlotDealt
<1>1. k \in Kinds /\ k \notin ExecutorKinds /\ now + StaleDelay[k] \in Nat
  BY StaleInstant DEF ClaimKinds, TypeOK
<1>2. "deploy-agent" \in Producers /\ Null \in Nat /\ 0 \in Nat
  BY DEF Producers, Null
<1>3. EnqueueRow(k, 0, "deploy-agent", Null, now + StaleDelay[k])
  BY DEF enqueueDeploy
<1>4. PICK id \in JobIds :
         /\ \A i \in JobIds \ {id} : jobs'[i] = jobs[i]
         /\ jobs'[id].kind = k /\ jobs'[id].slot = 0
         /\ jobs'[id].status = "queued"
         /\ \/ jobs[id].status = "queued" /\ jobs[id].kind = k
            \/ jobs[id].status = "absent"
  BY <1>1, <1>2, <1>3, EnqueueEffect
<1> QED
  BY <1>1, <1>2, <1>4 DEF SlotDealt, Present

(* What ended for good stays so. *)
LEMMA OverStays ==
    ASSUME TypeOK, [Next]_vars, NEW i \in JobIds, Over(jobs[i].status)
    PROVE  Over(jobs'[i].status)
BY RowMoves DEF Over, Lifecycle!Moves

(* A step of the queue keeps what relates its slots with those of the runs. *)
LEMMA QueueStepKeepsSlots ==
    ASSUME IngestInv, [Next]_vars, TypeOK', SlotsStay \/ SlotDealt
    PROVE  /\ SlotsAreDistinct(jobs')
           /\ RunsInv(runs, jobs')
           /\ now' >= now => JobSlotsArePast'
<1>1. /\ TypeOK /\ now \in Nat /\ now' \in Nat
      /\ jobs \in [JobIds -> Job] /\ jobs' \in [JobIds -> Job]
      /\ runs \in [RunIds -> Run]
  BY DEF IngestInv, RunsInv, QueueInv, TypeOK
<1>2. ReportedIsOver(runs, jobs')
  <2> SUFFICES ASSUME NEW r \in RunIds, runs[r].status \in {"done", "failed"}
               PROVE  runs[r].job # NoJob /\ Over(jobs'[runs[r].job].status)
    BY DEF ReportedIsOver
  <2>1. runs[r].job # NoJob /\ Over(jobs[runs[r].job].status)
    BY DEF IngestInv, RunsInv, ReportedIsOver
  <2>2. runs[r].job \in JobIds
    BY <1>1, <2>1 DEF Run
  <2> QED
    BY <1>1, <2>1, <2>2, OverStays
<1>3. CASE SlotsStay
  <2>1. SlotsAreDistinct(jobs')
    BY <1>3 DEF IngestInv, SlotsAreDistinct, SlotsStay
  <2>2. RunFollowsJob(runs, jobs')
    BY <1>1, <1>3 DEF IngestInv, RunsInv, RunFollowsJob, SlotsStay, Run
  <2>3. SlotIsOfItsJob(runs, jobs')
    BY <1>3 DEF IngestInv, RunsInv, SlotIsOfItsJob, SlotsStay
  <2>4. now' >= now => JobSlotsArePast'
    BY <1>1, <1>3 DEF IngestInv, JobSlotsArePast, SlotsStay, Job
  <2> QED
    BY <1>2, <2>1, <2>2, <2>3, <2>4 DEF IngestInv, RunsInv
<1>4. CASE SlotDealt
  <2>1. PICK id \in JobIds, k \in Kinds, s \in Nat :
           /\ \A i \in JobIds \ {id} : jobs'[i] = jobs[i]
           /\ jobs'[id].kind = k /\ jobs'[id].slot = s
           /\ jobs'[id].status = "queued"
           /\ \/ jobs[id].status = "queued" /\ jobs[id].kind = k
              \/ ~Present(jobs[id])
           /\ k \in ExecutorKinds => Fresh(k, s) /\ s <= now
    BY <1>4 DEF SlotDealt
  <2>2. \A j \in JobIds : jobs[j].slot \in Nat
    BY <1>1 DEF Job
  <2>3. \A r \in RunIds : runs[r].slot \in Nat /\ runs[r].kind \in ExecutorKinds
                         /\ runs[r].job \in JobIds \cup {NoJob}
    BY <1>1 DEF Run
  <2>4. SlotsAreDistinct(jobs')
    BY <2>1, <2>2 DEF IngestInv, SlotsAreDistinct, Fresh
  <2>5. RunFollowsJob(runs, jobs')
    <3> SUFFICES ASSUME NEW r \in RunIds, Present(runs[r]), runs[r].job # NoJob
                 PROVE  /\ Present(jobs'[runs[r].job])
                        /\ jobs'[runs[r].job].kind = runs[r].kind
                        /\ runs[r].slot <= jobs'[runs[r].job].slot
      BY DEF RunFollowsJob
    <3>1. /\ runs[r].job \in JobIds /\ Present(jobs[runs[r].job])
          /\ jobs[runs[r].job].kind = runs[r].kind
          /\ runs[r].slot <= jobs[runs[r].job].slot
      BY <2>3 DEF IngestInv, RunsInv, RunFollowsJob
    <3>2. CASE runs[r].job # id
      BY <2>1, <3>1, <3>2
    <3>3. CASE runs[r].job = id
      <4>1. k = runs[r].kind /\ k \in ExecutorKinds
        BY <2>1, <2>3, <3>1, <3>3
      <4>2. runs[r].slot < s
        BY <2>1, <4>1 DEF Fresh
      <4> QED
        BY <2>1, <2>3, <3>3, <4>1, <4>2 DEF Present
    <3> QED
      BY <3>2, <3>3
  <2>6. SlotIsOfItsJob(runs, jobs')
    <3> SUFFICES ASSUME NEW j \in JobIds, NEW r \in RunIds,
                        Present(jobs'[j]), Present(runs[r]),
                        jobs'[j].kind = runs[r].kind,
                        jobs'[j].slot = runs[r].slot
                 PROVE  runs[r].job = j
      BY DEF SlotIsOfItsJob
    <3>1. CASE j = id
      <4>1. k \in ExecutorKinds /\ k = runs[r].kind /\ s = runs[r].slot
        BY <2>1, <2>3, <3>1
      <4>2. runs[r].slot < s
        BY <2>1, <4>1 DEF Fresh
      <4> QED
        BY <2>3, <4>1, <4>2
    <3>2. CASE j # id
      BY <2>1, <3>2 DEF IngestInv, RunsInv, SlotIsOfItsJob
    <3> QED
      BY <3>1, <3>2
  <2>7. now' >= now => JobSlotsArePast'
    BY <1>1, <2>1, <2>2 DEF IngestInv, JobSlotsArePast
  <2> QED
    BY <1>2, <2>4, <2>5, <2>6, <2>7 DEF IngestInv, RunsInv
<1> QED
  BY <1>3, <1>4

LEMMA SlotAtOrBefore ==
    ASSUME IngestInv
    PROVE  /\ nightlySlotAtOrBefore \in Nat /\ nightlySlotAtOrBefore <= now
           /\ hourlySlotAtOrBefore \in Nat /\ hourlySlotAtOrBefore <= now
<1>1. now \in Nat
  BY DEF IngestInv, QueueInv, TypeOK
<1>2. ASSUME NEW S \in SUBSET Nat
      PROVE  /\ Latest({s \in S : s <= now}) \in Nat
             /\ Latest({s \in S : s <= now}) <= now
  <2> DEFINE P == {s \in S : s <= now}
  <2>1. \A s \in P : s \in 0..now
    BY <1>1
  <2> HIDE DEF P
  <2>2. Latest(P) \in P \cup {0}
    <3>1. P \in SUBSET (0..now)
      BY <2>1
    <3> QED
      BY <1>1, <3>1, LatestIs
  <2>3. Latest(P) \in 0..now
    <3>1. 0 \in 0..now
      BY <1>1
    <3> QED
      BY <2>1, <2>2, <3>1
  <2>4. Latest(P) \in Nat /\ Latest(P) <= now
    BY <1>1, <2>3
  <2> QED
    BY <2>4 DEF P
<1> QED
  BY <1>2, IngestAssumption DEF nightlySlotAtOrBefore, hourlySlotAtOrBefore

-----------------------------------------------------------------------------
(* What the executor and the requests by hand write in ingest_runs.        *)

LEMMA MarkRequested ==
    ASSUME NEW jb \in [JobIds -> Job], NEW t, RunsInv(t, jb),
           SlotsAreDistinct(jb),
           NEW j \in JobIds, Present(jb[j]), jb[j].kind \in ExecutorKinds,
           HasRoom(t),
           NEW u, u = markIngestRunRequested(t, jb[j].kind, jb[j].slot, j)
    PROVE  /\ RunsInv(u, jb) /\ KeepsRows(t, u) /\ NoneLosesJob(t, u)
           /\ LET id == RunIdOf(t, jb[j].kind, jb[j].slot)
              IN  /\ id \in RunIds
                  /\ u[id] = RunRow("requested", jb[j].kind, jb[j].slot, j)
                  /\ \A r \in RunIds \ {id} : u[r] = t[r]
                  /\ Present(t[id]) => t[id].job = j
<1> DEFINE id == RunIdOf(t, jb[j].kind, jb[j].slot)
<1>1. t \in [RunIds -> Run]
  BY DEF RunsInv
<1>2. /\ id \in RunIds
      /\ \/ Present(t[id]) /\ t[id].kind = jb[j].kind /\ t[id].slot = jb[j].slot
         \/ /\ ~Present(t[id])
            /\ \A r \in RunIds : Present(t[r]) => ~(t[r].kind = jb[j].kind
                                                   /\ t[r].slot = jb[j].slot)
  BY <1>1, RunIdOfIs
<1>3. u = [t EXCEPT ![id] = RunRow("requested", jb[j].kind, jb[j].slot, j)]
  BY DEF markIngestRunRequested
<1>4. Present(t[id]) => t[id].job = j
  BY <1>2 DEF RunsInv, SlotIsOfItsJob
<1> HIDE DEF id
<1>5. RunsInv(u, jb) /\ KeepsRows(t, u) /\ NoneLosesJob(t, u)
  BY <1>2, <1>3, WriteKeeps
<1>6. /\ u[id] = RunRow("requested", jb[j].kind, jb[j].slot, j)
      /\ \A r \in RunIds \ {id} : u[r] = t[r]
  BY <1>1, <1>2, <1>3
<1> QED
  BY <1>2, <1>4, <1>5, <1>6 DEF id

LEMMA MarkSkipped ==
    ASSUME NEW jb \in [JobIds -> Job], NEW t, RunsInv(t, jb),
           SlotsAreDistinct(jb),
           NEW j \in JobIds, Present(jb[j]), jb[j].kind \in ExecutorKinds,
           HasRoom(t),
           NEW u, u = markIngestRunSkipped(t, jb[j].kind, jb[j].slot, j)
    PROVE  /\ RunsInv(u, jb) /\ KeepsRows(t, u) /\ NoneLosesJob(t, u)
           /\ \A r \in RunIds :
                 \/ u[r] = t[r]
                 \/ /\ t[r].status \in {"absent", "skipped", "not_started"}
                    /\ u[r].status = "skipped" /\ u[r].job = j
<1> DEFINE id == RunIdOf(t, jb[j].kind, jb[j].slot)
<1>1. t \in [RunIds -> Run]
  BY DEF RunsInv
<1>2. /\ id \in RunIds
      /\ \/ Present(t[id]) /\ t[id].kind = jb[j].kind /\ t[id].slot = jb[j].slot
         \/ /\ ~Present(t[id])
            /\ \A r \in RunIds : Present(t[r]) => ~(t[r].kind = jb[j].kind
                                                   /\ t[r].slot = jb[j].slot)
  BY <1>1, RunIdOfIs
<1>3. CASE t[id].status \in {"absent", "skipped", "not_started"}
  <2>1. u = [t EXCEPT ![id] = RunRow("skipped", jb[j].kind, jb[j].slot, j)]
    BY <1>3 DEF markIngestRunSkipped
  <2> HIDE DEF id
  <2>2. RunsInv(u, jb) /\ KeepsRows(t, u) /\ NoneLosesJob(t, u)
    BY <1>2, <2>1, WriteKeeps
  <2> QED
    BY <1>1, <1>2, <1>3, <2>1, <2>2 DEF RunRow
<1>4. CASE t[id].status \notin {"absent", "skipped", "not_started"}
  <2>1. u = t
    BY <1>4 DEF markIngestRunSkipped
  <2> QED
    BY <2>1 DEF KeepsRows, NoneLosesJob
<1> QED
  BY <1>3, <1>4

(* The write-offs of a tick: runs of silent jobs become lost, the slot of  *)
(* a stale job is skipped if it did not run.                               *)
LEMMA WriteOffsKeep ==
    ASSUME IngestInv, TypeOK', SlotsStay, RoomToWriteOff,
           RunsInv(runs, jobs'), SlotsAreDistinct(jobs')
    PROVE  /\ RunsInv(AfterWriteOffs, jobs')
           /\ KeepsRows(runs, AfterWriteOffs)
           /\ NoneLosesJob(runs, AfterWriteOffs)
           /\ \A r \in RunIds :
                 \/ AfterWriteOffs[r] = runs[r] /\ r \notin LostRuns
                 \/ r \in LostRuns /\ AfterWriteOffs[r].status = "lost"
                    /\ runs[r].status = "requested"
                 \/ /\ runs[r].status \in {"absent", "skipped", "not_started"}
                    /\ AfterWriteOffs[r].status = "skipped"
<1> DEFINE lost == [r \in RunIds |-> IF r \in LostRuns
                                     THEN [runs[r] EXCEPT !.status = "lost"]
                                     ELSE runs[r]]
<1>1. runs \in [RunIds -> Run] /\ jobs \in [JobIds -> Job]
      /\ jobs' \in [JobIds -> Job]
  BY DEF IngestInv, RunsInv, QueueInv, TypeOK
<1>2. \A r \in LostRuns : r \in RunIds /\ runs[r].status = "requested"
                         /\ runs[r].job \in JobIds
  BY DEF LostRuns, InFlight
<1>3. \A r \in RunIds : r \in LostRuns =>
         /\ lost[r] \in Run /\ lost[r].status = "lost"
         /\ lost[r].kind = runs[r].kind /\ lost[r].slot = runs[r].slot
         /\ lost[r].job = runs[r].job
  BY <1>1 DEF Run, RunStatus
<1>4. \A r \in RunIds : r \notin LostRuns => lost[r] = runs[r]
  OBVIOUS
<1>5. lost \in [RunIds -> Run]
  BY <1>1, <1>3, <1>4
<1> HIDE DEF lost
<1>6. OnlyStatus(runs, lost, jobs')
  BY <1>2, <1>3, <1>4 DEF OnlyStatus, Present, JobIds, NoJob
<1>7. /\ RunsInv(lost, jobs') /\ KeepsRows(runs, lost)
      /\ NoneLosesJob(runs, lost)
  BY <1>5, <1>6, StatusKeeps
<1>8. CASE StaleRuns = {}
  <2>1. AfterWriteOffs = lost
    BY <1>8 DEF AfterWriteOffs, lost
  <2> QED
    BY <1>2, <1>3, <1>4, <1>7, <2>1
<1>9. CASE StaleRuns # {}
  <2> DEFINE j == CHOOSE j \in StaleRuns : TRUE
  <2>1. j \in JobIds /\ jobs[j].status = "queued" /\ jobs[j].kind \in ExecutorKinds
    BY <1>9 DEF StaleRuns
  <2>2. AfterWriteOffs = markIngestRunSkipped(lost, jobs[j].kind, jobs[j].slot, j)
    BY <1>9 DEF AfterWriteOffs, lost
  <2> HIDE DEF j
  <2>3. /\ Present(jobs'[j]) /\ jobs'[j].kind = jobs[j].kind
        /\ jobs'[j].slot = jobs[j].slot
    BY <2>1 DEF SlotsStay, Present
  <2>4. HasRoom(lost)
    BY <1>2, <1>4, <1>9 DEF RoomToWriteOff, HasRoom
  <2>5. /\ RunsInv(AfterWriteOffs, jobs')
        /\ KeepsRows(lost, AfterWriteOffs)
        /\ NoneLosesJob(lost, AfterWriteOffs)
        /\ \A r \in RunIds :
              \/ AfterWriteOffs[r] = lost[r]
              \/ /\ lost[r].status \in {"absent", "skipped", "not_started"}
                 /\ AfterWriteOffs[r].status = "skipped"
    BY <1>1, <1>7, <2>1, <2>2, <2>3, <2>4, MarkSkipped
  <2>6. KeepsRows(runs, AfterWriteOffs) /\ NoneLosesJob(runs, AfterWriteOffs)
    BY <1>7, <2>5 DEF KeepsRows, NoneLosesJob
  <2> QED
    BY <1>2, <1>3, <1>4, <2>5, <2>6
<1> QED
  BY <1>8, <1>9

-----------------------------------------------------------------------------
(* Every action of IngestQueue is a step of JobQueue or leaves it alone.   *)

LEMMA NowMoves ==
    ASSUME TypeOK, [Next]_vars
    PROVE  now' = now \/ (now' = now + 1 /\ now < MaxTime)
BY DEF Next, vars, ScheduleRun, startManualIngestRun, enqueueIngestRun,
       enqueueDeploy, jobQueueTick, TickStarts, TickSupersedes, TickWritesOff,
       DispatchAccepted, DispatchRefused, retryJob, claimNextJob, heartbeatJob,
       completeJob, cancelQueuedJob, TickBreaks, ServerRestart, Elapse

LEMMA Parts ==
    ASSUME IngestInv
    PROVE  /\ TypeOK /\ jobs \in [JobIds -> Job] /\ runs \in [RunIds -> Run]
           /\ now \in Nat \ {0}
           /\ service.current # NoRequest => service.current \in Request
           /\ agent.job \in JobIds \cup {NoJob}
           /\ agent # AgentIdle => agent.job \in JobIds
           /\ \A p \in reports : p.run \in RunIds /\ p.outcome \in {"done", "failed"}
<1>1. TypeOK /\ jobs \in [JobIds -> Job] /\ runs \in [RunIds -> Run]
      /\ now \in Nat \ {0}
  BY DEF IngestInv, RunsInv, QueueInv, TypeOK
<1>2. agent \in [phase : {"idle", "deploying", "restarted", "rolled-back"},
                job : JobIds \cup {NoJob}]
      /\ (agent.phase = "idle" <=> agent.job = NoJob)
  BY DEF IngestInv, IngestTypeOK
<1>3. agent # AgentIdle => agent.job \in JobIds
  BY <1>2 DEF AgentIdle
<1>4. service.current # NoRequest => service.current \in Request
  BY DEF IngestInv, IngestTypeOK
<1>5. \A p \in reports : p.run \in RunIds /\ p.outcome \in {"done", "failed"}
  BY DEF IngestInv, IngestTypeOK
<1> QED
  BY <1>1, <1>2, <1>3, <1>4, <1>5

(* A run that takes a report has a job. *)
LEMMA ReportHasJob ==
    ASSUME IngestInv, NEW r \in RunIds, AcceptsReport(r)
    PROVE  runs[r].job \in JobIds /\ Present(runs[r])
<1>1. runs[r] \in Run /\ Present(runs[r]) /\ runs[r].status # "skipped"
  BY Parts DEF AcceptsReport, Present
<1> QED
  BY <1>1 DEF IngestInv, RunsInv, NoJobIsSkipped, Run

LEMMA SchedulerDeals ==
    ASSUME IngestInv, SchedulerEnqueues
    PROVE  [Next]_vars /\ SlotDealt
<1> USE Parts
<1>1. Nightly \in ExecutorKinds /\ Hourly \in ExecutorKinds
  BY IngestAssumption
<1>2. ASSUME NEW k \in ExecutorKinds, NEW s \in Nat, s <= now,
             ~(LastSlot(k) >= s), ScheduleRun(k, s)
      PROVE  [Next]_vars /\ SlotDealt
  <2>1. LastSlot(k) \in Nat
    BY LastSlotNewest DEF LastSlotIsNewest
  <2>2. s \in 1..MaxTime
    BY <1>2, <2>1, QueueAssumption DEF IngestInv
  <2>3. [Next]_vars
    BY <1>2, <2>2 DEF Next
  <2>4. Fresh(k, s)
    BY <1>2, AboveLastSlot
  <2>5. enqueueIngestRun(k, s, "scheduler") /\ "scheduler" \in Producers
    BY <1>2 DEF ScheduleRun, Producers
  <2>6. SlotDealt
    BY <1>2, <2>4, <2>5, IngestEnqueueDeals
  <2> QED
    BY <2>3, <2>6
<1>3. CASE ~NightlyAnswered /\ ScheduleRun(Nightly, nightlySlotAtOrBefore)
  BY <1>1, <1>2, <1>3, SlotAtOrBefore DEF NightlyAnswered
<1>4. CASE /\ LastSlot(Hourly) < hourlySlotAtOrBefore
           /\ ScheduleRun(Hourly, hourlySlotAtOrBefore)
  <2>1. LastSlot(Hourly) \in Nat
    BY <1>1, LastSlotNewest DEF LastSlotIsNewest
  <2>2. ~(LastSlot(Hourly) >= hourlySlotAtOrBefore)
    BY <1>4, <2>1, SlotAtOrBefore
  <2> QED
    BY <1>1, <1>2, <1>4, <2>2, SlotAtOrBefore
<1> QED
  BY <1>3, <1>4 DEF SchedulerEnqueues

LEMMA RunByHandDeals ==
    ASSUME IngestInv, RunByHand
    PROVE  [Next]_vars /\ SlotDealt
<1> USE Parts
<1>1. ASSUME NEW k \in ExecutorKinds, NewInstant(k), startManualIngestRun(k)
      PROVE  SlotDealt
  <2>1. Fresh(k, now) /\ "manual" \in Producers
    BY <1>1, NewInstantIsFresh DEF Producers
  <2> QED
    BY <1>1, <2>1, IngestEnqueueDeals DEF startManualIngestRun
<1>2. CASE \E k \in ExecutorKinds : NewInstant(k) /\ startManualIngestRun(k)
  BY <1>1, <1>2 DEF Next
<1>3. CASE \E j \in JobIds : /\ jobs[j].kind \in ExecutorKinds
                            /\ NewInstant(jobs[j].kind) /\ retryJob(j)
  <2>1. PICK j \in JobIds : /\ jobs[j].kind \in ExecutorKinds
                            /\ NewInstant(jobs[j].kind) /\ retryJob(j)
    BY <1>3
  <2>2. SlotDealt
    BY <1>1, <2>1 DEF retryJob
  <2>3. [Next]_vars
    BY <2>1 DEF Next
  <2> QED
    BY <2>2, <2>3
<1> QED
  BY <1>2, <1>3 DEF RunByHand

LEMMA OthersServe ==
    ASSUME IngestInv, [IngestNext]_allVars
    PROVE  \/ SchedulerEnqueues \/ RunByHand
           \/ agent = AgentIdle /\ \E k \in ClaimKinds : enqueueDeploy(k)
           \/ Serves
<1> USE Parts
<1>1. CASE SchedulerSkips \/ UNCHANGED allVars
  BY <1>1 DEF SchedulerSkips, allVars, Serves, vars
<1>2. ASSUME NEW j \in JobIds, CancelByHand(j) \/ AgentClaims(j)
      PROVE  Serves
  BY <1>2 DEF CancelByHand, AgentClaims, Serves
<1>3. CASE ExecutorTick
  BY <1>3 DEF ExecutorTick, ExecutorWritesOff, ExecutorDispatches,
              ExecutorSupersedes, Serves, jobQueueTick
<1>4. CASE AnswerAccepted \/ AnswerRefused \/ ServerCrash
  BY <1>4 DEF AnswerAccepted, AnswerRefused, ServerCrash, Serves
<1>5. ASSUME NEW r \in wire, ServiceReads(r)
      PROVE  Serves
  BY <1>5 DEF ServiceReads, Serves, vars
<1>6. CASE ServiceHeartbeats
  <2>1. service.current.job \in JobIds
    BY <1>6 DEF ServiceHeartbeats, Request
  <2> QED
    BY <1>6, <2>1 DEF ServiceHeartbeats, Serves
<1>7. ASSUME NEW outcome, RunEnds(outcome)
      PROVE  Serves
  BY <1>7 DEF RunEnds, Serves, vars
<1>8. ASSUME NEW p \in reports, ReportArrives(p)
      PROVE  Serves
  <2>1. /\ runs[p.run].job \in JobIds /\ p.outcome \in {"done", "failed"}
    BY <1>8, ReportHasJob DEF ReportArrives
  <2>2. completeJob(runs[p.run].job, p.outcome) \/ UNCHANGED <<jobs, now, exec>>
    BY <1>8 DEF ReportArrives
  <2> QED
    BY <2>1, <2>2 DEF Serves, vars
<1>9. ASSUME NEW p \in reports, ReportDropped(p)
      PROVE  Serves
  BY <1>9 DEF ReportDropped, Serves, vars
<1>10. CASE ServiceCrash \/ AgentCrash
  BY <1>10 DEF ServiceCrash, AgentCrash, Serves, vars
<1>11. CASE AgentHeartbeats
  <2>1. agent.job \in JobIds
    BY <1>11 DEF AgentHeartbeats, AgentIdle
  <2> QED
    BY <1>11, <2>1 DEF AgentHeartbeats, Serves
<1>12. CASE AgentRestarts \/ TimePasses
  BY <1>12 DEF AgentRestarts, TimePasses, Serves
<1>13. CASE AgentCompletes
  <2>1. agent.job \in JobIds
    BY <1>13 DEF AgentCompletes
  <2> QED
    BY <1>13, <2>1 DEF AgentCompletes, Serves, vars
<1> QED
  BY <1>1, <1>2, <1>3, <1>4, <1>5, <1>6, <1>7, <1>8, <1>9, <1>10, <1>11,
     <1>12, <1>13 DEF IngestNext, ingestSchedulerTick, AgentEnqueues

LEMMA IngestStep ==
    ASSUME IngestInv, [IngestNext]_allVars
    PROVE  [Next]_vars /\ (SlotsStay \/ SlotDealt)
<1> USE Parts
<1>1. CASE SchedulerEnqueues
  BY <1>1, SchedulerDeals
<1>2. CASE RunByHand
  BY <1>2, RunByHandDeals
<1>3. CASE \E k \in ClaimKinds : enqueueDeploy(k)
  BY <1>3, DeployEnqueueDeals DEF Next
<1>4. CASE Serves
  BY <1>4, ServesKeepsSlots, ServesIsStep
<1> QED
  BY <1>1, <1>2, <1>3, <1>4, OthersServe

(* The queue's side of a step: its own invariant and the slots. *)
LEMMA QueueSide ==
    ASSUME IngestInv, [IngestNext]_allVars
    PROVE  /\ QueueInv' /\ TypeOK'
           /\ now' \in Nat /\ now' >= now /\ now' <= MaxTime
           /\ SlotsAreDistinct(jobs')
           /\ RunsInv(runs, jobs')
           /\ JobSlotsArePast'
<1>1. [Next]_vars /\ (SlotsStay \/ SlotDealt)
  BY IngestStep
<1>2. QueueInv' /\ TypeOK'
  BY <1>1, InvStep, Parts, TypeStep DEF IngestInv
<1>3. now' \in Nat /\ now' >= now /\ now' <= MaxTime
  BY <1>1, Parts, NowMoves, QueueAssumption DEF IngestInv
<1> QED
  BY <1>1, <1>2, <1>3, QueueStepKeepsSlots

-----------------------------------------------------------------------------
(* The side of the runs. *)

\* What every step does to the runs: it keeps their invariant and their
\* identity, deals no later slot than now without a job, and rewrites no
\* outcome.
RunsGood ==
    /\ RunsInv(runs', jobs')
    /\ KeepsRows(runs, runs')
    /\ \A r \in RunIds :
          runs'[r].job = NoJob => runs'[r] = runs[r] \/ runs'[r].slot <= now
    /\ OutcomeStaysStep

LEMMA SameRuns ==
    ASSUME RunsInv(runs, jobs'), UNCHANGED runs
    PROVE  RunsGood
BY DEF RunsGood, KeepsRows, OutcomeStaysStep

LEMMA SkipsSide ==
    ASSUME IngestInv, SchedulerSkips
    PROVE  RunsGood
<1> DEFINE s == nightlySlotAtOrBefore
           id == RunIdOf(runs, Nightly, s)
<1>1. /\ Nightly \in ExecutorKinds /\ s \in Nat /\ s <= now
      /\ jobs \in [JobIds -> Job] /\ runs \in [RunIds -> Run] /\ now \in Nat
  BY IngestAssumption, SlotAtOrBefore, Parts
<1>2. Fresh(Nightly, s)
  BY <1>1, AboveLastSlot DEF SchedulerSkips, NightlyAnswered
<1>3. /\ \A j \in JobIds : Present(jobs[j]) => ~(jobs[j].kind = Nightly
                                              /\ jobs[j].slot = s)
      /\ \A r \in RunIds : Present(runs[r]) => ~(runs[r].kind = Nightly
                                              /\ runs[r].slot = s)
  BY <1>1, <1>2 DEF Fresh, Job, Run
<1>4. id \in RunIds /\ ~Present(runs[id])
  BY <1>1, <1>3, RunIdOfIs DEF SchedulerSkips
<1>5. runs' = [runs EXCEPT ![id] = RunRow("skipped", Nightly, s, NoJob)]
  BY <1>4 DEF SchedulerSkips, markIngestRunSkipped, Present
<1> HIDE DEF id, s
<1>6. RunsInv(runs', jobs) /\ KeepsRows(runs, runs')
  BY <1>1, <1>3, <1>4, <1>5, SkipKeeps DEF IngestInv
<1>7. runs'[id].slot = s /\ \A r \in RunIds \ {id} : runs'[r] = runs[r]
  BY <1>1, <1>4, <1>5 DEF RunRow
<1>8. OutcomeStaysStep
  BY <1>4, <1>7 DEF OutcomeStaysStep, Present
<1> QED
  BY <1>1, <1>6, <1>7, <1>8 DEF RunsGood, SchedulerSkips

LEMMA CancelSide ==
    ASSUME IngestInv, NEW j \in JobIds, CancelByHand(j),
           RunsInv(runs, jobs'), SlotsAreDistinct(jobs'), TypeOK'
    PROVE  RunsGood
<1>1. SlotsStay
  BY Parts, ServesKeepsSlots DEF CancelByHand, Serves
<1>2. CASE jobs[j].kind \notin ExecutorKinds
  BY <1>2, SameRuns DEF CancelByHand
<1>3. CASE jobs[j].kind \in ExecutorKinds
  <2>1. /\ jobs' \in [JobIds -> Job] /\ Present(jobs'[j])
        /\ jobs'[j].kind = jobs[j].kind /\ jobs'[j].slot = jobs[j].slot
    BY <1>1 DEF SlotsStay, CancelByHand, cancelQueuedJob, Present, TypeOK
  <2>2. /\ HasRoom(runs)
        /\ runs' = markIngestRunSkipped(runs, jobs'[j].kind, jobs'[j].slot, j)
    BY <1>3, <2>1 DEF CancelByHand
  <2>3. /\ RunsInv(runs', jobs') /\ KeepsRows(runs, runs')
        /\ NoneLosesJob(runs, runs')
        /\ \A r \in RunIds :
              \/ runs'[r] = runs[r]
              \/ runs[r].status \in {"absent", "skipped", "not_started"}
    BY <1>3, <2>1, <2>2, MarkSkipped
  <2> QED
    BY <2>3 DEF RunsGood, NoneLosesJob, OutcomeStaysStep
<1> QED
  BY <1>2, <1>3

LEMMA WriteOffSide ==
    ASSUME IngestInv, Serves, RoomToWriteOff, runs' = AfterWriteOffs,
           RunsInv(runs, jobs'), SlotsAreDistinct(jobs'), TypeOK'
    PROVE  RunsGood
<1>1. SlotsStay
  BY Parts, ServesKeepsSlots
<1>2. /\ RunsInv(runs', jobs') /\ KeepsRows(runs, runs')
      /\ NoneLosesJob(runs, runs')
      /\ \A r \in RunIds :
            \/ runs'[r] = runs[r]
            \/ runs[r].status \in {"absent", "skipped", "not_started", "requested"}
  BY <1>1, WriteOffsKeep
<1> QED
  BY <1>2 DEF RunsGood, NoneLosesJob, OutcomeStaysStep

(* A dispatch: the write-offs of the tick, then the run of the job's slot, *)
(* in the job's own row or a new one.                                      *)
LEMMA DispatchEffect ==
    ASSUME IngestInv, NEW j \in JobIds, ExecutorDispatches(j)
    PROVE  LET id == RunIdOf(AfterWriteOffs, jobs[j].kind, jobs[j].slot)
           IN  /\ jobs[j].status = "queued" /\ jobs[j].kind \in ExecutorKinds
               /\ RunsInv(runs', jobs') /\ KeepsRows(runs, runs')
               /\ NoneLosesJob(runs, runs')
               /\ id \in RunIds
               /\ runs'[id] = RunRow("requested", jobs[j].kind, jobs[j].slot, j)
               /\ Present(runs[id]) => runs[id].job = j
               /\ \A r \in RunIds \ {id} :
                     \/ runs'[r] = runs[r] /\ r \notin LostRuns
                     \/ r \in LostRuns /\ runs'[r].status = "lost"
                        /\ runs[r].status = "requested"
                     \/ /\ runs[r].status \in {"absent", "skipped", "not_started"}
                        /\ runs'[r].status = "skipped"
<1>0. RunsInv(runs, jobs') /\ SlotsAreDistinct(jobs') /\ TypeOK'
  BY QueueSide DEF IngestNext, ExecutorTick
<1>1. /\ jobs[j].status = "queued" /\ jobs[j].kind \in ExecutorKinds
      /\ RoomToWriteOff /\ HasRoom(AfterWriteOffs) /\ Serves
  BY DEF ExecutorDispatches, TickStarts, Dispatchable, MayStart, Serves,
         jobQueueTick, RoomToDispatch
<1>2. SlotsStay
  BY <1>1, Parts, ServesKeepsSlots
<1>3. /\ jobs' \in [JobIds -> Job] /\ Present(jobs'[j])
      /\ jobs'[j].kind = jobs[j].kind /\ jobs'[j].slot = jobs[j].slot
  BY <1>0, <1>1, <1>2 DEF SlotsStay, Present, TypeOK
<1> DEFINE t == AfterWriteOffs
           id == RunIdOf(t, jobs'[j].kind, jobs'[j].slot)
<1>4. /\ RunsInv(t, jobs') /\ KeepsRows(runs, t) /\ NoneLosesJob(runs, t)
      /\ \A r \in RunIds :
            \/ t[r] = runs[r] /\ r \notin LostRuns
            \/ r \in LostRuns /\ t[r].status = "lost"
               /\ runs[r].status = "requested"
            \/ /\ runs[r].status \in {"absent", "skipped", "not_started"}
               /\ t[r].status = "skipped"
  BY <1>0, <1>1, <1>2, WriteOffsKeep
<1>5. runs' = markIngestRunRequested(t, jobs'[j].kind, jobs'[j].slot, j)
  BY <1>3 DEF ExecutorDispatches
<1>r. HasRoom(t)
  BY <1>1
<1> HIDE DEF t
<1>6. /\ RunsInv(runs', jobs') /\ KeepsRows(t, runs') /\ NoneLosesJob(t, runs')
      /\ id \in RunIds
      /\ runs'[id] = RunRow("requested", jobs'[j].kind, jobs'[j].slot, j)
      /\ \A r \in RunIds \ {id} : runs'[r] = t[r]
      /\ Present(t[id]) => t[id].job = j
  <2> HIDE DEF id
  <2>1. RunsInv(t, jobs')
    BY <1>4
  <2> QED
    BY <1>1, <1>3, <1>r, <1>5, <2>1, <1>0, MarkRequested DEF id
<1>7. KeepsRows(runs, runs') /\ NoneLosesJob(runs, runs')
  BY <1>4, <1>6 DEF KeepsRows, NoneLosesJob
<1>8. Present(runs[id]) => runs[id].job = j
  BY <1>4, <1>6 DEF KeepsRows
<1> HIDE DEF id
<1>9. \A r \in RunIds \ {id} :
         \/ runs'[r] = runs[r] /\ r \notin LostRuns
         \/ r \in LostRuns /\ runs'[r].status = "lost"
            /\ runs[r].status = "requested"
         \/ /\ runs[r].status \in {"absent", "skipped", "not_started"}
            /\ runs'[r].status = "skipped"
  BY <1>4, <1>6
<1> QED
  BY <1>1, <1>3, <1>6, <1>7, <1>8, <1>9 DEF id, t

LEMMA DispatchSide ==
    ASSUME IngestInv, NEW j \in JobIds, ExecutorDispatches(j)
    PROVE  RunsGood
<1> DEFINE id == RunIdOf(AfterWriteOffs, jobs[j].kind, jobs[j].slot)
<1>1. /\ jobs[j].status = "queued"
      /\ RunsInv(runs', jobs') /\ KeepsRows(runs, runs')
      /\ NoneLosesJob(runs, runs')
      /\ id \in RunIds /\ (Present(runs[id]) => runs[id].job = j)
      /\ \A r \in RunIds \ {id} :
            \/ runs'[r] = runs[r]
            \/ runs[r].status \in {"absent", "skipped", "not_started", "requested"}
  BY DispatchEffect
<1> HIDE DEF id
<1>2. runs[id].status \notin {"done", "failed"}
  <2> SUFFICES ASSUME runs[id].status \in {"done", "failed"}
               PROVE  FALSE
    OBVIOUS
  <2>1. Over(jobs[j].status)
    BY <1>1 DEF IngestInv, RunsInv, ReportedIsOver, Present
  <2> QED
    BY <1>1, <2>1 DEF Over
<1>3. OutcomeStaysStep
  BY <1>1, <1>2 DEF OutcomeStaysStep
<1> QED
  BY <1>1, <1>3 DEF RunsGood, NoneLosesJob

(* A slot the daily run covers: the write-offs, then the slot is skipped.  *)
LEMMA SupersedeEffect ==
    ASSUME IngestInv, NEW j \in JobIds, ExecutorSupersedes(j)
    PROVE  /\ jobs[j].status = "queued" /\ jobs[j].kind \in ExecutorKinds
           /\ RunsInv(runs', jobs') /\ KeepsRows(runs, runs')
           /\ NoneLosesJob(runs, runs')
           /\ \A r \in RunIds :
                 \/ runs'[r] = runs[r] /\ r \notin LostRuns
                 \/ r \in LostRuns /\ runs'[r].status = "lost"
                    /\ runs[r].status = "requested"
                 \/ /\ runs[r].status \in {"absent", "skipped", "not_started"}
                    /\ runs'[r].status = "skipped"
<1>0. RunsInv(runs, jobs') /\ SlotsAreDistinct(jobs') /\ TypeOK'
  BY QueueSide DEF IngestNext, ExecutorTick
<1>1. /\ jobs[j].status = "queued" /\ jobs[j].kind \in ExecutorKinds
      /\ RoomToWriteOff /\ HasRoom(AfterWriteOffs) /\ Serves
  BY DEF ExecutorSupersedes, TickSupersedes, Dispatchable, MayStart, Serves,
         jobQueueTick, RoomToDispatch
<1>2. SlotsStay
  BY <1>1, Parts, ServesKeepsSlots
<1>3. /\ jobs' \in [JobIds -> Job] /\ Present(jobs'[j])
      /\ jobs'[j].kind = jobs[j].kind /\ jobs'[j].slot = jobs[j].slot
  BY <1>0, <1>1, <1>2 DEF SlotsStay, Present, TypeOK
<1> DEFINE t == AfterWriteOffs
<1>4. /\ RunsInv(t, jobs') /\ KeepsRows(runs, t) /\ NoneLosesJob(runs, t)
      /\ \A r \in RunIds :
            \/ t[r] = runs[r] /\ r \notin LostRuns
            \/ r \in LostRuns /\ t[r].status = "lost"
               /\ runs[r].status = "requested"
            \/ /\ runs[r].status \in {"absent", "skipped", "not_started"}
               /\ t[r].status = "skipped"
  BY <1>0, <1>1, <1>2, WriteOffsKeep
<1>5. runs' = markIngestRunSkipped(t, jobs'[j].kind, jobs'[j].slot, j)
  BY <1>3 DEF ExecutorSupersedes
<1>6. HasRoom(t)
  BY <1>1
<1> HIDE DEF t
<1>7. /\ RunsInv(runs', jobs') /\ KeepsRows(t, runs') /\ NoneLosesJob(t, runs')
      /\ \A r \in RunIds :
            \/ runs'[r] = t[r]
            \/ /\ t[r].status \in {"absent", "skipped", "not_started"}
               /\ runs'[r].status = "skipped"
  BY <1>0, <1>1, <1>3, <1>4, <1>5, <1>6, MarkSkipped
<1>8. KeepsRows(runs, runs') /\ NoneLosesJob(runs, runs')
  BY <1>4, <1>7 DEF KeepsRows, NoneLosesJob
<1>9. ASSUME NEW r \in RunIds
      PROVE  \/ runs'[r] = runs[r] /\ r \notin LostRuns
             \/ r \in LostRuns /\ runs'[r].status = "lost"
                /\ runs[r].status = "requested"
             \/ /\ runs[r].status \in {"absent", "skipped", "not_started"}
                /\ runs'[r].status = "skipped"
  <2>1. CASE t[r] = runs[r] /\ r \notin LostRuns
    BY <1>7, <2>1
  <2>2. CASE r \in LostRuns /\ t[r].status = "lost" /\ runs[r].status = "requested"
    BY <1>7, <2>2
  <2>3. CASE /\ runs[r].status \in {"absent", "skipped", "not_started"}
             /\ t[r].status = "skipped"
    BY <1>7, <2>3
  <2> QED
    BY <1>4, <2>1, <2>2, <2>3
<1> QED
  BY <1>1, <1>7, <1>8, <1>9

LEMMA SupersedeSide ==
    ASSUME IngestInv, NEW j \in JobIds, ExecutorSupersedes(j)
    PROVE  RunsGood
<1>1. /\ RunsInv(runs', jobs') /\ KeepsRows(runs, runs')
      /\ NoneLosesJob(runs, runs')
      /\ \A r \in RunIds :
            \/ runs'[r] = runs[r]
            \/ runs[r].status \in {"absent", "skipped", "not_started", "requested"}
  BY SupersedeEffect
<1> QED
  BY <1>1 DEF RunsGood, NoneLosesJob, OutcomeStaysStep

(* The refused job goes back while its run becomes not started.            *)
LEMMA RefusedSide ==
    ASSUME IngestInv, AnswerRefused, RunsInv(runs, jobs')
    PROVE  RunsGood
<1>1. CASE ~ReleaseSucceeds
  BY <1>1, SameRuns DEF AnswerRefused
<1>2. CASE ReleaseSucceeds
  <2>1. /\ exec # Idle /\ exec.job \in JobIds /\ runs \in [RunIds -> Run]
        /\ jobs[exec.job].status = "running"
    BY <1>2, Parts DEF AnswerRefused, DispatchRefused, ReleaseSucceeds, TypeOK
  <2> DEFINE id == AwaitedRun
  <2>2. \E r \in RunIds : /\ Present(runs[r])
                          /\ runs[r].kind = jobs[exec.job].kind
                          /\ runs[r].slot = jobs[exec.job].slot
    BY <2>1 DEF IngestInv, AwaitedHasRun
  <2>3. /\ id \in RunIds /\ Present(runs[id])
        /\ runs[id].kind = jobs[exec.job].kind
        /\ runs[id].slot = jobs[exec.job].slot
    BY <2>1, <2>2, RunIdOfIs DEF AwaitedRun
  <2>4. runs[id].job = exec.job
    BY <2>1, <2>3 DEF IngestInv, RunsInv, SlotIsOfItsJob, Present
  <2>5. runs[id].status \notin {"done", "failed"}
    BY <2>1, <2>3, <2>4 DEF IngestInv, RunsInv, ReportedIsOver, Over
  <2>6. runs' = [runs EXCEPT ![id].status = "not_started"]
    BY <1>2 DEF AnswerRefused
  <2> HIDE DEF id
  <2>7. runs' \in [RunIds -> Run] /\ OnlyStatus(runs, runs', jobs')
    BY <2>1, <2>3, <2>4, <2>6 DEF OnlyStatus, Run, RunStatus, JobIds, NoJob
  <2>8. RunsInv(runs', jobs') /\ KeepsRows(runs, runs') /\ NoneLosesJob(runs, runs')
    BY <2>7, StatusKeeps
  <2>9. OutcomeStaysStep
    BY <2>1, <2>3, <2>5, <2>6 DEF OutcomeStaysStep
  <2> QED
    BY <2>8, <2>9 DEF RunsGood, NoneLosesJob
<1> QED
  BY <1>1, <1>2

(* A report ends the run and, unless it ended before, the run's job.       *)
LEMMA ReportSide ==
    ASSUME IngestInv, NEW p \in reports, ReportArrives(p), RunsInv(runs, jobs')
    PROVE  RunsGood
<1> DEFINE id == p.run
           j == runs[id].job
<1>1. /\ id \in RunIds /\ AcceptsReport(id) /\ p.outcome \in {"done", "failed"}
      /\ runs \in [RunIds -> Run] /\ jobs \in [JobIds -> Job]
      /\ runs' = [runs EXCEPT ![id].status = p.outcome]
  BY Parts DEF ReportArrives
<1>2. j \in JobIds /\ Present(runs[id])
  BY <1>1, ReportHasJob
<1>3. Over(jobs'[j].status)
  <2>1. CASE jobs[j].status \in {"running", "lost", "queued"}
    <3>1. completeJob(j, p.outcome)
      BY <2>1 DEF ReportArrives
    <3>2. jobs'[j].status = p.outcome
      BY <1>1, <1>2, <3>1 DEF completeJob, Job
    <3> QED
      BY <1>1, <3>2 DEF Over
  <2>2. CASE jobs[j].status \notin {"running", "lost", "queued"}
    <3>1. jobs' = jobs
      BY <2>2 DEF ReportArrives
    <3>2. jobs[j].status # "absent" /\ jobs[j].status \in JobStatus
      BY <1>1, <1>2
      DEF IngestInv, RunsInv, RunFollowsJob, Present, JobIds, NoJob, Job
    <3> QED
      BY <2>2, <3>1, <3>2 DEF Over, JobStatus
  <2> QED
    BY <2>1, <2>2
<1> HIDE DEF id
<1>4. runs' \in [RunIds -> Run] /\ OnlyStatus(runs, runs', jobs')
  BY <1>1, <1>2, <1>3 DEF OnlyStatus, Run, RunStatus, JobIds, NoJob
<1>5. RunsInv(runs', jobs') /\ KeepsRows(runs, runs') /\ NoneLosesJob(runs, runs')
  BY <1>4, StatusKeeps
<1>6. OutcomeStaysStep
  BY <1>1 DEF OutcomeStaysStep, AcceptsReport
<1> QED
  BY <1>5, <1>6 DEF RunsGood, NoneLosesJob

LEMMA RunsSide ==
    ASSUME IngestInv, [IngestNext]_allVars
    PROVE  RunsGood /\ RunSlotsArePast'
<1>0. /\ TypeOK' /\ SlotsAreDistinct(jobs') /\ RunsInv(runs, jobs')
      /\ JobSlotsArePast' /\ now \in Nat /\ now' \in Nat /\ now' >= now
  BY QueueSide, Parts
<1>1. RunsGood
  <2>1. ASSUME UNCHANGED runs
        PROVE  RunsGood
    BY <1>0, <2>1, SameRuns
  <2>2. CASE SchedulerSkips
    BY <2>2, SkipsSide
  <2>3. ASSUME NEW j \in JobIds, CancelByHand(j)
        PROVE  RunsGood
    BY <1>0, <2>3, CancelSide
  <2>4. CASE ExecutorTick
    <3>1. CASE ExecutorWritesOff
      BY <1>0, <3>1, WriteOffSide DEF ExecutorWritesOff, Serves, jobQueueTick
    <3> QED
      BY <1>0, <2>4, <3>1, DispatchSide, SupersedeSide DEF ExecutorTick
  <2>5. CASE AnswerRefused
    BY <1>0, <2>5, RefusedSide
  <2>6. CASE ServerCrash
    <3>1. CASE UNCHANGED runs
      BY <2>1, <3>1
    <3>2. CASE /\ \E j \in JobIds : TickBreaks(j) /\ ~Covered(j)
               /\ RoomToWriteOff /\ runs' = AfterWriteOffs
      BY <1>0, <3>2, WriteOffSide DEF Serves
    <3> QED
      BY <2>6, <3>1, <3>2 DEF ServerCrash
  <2>7. ASSUME NEW p \in reports, ReportArrives(p)
        PROVE  RunsGood
    BY <1>0, <2>7, ReportSide
  <2>8. CASE \/ SchedulerEnqueues \/ RunByHand \/ AnswerAccepted
             \/ \E r \in wire : ServiceReads(r)
             \/ ServiceHeartbeats \/ ServiceCrash
             \/ \E outcome \in {"done", "failed"} : RunEnds(outcome)
             \/ \E p \in reports : ReportDropped(p)
             \/ AgentEnqueues \/ \E j \in JobIds : AgentClaims(j)
             \/ AgentHeartbeats \/ AgentRestarts \/ AgentCompletes
             \/ AgentCrash \/ TimePasses \/ UNCHANGED allVars
    BY <2>1, <2>8
    DEF SchedulerEnqueues, RunByHand, AnswerAccepted, ServiceReads,
        ServiceHeartbeats, ServiceCrash, RunEnds, ReportDropped, AgentEnqueues,
        AgentClaims, AgentHeartbeats, AgentRestarts, AgentCompletes, AgentCrash,
        TimePasses, allVars
  <2> QED
    BY <2>2, <2>3, <2>4, <2>5, <2>6, <2>7, <2>8
    DEF IngestNext, ingestSchedulerTick
<1>2. RunSlotsArePast'
  <2> SUFFICES ASSUME NEW r \in RunIds, Present(runs'[r])
               PROVE  runs'[r].slot <= now'
    BY DEF RunSlotsArePast
  <2>1. /\ runs' \in [RunIds -> Run] /\ runs'[r].slot \in Nat
        /\ runs'[r].kind \in ExecutorKinds
    BY <1>1 DEF RunsGood, RunsInv, Run
  <2>2. CASE runs'[r].job = NoJob
    <3>1. runs'[r].slot <= now
      BY <1>1, <2>2 DEF RunsGood, IngestInv, RunSlotsArePast
    <3> QED
      BY <1>0, <2>1, <3>1
  <2>3. CASE runs'[r].job # NoJob
    <3> DEFINE j == runs'[r].job
    <3>1. /\ j \in JobIds /\ Present(jobs'[j])
          /\ jobs'[j].kind = runs'[r].kind /\ runs'[r].slot <= jobs'[j].slot
      BY <1>1, <2>1, <2>3 DEF RunsGood, RunsInv, RunFollowsJob, Run
    <3>2. jobs'[j].slot <= now' /\ jobs'[j].slot \in Nat
      BY <1>0, <2>1, <3>1 DEF JobSlotsArePast, TypeOK, Job
    <3> QED
      BY <1>0, <2>1, <3>1, <3>2
  <2> QED
    BY <2>2, <2>3
<1> QED
  BY <1>1, <1>2

-----------------------------------------------------------------------------
(* The rest of the invariant. *)

LEMMA AwaitedSide ==
    ASSUME IngestInv, [IngestNext]_allVars
    PROVE  AwaitedHasRun'
<1>0. /\ TypeOK /\ (exec # Idle => exec.job \in JobIds)
      /\ (SlotsStay \/ SlotDealt) /\ RunsGood
  BY Parts, IngestStep, RunsSide DEF TypeOK
<1>1. CASE exec' = Idle
  BY <1>1 DEF AwaitedHasRun
<1>2. CASE exec' = exec /\ exec # Idle
  <2>1. PICK r \in RunIds : /\ Present(runs[r])
                            /\ runs[r].kind = jobs[exec.job].kind
                            /\ runs[r].slot = jobs[exec.job].slot
    BY <1>2 DEF IngestInv, AwaitedHasRun
  <2>2. /\ Present(runs'[r]) /\ runs'[r].kind = runs[r].kind
        /\ runs'[r].slot = runs[r].slot
    BY <1>0, <2>1 DEF RunsGood, KeepsRows
  <2>3. jobs[exec.job].status \in {"running", "done", "failed"}
    BY <1>2 DEF IngestInv, QueueInv, AwaitedJobIsOut
  <2>4. /\ jobs'[exec.job].kind = jobs[exec.job].kind
        /\ jobs'[exec.job].slot = jobs[exec.job].slot
    <3>1. CASE SlotsStay
      BY <1>0, <1>2, <3>1 DEF SlotsStay
    <3>2. CASE SlotDealt
      BY <1>0, <1>2, <2>3, <3>2 DEF SlotDealt, Present
    <3> QED
      BY <1>0, <3>1, <3>2
  <2> QED
    BY <1>2, <2>1, <2>2, <2>4 DEF AwaitedHasRun
<1>3. ASSUME NEW j \in JobIds, ExecutorDispatches(j)
      PROVE  AwaitedHasRun'
  <2> DEFINE id == RunIdOf(AfterWriteOffs, jobs[j].kind, jobs[j].slot)
  <2>1. /\ jobs[j].status = "queued" /\ id \in RunIds
        /\ runs'[id] = RunRow("requested", jobs[j].kind, jobs[j].slot, j)
    BY <1>3, DispatchEffect
  <2> HIDE DEF id
  <2>2. SlotsStay /\ exec'.job = j
    BY <1>0, <1>3, ServesKeepsSlots
    DEF ExecutorDispatches, TickStarts, Dispatch, Serves, jobQueueTick
  <2>3. /\ Present(runs'[id]) /\ runs'[id].kind = jobs'[j].kind
        /\ runs'[id].slot = jobs'[j].slot
    BY <2>1, <2>2 DEF RunRow, Present, SlotsStay
  <2> QED
    BY <2>1, <2>2, <2>3 DEF AwaitedHasRun
<1>4. exec' = exec \/ exec' = Idle \/ \E j \in JobIds : ExecutorDispatches(j)
  <2>1. CASE SchedulerEnqueues \/ RunByHand
    BY <2>1 DEF SchedulerEnqueues, RunByHand, ScheduleRun, startManualIngestRun,
                retryJob, enqueueIngestRun
  <2>2. CASE ExecutorTick
    BY <2>2 DEF ExecutorTick, ExecutorWritesOff, ExecutorSupersedes,
                TickWritesOff, TickSupersedes, SupersedeCovered
  <2>3. CASE AnswerAccepted \/ AnswerRefused \/ ServerCrash
    BY <2>3 DEF AnswerAccepted, AnswerRefused, ServerCrash, DispatchAccepted,
                DispatchRefused, ServerRestart, TickBreaks
  <2>4. CASE \/ SchedulerSkips \/ (\E j \in JobIds : CancelByHand(j))
             \/ (\E r \in wire : ServiceReads(r)) \/ ServiceHeartbeats
             \/ (\E outcome \in {"done", "failed"} : RunEnds(outcome))
             \/ ServiceCrash
    BY <2>4 DEF SchedulerSkips, CancelByHand, cancelQueuedJob, ServiceReads,
                ServiceHeartbeats, heartbeatJob, RunEnds, ServiceCrash
  <2>5. CASE \E p \in reports : ReportArrives(p) \/ ReportDropped(p)
    BY <2>5 DEF ReportArrives, ReportDropped, completeJob
  <2>6. CASE \/ AgentEnqueues \/ (\E j \in JobIds : AgentClaims(j))
             \/ AgentHeartbeats \/ AgentRestarts \/ AgentCompletes
             \/ AgentCrash \/ TimePasses \/ UNCHANGED allVars
    BY <2>6 DEF AgentEnqueues, enqueueDeploy, AgentClaims, claimNextJob,
                AgentHeartbeats, heartbeatJob, AgentRestarts, ServerRestart,
                AgentCompletes, completeJob, AgentCrash, TimePasses, Elapse,
                allVars
  <2> QED
    BY <2>1, <2>2, <2>3, <2>4, <2>5, <2>6 DEF IngestNext, ingestSchedulerTick
<1> QED
  BY <1>1, <1>2, <1>3, <1>4

LEMMA FaultsTyped ==
    ASSUME IngestTypeOK, \/ \E kind : Fault(kind)
                         \/ NoFault
    PROVE  faults' \in Seq(Faults) /\ Len(faults') <= MaxFaults
<1>1. CASE NoFault
  BY <1>1 DEF NoFault, IngestTypeOK
<1>2. CASE \E kind : Fault(kind)
  <2>1. PICK kind \in Faults : /\ Len(faults) < MaxFaults
                               /\ faults' = Append(faults, kind)
    BY <1>2 DEF Fault
  <2>2. faults \in Seq(Faults) /\ MaxFaults \in Nat
    BY IngestAssumption DEF IngestTypeOK
  <2>3. faults' \in Seq(Faults) /\ Len(faults') = Len(faults) + 1
    BY <2>1, <2>2
  <2>4. Len(faults) \in Nat
    BY <2>2
  <2> QED
    BY <2>1, <2>2, <2>3, <2>4
<1> QED
  BY <1>1, <1>2

\* The part of the type invariant that is about the workers and the wires.
WorkersTyped ==
    /\ wire \subseteq Request
    /\ answer \in {"none", "accepted", "busy"}
    /\ service \in [current : Request \cup {NoRequest}, ran : SUBSET RunIds]
    /\ reports \subseteq [run : RunIds, outcome : {"done", "failed"}]
    /\ agent \in [phase : {"idle", "deploying", "restarted", "rolled-back"},
                 job : JobIds \cup {NoJob}]
    /\ agent.phase = "idle" <=> agent.job = NoJob
    /\ faults \in Seq(Faults) /\ Len(faults) <= MaxFaults

LEMMA DailyTyped ==
    ASSUME IngestInv, [IngestNext]_allVars
    PROVE  daily' \in Nat
<1>1. daily \in Nat /\ now \in Nat
  BY Parts DEF IngestInv, IngestTypeOK
<1>2. daily' \in {daily, now, DailyAfterWriteOffs}
  BY DEF IngestNext, allVars, ingestSchedulerTick, SchedulerSkips,
         SchedulerEnqueues, RunByHand, CancelByHand, ExecutorTick,
         ExecutorWritesOff, ExecutorDispatches, ExecutorSupersedes,
         AnswerAccepted, AnswerRefused, ServerCrash, ServiceReads,
         ServiceHeartbeats, RunEnds, ReportArrives, ReportDropped, ServiceCrash,
         AgentEnqueues, AgentClaims, AgentHeartbeats, AgentRestarts,
         AgentCompletes, AgentCrash, TimePasses
<1> QED
  BY <1>1, <1>2 DEF DailyAfterWriteOffs

LEMMA WorkersSide ==
    ASSUME IngestInv, [IngestNext]_allVars
    PROVE  WorkersTyped'
<1>0. WorkersTyped /\ IngestTypeOK /\ now \in Nat
  BY Parts DEF IngestInv, IngestTypeOK, WorkersTyped
<1> USE DEF WorkersTyped
<1>1. ASSUME UNCHANGED <<wire, answer, service, reports, agent, faults>>
      PROVE  WorkersTyped'
  BY <1>0, <1>1
<1>2. CASE \/ SchedulerSkips \/ SchedulerEnqueues \/ RunByHand
           \/ (\E j \in JobIds : CancelByHand(j) \/ ExecutorSupersedes(j))
           \/ ExecutorWritesOff \/ ServiceHeartbeats \/ AgentEnqueues
           \/ AgentHeartbeats \/ UNCHANGED allVars
  BY <1>1, <1>2
  DEF SchedulerSkips, SchedulerEnqueues, RunByHand, CancelByHand,
      ExecutorSupersedes, ExecutorWritesOff, ServiceHeartbeats, AgentEnqueues,
      AgentHeartbeats, allVars, network
<1>3. ASSUME NEW j \in JobIds, ExecutorDispatches(j)
      PROVE  WorkersTyped'
  <2>1. RequestOf(AfterWriteOffs, j) \in Request
    BY <1>0, <1>3, DispatchEffect DEF RequestOf, Request
  <2> QED
    BY <1>0, <1>3, <2>1 DEF ExecutorDispatches
<1>4. CASE AnswerAccepted
  BY <1>0, <1>4 DEF AnswerAccepted
<1>5. CASE AnswerRefused
  <2>1. faults' \in Seq(Faults) /\ Len(faults') <= MaxFaults
    BY <1>0, <1>5, FaultsTyped DEF AnswerRefused
  <2> QED
    BY <1>0, <1>5, <2>1 DEF AnswerRefused
<1>6. CASE ServerCrash
  <2>1. faults' \in Seq(Faults) /\ Len(faults') <= MaxFaults
    BY <1>0, <1>6, FaultsTyped DEF ServerCrash
  <2> QED
    BY <1>0, <1>6, <2>1 DEF ServerCrash
<1>7. ASSUME NEW r \in wire, ServiceReads(r)
      PROVE  WorkersTyped'
  <2>1. faults' \in Seq(Faults) /\ Len(faults') <= MaxFaults
    BY <1>0, <1>7, FaultsTyped DEF ServiceReads
  <2>2. r \in Request /\ r.run \in RunIds
    BY <1>0 DEF Request
  <2>3. service' \in [current : Request \cup {NoRequest}, ran : SUBSET RunIds]
    BY <1>0, <1>7, <2>2 DEF ServiceReads
  <2>4. answer' \in {"none", "accepted", "busy"}
    BY <1>0, <1>7 DEF ServiceReads, Answered
  <2> QED
    BY <1>0, <1>7, <2>1, <2>3, <2>4 DEF ServiceReads
<1>8. ASSUME NEW outcome \in {"done", "failed"}, RunEnds(outcome)
      PROVE  WorkersTyped'
  <2>1. service.current \in Request /\ service.current.run \in RunIds
    BY <1>0, <1>8 DEF RunEnds, Request
  <2> QED
    BY <1>0, <1>8, <2>1 DEF RunEnds
<1>9. ASSUME NEW p \in reports, ReportArrives(p) \/ ReportDropped(p)
      PROVE  WorkersTyped'
  <2>1. faults' \in Seq(Faults) /\ Len(faults') <= MaxFaults
    <3>1. (\E kind : Fault(kind)) \/ NoFault
      BY <1>9 DEF ReportArrives, ReportDropped, NoFault
    <3> QED
      BY <1>0, <3>1, FaultsTyped
  <2> QED
    BY <1>0, <1>9, <2>1 DEF ReportArrives, ReportDropped
<1>10. CASE ServiceCrash
  <2>1. faults' \in Seq(Faults) /\ Len(faults') <= MaxFaults
    BY <1>0, <1>10, FaultsTyped DEF ServiceCrash
  <2> QED
    BY <1>0, <1>10, <2>1 DEF ServiceCrash, ServiceStops
<1>11. ASSUME NEW j \in JobIds, AgentClaims(j)
       PROVE  WorkersTyped'
  <2>1. faults' \in Seq(Faults) /\ Len(faults') <= MaxFaults
    BY <1>0, <1>11, FaultsTyped DEF AgentClaims
  <2> QED
    BY <1>0, <1>11, <2>1 DEF AgentClaims, AgentIdle, network, JobIds, NoJob
<1>12. CASE AgentRestarts
  <2>1. agent' \in [phase : {"idle", "deploying", "restarted", "rolled-back"},
                    job : JobIds \cup {NoJob}]
        /\ (agent'.phase = "idle" <=> agent'.job = NoJob)
    BY <1>0, <1>12 DEF AgentRestarts
  <2>2. CASE ServiceStops
    BY <1>0, <1>12, <2>1, <2>2 DEF AgentRestarts, ServiceStops
  <2>3. CASE UNCHANGED <<service, wire, reports>>
    BY <1>0, <1>12, <2>1, <2>3 DEF AgentRestarts
  <2> QED
    BY <1>12, <2>2, <2>3 DEF AgentRestarts
<1>13. CASE AgentCompletes \/ AgentCrash
  <2>1. faults' \in Seq(Faults) /\ Len(faults') <= MaxFaults
    <3>1. (\E kind : Fault(kind)) \/ NoFault
      BY <1>13 DEF AgentCompletes, AgentCrash
    <3> QED
      BY <1>0, <3>1, FaultsTyped
  <2> QED
    BY <1>0, <1>13, <2>1 DEF AgentCompletes, AgentCrash, AgentIdle, network
<1>14. CASE TimePasses
  <2>1. faults' \in Seq(Faults) /\ Len(faults') <= MaxFaults
    BY <1>0, <1>14, FaultsTyped DEF TimePasses
  <2> QED
    BY <1>0, <1>14, <2>1 DEF TimePasses, network
<1> HIDE DEF WorkersTyped
<1> QED
  BY <1>2, <1>3, <1>4, <1>5, <1>6, <1>7, <1>8, <1>9, <1>10, <1>11, <1>12,
     <1>13, <1>14
  DEF IngestNext, ingestSchedulerTick, ExecutorTick

LEMMA IngestInvInit == IngestInit => IngestInv
<1> SUFFICES ASSUME IngestInit
             PROVE  IngestInv
  OBVIOUS
<1>1. QueueInv /\ TypeOK
  BY InvInit, TypeInit DEF IngestInit
<1>2. \A j \in JobIds : ~Present(jobs[j])
  BY NoRowType DEF IngestInit, Init, Present
<1>3. \A r \in RunIds : ~Present(runs[r]) /\ runs[r].status = "absent"
  BY DEF IngestInit, RunRow, Present
<1>4. runs \in [RunIds -> Run]
  BY IngestAssumption DEF IngestInit, RunRow, Run, RunStatus
<1>5. now <= MaxTime /\ exec = Idle
  BY QueueAssumption DEF IngestInit, Init
<1>6. IngestTypeOK
  BY <1>1, <1>4, IngestAssumption
  DEF IngestInit, IngestTypeOK, AgentIdle, NoJob
<1>7. RunsInv(runs, jobs)
  BY <1>2, <1>3, <1>4
  DEF RunsInv, OneRunPerSlot, NoJobIsSkipped, RunFollowsJob, SlotIsOfItsJob,
      ReportedIsOver
<1>8. SlotsAreDistinct(jobs) /\ JobSlotsArePast /\ RunSlotsArePast
  BY <1>2, <1>3 DEF SlotsAreDistinct, JobSlotsArePast, RunSlotsArePast
<1>9. AwaitedHasRun
  BY <1>5 DEF AwaitedHasRun
<1> QED
  BY <1>1, <1>5, <1>6, <1>7, <1>8, <1>9 DEF IngestInv

LEMMA IngestInvStep == IngestInv /\ [IngestNext]_allVars => IngestInv'
<1> SUFFICES ASSUME IngestInv, [IngestNext]_allVars
             PROVE  IngestInv'
  OBVIOUS
<1>1. /\ QueueInv' /\ TypeOK' /\ (now <= MaxTime)'
      /\ SlotsAreDistinct(jobs') /\ JobSlotsArePast'
  BY QueueSide
<1>2. RunsInv(runs', jobs') /\ RunSlotsArePast'
  BY RunsSide DEF RunsGood
<1>3. AwaitedHasRun'
  BY AwaitedSide
<1>4. IngestTypeOK'
  <2>1. runs' \in [RunIds -> Run]
    BY <1>2 DEF RunsInv
  <2> QED
    BY <1>1, <2>1, DailyTyped, WorkersSide DEF IngestTypeOK, WorkersTyped
<1> QED
  BY <1>1, <1>2, <1>3, <1>4 DEF IngestInv

-----------------------------------------------------------------------------
(* The theorems. *)

(* The invariant is inductive whatever the faults: slots are dealt out     *)
(* once, and runs, jobs and slots stay paired.                             *)
THEOREM IngestInvariant == IngestSpec => []IngestInv
BY IngestInvInit, IngestInvStep, PTL DEF IngestSpec

(* Types: the run ids of requests, reports and of what the service         *)
(* remembers exist, and the agent has a job exactly while it deploys.      *)
THEOREM IngestTypeCorrect == IngestSpec => []IngestTypeOK
BY IngestInvariant, PTL DEF IngestInv

(* IngestQueue implements JobQueue: with the scheduler, the service, the   *)
(* agent and every fault in it, each step is one of the jobs table or      *)
(* leaves it alone, so all that is proved of JobQueue holds here.          *)
THEOREM IngestImplementsQueue == IngestSpec => ImplementsJobQueue
<1>1. IngestInit => Init
  BY DEF IngestInit
<1>2. IngestInv /\ [IngestNext]_allVars => [Next]_vars
  BY IngestStep
<1> QED
  BY <1>1, <1>2, IngestInvariant, PTL DEF IngestSpec, Spec, ImplementsJobQueue

(* So server-restart is granted alone with the real workers too.           *)
COROLLARY IngestStartsAlone == IngestSpec => StartsAlone
BY IngestImplementsQueue, StartsAreAlone DEF ImplementsJobQueue

(* And the rest of what the queue promises: one queued row per kind and    *)
(* one ingest job running, a deploy that drains, starts in their window,   *)
(* and the lifecycle of every row.                                         *)
COROLLARY IngestKeepsPromises ==
    IngestSpec => /\ []OneQueuedPerKind /\ []OneExecutorJobRunning /\ []AwaitedJobIsOut
                  /\ Drains /\ StartsInItsWindow /\ KeepsLifecycle
BY IngestImplementsQueue, OneQueued, OneExecutorJob, AwaitedIsOut, DrainHolds,
   StartsAreTimely, LifecycleKept
DEF ImplementsJobQueue

(* A run that is over has no job that waits, runs or counts as lost.       *)
THEOREM ReportEndsJob == IngestSpec => []ReportedRunEndsItsJob
<1>1. IngestInv => ReportedRunEndsItsJob
  BY DEF IngestInv, RunsInv, ReportedIsOver, Over, ReportedRunEndsItsJob
<1> QED
  BY <1>1, IngestInvariant, PTL

(* No step rewrites the outcome of a run.                                  *)
THEOREM OutcomesStay == IngestSpec => OutcomeStays
<1>1. IngestInv /\ [IngestNext]_allVars => [OutcomeStaysStep]_allVars
  BY RunsSide DEF RunsGood
<1> QED
  BY <1>1, IngestInvariant, PTL DEF IngestSpec, OutcomeStays

-----------------------------------------------------------------------------
(* The newest slot. *)

LEMMA LastSlotNewestNext == IngestInv' => LastSlotIsNewest'
BY LastSlotNewest, PTL

(* A row keeps its slot, a coalesced job gets a later one, and a run that  *)
(* is no longer counted has its job there.                                 *)
LEMMA SlotsMoveOn ==
    ASSUME IngestInv, IngestInv', [IngestNext]_allVars, NEW k \in ExecutorKinds
    PROVE  LastSlot(k)' >= LastSlot(k)
<1>1. /\ LastSlotIsNewest!(k) /\ LastSlotIsNewest'
  BY LastSlotNewest, LastSlotNewestNext DEF LastSlotIsNewest
<1>2. /\ LastSlot(k)' \in Nat
      /\ \A j \in JobIds : Present(jobs'[j]) /\ jobs'[j].kind = k
                          => jobs'[j].slot <= LastSlot(k)'
      /\ \A r \in RunIds : Counted(k, r)' => runs'[r].slot <= LastSlot(k)'
  BY <1>1 DEF LastSlotIsNewest
<1>3. /\ (SlotsStay \/ SlotDealt) /\ RunsGood
      /\ jobs \in [JobIds -> Job] /\ jobs' \in [JobIds -> Job]
      /\ runs' \in [RunIds -> Run]
  BY IngestStep, RunsSide, Parts, QueueSide DEF TypeOK, RunsGood, RunsInv
<1>4. CASE LastSlot(k) = 0
  BY <1>2, <1>4
<1>5. ASSUME NEW j \in JobIds, Present(jobs[j]), jobs[j].kind = k,
             jobs[j].slot = LastSlot(k)
      PROVE  LastSlot(k)' >= LastSlot(k)
  <2>1. Present(jobs'[j]) /\ jobs'[j].kind = k /\ jobs'[j].slot >= LastSlot(k)
    <3>1. CASE SlotsStay
      BY <1>3, <1>5, <3>1 DEF SlotsStay, Job
    <3>2. CASE SlotDealt
      BY <1>3, <1>5, <3>2 DEF SlotDealt, Fresh, Present, Job
    <3> QED
      BY <1>3, <3>1, <3>2
  <2>2. jobs'[j].slot \in Nat /\ jobs[j].slot \in Nat
    BY <1>3 DEF Job
  <2> QED
    BY <1>2, <1>5, <2>1, <2>2
<1>6. ASSUME NEW r \in RunIds, Counted(k, r), runs[r].slot = LastSlot(k)
      PROVE  LastSlot(k)' >= LastSlot(k)
  <2>1. /\ Present(runs'[r]) /\ runs'[r].kind = k
        /\ runs'[r].slot = LastSlot(k) /\ runs'[r].slot \in Nat
    BY <1>3, <1>6 DEF RunsGood, KeepsRows, Counted, Run
  <2>2. CASE Counted(k, r)'
    BY <1>2, <2>1, <2>2
  <2>3. CASE ~Counted(k, r)'
    <3>1. runs'[r].status = "not_started"
      BY <2>1, <2>3 DEF Counted
    <3> DEFINE j == runs'[r].job
    <3>2. /\ j \in JobIds /\ Present(jobs'[j]) /\ jobs'[j].kind = k
          /\ runs'[r].slot <= jobs'[j].slot
      BY <1>3, <2>1, <3>1
      DEF RunsGood, RunsInv, NoJobIsSkipped, RunFollowsJob, Run
    <3>3. jobs'[j].slot \in Nat /\ jobs'[j].slot <= LastSlot(k)'
      BY <1>2, <1>3, <3>2 DEF Job
    <3> QED
      BY <1>2, <2>1, <3>2, <3>3
  <2> QED
    BY <2>2, <2>3
<1> QED
  BY <1>1, <1>4, <1>5, <1>6

(* The newest slot dealt with never moves back.                            *)
THEOREM SlotsOnlyAdvance == IngestSpec => SlotsAdvance
<1>1. IngestInv /\ IngestInv' /\ [IngestNext]_allVars
      => [\A k \in ExecutorKinds : LastSlot(k)' >= LastSlot(k)]_allVars
  BY SlotsMoveOn
<1> QED
  BY <1>1, IngestInvariant, PTL DEF IngestSpec, SlotsAdvance

-----------------------------------------------------------------------------
(* What a tick does to the rows, and what every other step leaves alone.   *)

\* A run after the write-offs: its own, lost, or skipped.
RunAfterWriteOffs(r) ==
    \/ runs'[r] = runs[r] /\ r \notin LostRuns
    \/ r \in LostRuns /\ runs'[r].status = "lost" /\ runs[r].status = "requested"
    \/ /\ runs[r].status \in {"absent", "skipped", "not_started"}
       /\ runs'[r].status = "skipped"

\* A job after the write-offs, or superseded because its slot is covered.
JobAfterWriteOffs(i) ==
    \/ jobs'[i] = WrittenOff(jobs[i])
    \/ jobs[i].status = "queued" /\ jobs'[i].status = "superseded"

LEMMA TickEffect ==
    ASSUME IngestInv, ExecutorTick
    PROVE  \/ /\ \A i \in JobIds : JobAfterWriteOffs(i)
              /\ \A r \in RunIds : RunAfterWriteOffs(r)
              /\ exec' = exec
              /\ UNCHANGED <<wire, answer, service, reports, agent, faults>>
           \/ \E j \in JobIds, id \in RunIds :
                 /\ ExecutorDispatches(j)
                 /\ jobs[j].status = "queued" /\ jobs[j].kind \in ExecutorKinds
                 /\ jobs'[j] = Claimed(jobs[j])
                 /\ \A i \in JobIds \ {j} : JobAfterWriteOffs(i)
                 /\ runs'[id] = RunRow("requested", jobs[j].kind, jobs[j].slot, j)
                 /\ Present(runs[id]) => runs[id].job = j
                 /\ \A r \in RunIds \ {id} : RunAfterWriteOffs(r)
                 /\ exec' = [job |-> j, at |-> now]
                 /\ wire' = wire \cup {[run |-> id, job |-> j, at |-> now]}
                 /\ answer' = "none"
                 /\ UNCHANGED <<service, reports, agent, faults>>
<1>0. jobs \in [JobIds -> Job]
  BY Parts
<1>1. CASE ExecutorWritesOff
  <2>1. /\ RoomToWriteOff /\ runs' = AfterWriteOffs /\ Serves
        /\ RunsInv(runs, jobs') /\ SlotsAreDistinct(jobs') /\ TypeOK'
    BY <1>1, QueueSide
    DEF ExecutorWritesOff, Serves, jobQueueTick, IngestNext, ExecutorTick
  <2>2. SlotsStay
    BY <2>1, Parts, ServesKeepsSlots
  <2>3. \A r \in RunIds : RunAfterWriteOffs(r)
    BY <2>1, <2>2, WriteOffsKeep DEF RunAfterWriteOffs
  <2> QED
    BY <1>1, <2>3
    DEF ExecutorWritesOff, TickWritesOff, JobAfterWriteOffs, network
<1>2. ASSUME NEW j \in JobIds, ExecutorSupersedes(j)
      PROVE  /\ \A i \in JobIds : JobAfterWriteOffs(i)
             /\ \A r \in RunIds : RunAfterWriteOffs(r)
             /\ exec' = exec
             /\ UNCHANGED <<wire, answer, service, reports, agent, faults>>
  <2>1. /\ jobs[j].status = "queued"
        /\ \A r \in RunIds : RunAfterWriteOffs(r)
    BY <1>2, SupersedeEffect DEF RunAfterWriteOffs
  <2>2. /\ jobs' = [i \in JobIds |->
                      IF i = j THEN [jobs[i] EXCEPT !.status = "superseded"]
                      ELSE WrittenOff(jobs[i])]
        /\ exec' = exec
        /\ UNCHANGED <<wire, answer, service, reports, agent, faults>>
    BY <1>2 DEF ExecutorSupersedes, TickSupersedes, SupersedeCovered, network
  <2>3. jobs'[j].status = "superseded"
    BY <1>0, <2>2 DEF Job
  <2> QED
    BY <2>1, <2>2, <2>3 DEF JobAfterWriteOffs
<1>3. ASSUME NEW j \in JobIds, ExecutorDispatches(j)
      PROVE  \E id \in RunIds :
                 /\ jobs[j].status = "queued" /\ jobs[j].kind \in ExecutorKinds
                 /\ jobs'[j] = Claimed(jobs[j])
                 /\ \A i \in JobIds \ {j} : JobAfterWriteOffs(i)
                 /\ runs'[id] = RunRow("requested", jobs[j].kind, jobs[j].slot, j)
                 /\ Present(runs[id]) => runs[id].job = j
                 /\ \A r \in RunIds \ {id} : RunAfterWriteOffs(r)
                 /\ exec' = [job |-> j, at |-> now]
                 /\ wire' = wire \cup {[run |-> id, job |-> j, at |-> now]}
                 /\ answer' = "none"
                 /\ UNCHANGED <<service, reports, agent, faults>>
  <2> DEFINE id == RunIdOf(AfterWriteOffs, jobs[j].kind, jobs[j].slot)
  <2>1. /\ jobs[j].status = "queued" /\ jobs[j].kind \in ExecutorKinds
        /\ id \in RunIds
        /\ runs'[id] = RunRow("requested", jobs[j].kind, jobs[j].slot, j)
        /\ Present(runs[id]) => runs[id].job = j
        /\ \A r \in RunIds \ {id} : RunAfterWriteOffs(r)
    BY <1>3, DispatchEffect DEF RunAfterWriteOffs
  <2>2. wire' = wire \cup {[run |-> id, job |-> j, at |-> now]}
    BY <1>3 DEF ExecutorDispatches, RequestOf
  <2> HIDE DEF id
  <2>3. /\ jobs'[j] = Claimed(jobs[j])
        /\ \A i \in JobIds \ {j} : JobAfterWriteOffs(i)
        /\ exec' = [job |-> j, at |-> now]
    BY <1>3 DEF ExecutorDispatches, TickStarts, Dispatch, JobAfterWriteOffs
  <2>4. answer' = "none" /\ UNCHANGED <<service, reports, agent, faults>>
    BY <1>3 DEF ExecutorDispatches
  <2> QED
    BY <2>1, <2>2, <2>3, <2>4
<1>4. CASE \E j \in JobIds : ExecutorDispatches(j)
  BY <1>3, <1>4
<1> QED
  BY <1>1, <1>2, <1>4 DEF ExecutorTick

\* No ingest job starts or is written off.
NoneStartsOrIsLost ==
    \A i \in JobIds :
        jobs'[i].status \in {"running", "lost"} /\ jobs'[i].kind \in ExecutorKinds
        => jobs[i].status = jobs'[i].status /\ jobs[i].kind = jobs'[i].kind

\* No run but one that had not started is written.
OnlyUnstartedWritten ==
    \A r \in RunIds :
        runs'[r] = runs[r]
        \/ runs[r].status \in {"absent", "skipped", "not_started"}

LEMMA OthersStartNone ==
    ASSUME IngestInv,
           \/ SchedulerEnqueues \/ RunByHand \/ AgentEnqueues
           \/ \E id \in JobIds :
                 \/ claimNextJob(id) \/ heartbeatJob(id)
                 \/ \E outcome \in {"done", "failed"} : completeJob(id, outcome)
                 \/ cancelQueuedJob(id)
           \/ DispatchAccepted \/ DispatchRefused
           \/ ServerRestart \/ Elapse \/ UNCHANGED vars
    PROVE  NoneStartsOrIsLost
<1>a. TypeOK /\ \A j \in JobIds : jobs[j] \in Job
  BY Parts DEF TypeOK
<1> USE DEF NoneStartsOrIsLost
<1>1. CASE SlotDealt
  BY <1>1 DEF SlotDealt
<1>2. CASE SchedulerEnqueues \/ RunByHand \/ AgentEnqueues
  BY <1>1, <1>2, <1>a, SchedulerDeals, RunByHandDeals, DeployEnqueueDeals
  DEF AgentEnqueues
<1>3. ASSUME NEW id \in JobIds, claimNextJob(id)
      PROVE  NoneStartsOrIsLost
  <2>1. Claimed(jobs[id]).kind = jobs[id].kind
    BY <1>a, ClaimedRow DEF TypeOK
  <2>2. jobs[id].kind \notin ExecutorKinds
    BY <1>3 DEF claimNextJob, ClaimKinds
  <2>3. \A i \in JobIds : jobs'[i] = IF i = id THEN Claimed(jobs[i]) ELSE jobs[i]
    BY <1>3, <1>a DEF claimNextJob, TypeOK
  <2> QED
    BY <2>1, <2>2, <2>3
<1>4. ASSUME NEW id \in JobIds, heartbeatJob(id)
      PROVE  NoneStartsOrIsLost
  BY <1>4, <1>a DEF heartbeatJob, TypeOK, Job
<1>5. ASSUME NEW id \in JobIds, NEW outcome \in {"done", "failed"},
             completeJob(id, outcome)
      PROVE  NoneStartsOrIsLost
  <2>1. \A i \in JobIds : IF i = id THEN jobs'[i].status = outcome
                          ELSE jobs'[i] = jobs[i]
    BY <1>5, <1>a DEF completeJob, TypeOK, Job
  <2> QED
    BY <2>1
<1>6. ASSUME NEW id \in JobIds, cancelQueuedJob(id)
      PROVE  NoneStartsOrIsLost
  <2>1. \A i \in JobIds : IF i = id THEN jobs'[i].status = "cancelled"
                          ELSE jobs'[i] = jobs[i]
    BY <1>6, <1>a DEF cancelQueuedJob, TypeOK, Job
  <2> QED
    BY <2>1
<1>7. CASE DispatchAccepted \/ ServerRestart \/ Elapse \/ UNCHANGED vars
  BY <1>7 DEF DispatchAccepted, ServerRestart, Elapse, vars
<1>8. CASE DispatchRefused
  <2>1. CASE ReleaseSucceeds
    <3>1. exec.job \in JobIds
      BY <1>8, <1>a DEF TypeOK, DispatchRefused
    <3>2. Released(jobs[exec.job], exec.at + RetryDelay).status = "queued"
      BY <1>a, <3>1 DEF Released, Job
    <3>3. \A i \in JobIds : IF i = exec.job THEN jobs'[i].status = "queued"
                            ELSE jobs'[i] = jobs[i]
      BY <1>8, <1>a, <2>1, <3>1, <3>2 DEF DispatchRefused, TypeOK
    <3> QED
      BY <3>3
  <2>2. CASE ~ReleaseSucceeds
    BY <1>8, <2>2 DEF DispatchRefused
  <2> QED
    BY <2>1, <2>2
<1> HIDE DEF NoneStartsOrIsLost
<1> QED
  BY <1>2, <1>3, <1>4, <1>5, <1>6, <1>7, <1>8

-----------------------------------------------------------------------------
(* Lost jobs, when the server does not die between two statements.         *)

\* A running ingest job has a request in the table.
RunningHasRequest ==
    \A j \in JobIds :
        Running(j) /\ jobs[j].kind \in ExecutorKinds => InFlight(j) # {}

RecordInv ==
    /\ RunningHasRequest
    /\ LostJobIsOnRecord

(* What the steps that are not ticks do: no ingest job starts or is lost,  *)
(* and the run of a running or lost job stays, or ends with its job.       *)
LEMMA RecordKept ==
    ASSUME IngestInv, RecordInv, RunsGood, NoneStartsOrIsLost,
           \A r \in RunIds :
              /\ runs[r].status = "requested" /\ jobs[runs[r].job].status = "running"
                 => \/ runs'[r] = runs[r]
                    \/ jobs'[runs[r].job].status # "running"
              /\ runs[r].status \in {"lost", "done", "failed"}
                 /\ jobs[runs[r].job].status = "lost"
                 => runs'[r].status \in {"lost", "done", "failed"}
    PROVE  RecordInv'
<1>1. RunningHasRequest'
  <2> SUFFICES ASSUME NEW j \in JobIds, jobs'[j].status = "running",
                      jobs'[j].kind \in ExecutorKinds
               PROVE  \E r \in RunIds : runs'[r].status = "requested"
                                       /\ runs'[r].job = j
    BY DEF RunningHasRequest, Running, InFlight
  <2>1. jobs[j].status = "running" /\ jobs[j].kind \in ExecutorKinds
    BY DEF NoneStartsOrIsLost
  <2>2. PICK r \in RunIds : runs[r].status = "requested" /\ runs[r].job = j
    BY <2>1 DEF RecordInv, RunningHasRequest, Running, InFlight
  <2> QED
    BY <2>1, <2>2
<1>2. LostJobIsOnRecord'
  <2> SUFFICES ASSUME NEW j \in JobIds, jobs'[j].status = "lost",
                      jobs'[j].kind \in ExecutorKinds
               PROVE  \E r \in RunIds :
                         /\ runs'[r].job = j
                         /\ runs'[r].status \in {"lost", "done", "failed"}
    BY DEF LostJobIsOnRecord
  <2>1. jobs[j].status = "lost" /\ jobs[j].kind \in ExecutorKinds
    BY DEF NoneStartsOrIsLost
  <2>2. PICK r \in RunIds : /\ runs[r].job = j
                            /\ runs[r].status \in {"lost", "done", "failed"}
    BY <2>1 DEF RecordInv, LostJobIsOnRecord
  <2>3. runs'[r].job = j
    BY <2>2 DEF RunsGood, KeepsRows, Present
  <2>4. runs'[r].status \in {"lost", "done", "failed"}
    BY <2>1, <2>2
  <2> QED
    BY <2>3, <2>4
<1> QED
  BY <1>1, <1>2 DEF RecordInv

(* A tick writes the run of every job it writes off, and its own dispatch  *)
(* writes a run of the job it starts.                                      *)
LEMMA TickKeepsRecord ==
    ASSUME IngestInv, RecordInv, ExecutorTick
    PROVE  RecordInv'
<1>0. /\ TypeOK /\ jobs \in [JobIds -> Job] /\ RunsGood
      /\ \A r \in RunIds : Present(runs[r]) => runs'[r].job = runs[r].job
  BY Parts, RunsSide DEF IngestNext, RunsGood, KeepsRows
\* A started job j and its run id, if there is one (else both are 0).
<1>1. PICK j \in JobIds \cup {NoJob}, id \in RunIds \cup {0} :
         /\ j # NoJob =>
               /\ id \in RunIds
               /\ jobs[j].status = "queued"
               /\ runs'[id].status = "requested" /\ runs'[id].job = j
               /\ Present(runs[id]) => runs[id].job = j
         /\ j = NoJob => id = 0
         /\ \A i \in JobIds \ {j} : JobAfterWriteOffs(i)
         /\ \A r \in RunIds \ {id} : RunAfterWriteOffs(r)
         /\ j # NoJob => jobs'[j].status = "running"
  <2>1. CASE /\ \A i \in JobIds : JobAfterWriteOffs(i)
             /\ \A r \in RunIds : RunAfterWriteOffs(r)
    BY <2>1 DEF JobIds, NoJob, RunIds
  <2>2. ASSUME NEW j \in JobIds, NEW id \in RunIds,
               /\ jobs[j].status = "queued"
               /\ jobs'[j] = Claimed(jobs[j])
               /\ \A i \in JobIds \ {j} : JobAfterWriteOffs(i)
               /\ runs'[id] = RunRow("requested", jobs[j].kind, jobs[j].slot, j)
               /\ Present(runs[id]) => runs[id].job = j
               /\ \A r \in RunIds \ {id} : RunAfterWriteOffs(r)
        PROVE  /\ runs'[id].status = "requested" /\ runs'[id].job = j
               /\ jobs'[j].status = "running" /\ j # NoJob
    BY <1>0, <2>2, ClaimedRow DEF RunRow, TypeOK, JobIds, NoJob
  <2> QED
    BY <2>1, <2>2, TickEffect
<1>2. ASSUME NEW i \in JobIds, i # j
      PROVE  /\ jobs'[i].kind = jobs[i].kind \/ jobs'[i].status = "superseded"
             /\ jobs'[i].status = "running"
                   => jobs[i].status = "running" /\ ~LeaseExpired(jobs[i], now)
             /\ jobs'[i].status = "lost"
                   => \/ jobs[i].status = "lost"
                      \/ jobs[i].status = "running" /\ LeaseExpired(jobs[i], now)
  <2>1. JobAfterWriteOffs(i) /\ jobs[i] \in Job
    BY <1>0, <1>1, <1>2
  <2>2. CASE jobs'[i] = WrittenOff(jobs[i])
    BY <2>1, <2>2 DEF WrittenOff, Job
  <2> QED
    BY <2>1, <2>2 DEF JobAfterWriteOffs
<1>3. RunningHasRequest'
  <2> SUFFICES ASSUME NEW i \in JobIds, jobs'[i].status = "running",
                      jobs'[i].kind \in ExecutorKinds
               PROVE  \E r \in RunIds : runs'[r].status = "requested"
                                       /\ runs'[r].job = i
    BY DEF RunningHasRequest, Running, InFlight
  <2>1. CASE i = j
    BY <1>1, <2>1 DEF JobIds, NoJob
  <2>2. CASE i # j
    <3>1. /\ jobs[i].status = "running" /\ jobs[i].kind \in ExecutorKinds
          /\ ~LeaseExpired(jobs[i], now)
      BY <1>2, <2>2
    <3>2. PICK r \in RunIds : runs[r].status = "requested" /\ runs[r].job = i
      BY <3>1 DEF RecordInv, RunningHasRequest, Running, InFlight
    <3>3. r # id
      BY <1>1, <2>2, <3>2 DEF Present, RunIds
    <3>4. r \notin LostRuns
      BY <3>1, <3>2 DEF LostRuns, InFlight
    <3>5. runs'[r] = runs[r]
      BY <1>1, <3>2, <3>3, <3>4 DEF RunAfterWriteOffs
    <3> QED
      BY <3>2, <3>5
  <2> QED
    BY <2>1, <2>2
<1>4. LostJobIsOnRecord'
  <2> SUFFICES ASSUME NEW i \in JobIds, jobs'[i].status = "lost",
                      jobs'[i].kind \in ExecutorKinds
               PROVE  \E r \in RunIds :
                         /\ runs'[r].job = i
                         /\ runs'[r].status \in {"lost", "done", "failed"}
    BY DEF LostJobIsOnRecord
  <2>1. i # j
    BY <1>1 DEF JobIds, NoJob
  <2>2. CASE jobs[i].status = "lost"
    <3>1. jobs[i].kind \in ExecutorKinds
      BY <1>2, <2>1, <2>2
    <3>2. PICK r \in RunIds : /\ runs[r].job = i
                              /\ runs[r].status \in {"lost", "done", "failed"}
      BY <2>2, <3>1 DEF RecordInv, LostJobIsOnRecord
    <3>3. r # id
      BY <1>1, <2>1, <3>2 DEF Present, RunIds
    <3>4. runs'[r] = runs[r]
      BY <1>1, <3>2, <3>3 DEF RunAfterWriteOffs
    <3> QED
      BY <3>2, <3>4
  <2>3. CASE jobs[i].status = "running" /\ LeaseExpired(jobs[i], now)
    <3>1. jobs[i].kind \in ExecutorKinds
      BY <1>2, <2>1
    <3>2. InFlight(i) # {} /\ InFlight(i) \subseteq Nat
      BY <2>3, <3>1 DEF RecordInv, RunningHasRequest, Running, InFlight, RunIds
    <3>3. PICK r \in InFlight(i) : \A q \in InFlight(i) : r <= q
      BY <3>2, LeastNat
    <3>4. r \in LostRuns /\ r \in RunIds /\ runs[r].job = i
          /\ runs[r].status = "requested"
      BY <2>3, <3>3 DEF LostRuns, InFlight, Running
    <3>5. r # id
      BY <1>1, <2>1, <3>4 DEF Present, RunIds
    <3>6. runs'[r].status = "lost"
      BY <1>1, <3>4, <3>5 DEF RunAfterWriteOffs
    <3> QED
      BY <1>0, <3>4, <3>6 DEF Present
  <2> QED
    BY <1>2, <2>1, <2>2, <2>3
<1> QED
  BY <1>3, <1>4 DEF RecordInv

LEMMA RecordStep ==
    ASSUME "server-crash" \notin Faults
    PROVE  IngestInv /\ RecordInv /\ [IngestNext]_allVars => RecordInv'
<1> SUFFICES ASSUME IngestInv, RecordInv, [IngestNext]_allVars
             PROVE  RecordInv'
  OBVIOUS
<1>0. /\ TypeOK /\ jobs \in [JobIds -> Job] /\ runs \in [RunIds -> Run]
      /\ RunsGood
  BY Parts, RunsSide
<1>1. CASE ExecutorTick
  BY <1>1, TickKeepsRecord
<1>2. ASSUME NoneStartsOrIsLost, OnlyUnstartedWritten
      PROVE  RecordInv'
  BY <1>0, <1>2, RecordKept DEF OnlyUnstartedWritten
<1>3. ASSUME NoneStartsOrIsLost, UNCHANGED runs
      PROVE  RecordInv'
  BY <1>2, <1>3 DEF OnlyUnstartedWritten
<1>4. CASE SchedulerSkips
  <2>1. NoneStartsOrIsLost
    BY <1>4, OthersStartNone DEF SchedulerSkips, vars
  <2>2. OnlyUnstartedWritten
    BY <1>0, <1>4 DEF SchedulerSkips, markIngestRunSkipped, OnlyUnstartedWritten
  <2> QED
    BY <1>2, <2>1, <2>2
<1>5. ASSUME NEW j \in JobIds, CancelByHand(j)
      PROVE  RecordInv'
  <2>1. NoneStartsOrIsLost
    BY <1>5, OthersStartNone DEF CancelByHand
  <2>2. OnlyUnstartedWritten
    BY <1>0, <1>5 DEF CancelByHand, markIngestRunSkipped, OnlyUnstartedWritten
  <2> QED
    BY <1>2, <2>1, <2>2
<1>6. CASE AnswerRefused
  <2>1. NoneStartsOrIsLost
    BY <1>6, OthersStartNone DEF AnswerRefused
  <2>2. CASE ~ReleaseSucceeds
    BY <1>3, <1>6, <2>1, <2>2 DEF AnswerRefused
  <2>3. CASE ReleaseSucceeds
    <3> DEFINE id == AwaitedRun
    <3>1. /\ exec # Idle /\ exec.job \in JobIds
          /\ jobs[exec.job].status = "running"
      BY <1>0, <1>6, <2>3
      DEF AnswerRefused, DispatchRefused, ReleaseSucceeds, TypeOK
    <3>2. id \in RunIds /\ Present(runs[id]) /\ runs[id].job = exec.job
      <4>1. \E r \in RunIds : /\ Present(runs[r])
                              /\ runs[r].kind = jobs[exec.job].kind
                              /\ runs[r].slot = jobs[exec.job].slot
        BY <3>1 DEF IngestInv, AwaitedHasRun
      <4>2. /\ id \in RunIds /\ Present(runs[id])
            /\ runs[id].kind = jobs[exec.job].kind
            /\ runs[id].slot = jobs[exec.job].slot
        BY <1>0, <4>1, RunIdOfIs DEF AwaitedRun
      <4> QED
        BY <3>1, <4>2 DEF IngestInv, RunsInv, SlotIsOfItsJob, Present
    <3>3. jobs'[exec.job].status # "running"
      <4>1. Released(jobs[exec.job], exec.at + RetryDelay).status = "queued"
        BY <1>0, <3>1 DEF Released, Job
      <4>2. jobs'[exec.job] = Released(jobs[exec.job], exec.at + RetryDelay)
        BY <1>0, <1>6, <2>3, <3>1 DEF AnswerRefused, DispatchRefused
      <4> QED
        BY <4>1, <4>2
    <3>4. \A r \in RunIds \ {id} : runs'[r] = runs[r]
      BY <1>0, <1>6, <2>3 DEF AnswerRefused
    <3> HIDE DEF id
    <3>5. ASSUME NEW r \in RunIds
          PROVE  \/ runs'[r] = runs[r]
                 \/ /\ jobs[runs[r].job].status = "running"
                    /\ jobs'[runs[r].job].status # "running"
      BY <3>1, <3>2, <3>3, <3>4
    <3> QED
      BY <1>0, <2>1, <3>5, RecordKept
  <2> QED
    BY <2>2, <2>3
<1>7. CASE ServerCrash
  BY <1>7 DEF ServerCrash, Fault
<1>8. ASSUME NEW p \in reports, ReportArrives(p)
      PROVE  RecordInv'
  <2> DEFINE id == p.run
             j == runs[id].job
  <2>1. /\ id \in RunIds /\ AcceptsReport(id) /\ j \in JobIds
        /\ p.outcome \in {"done", "failed"}
        /\ runs' = [runs EXCEPT ![id].status = p.outcome]
    BY <1>8, Parts, ReportHasJob DEF ReportArrives
  <2>2. NoneStartsOrIsLost
    <3>1. completeJob(j, p.outcome) \/ UNCHANGED <<jobs, now, exec>>
      BY <1>8 DEF ReportArrives
    <3> QED
      BY <2>1, <3>1, OthersStartNone DEF vars
  <2>3. jobs[j].status = "running" => jobs'[j].status # "running"
    <3> SUFFICES ASSUME jobs[j].status = "running"
                 PROVE  jobs'[j].status # "running"
      OBVIOUS
    <3>1. completeJob(j, p.outcome)
      BY <1>8 DEF ReportArrives
    <3>2. jobs'[j].status = p.outcome
      BY <1>0, <2>1, <3>1 DEF completeJob, Job
    <3> QED
      BY <2>1, <3>2
  <2> HIDE DEF id
  <2>4. \A r \in RunIds \ {id} : runs'[r] = runs[r]
    BY <1>0, <2>1
  <2>5. runs'[id].status \in {"done", "failed"}
    BY <1>0, <2>1
  <2>6. ASSUME NEW r \in RunIds
        PROVE  \/ runs'[r] = runs[r]
               \/ /\ runs'[r].status \in {"done", "failed"}
                  /\ jobs[runs[r].job].status = "running"
                        => jobs'[runs[r].job].status # "running"
    BY <2>3, <2>4, <2>5
  <2> QED
    BY <1>0, <2>2, <2>6, RecordKept
<1>9. CASE \/ SchedulerEnqueues \/ RunByHand \/ AgentEnqueues
  <2>1. NoneStartsOrIsLost
    BY <1>9, OthersStartNone
  <2> QED
    BY <1>3, <1>9, <2>1 DEF SchedulerEnqueues, RunByHand, AgentEnqueues
<1>10. CASE AnswerAccepted \/ AgentRestarts \/ TimePasses
  <2>1. NoneStartsOrIsLost
    BY <1>10, OthersStartNone DEF AnswerAccepted, AgentRestarts, TimePasses
  <2> QED
    BY <1>3, <1>10, <2>1 DEF AnswerAccepted, AgentRestarts, TimePasses
<1>11. CASE ServiceHeartbeats
  <2>1. service.current.job \in JobIds
    BY <1>11, Parts DEF ServiceHeartbeats, Request
  <2>2. NoneStartsOrIsLost
    BY <1>11, <2>1, OthersStartNone DEF ServiceHeartbeats
  <2> QED
    BY <1>3, <1>11, <2>2 DEF ServiceHeartbeats
<1>12. ASSUME NEW j \in JobIds, AgentClaims(j)
       PROVE  RecordInv'
  <2>1. NoneStartsOrIsLost
    BY <1>12, OthersStartNone DEF AgentClaims
  <2> QED
    BY <1>3, <1>12, <2>1 DEF AgentClaims
<1>13. CASE AgentHeartbeats \/ AgentCompletes
  <2>1. agent.job \in JobIds
    BY <1>13, Parts DEF AgentHeartbeats, AgentCompletes, AgentIdle
  <2>2. NoneStartsOrIsLost
    BY <1>13, <2>1, OthersStartNone DEF AgentHeartbeats, AgentCompletes, vars
  <2> QED
    BY <1>3, <1>13, <2>2 DEF AgentHeartbeats, AgentCompletes
<1>14. CASE \/ (\E r \in wire : ServiceReads(r)) \/ ServiceCrash \/ AgentCrash
            \/ (\E outcome \in {"done", "failed"} : RunEnds(outcome))
            \/ (\E p \in reports : ReportDropped(p)) \/ UNCHANGED allVars
  <2>1. UNCHANGED vars /\ UNCHANGED runs
    BY <1>14 DEF ServiceReads, ServiceCrash, AgentCrash, RunEnds, ReportDropped,
                 allVars, vars
  <2> QED
    BY <1>3, <2>1, OthersStartNone
<1> QED
  BY <1>1, <1>4, <1>5, <1>6, <1>7, <1>8, <1>9, <1>10, <1>11, <1>12, <1>13,
     <1>14
  DEF IngestNext, ingestSchedulerTick

LEMMA RecordInit == IngestInit => RecordInv
BY NoRowType
DEF IngestInit, Init, RecordInv, RunningHasRequest, LostJobIsOnRecord, Running

(* A lost ingest job has a run that is lost, or that ended late, unless    *)
(* the server itself may die between claiming the job and writing the run: *)
(* that is the fault the run CrashLeavesNoRecord shows.                    *)
THEOREM LostJobsAreRecorded ==
    ASSUME "server-crash" \notin Faults
    PROVE  IngestSpec => []LostJobIsOnRecord
<1>1. IngestInv /\ RecordInv /\ [IngestNext]_allVars => RecordInv'
  BY RecordStep
<1>2. RecordInv => LostJobIsOnRecord
  BY DEF RecordInv
<1> QED
  BY <1>1, <1>2, RecordInit, IngestInvariant, PTL DEF IngestSpec

=============================================================================
