--------------------------- MODULE JobQueuePolicy ---------------------------
(***************************************************************************)
(* What the job queue may start now: the decision of jobQueuePolicy.ts,    *)
(* stated over sets.  Nothing here has state; JobQueue and IngestQueue act *)
(* on the decision, JobQueuePolicyLoop is the loop the code runs.          *)
(*                                                                         *)
(* An instant is a positive integer.  Null (zero) is the SQL NULL of       *)
(* not_before and of stale_after: a null not_before is the empty string of *)
(* compareQueued, which sorts before every instant and never makes a job   *)
(* wait, and that is how zero behaves; a null stale_after is "never".      *)
(*                                                                         *)
(* A queued job is a record with (at least) the fields id, kind,           *)
(* not_before and stale_after; a running one has id, kind and beat, the    *)
(* instant of its last heartbeat or, before the first, of its claim.       *)
(***************************************************************************)
EXTENDS Integers

CONSTANTS
    Kinds,        \* the keys of JOB_KINDS
    Resources,    \* what jobs hold while they run
    Exclusive,    \* "server-restart"
    ResourceOf,   \* the resource of a kind (every entry of JOB_KINDS lists one)
    PriorityOf,   \* the priority of a kind
    LeaseOf       \* lease_ms of a kind, in clock units

ASSUME PolicyAssumption ==
    /\ Exclusive \in Resources
    /\ ResourceOf \in [Kinds -> Resources]
    /\ PriorityOf \in [Kinds -> Nat]
    /\ LeaseOf \in [Kinds -> Nat \ {0}]

Null == 0

leaseExpiresAt(j) == j.beat + LeaseOf[j.kind]

LeaseExpired(j, t) == leaseExpiresAt(j) <= t

Stale(j, t) == j.stale_after # Null /\ j.stale_after <= t

Due(j, t) == j.not_before <= t

\* compareQueued: a is considered before b.  created_at grows with the id.
Before(a, b) ==
    \/ PriorityOf[a.kind] > PriorityOf[b.kind]
    \/ /\ PriorityOf[a.kind] = PriorityOf[b.kind]
       /\ \/ a.not_before < b.not_before
          \/ a.not_before = b.not_before /\ a.id < b.id

\* Jobs of kinds k and l may not run together.
Conflict(k, l) ==
    \/ ResourceOf[k] = ResourceOf[l]
    \/ Exclusive \in {ResourceOf[k], ResourceOf[l]}

Lost(running, t) == {j \in running : LeaseExpired(j, t)}

Live(running, t) == {j \in running : ~LeaseExpired(j, t)}

Superseded(queue, t) == {j \in queue : Stale(j, t)}

\* The queued jobs that could start if they were alone.
Candidates(queue, t) == {j \in queue : ~Stale(j, t) /\ Due(j, t)}

\* Mutant: two conflicting candidates wait on each other.
StartUnordered(queue, running, t) ==
    {j \in Candidates(queue, t) :
        /\ \A l \in Live(running, t) : ~Conflict(l.kind, j.kind)
        /\ \A e \in Candidates(queue, t) :
              e # j => ~Conflict(e.kind, j.kind)}

(***************************************************************************)
(* The jobs pickNextJobs starts.  An earlier candidate stands in the way   *)
(* of a conflicting one whether it starts or not: when it starts it holds  *)
(* the resource; when it does not, what stops it stops the later one too,  *)
(* and a due exclusive job that cannot start yet drains the queue.         *)
(***************************************************************************)
Start(queue, running, t) ==
    {j \in Candidates(queue, t) :
        /\ \A l \in Live(running, t) : ~Conflict(l.kind, j.kind)
        /\ \A e \in Candidates(queue, t) :
              Before(e, j) => ~Conflict(e.kind, j.kind)}

\* The earlier of two not_before instants, where a null one wins.
Earlier(a, b) == IF a <= b THEN a ELSE b

=============================================================================
