------------------------- MODULE JobQueuePolicyLoop -------------------------
(***************************************************************************)
(* The loop of pickNextJobs as it is written: the live running jobs hold   *)
(* their resources, then the queued jobs are taken in order, each one      *)
(* started, superseded or made to wait for the first reason that applies,  *)
(* and a started job holds its resources for the rest of the pass.  One    *)
(* action is one turn of the loop; nothing else happens during a pass.     *)
(*                                                                         *)
(* The module also generates the queues, one job at a time, that a pass is *)
(* given.  At its end the pass is compared with the set definition of      *)
(* JobQueuePolicy, which the state machines of the queue act on.           *)
(***************************************************************************)
EXTENDS JobQueuePolicy, FiniteSets

CONSTANTS
    MaxQueued,    \* bound: queued jobs in a generated queue
    MaxRunning,   \* bound: running jobs beside it
    Now,          \* the instant of the decision
    NotBefores,   \* the not_before values of generated jobs
    StaleAfters,  \* their stale_after values
    Beats         \* the last heartbeats of generated running jobs

ASSUME LoopAssumption ==
    /\ {MaxQueued, MaxRunning, Now} \subseteq Nat
    /\ NotBefores \cup StaleAfters \cup Beats \subseteq Nat

VARIABLES
    queue, running,   \* what the pass is given
    lastId,           \* the highest id of a job
    passing,          \* the pass has begun
    todo,             \* the queued jobs it has not come to
    pass              \* the state and the decision so far

vars == <<queue, running, lastId, passing, todo, pass>>

-----------------------------------------------------------------------------
(* The pass.  waiting pairs a job with the code of its reason.             *)

Hold(s, js) ==
    [s EXCEPT !.busy = @ \/ js # {},
              !.held = @ \cup {ResourceOf[j.kind] : j \in js},
              !.exclusive = @ \/ \E j \in js : ResourceOf[j.kind] = Exclusive]

\* Mutant: a job started in this pass holds nothing.
GrantedLoose(s, j) == [s EXCEPT !.start = @ \cup {j}]

Granted(s, j) == Hold([s EXCEPT !.start = @ \cup {j}], {j})

Waits(s, j, code) == [s EXCEPT !.waiting = @ \cup {<<j, code>>}]

\* Mutant: an exclusive job drains the queue before it is due.
ConsiderEarlyDrain(s, j) ==
    IF Stale(j, Now) THEN [s EXCEPT !.superseded = @ \cup {j}]
    ELSE IF s.exclusive THEN Waits(s, j, "exclusive")
    ELSE IF s.draining THEN Waits(s, j, "draining")
    ELSE LET d == [s EXCEPT !.draining = ResourceOf[j.kind] = Exclusive]
         IN  IF ~Due(j, Now) THEN Waits(d, j, "not_before")
             ELSE IF ResourceOf[j.kind] = Exclusive /\ s.busy
                  THEN Waits(d, j, "resource")
             ELSE IF ResourceOf[j.kind] \in s.held
                  THEN Waits(s, j, "resource")
             ELSE Granted(d, j)

\* Mutant: the pass goes on with a job it has just written off.
ConsiderStale(s, j) ==
    LET w == IF Stale(j, Now) THEN [s EXCEPT !.superseded = @ \cup {j}]
             ELSE s
    IN  IF s.exclusive \/ s.draining \/ s.busy THEN Waits(w, j, "resource")
        ELSE Granted(w, j)

Consider(s, j) ==
    IF Stale(j, Now) THEN [s EXCEPT !.superseded = @ \cup {j}]
    ELSE IF s.exclusive THEN Waits(s, j, "exclusive")
    ELSE IF s.draining THEN Waits(s, j, "draining")
    ELSE IF ~Due(j, Now) THEN Waits(s, j, "not_before")
    ELSE IF ResourceOf[j.kind] = Exclusive
         THEN LET d == [s EXCEPT !.draining = TRUE]
              IN  IF s.busy THEN Waits(d, j, "resource") ELSE Granted(d, j)
    ELSE IF ResourceOf[j.kind] \in s.held THEN Waits(s, j, "resource")
    ELSE Granted(s, j)

Idle == [busy |-> FALSE, held |-> {}, exclusive |-> FALSE, draining |-> FALSE,
         start |-> {}, superseded |-> {}, waiting |-> {}]

PassBegins ==
    /\ ~passing
    /\ passing' = TRUE
    /\ todo' = queue
    /\ pass' = Hold(Idle, Live(running, Now))
    /\ UNCHANGED <<queue, running, lastId>>

PassConsiders(j) ==
    /\ passing
    /\ \A e \in todo \ {j} : Before(j, e)
    /\ todo' = todo \ {j}
    /\ pass' = Consider(pass, j)
    /\ UNCHANGED <<queue, running, lastId, passing>>

-----------------------------------------------------------------------------
(* The generator of queues: the running jobs first, then the queued ones.  *)

Init ==
    /\ queue = {} /\ running = {} /\ lastId = 0
    /\ passing = FALSE /\ todo = {} /\ pass = Idle

AddQueued(k, nb, st) ==
    /\ ~passing
    /\ Cardinality(queue) < MaxQueued
    /\ lastId' = lastId + 1
    /\ queue' = queue \cup {[id |-> lastId', kind |-> k,
                             not_before |-> nb, stale_after |-> st]}
    /\ UNCHANGED <<running, passing, todo, pass>>

AddRunning(k, b) ==
    /\ ~passing
    /\ Cardinality(running) < MaxRunning
    /\ queue = {}
    /\ lastId' = lastId + 1
    /\ running' = running \cup {[id |-> lastId', kind |-> k, beat |-> b]}
    /\ UNCHANGED <<queue, passing, todo, pass>>

Next ==
    \/ \E k \in Kinds, nb \in NotBefores, st \in StaleAfters :
          AddQueued(k, nb, st)
    \/ \E k \in Kinds, b \in Beats : AddRunning(k, b)
    \/ PassBegins
    \/ \E j \in todo : PassConsiders(j)

Spec == Init /\ [][Next]_vars

-----------------------------------------------------------------------------
PassEnded == passing /\ todo = {}

(* The order-dependent loop of pickNextJobs starts exactly the jobs of the *)
(* set definition the state machines act on.                               *)
LoopAgrees == PassEnded => pass.start = Start(queue, running, Now)

(* Whatever one pass starts can run together, and beside every running job *)
(* whose lease has not run out: server-restart is granted alone.           *)
StartsAreCompatible ==
    /\ \A j \in pass.start, l \in Live(running, Now) : ~Conflict(j.kind, l.kind)
    /\ \A i, j \in pass.start : i # j => ~Conflict(i.kind, j.kind)

(* No queue of due jobs waits on itself: when nothing runs (a lease that   *)
(* ran out holds nothing) and some fresh job is due, a job starts.         *)
NeverStuck ==
    /\ PassEnded
    /\ Live(running, Now) = {}
    /\ Candidates(queue, Now) # {}
    => pass.start # {}

(* What the Queue page may show as the reason of a wait.                   *)
TrueReason(j, code) ==
    \/ /\ code = "exclusive"
       /\ \E h \in Live(running, Now) \cup pass.start : ResourceOf[h.kind] = Exclusive
    \/ /\ code = "draining"
       /\ \E e \in Candidates(queue, Now) \ pass.start :
             ResourceOf[e.kind] = Exclusive /\ Before(e, j)
    \/ /\ code = "not_before"
       /\ ~Due(j, Now)
    \/ /\ code = "resource"
       /\ \E h \in Live(running, Now) \cup pass.start : Conflict(h.kind, j.kind)

(* Every queued job gets one verdict: the Queue page shows one reason, and *)
(* a true one, for each job that does not start, and no job is both        *)
(* started and written off.                                                *)
OneVerdictEach ==
    LET waits == {w[1] : w \in pass.waiting}
    IN  PassEnded =>
          /\ queue = pass.start \cup pass.superseded \cup waits
          /\ pass.start \cap pass.superseded = {}
          /\ waits \cap (pass.start \cup pass.superseded) = {}
          /\ \A v, w \in pass.waiting : v[1] = w[1] => v = w
          /\ \A w \in pass.waiting : TrueReason(w[1], w[2])

=============================================================================
