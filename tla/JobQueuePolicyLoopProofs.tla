---------------------- MODULE JobQueuePolicyLoopProofs ----------------------
(***************************************************************************)
(* Theorems about the loop of pickNextJobs, for every table of kinds,      *)
(* resources, priorities and leases, and every queue: what it decides is   *)
(* what the set definition of JobQueuePolicy says, which the state         *)
(* machines of the queue and their proofs use.                             *)
(***************************************************************************)
EXTENDS JobQueuePolicyLoop, TLAPS

-----------------------------------------------------------------------------
(* The invariant: what the pass is given, and what it has decided and      *)
(* holds after the jobs it has come to.                                    *)

QueuedJob  == [id : Nat, kind : Kinds, not_before : Nat, stale_after : Nat]
RunningJob == [id : Nat, kind : Kinds, beat : Nat]

Given ==
    /\ lastId \in Nat
    /\ queue \subseteq QueuedJob
    /\ running \subseteq RunningJob
    /\ \A i \in queue : i.id <= lastId
    /\ \A i, j \in queue : i.id = j.id => i = j

Codes == {"exclusive", "draining", "not_before", "resource"}

PassType ==
    pass \in [busy : BOOLEAN, held : SUBSET Resources, exclusive : BOOLEAN,
              draining : BOOLEAN, start : SUBSET queue, superseded : SUBSET queue,
              waiting : SUBSET (queue \X Codes)]

Done    == queue \ todo
Holders == Live(running, Now) \cup pass.start
Alone(j) == ResourceOf[j.kind] = Exclusive

InOrder ==
    /\ todo \subseteq queue
    /\ \A d \in Done, e \in todo : Before(d, e)

HeldByHolders ==
    /\ pass.busy <=> Holders # {}
    /\ \A r \in Resources : r \in pass.held <=> \E h \in Holders : ResourceOf[h.kind] = r
    /\ pass.exclusive <=> \E h \in Holders : Alone(h)

\* A due job the loop has come to holds its resource or stands behind the
\* holder, or the queue drains: for it, or because everything is held.
CandidatesHold ==
    /\ \A d \in Done \cap Candidates(queue, Now) :
          \/ pass.exclusive
          \/ pass.draining
          \/ ~Alone(d) /\ ResourceOf[d.kind] \in pass.held
    /\ pass.draining =>
          pass.busy /\ \E d \in Done \cap Candidates(queue, Now) : Alone(d)

Decided ==
    /\ pass.start = Done \cap Start(queue, running, Now)
    /\ pass.superseded = Done \cap Superseded(queue, Now)

HoldersApart ==
    /\ \A j \in pass.start, l \in Live(running, Now) : ~Conflict(j.kind, l.kind)
    /\ \A i, j \in pass.start : i # j => ~Conflict(i.kind, j.kind)

Explained ==
    /\ \A d \in Done : \/ d \in pass.start \cup pass.superseded
                       \/ \E c \in Codes : <<d, c>> \in pass.waiting
    /\ \A d \in queue, c \in Codes :
          <<d, c>> \in pass.waiting =>
            /\ d \in Done /\ d \notin pass.start \cup pass.superseded
            /\ TrueReason(d, c)
            /\ \A e \in Codes : <<d, e>> \in pass.waiting => e = c

PassInv == /\ InOrder /\ HeldByHolders /\ CandidatesHold
           /\ Decided /\ HoldersApart /\ Explained

LoopInv ==
    /\ Given /\ PassType
    /\ ~passing => todo = {} /\ pass = Idle
    /\ passing => PassInv

-----------------------------------------------------------------------------
(* The order of the jobs, and the fields of a pass. *)

(* compareQueued is a strict total order on jobs with distinct ids. *)
LEMMA BeforeOrders ==
    ASSUME Given, NEW i \in queue, NEW j \in queue
    PROVE  /\ i # j => Before(i, j) \/ Before(j, i)
           /\ ~(Before(i, j) /\ Before(j, i))
<1>1. PriorityOf[i.kind] \in Nat /\ PriorityOf[j.kind] \in Nat
  BY PolicyAssumption DEF Given, QueuedJob
<1>2. /\ i.not_before \in Nat /\ j.not_before \in Nat
      /\ i.id \in Nat /\ j.id \in Nat /\ (i # j => i.id # j.id)
  BY DEF Given, QueuedJob
<1> QED
  BY <1>1, <1>2 DEF Before

(* A holder is a job of some kind, and a job conflicts with one of its own *)
(* resource, or with any when either is alone.                             *)
LEMMA HoldersAreJobs ==
    ASSUME Given, PassType, NEW h \in Holders \cup queue
    PROVE  h.kind \in Kinds /\ ResourceOf[h.kind] \in Resources
BY PolicyAssumption
DEF Given, PassType, Holders, Live, QueuedJob, RunningJob

(* The first of the jobs left is preceded by exactly the jobs done. *)
LEMMA FirstLeft ==
    ASSUME Given, InOrder, NEW j \in todo, \A e \in todo \ {j} : Before(j, e),
           NEW e \in queue
    PROVE  Before(e, j) <=> e \in Done
<1>1. j \in queue
  BY DEF InOrder
<1>2. CASE e \in Done
  BY <1>2 DEF InOrder
<1>3. CASE e \in todo
  BY <1>1, <1>3, BeforeOrders DEF Done
<1> QED
  BY <1>2, <1>3 DEF Done

(* So whether it starts is settled by the jobs done and the live ones. *)
LEMMA StartOfFirst ==
    ASSUME Given, InOrder, NEW j \in todo, \A e \in todo \ {j} : Before(j, e)
    PROVE  j \in Start(queue, running, Now) <=>
             /\ ~Stale(j, Now) /\ Due(j, Now)
             /\ \A l \in Live(running, Now) : ~Conflict(l.kind, j.kind)
             /\ \A d \in Done \cap Candidates(queue, Now) : ~Conflict(d.kind, j.kind)
<1>1. j \in queue
  BY DEF InOrder
<1>2. \A e \in Candidates(queue, Now) :
        (Before(e, j) => ~Conflict(e.kind, j.kind))
        <=> (e \in Done => ~Conflict(e.kind, j.kind))
  BY FirstLeft DEF Candidates
<1>3. j \in Candidates(queue, Now) <=> ~Stale(j, Now) /\ Due(j, Now)
  BY <1>1 DEF Candidates
<1> QED
  BY <1>2, <1>3 DEF Start

-----------------------------------------------------------------------------
(* One turn of the loop: what each outcome writes, and when it comes. *)

KeepsHolds == /\ pass'.busy = pass.busy /\ pass'.held = pass.held
              /\ pass'.exclusive = pass.exclusive /\ pass'.start = pass.start

WroteOff(j) ==
    /\ Stale(j, Now)
    /\ pass'.superseded = pass.superseded \cup {j}
    /\ KeepsHolds /\ pass'.draining = pass.draining /\ pass'.waiting = pass.waiting

MadeToWait(j, c) ==
    /\ ~Stale(j, Now)
    /\ pass'.waiting = pass.waiting \cup {<<j, c>>}
    /\ KeepsHolds /\ pass'.superseded = pass.superseded
    /\ \/ c = "exclusive" /\ pass.exclusive /\ pass'.draining = pass.draining
       \/ /\ c = "draining" /\ ~pass.exclusive /\ pass.draining
          /\ pass'.draining = pass.draining
       \/ /\ c = "not_before" /\ ~Due(j, Now)
          /\ pass'.draining = pass.draining
       \/ /\ c = "resource" /\ Due(j, Now) /\ ~pass.exclusive
          /\ Alone(j) /\ pass.busy /\ pass'.draining = TRUE
       \/ /\ c = "resource" /\ Due(j, Now)
          /\ ~Alone(j) /\ ResourceOf[j.kind] \in pass.held
          /\ pass'.draining = pass.draining

GotStarted(j) ==
    /\ ~Stale(j, Now) /\ Due(j, Now) /\ ~pass.exclusive /\ ~pass.draining
    /\ IF Alone(j) THEN ~pass.busy ELSE ResourceOf[j.kind] \notin pass.held
    /\ pass'.start = pass.start \cup {j}
    /\ pass'.busy = TRUE
    /\ pass'.held = pass.held \cup {ResourceOf[j.kind]}
    /\ pass'.exclusive = Alone(j)
    /\ pass'.draining = Alone(j)
    /\ pass'.superseded = pass.superseded /\ pass'.waiting = pass.waiting

LEMMA HoldOne ==
    ASSUME NEW s, NEW j
    PROVE  Hold(s, {j}) = [s EXCEPT !.busy = @ \/ TRUE,
                                    !.held = @ \cup {ResourceOf[j.kind]},
                                    !.exclusive = @ \/ ResourceOf[j.kind] = Exclusive]
<1>1. {j} # {}
  OBVIOUS
<1>2. {ResourceOf[i.kind] : i \in {j}} = {ResourceOf[j.kind]}
  OBVIOUS
<1>3. (\E i \in {j} : ResourceOf[i.kind] = Exclusive) <=> ResourceOf[j.kind] = Exclusive
  OBVIOUS
<1> QED
  BY <1>1, <1>2, <1>3, Zenon DEF Hold

LEMMA Turn ==
    ASSUME Given, PassType, InOrder, NEW j \in todo, PassConsiders(j)
    PROVE  /\ passing /\ passing' /\ UNCHANGED <<queue, running, lastId>>
           /\ j \in queue /\ j \notin Done /\ Done' = Done \cup {j}
           /\ \A e \in todo \ {j} : Before(j, e)
           /\ todo' = todo \ {j}
           /\ PassType'
           /\ WroteOff(j) \/ GotStarted(j) \/ \E c \in Codes : MadeToWait(j, c)
<1>1. /\ passing /\ passing' /\ UNCHANGED <<queue, running, lastId>>
      /\ todo' = todo \ {j} /\ \A e \in todo \ {j} : Before(j, e)
      /\ j \in queue /\ j \notin Done
  BY DEF PassConsiders, InOrder, Done
<1>2. Done' = Done \cup {j}
  BY <1>1 DEF Done
<1>3. j.kind \in Kinds /\ ResourceOf[j.kind] \in Resources
  BY <1>1, HoldersAreJobs
<1>4. pass' = Consider(pass, j)
  BY DEF PassConsiders
<1>5. CASE Stale(j, Now)
  <2>1. pass' = [pass EXCEPT !.superseded = @ \cup {j}]
    BY <1>4, <1>5 DEF Consider
  <2> QED
    BY <1>1, <1>2, <1>5, <2>1 DEF WroteOff, KeepsHolds, PassType
<1>6. ASSUME ~Stale(j, Now), NEW c \in Codes, NEW b \in BOOLEAN,
             pass' = Waits([pass EXCEPT !.draining = b], j, c)
      PROVE  /\ PassType' /\ KeepsHolds
             /\ pass'.waiting = pass.waiting \cup {<<j, c>>}
             /\ pass'.superseded = pass.superseded /\ pass'.draining = b
  <2>1. pass' = [pass EXCEPT !.draining = b, !.waiting = @ \cup {<<j, c>>}]
    BY <1>6 DEF Waits, PassType
  <2>2. pass.waiting \cup {<<j, c>>} \in SUBSET (queue \X Codes)
    BY <1>1 DEF PassType
  <2>3. pass' \in [busy : BOOLEAN, held : SUBSET Resources, exclusive : BOOLEAN,
                   draining : BOOLEAN, start : SUBSET queue,
                   superseded : SUBSET queue, waiting : SUBSET (queue \X Codes)]
    BY <2>1, <2>2 DEF PassType
  <2>4. PassType'
    BY <1>1, <2>3 DEF PassType
  <2> QED
    BY <2>1, <2>4 DEF KeepsHolds, PassType
<1>7. ASSUME NEW c \in Codes
      PROVE  Waits(pass, j, c) = Waits([pass EXCEPT !.draining = pass.draining], j, c)
  BY DEF PassType
<1>8. /\ pass.draining \in BOOLEAN
      /\ {"exclusive", "draining", "not_before", "resource"} \subseteq Codes
  BY DEF PassType, Codes
<1>9. ASSUME ~Stale(j, Now), Due(j, Now), ~pass.exclusive, ~pass.draining,
             IF Alone(j) THEN ~pass.busy ELSE ResourceOf[j.kind] \notin pass.held,
             pass' = Granted([pass EXCEPT !.draining = Alone(j)], j)
      PROVE  PassType' /\ GotStarted(j)
  <2> DEFINE d == [pass EXCEPT !.draining = Alone(j)]
             g == [d EXCEPT !.start = @ \cup {j}]
  <2>1. pass' = Hold(g, {j})
    BY <1>9, Zenon DEF Granted
  <2>2. Alone(j) \in BOOLEAN
    BY DEF Alone
  <2>3. /\ g \in [busy : BOOLEAN, held : SUBSET Resources, exclusive : BOOLEAN,
                  draining : BOOLEAN, start : SUBSET queue,
                  superseded : SUBSET queue, waiting : SUBSET (queue \X Codes)]
        /\ g.busy = pass.busy /\ g.held = pass.held /\ g.exclusive = pass.exclusive
        /\ g.draining = Alone(j) /\ g.start = pass.start \cup {j}
        /\ g.superseded = pass.superseded /\ g.waiting = pass.waiting
    BY <1>1, <2>2 DEF PassType
  <2> HIDE DEF g
  <2>4. /\ (g.busy \/ TRUE) = TRUE
        /\ (g.exclusive \/ ResourceOf[j.kind] = Exclusive) = Alone(j)
    BY <1>9, <2>3 DEF Alone
  <2>5. pass' = [g EXCEPT !.busy = TRUE, !.held = @ \cup {ResourceOf[j.kind]},
                          !.exclusive = Alone(j)]
    <3>1. pass' = [g EXCEPT !.busy = g.busy \/ TRUE,
                            !.held = g.held \cup {ResourceOf[j.kind]},
                            !.exclusive = g.exclusive \/ ResourceOf[j.kind] = Exclusive]
      BY <2>1, HoldOne
    <3>2. pass' = [g EXCEPT !.busy = TRUE, !.held = g.held \cup {ResourceOf[j.kind]},
                            !.exclusive = Alone(j)]
      BY <3>1, <2>4
    <3> QED
      BY <3>2
  <2>6. pass' \in [busy : BOOLEAN, held : SUBSET Resources, exclusive : BOOLEAN,
                   draining : BOOLEAN, start : SUBSET queue,
                   superseded : SUBSET queue, waiting : SUBSET (queue \X Codes)]
    BY <1>3, <2>2, <2>3, <2>5
  <2>7. PassType'
    BY <1>1, <2>6 DEF PassType
  <2> QED
    BY <1>9, <2>3, <2>5, <2>7 DEF GotStarted
<1>10. CASE ~Stale(j, Now) /\ pass.exclusive
  <2>1. pass' = Waits(pass, j, "exclusive")
    BY <1>4, <1>10 DEF Consider
  <2> QED
    BY <1>1, <1>2, <1>6, <1>7, <1>8, <1>10, <2>1 DEF MadeToWait
<1>11. CASE ~Stale(j, Now) /\ ~pass.exclusive /\ pass.draining
  <2>1. pass' = Waits(pass, j, "draining")
    BY <1>4, <1>11 DEF Consider
  <2> QED
    BY <1>1, <1>2, <1>6, <1>7, <1>8, <1>11, <2>1 DEF MadeToWait
<1>12. CASE ~Stale(j, Now) /\ ~pass.exclusive /\ ~pass.draining /\ ~Due(j, Now)
  <2>1. pass' = Waits(pass, j, "not_before")
    BY <1>4, <1>12 DEF Consider
  <2> QED
    BY <1>1, <1>2, <1>6, <1>7, <1>8, <1>12, <2>1 DEF MadeToWait
<1>13. CASE /\ ~Stale(j, Now) /\ ~pass.exclusive /\ ~pass.draining /\ Due(j, Now)
            /\ Alone(j)
  <2>1. CASE pass.busy
    <3>1. pass' = Waits([pass EXCEPT !.draining = TRUE], j, "resource")
      BY <1>4, <1>13, <2>1 DEF Consider, Alone
    <3> QED
      BY <1>1, <1>2, <1>6, <1>8, <1>13, <2>1, <3>1 DEF MadeToWait
  <2>2. CASE ~pass.busy
    <3>1. pass' = Granted([pass EXCEPT !.draining = TRUE], j)
      BY <1>4, <1>13, <2>2 DEF Consider, Alone
    <3>2. Alone(j) = TRUE
      BY <1>13 DEF Alone
    <3> QED
      BY <1>1, <1>2, <1>9, <1>13, <2>2, <3>1, <3>2
  <2> QED
    BY <2>1, <2>2
<1>14. CASE /\ ~Stale(j, Now) /\ ~pass.exclusive /\ ~pass.draining /\ Due(j, Now)
            /\ ~Alone(j)
  <2>1. CASE ResourceOf[j.kind] \in pass.held
    <3>1. pass' = Waits(pass, j, "resource")
      BY <1>4, <1>14, <2>1 DEF Consider, Alone
    <3> QED
      BY <1>1, <1>2, <1>6, <1>7, <1>8, <1>14, <2>1, <3>1 DEF MadeToWait
  <2>2. CASE ResourceOf[j.kind] \notin pass.held
    <3>1. pass' = Granted(pass, j)
      BY <1>4, <1>14, <2>2 DEF Consider, Alone
    <3>2. Alone(j) = FALSE /\ pass.draining = FALSE
      BY <1>14, <1>8 DEF Alone
    <3>3. pass = [pass EXCEPT !.draining = Alone(j)]
      BY <3>2 DEF PassType
    <3> QED
      BY <1>1, <1>2, <1>9, <1>14, <2>2, <3>1, <3>3
  <2> QED
    BY <2>1, <2>2
<1> QED
  BY <1>5, <1>10, <1>11, <1>12, <1>13, <1>14

-----------------------------------------------------------------------------
(* What a turn does to the invariant. *)

\* What Turn says of a turn, for the lemmas that follow.
Turned(j) ==
    /\ passing /\ passing' /\ UNCHANGED <<queue, running, lastId>>
    /\ j \in todo /\ j \in queue /\ j \notin Done /\ Done' = Done \cup {j}
    /\ \A e \in todo \ {j} : Before(j, e)
    /\ todo' = todo \ {j}
    /\ PassType'
    /\ WroteOff(j) \/ GotStarted(j) \/ \E c \in Codes : MadeToWait(j, c)

Inv == Given /\ PassType /\ PassInv

LEMMA Unmoved ==
    ASSUME UNCHANGED <<queue, running>>
    PROVE  /\ Live(running, Now)' = Live(running, Now)
           /\ Candidates(queue, Now)' = Candidates(queue, Now)
           /\ Start(queue, running, Now)' = Start(queue, running, Now)
           /\ Superseded(queue, Now)' = Superseded(queue, Now)
BY DEF Live, Candidates, Start, Superseded

LEMMA ConflictIs ==
    ASSUME NEW h, NEW j
    PROVE  Conflict(h.kind, j.kind)
             <=> ResourceOf[h.kind] = ResourceOf[j.kind] \/ Alone(h) \/ Alone(j)
BY DEF Conflict, Alone

LEMMA HoldersTurn ==
    ASSUME NEW j, Turned(j)
    PROVE  Holders' = IF GotStarted(j) THEN Holders \cup {j} ELSE Holders
<1>1. Live(running, Now)' = Live(running, Now)
  BY Unmoved DEF Turned
<1>2. CASE GotStarted(j)
  BY <1>1, <1>2 DEF GotStarted, Holders
<1>3. CASE ~GotStarted(j)
  <2>1. pass'.start = pass.start
    BY <1>3 DEF Turned, WroteOff, MadeToWait, KeepsHolds
  <2> QED
    BY <1>1, <1>3, <2>1 DEF Holders
<1> QED
  BY <1>2, <1>3

LEMMA OrderStep ==
    ASSUME Inv, NEW j, Turned(j)
    PROVE  InOrder'
<1>1. todo' \subseteq queue'
  BY DEF Inv, PassInv, InOrder, Turned
<1>2. ASSUME NEW d \in Done', NEW e \in todo'
      PROVE  Before(d, e)
  <2>1. CASE d = j
    BY <1>2, <2>1 DEF Turned
  <2>2. CASE d \in Done
    BY <1>2, <2>2 DEF Inv, PassInv, InOrder, Turned
  <2> QED
    BY <1>2, <2>1, <2>2 DEF Turned
<1> QED
  BY <1>1, <1>2 DEF InOrder, Before

LEMMA HoldStep ==
    ASSUME Inv, NEW j, Turned(j)
    PROVE  HeldByHolders'
<1>1. CASE GotStarted(j)
  <2>1. Holders' = Holders \cup {j}
    BY <1>1, HoldersTurn
  <2>2. pass'.busy /\ Holders' # {}
    BY <1>1, <2>1 DEF GotStarted
  <2>3. ASSUME NEW r \in Resources
        PROVE  r \in pass'.held <=> \E h \in Holders' : ResourceOf[h.kind] = r
    BY <1>1, <2>1, <2>3 DEF GotStarted, Inv, PassInv, HeldByHolders
  <2>4. pass'.exclusive <=> \E h \in Holders' : Alone(h)
    <3>1. pass'.exclusive = Alone(j) /\ ~pass.exclusive
      BY <1>1 DEF GotStarted
    <3> QED
      BY <2>1, <3>1 DEF Inv, PassInv, HeldByHolders
  <2> QED
    BY <2>2, <2>3, <2>4 DEF HeldByHolders, Alone
<1>2. CASE ~GotStarted(j)
  <2>1. Holders' = Holders
    BY <1>2, HoldersTurn
  <2>2. KeepsHolds
    BY <1>2 DEF Turned, WroteOff, MadeToWait
  <2> QED
    BY <2>1, <2>2 DEF HeldByHolders, Alone, KeepsHolds, Inv, PassInv
<1> QED
  BY <1>1, <1>2

(* The verdict of the turn is that of the set definition. *)
LEMMA VerdictIsRight ==
    ASSUME Inv, NEW j, Turned(j)
    PROVE  /\ GotStarted(j) => j \in Start(queue, running, Now)
           /\ ~GotStarted(j) => j \notin Start(queue, running, Now)
<1> DEFINE Dues == Done \cap Candidates(queue, Now)
<1>1. j \in Start(queue, running, Now) <=>
        /\ ~Stale(j, Now) /\ Due(j, Now)
        /\ \A l \in Live(running, Now) : ~Conflict(l.kind, j.kind)
        /\ \A d \in Dues : ~Conflict(d.kind, j.kind)
  BY StartOfFirst DEF Inv, PassInv, Turned
<1>2. \A h \in Holders : h \in Live(running, Now) \/ h \in Dues
  BY DEF Holders, Inv, PassInv, Decided, Start
<1>3. ASSUME NEW h \in Holders, Conflict(h.kind, j.kind)
      PROVE  j \notin Start(queue, running, Now)
  BY <1>1, <1>2, <1>3
<1>4. ResourceOf[j.kind] \in Resources
  BY HoldersAreJobs DEF Inv, Turned
<1>5. CASE WroteOff(j)
  BY <1>1, <1>5 DEF WroteOff, GotStarted
<1>6. ASSUME NEW c \in Codes, MadeToWait(j, c), ~GotStarted(j)
      PROVE  j \notin Start(queue, running, Now)
  <2>1. CASE pass.exclusive
    <3>1. PICK h \in Holders : Alone(h)
      BY <2>1 DEF Inv, PassInv, HeldByHolders
    <3> QED
      BY <1>3, <3>1, ConflictIs
  <2>2. CASE pass.draining
    <3>1. PICK d \in Dues : Alone(d)
      BY <2>2 DEF Inv, PassInv, CandidatesHold
    <3> QED
      BY <1>1, <3>1, ConflictIs
  <2>3. CASE ~Due(j, Now)
    BY <1>1, <2>3
  <2>4. CASE Alone(j) /\ pass.busy
    <3>1. PICK h \in Holders : TRUE
      BY <2>4 DEF Inv, PassInv, HeldByHolders
    <3> QED
      BY <1>3, <2>4, <3>1, ConflictIs
  <2>5. CASE ResourceOf[j.kind] \in pass.held
    <3>1. PICK h \in Holders : ResourceOf[h.kind] = ResourceOf[j.kind]
      BY <1>4, <2>5 DEF Inv, PassInv, HeldByHolders
    <3> QED
      BY <1>3, <3>1, ConflictIs
  <2> QED
    BY <1>6, <2>1, <2>2, <2>3, <2>4, <2>5 DEF MadeToWait
<1>7. ASSUME GotStarted(j)
      PROVE  j \in Start(queue, running, Now)
  <2>1. /\ ~Stale(j, Now) /\ Due(j, Now) /\ ~pass.exclusive /\ ~pass.draining
        /\ Alone(j) => ~pass.busy
        /\ ~Alone(j) => ResourceOf[j.kind] \notin pass.held
    BY <1>7 DEF GotStarted
  <2>2. \A h \in Holders : ~Alone(h)
    BY <2>1 DEF Inv, PassInv, HeldByHolders
  <2>3. \A d \in Dues : ~Alone(d) /\ \E h \in Holders : ResourceOf[h.kind] = ResourceOf[d.kind]
    <3> SUFFICES ASSUME NEW d \in Dues
                 PROVE  /\ ~Alone(d)
                        /\ \E h \in Holders : ResourceOf[h.kind] = ResourceOf[d.kind]
      OBVIOUS
    <3>1. ~Alone(d) /\ ResourceOf[d.kind] \in pass.held
      BY <2>1 DEF Inv, PassInv, CandidatesHold
    <3>2. ResourceOf[d.kind] \in Resources
      BY HoldersAreJobs DEF Inv, Done
    <3> QED
      BY <3>1, <3>2 DEF Inv, PassInv, HeldByHolders
  <2>4. ASSUME NEW h \in Holders
        PROVE  ~Alone(j) /\ ResourceOf[h.kind] # ResourceOf[j.kind]
    <3>1. pass.busy
      BY <2>4 DEF Inv, PassInv, HeldByHolders
    <3> QED
      BY <1>4, <2>1, <2>4, <3>1 DEF Inv, PassInv, HeldByHolders
  <2>5. \A l \in Live(running, Now) : ~Conflict(l.kind, j.kind)
    BY <2>2, <2>4, ConflictIs DEF Holders
  <2>6. \A d \in Dues : ~Conflict(d.kind, j.kind)
    BY <2>3, <2>4, ConflictIs
  <2> QED
    BY <1>1, <2>1, <2>5, <2>6
<1> QED
  BY <1>5, <1>6, <1>7 DEF Turned

LEMMA DecidedStep ==
    ASSUME Inv, NEW j, Turned(j)
    PROVE  Decided'
<1>1. /\ Start(queue, running, Now)' = Start(queue, running, Now)
      /\ Superseded(queue, Now)' = Superseded(queue, Now)
      /\ Done' = Done \cup {j} /\ j \in queue
  BY Unmoved DEF Turned
<1>2. /\ pass.start = Done \cap Start(queue, running, Now)
      /\ pass.superseded = Done \cap Superseded(queue, Now)
  BY DEF Inv, PassInv, Decided
<1>3. pass'.start = Done' \cap Start(queue, running, Now)
  <2>1. CASE GotStarted(j)
    BY <1>1, <1>2, <2>1, VerdictIsRight DEF GotStarted
  <2>2. CASE ~GotStarted(j)
    <3>1. pass'.start = pass.start
      BY <2>2 DEF Turned, WroteOff, MadeToWait, KeepsHolds
    <3> QED
      BY <1>1, <1>2, <2>2, <3>1, VerdictIsRight
  <2> QED
    BY <2>1, <2>2
<1>4. pass'.superseded = Done' \cap Superseded(queue, Now)
  <2>1. j \in Superseded(queue, Now) <=> Stale(j, Now)
    BY <1>1 DEF Superseded
  <2> QED
    BY <1>1, <1>2, <2>1 DEF Turned, WroteOff, MadeToWait, GotStarted
<1> QED
  BY <1>1, <1>3, <1>4 DEF Decided

LEMMA CandidatesStep ==
    ASSUME Inv, NEW j, Turned(j)
    PROVE  CandidatesHold'
<1> DEFINE Dues == Done \cap Candidates(queue, Now)
<1>1. /\ Candidates(queue, Now)' = Candidates(queue, Now)
      /\ Done' = Done \cup {j} /\ j \in queue
      /\ j \in Candidates(queue, Now) <=> ~Stale(j, Now) /\ Due(j, Now)
  BY Unmoved DEF Turned, Candidates
<1>2. Dues \subseteq Dues'
  BY <1>1
<1>3. ASSUME NEW d \in Dues'
      PROVE  \/ pass'.exclusive
             \/ pass'.draining
             \/ ~Alone(d) /\ ResourceOf[d.kind] \in pass'.held
  <2>1. CASE d \in Dues
    <3>1. \/ pass.exclusive \/ pass.draining
          \/ ~Alone(d) /\ ResourceOf[d.kind] \in pass.held
      BY <2>1 DEF Inv, PassInv, CandidatesHold
    <3>2. CASE GotStarted(j)
      BY <3>1, <3>2 DEF GotStarted
    <3>3. CASE ~GotStarted(j)
      BY <3>1, <3>3 DEF Turned, WroteOff, MadeToWait, KeepsHolds
    <3> QED
      BY <3>2, <3>3
  <2>2. CASE d = j
    <3>1. ~Stale(j, Now) /\ Due(j, Now)
      BY <1>1, <1>3, <2>2
    <3>2. CASE GotStarted(j)
      BY <2>2, <3>2 DEF GotStarted
    <3>3. CASE \E c \in Codes : MadeToWait(j, c)
      BY <2>2, <3>1, <3>3 DEF MadeToWait, KeepsHolds
    <3> QED
      BY <3>1, <3>2, <3>3 DEF Turned, WroteOff
  <2> QED
    BY <1>1, <1>3, <2>1, <2>2
<1>4. ASSUME pass'.draining
      PROVE  pass'.busy /\ \E d \in Dues' : Alone(d)
  <2>1. CASE pass.draining
    <3>1. pass.busy /\ \E d \in Dues : Alone(d)
      BY <2>1 DEF Inv, PassInv, CandidatesHold
    <3>2. pass'.busy
      BY <2>1, <3>1 DEF Turned, WroteOff, MadeToWait, GotStarted, KeepsHolds
    <3> QED
      BY <1>2, <3>1, <3>2
  <2>2. CASE ~pass.draining
    <3>1. Alone(j) /\ pass'.busy /\ ~Stale(j, Now) /\ Due(j, Now)
      <4>1. CASE GotStarted(j)
        BY <1>4, <4>1 DEF GotStarted
      <4>2. CASE ~GotStarted(j)
        BY <1>4, <2>2, <4>2 DEF Turned, WroteOff, MadeToWait, KeepsHolds
      <4> QED
        BY <4>1, <4>2
    <3>2. j \in Dues'
      BY <1>1, <3>1
    <3> QED
      BY <3>1, <3>2
  <2> QED
    BY <2>1, <2>2
<1> QED
  BY <1>3, <1>4 DEF CandidatesHold, Alone

LEMMA ApartStep ==
    ASSUME Inv, NEW j, Turned(j)
    PROVE  HoldersApart'
<1>1. Live(running, Now)' = Live(running, Now)
  BY Unmoved DEF Turned
<1>2. CASE ~GotStarted(j)
  <2>1. pass'.start = pass.start
    BY <1>2 DEF Turned, WroteOff, MadeToWait, KeepsHolds
  <2> QED
    BY <1>1, <2>1 DEF HoldersApart, Inv, PassInv, Conflict
<1>3. CASE GotStarted(j)
  <2>1. pass'.start = pass.start \cup {j}
    BY <1>3 DEF GotStarted
  <2>2. \A h \in Holders : ~Alone(h)
    BY <1>3 DEF GotStarted, Inv, PassInv, HeldByHolders
  <2>3. ASSUME NEW h \in Holders
        PROVE  ~Alone(j) /\ ResourceOf[h.kind] # ResourceOf[j.kind]
    <3>1. pass.busy
      BY <2>3 DEF Inv, PassInv, HeldByHolders
    <3>2. ResourceOf[j.kind] \in Resources
      BY HoldersAreJobs DEF Inv, Turned
    <3> QED
      BY <1>3, <2>3, <3>1, <3>2 DEF GotStarted, Inv, PassInv, HeldByHolders
  <2>4. \A h \in Holders : ~Conflict(h.kind, j.kind) /\ ~Conflict(j.kind, h.kind)
    BY <2>2, <2>3, ConflictIs
  <2>5. \A i \in pass'.start, l \in Live(running, Now) : ~Conflict(i.kind, l.kind)
    BY <2>1, <2>4 DEF Holders, Inv, PassInv, HoldersApart
  <2>6. \A i, k \in pass'.start : i # k => ~Conflict(i.kind, k.kind)
    BY <2>1, <2>4 DEF Holders, Inv, PassInv, HoldersApart
  <2> QED
    BY <1>1, <2>5, <2>6 DEF HoldersApart, Conflict
<1> QED
  BY <1>2, <1>3

(* A reason stays true: who holds goes on holding, and who drains the      *)
(* queue was passed over before.                                           *)
LEMMA ReasonsStay ==
    ASSUME Inv, NEW j, Turned(j), NEW d \in Done, NEW c, TrueReason(d, c)
    PROVE  TrueReason(d, c)'
<1>1. /\ Live(running, Now)' = Live(running, Now)
      /\ Candidates(queue, Now)' = Candidates(queue, Now)
  BY Unmoved DEF Turned
<1>2. pass'.start = pass.start \/ pass'.start = pass.start \cup {j}
  BY DEF Turned, WroteOff, MadeToWait, GotStarted, KeepsHolds
<1>3. CASE c = "draining" /\ \E e \in Candidates(queue, Now) \ pass.start :
             ResourceOf[e.kind] = Exclusive /\ Before(e, d)
  <2>1. PICK e \in Candidates(queue, Now) \ pass.start :
             ResourceOf[e.kind] = Exclusive /\ Before(e, d)
    BY <1>3
  <2>2. d \in queue /\ j \in queue /\ Before(d, j)
    BY DEF Done, Inv, PassInv, InOrder, Turned
  <2>3. e # j
    BY <2>1, <2>2, BeforeOrders DEF Inv
  <2>4. e \notin pass'.start
    BY <1>2, <2>1, <2>3
  <2> QED
    BY <1>1, <1>3, <2>1, <2>4 DEF TrueReason, Before
<1>4. CASE c # "draining"
  BY <1>1, <1>2, <1>4 DEF TrueReason, Due, Conflict
<1> QED
  BY <1>3, <1>4 DEF TrueReason

(* And it is true when it is given. *)
LEMMA ReasonsAreTrue ==
    ASSUME Inv, NEW j, Turned(j), NEW c \in Codes, MadeToWait(j, c)
    PROVE  TrueReason(j, c)'
<1>1. /\ Live(running, Now)' = Live(running, Now)
      /\ Candidates(queue, Now)' = Candidates(queue, Now)
      /\ pass'.start = pass.start
  BY Unmoved DEF Turned, MadeToWait, KeepsHolds
<1>2. ResourceOf[j.kind] \in Resources
  BY HoldersAreJobs DEF Inv, Turned
<1>3. CASE c = "exclusive" /\ pass.exclusive
  BY <1>1, <1>3 DEF TrueReason, Inv, PassInv, HeldByHolders, Holders, Alone
<1>4. CASE c = "draining" /\ ~pass.exclusive /\ pass.draining
  <2>1. PICK e \in Done \cap Candidates(queue, Now) : Alone(e)
    BY <1>4 DEF Inv, PassInv, CandidatesHold
  <2>2. e \notin pass.start
    BY <1>4, <2>1 DEF Inv, PassInv, HeldByHolders, Holders
  <2>3. Before(e, j)
    BY <2>1 DEF Inv, PassInv, InOrder, Turned
  <2> QED
    BY <1>1, <1>4, <2>1, <2>2, <2>3 DEF TrueReason, Alone, Before
<1>5. CASE c = "not_before" /\ ~Due(j, Now)
  BY <1>5 DEF TrueReason, Due
<1>6. CASE c = "resource" /\ Alone(j) /\ pass.busy
  <2>1. PICK h \in Holders : TRUE
    BY <1>6 DEF Inv, PassInv, HeldByHolders
  <2>2. Conflict(h.kind, j.kind)
    BY <1>6, ConflictIs
  <2> QED
    BY <1>1, <1>6, <2>2 DEF TrueReason, Holders, Conflict
<1>7. CASE c = "resource" /\ ResourceOf[j.kind] \in pass.held
  <2>1. PICK h \in Holders : ResourceOf[h.kind] = ResourceOf[j.kind]
    BY <1>2, <1>7 DEF Inv, PassInv, HeldByHolders
  <2>2. Conflict(h.kind, j.kind)
    BY <2>1, ConflictIs
  <2> QED
    BY <1>1, <1>7, <2>1, <2>2 DEF TrueReason, Holders, Conflict
<1> QED
  BY <1>3, <1>4, <1>5, <1>6, <1>7 DEF MadeToWait

LEMMA ExplainedStep ==
    ASSUME Inv, NEW j, Turned(j)
    PROVE  Explained'
<1>1. /\ queue' = queue /\ Done' = Done \cup {j}
      /\ j \in queue /\ j \notin Done
      /\ pass.start \subseteq Done /\ pass.superseded \subseteq Done
  BY DEF Turned, Inv, PassInv, Decided
<1>2. ASSUME NEW d \in Done'
      PROVE  \/ d \in pass'.start \cup pass'.superseded
             \/ \E c \in Codes : <<d, c>> \in pass'.waiting
  <2>1. CASE d = j
    BY <2>1 DEF Turned, WroteOff, MadeToWait, GotStarted
  <2>2. CASE d \in Done
    <3>1. \/ d \in pass.start \cup pass.superseded
          \/ \E c \in Codes : <<d, c>> \in pass.waiting
      BY <2>2 DEF Inv, PassInv, Explained
    <3>2. /\ pass.start \subseteq pass'.start /\ pass.superseded \subseteq pass'.superseded
          /\ pass.waiting \subseteq pass'.waiting
      BY DEF Turned, WroteOff, MadeToWait, GotStarted, KeepsHolds
    <3> QED
      BY <3>1, <3>2
  <2> QED
    BY <1>1, <1>2, <2>1, <2>2
<1>3. ASSUME NEW d \in queue, NEW c \in Codes, <<d, c>> \in pass'.waiting
      PROVE  /\ d \in Done' /\ d \notin pass'.start \cup pass'.superseded
             /\ TrueReason(d, c)'
             /\ \A e \in Codes : <<d, e>> \in pass'.waiting => e = c
  <2>1. CASE <<d, c>> \in pass.waiting
    <3>1. /\ d \in Done /\ d \notin pass.start \cup pass.superseded
          /\ TrueReason(d, c)
          /\ \A e \in Codes : <<d, e>> \in pass.waiting => e = c
      BY <1>3, <2>1 DEF Inv, PassInv, Explained
    <3>2. d # j
      BY <1>1, <3>1
    <3>3. d \notin pass'.start \cup pass'.superseded
      BY <3>1, <3>2 DEF Turned, WroteOff, MadeToWait, GotStarted, KeepsHolds
    <3>4. \A e \in Codes : <<d, e>> \in pass'.waiting => <<d, e>> \in pass.waiting
      BY <3>2 DEF Turned, WroteOff, MadeToWait, GotStarted
    <3> QED
      BY <1>1, <3>1, <3>3, <3>4, ReasonsStay
  <2>2. CASE <<d, c>> \notin pass.waiting
    <3>1. d = j /\ MadeToWait(j, c)
      BY <1>3, <2>2 DEF Turned, WroteOff, MadeToWait, GotStarted
    <3>2. j \notin pass'.start \cup pass'.superseded
      BY <1>1, <3>1 DEF MadeToWait, KeepsHolds
    <3>3. \A e \in Codes : <<j, e>> \notin pass.waiting
      BY <1>1 DEF Inv, PassInv, Explained
    <3>4. \A e \in Codes : <<j, e>> \in pass'.waiting => e = c
      BY <3>1, <3>3 DEF MadeToWait
    <3> QED
      BY <1>1, <3>1, <3>2, <3>4, ReasonsAreTrue
  <2> QED
    BY <2>1, <2>2
<1> QED
  BY <1>1, <1>2, <1>3 DEF Explained

-----------------------------------------------------------------------------
(* The invariant is inductive. *)

LEMMA LoopInit == Init => LoopInv
BY DEF Init, LoopInv, Given, PassType, Idle

LEMMA StepAdds ==
    ASSUME LoopInv, NEW k \in Kinds, NEW nb \in NotBefores, NEW st \in StaleAfters,
           AddQueued(k, nb, st)
    PROVE  LoopInv'
<1> DEFINE job == [id |-> lastId + 1, kind |-> k, not_before |-> nb, stale_after |-> st]
<1>1. /\ ~passing /\ pass = Idle /\ todo = {} /\ queue' = queue \cup {job}
      /\ lastId' = lastId + 1 /\ UNCHANGED <<running, passing, todo, pass>>
  BY DEF LoopInv, AddQueued
<1>2. job \in QueuedJob /\ lastId \in Nat
  BY LoopAssumption DEF LoopInv, Given, QueuedJob
<1>3. Given'
  BY <1>1, <1>2 DEF LoopInv, Given, QueuedJob
<1>4. PassType'
  BY <1>1 DEF PassType, Idle
<1> QED
  BY <1>1, <1>3, <1>4 DEF LoopInv

LEMMA StepRuns ==
    ASSUME LoopInv, NEW k \in Kinds, NEW b \in Beats, AddRunning(k, b)
    PROVE  LoopInv'
<1> DEFINE job == [id |-> lastId + 1, kind |-> k, beat |-> b]
<1>1. /\ ~passing /\ running' = running \cup {job}
      /\ lastId' = lastId + 1 /\ UNCHANGED <<queue, passing, todo, pass>>
  BY DEF LoopInv, AddRunning
<1>2. job \in RunningJob /\ lastId \in Nat
  BY LoopAssumption DEF LoopInv, Given, RunningJob
<1>3. Given'
  BY <1>1, <1>2 DEF LoopInv, Given, QueuedJob
<1> QED
  BY <1>1, <1>3 DEF LoopInv, PassType

LEMMA StepBegins ==
    ASSUME LoopInv, PassBegins
    PROVE  LoopInv'
<1> DEFINE live == Live(running, Now)
<1>1. /\ passing' /\ todo' = queue /\ UNCHANGED <<queue, running, lastId>>
      /\ pass' = Hold(Idle, live)
  BY DEF PassBegins
<1>2. \A l \in live : ResourceOf[l.kind] \in Resources
  BY HoldersAreJobs DEF LoopInv, Holders
<1> HIDE DEF live
<1>3. /\ pass'.busy = (live # {})
      /\ pass'.held = {ResourceOf[l.kind] : l \in live}
      /\ pass'.exclusive = (\E l \in live : ResourceOf[l.kind] = Exclusive)
      /\ pass'.draining = FALSE
      /\ pass'.start = {} /\ pass'.superseded = {} /\ pass'.waiting = {}
      /\ pass' \in [busy : BOOLEAN, held : SUBSET Resources, exclusive : BOOLEAN,
                    draining : BOOLEAN, start : SUBSET queue,
                    superseded : SUBSET queue, waiting : SUBSET (queue \X Codes)]
  <2> DEFINE some == live # {}
             rs == {ResourceOf[l.kind] : l \in live}
             ex == \E l \in live : ResourceOf[l.kind] = Exclusive
  <2>1. pass' = [Idle EXCEPT !.busy = Idle.busy \/ some, !.held = Idle.held \cup rs,
                             !.exclusive = Idle.exclusive \/ ex]
    BY <1>1 DEF Hold
  <2>2. rs \in SUBSET Resources /\ some \in BOOLEAN /\ ex \in BOOLEAN
    BY <1>2
  <2> HIDE DEF some, rs, ex
  <2>3. /\ (Idle.busy \/ some) = some /\ Idle.held \cup rs = rs
        /\ (Idle.exclusive \/ ex) = ex
    BY <2>2 DEF Idle
  <2>4. pass' = [Idle EXCEPT !.busy = some, !.held = rs, !.exclusive = ex]
    BY <2>1, <2>3
  <2>5. /\ pass'.busy = some /\ pass'.held = rs /\ pass'.exclusive = ex
        /\ pass'.draining = FALSE
        /\ pass'.start = {} /\ pass'.superseded = {} /\ pass'.waiting = {}
        /\ pass' \in [busy : BOOLEAN, held : SUBSET Resources, exclusive : BOOLEAN,
                      draining : BOOLEAN, start : SUBSET queue,
                      superseded : SUBSET queue, waiting : SUBSET (queue \X Codes)]
    BY <2>2, <2>4 DEF Idle
  <2> QED
    BY <2>5 DEF some, rs, ex
<1>4. Holders' = live /\ Done' = {}
  BY <1>1, <1>3 DEF Holders, Done, live, Live
<1>5. InOrder'
  BY <1>1, <1>4 DEF InOrder
<1>6. HeldByHolders'
  <2>1. pass'.busy <=> Holders' # {}
    BY <1>3, <1>4
  <2>2. \A r \in Resources : r \in pass'.held <=> \E h \in Holders' : ResourceOf[h.kind] = r
    BY <1>3, <1>4
  <2>3. pass'.exclusive <=> \E h \in Holders' : Alone(h)
    BY <1>3, <1>4 DEF Alone
  <2> QED
    BY <2>1, <2>2, <2>3 DEF HeldByHolders, Alone
<1>7. CandidatesHold' /\ Decided' /\ HoldersApart' /\ Explained'
  BY <1>3, <1>4 DEF CandidatesHold, Decided, HoldersApart, Explained
<1>8. Given' /\ PassType'
  BY <1>1, <1>3 DEF LoopInv, Given, PassType
<1> QED
  BY <1>1, <1>5, <1>6, <1>7, <1>8 DEF LoopInv, PassInv

LEMMA StepConsiders ==
    ASSUME LoopInv, NEW j \in todo, PassConsiders(j)
    PROVE  LoopInv'
<1>1. Inv
  BY DEF PassConsiders, LoopInv, Inv
<1>2. Turned(j)
  BY <1>1, Turn DEF Inv, PassInv, Turned
<1>3. InOrder' /\ HeldByHolders' /\ CandidatesHold' /\ Decided' /\ HoldersApart' /\ Explained'
  BY <1>1, <1>2, OrderStep, HoldStep, CandidatesStep, DecidedStep, ApartStep, ExplainedStep
<1>4. Given'
  BY <1>1, <1>2 DEF Turned, Inv, Given
<1> QED
  BY <1>2, <1>3, <1>4 DEF LoopInv, PassInv, Turned

LEMMA LoopStep == LoopInv /\ [Next]_vars => LoopInv'
<1> SUFFICES ASSUME LoopInv, [Next]_vars
             PROVE  LoopInv'
  OBVIOUS
<1>1. CASE UNCHANGED vars
  <2>1. UNCHANGED <<queue, running, lastId, passing, todo, pass>>
    BY <1>1 DEF vars
  <2>2. /\ Done' = Done /\ Holders' = Holders
        /\ Live(running, Now)' = Live(running, Now)
        /\ Candidates(queue, Now)' = Candidates(queue, Now)
    BY <2>1, Unmoved DEF Done, Holders
  <2>3. Given' = Given /\ PassType' = PassType /\ InOrder' = InOrder
    BY <2>1, <2>2 DEF Given, PassType, InOrder, Before
  <2>4. HeldByHolders' = HeldByHolders /\ CandidatesHold' = CandidatesHold
    BY <2>1, <2>2 DEF HeldByHolders, CandidatesHold, Alone
  <2>5. Decided' = Decided /\ HoldersApart' = HoldersApart
    BY <2>1, <2>2, Unmoved DEF Decided, HoldersApart, Conflict
  <2>6. Explained' = Explained
    BY <2>1, <2>2 DEF Explained, TrueReason, Conflict, Before, Due
  <2> QED
    BY <2>1, <2>3, <2>4, <2>5, <2>6 DEF LoopInv, PassInv
<1>2. CASE Next
  BY <1>2, StepAdds, StepRuns, StepBegins, StepConsiders DEF Next
<1> QED
  BY <1>1, <1>2

-----------------------------------------------------------------------------
(* The theorems. *)

(* At every turn: what is held, what is decided and why, of any queue.     *)
THEOREM LoopInvariant == Spec => []LoopInv
BY LoopInit, LoopStep, PTL DEF Spec

(* The loop, with its order and its flags, starts exactly the jobs of the  *)
(* set definition: what is proved of the queue with Start is proved of the *)
(* queue with pickNextJobs.                                                *)
THEOREM LoopIsStart == Spec => []LoopAgrees
<1>1. LoopInv => LoopAgrees
  BY DEF LoopInv, PassInv, Decided, Done, LoopAgrees, PassEnded, Start, Candidates
<1> QED
  BY <1>1, LoopInvariant, PTL

(* server-restart is granted alone, and no resource twice.                 *)
THEOREM LoopIsCompatible == Spec => []StartsAreCompatible
<1>1. LoopInv => StartsAreCompatible
  BY DEF LoopInv, PassInv, HoldersApart, StartsAreCompatible, Idle
<1> QED
  BY <1>1, LoopInvariant, PTL

(* Draining never stops the last thing that could run: with nothing        *)
(* running and something due, something starts.                            *)
THEOREM LoopIsNeverStuck == Spec => []NeverStuck
<1>1. LoopInv => NeverStuck
  <2> SUFFICES ASSUME LoopInv, PassEnded, Live(running, Now) = {},
                      Candidates(queue, Now) # {}
               PROVE  pass.start # {}
    BY DEF NeverStuck
  <2>1. PassInv /\ Given /\ PassType /\ Done = queue
    BY DEF LoopInv, PassEnded, Done
  <2>2. PICK d \in Done \cap Candidates(queue, Now) : TRUE
    BY <2>1 DEF Candidates
  <2>3. CASE pass.exclusive \/ pass.draining
    BY <2>1, <2>3 DEF PassInv, CandidatesHold, HeldByHolders, Holders
  <2>4. CASE ResourceOf[d.kind] \in pass.held
    <3>1. ResourceOf[d.kind] \in Resources
      BY <2>1, HoldersAreJobs
    <3> QED
      BY <2>1, <2>4, <3>1 DEF PassInv, HeldByHolders, Holders
  <2> QED
    BY <2>1, <2>3, <2>4 DEF PassInv, CandidatesHold
<1> QED
  BY <1>1, LoopInvariant, PTL

(* The Queue page has one verdict for each job, and a true reason.         *)
THEOREM LoopExplains == Spec => []OneVerdictEach
<1>1. LoopInv => OneVerdictEach
  <2> SUFFICES ASSUME LoopInv, PassEnded
               PROVE  OneVerdictEach
    BY DEF OneVerdictEach
  <2> DEFINE waits == {w[1] : w \in pass.waiting}
  <2>1. PassInv /\ PassType /\ Done = queue
    BY DEF LoopInv, PassEnded, Done
  <2>2. \A w \in pass.waiting : w[1] \in queue /\ w[2] \in Codes /\ w = <<w[1], w[2]>>
    BY <2>1 DEF PassType
  <2>3. \A w \in pass.waiting :
          /\ w[1] \notin pass.start \cup pass.superseded
          /\ TrueReason(w[1], w[2])
          /\ \A v \in pass.waiting : v[1] = w[1] => v[2] = w[2]
    BY <2>1, <2>2 DEF PassInv, Explained
  <2>4. \A v, w \in pass.waiting : v[1] = w[1] => v = w
    BY <2>2, <2>3
  <2>5. queue \subseteq pass.start \cup pass.superseded \cup waits
    <3> SUFFICES ASSUME NEW d \in queue, d \notin pass.start \cup pass.superseded
                 PROVE  d \in waits
      OBVIOUS
    <3>1. PICK c \in Codes : <<d, c>> \in pass.waiting
      BY <2>1 DEF PassInv, Explained
    <3>2. <<d, c>>[1] = d
      OBVIOUS
    <3> QED
      BY <3>1, <3>2
  <2>6. pass.start \cup pass.superseded \cup waits \subseteq queue
    BY <2>1, <2>2 DEF PassType
  <2>7. pass.start \cap pass.superseded = {}
    BY <2>1 DEF PassInv, Decided, Start, Candidates, Superseded
  <2> QED
    BY <2>3, <2>4, <2>5, <2>6, <2>7 DEF OneVerdictEach
<1> QED
  BY <1>1, LoopInvariant, PTL

=============================================================================
