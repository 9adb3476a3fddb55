------------------------- MODULE CacheWarmerProofs --------------------------
(* Proofs about the cache of aggregates and its warmer, for any keys, any    *)
(* builders that keep to BuildersAssumption and any list of warmed keys.     *)
(*                                                                           *)
(* What makes the cache right is not one fact about all entries but one per  *)
(* kind of input, because each kind is watched by another mechanism: the log *)
(* of rows, data_version, the calendar day, the node of live inputs, the     *)
(* comparison of rates. Each part below says how an entry may be wrong about *)
(* its kind, and what then is still going to drop it.                        *)
EXTENDS CacheWarmer, TLAPS

-----------------------------------------------------------------------------
(* The inductive invariant.                                                  *)

(* A price in an entry is in its node and the other way round, and history   *)
(* entries have neither.                                                     *)
PricesInNodes ==
  \A k \in Keys : /\ {p[1] : p \in cache[k]} \cap Quote = reads[k]
                  /\ Tier[k] = "hist" => reads[k] = {}

(* Prices are read by what a tick drops, or by the expense lines.            *)
PricesAreLive ==
  \A k \in Keys : reads[k] # {} => Tier[k] \in LiveTailTiers \cup {"inputs"}

(* The checks in their order: nothing is cached before the first of them has *)
(* taken the head of the log, and no version is seen before it is committed. *)
ChecksInOrder ==
  /\ (Keys # {} \/ checked) => applied # None
  /\ counted => checked
  /\ checking => checked
  /\ seen <= version /\ lastWarmed <= version

(* Every entry is of the cache's day.                                        *)
OfItsDay == \A k \in Keys : \A p \in cache[k] : p[1] = "day" => p[2] = cacheDay

(* A row no funnel covers: another's commit is in data_version, and one of   *)
(* this process ends with an answer that drops it.                           *)
PlainIsDropped ==
  \A k \in Keys : \A p \in cache[k] : p[1] = "plain" =>
    /\ Tier[k] \in ApiTiers
    /\ p[2] = plain \/ seen # version \/ answering

(* A row of a watched table: the log, which the next check reads, holds it,  *)
(* or a commit has changed data_version, or the sync or the poll that wrote  *)
(* it has not said so.                                                       *)
RowIsKnown(k, v) ==
  \/ v = head
  \/ Trims(head) /\ Tier[k] \in ListenerTiers /\ ~counted /\ ~checking
  \/ seen # version
  \/ Behind /\ Tier[k] \in MonthTiers

RowsAreKnown ==
  ~skipped => \A k \in Keys : \A p \in cache[k] : p[1] = "rows" => RowIsKnown(k, p[2])

(* A price is the current one, but in the expense lines, or one that a poll  *)
(* has stored and not published.                                             *)
AtPrice(p) == p[1] \in Untold \/ p[2] = quote[p[1]]

PricesAreCurrent ==
  \A k \in Keys : Tier[k] # "inputs" => \A p \in Rates(cache[k]) : AtPrice(p)

(* Nothing has happened that asks for another warm, or that a warm leaves to *)
(* the requests.                                                             *)
Calm == ~debounce /\ ~rewarm /\ ~midnight /\ ~excused /\ ~skipped /\ ~answering /\ ~owed

(* The warmed entries the warmer stands for; it has also looked up the one   *)
(* it awaits.                                                                *)
Warmed == IF warming THEN 1 .. step - 1
          ELSE IF lastWarmed = version THEN Steps ELSE {}
Begun  == IF awaits = "entry" THEN Warmed \cup {step} ELSE Warmed

(* The entry of a warmed key, whole or in flight, is right, and the expense  *)
(* lines under it are at the cards' rates.                                   *)
LinesCompared == \A l \in Key : Tier[l] = "inputs" => ~OutOfRate(l)
StandsRight(i) ==
  /\ Warm[i] \in Keys /\ RightOn(Warm[i], Input)
  /\ Tier[Warm[i]] \in {"flows", "inputs"} => LinesCompared

(* In the calm they are cached and right, seen at this version and on this   *)
(* day, but for the prices of a poll that is under way or has failed.        *)
WarmSoFar ==
  Calm =>
    /\ warming /\ counted => seen = version
    /\ awaits # "gone"
    /\ Begun # {} => seen = version /\ cacheDay = today
    /\ Untold = {} => /\ \A i \in Begun : StandsRight(i)
                      /\ \A i \in Warmed : left[Warm[i]] = {}

CacheInv ==
  /\ WarmerTypeOK
  /\ PricesInNodes /\ PricesAreLive
  /\ ChecksInOrder
  /\ OfItsDay /\ PlainIsDropped /\ RowsAreKnown /\ PricesAreCurrent
  /\ WarmSoFar

-----------------------------------------------------------------------------
(* Content, Node and Missing are functions defined by what they are at the   *)
(* parts of a key. That there is one such function: the least sets closed    *)
(* under the equation satisfy it.                                            *)

HasFixpoint(H, held, own) ==
  \E V : \E f \in [Key -> V] : \A k \in Key : \A u :
    u \in f[k] <=> \/ k \in H /\ u \in held[k]
                   \/ k \notin H /\ (u \in own[k] \/ \E p \in Parts[k] : u \in f[p])

LEMMA Fixpoint ==
  ASSUME NEW H, NEW held, NEW own
  PROVE  HasFixpoint(H, held, own)
<1> DEFINE U == UNION ({held[k] : k \in Key} \cup {own[k] : k \in Key})
           Made(g, k, u) == IF k \in H THEN u \in held[k]
                            ELSE u \in own[k] \/ \E p \in Parts[k] : u \in g[p]
           Closed(g) == \A k \in Key, u \in U : Made(g, k, u) => u \in g[k]
           f == [k \in Key |-> {u \in U : \A g \in [Key -> SUBSET U] : Closed(g) => u \in g[k]}]
<1>1. \A k \in Key : \A p \in Parts[k] : p \in Key
  BY CacheAssumption DEF CacheAssumption
<1>2. \A k \in Key : held[k] \subseteq U /\ own[k] \subseteq U
  OBVIOUS
<1>3. \A k \in Key : \A u : u \in f[k] <=> u \in U /\ \A g \in [Key -> SUBSET U] : Closed(g) => u \in g[k]
  OBVIOUS
<1>4. f \in [Key -> SUBSET U]
  OBVIOUS
<1> HIDE DEF U, f
<1>5. \A k \in Key : \A u : Made(f, k, u) => u \in f[k]
  <2>1. SUFFICES ASSUME NEW k \in Key, NEW u, Made(f, k, u),
                        NEW g \in [Key -> SUBSET U], Closed(g)
                 PROVE  u \in U /\ u \in g[k]
    <3>1. \A k \in Key : \A u : Made(f, k, u) => u \in U
      BY <1>1, <1>2, <1>4
    <3> QED
      BY <3>1, <1>3
  <2>2. u \in U
    BY <2>1, <1>1, <1>2, <1>4
  <2>3. Made(g, k, u)
    BY <2>1, <1>1, <1>3
  <2> QED
    BY <2>1, <2>2, <2>3
<1>6. \A k \in Key : \A u : u \in f[k] => Made(f, k, u)
  <2>1. SUFFICES ASSUME NEW k \in Key, NEW u, u \in f[k], ~Made(f, k, u) PROVE FALSE
    OBVIOUS
  <2> DEFINE g == [j \in Key |-> IF j = k THEN f[j] \ {u} ELSE f[j]]
  <2>2. /\ g \in [Key -> SUBSET U]
        /\ \A j \in Key : \A v : v \in g[j] <=> v \in f[j] /\ ~(j = k /\ v = u)
    BY <1>4
  <2> HIDE DEF g
  <2>3. Closed(g)
    <3>1. SUFFICES ASSUME NEW j \in Key, NEW v \in U, Made(g, j, v) PROVE v \in g[j]
      OBVIOUS
    <3>2. Made(f, j, v)
      BY <3>1, <2>2, <1>1
    <3>3. v \in f[j]
      BY <3>2, <1>5
    <3>4. ~(j = k /\ v = u)
      BY <3>2, <2>1
    <3> QED
      BY <3>3, <3>4, <2>2
  <2>4. u \in g[k]
    BY <2>1, <2>2, <2>3, <1>3
  <2> QED
    BY <2>2, <2>4
<1> QED
  BY <1>4, <1>5, <1>6 DEF HasFixpoint

(* What a lookup finds, by cases: the entry held, or what its build reads    *)
(* and what its parts are.                                                   *)
LEMMA ContentIs ==
  ASSUME NEW k \in Key
  PROVE  /\ k \in Keys => Content[k] = cache[k]
         /\ k \notin Keys => \A u : u \in Content[k] <=>
              (\E i \in Direct[k] : u = <<i, Now(i)>>) \/ \E p \in Parts[k] : u \in Content[p]
<1> DEFINE own == [j \in Key |-> {<<i, Now(i)>> : i \in Direct[j]}]
           F(f, j) == IF j \in Keys THEN cache[j]
                      ELSE {<<i, Now(i)>> : i \in Direct[j]} \cup UNION {f[p] : p \in Parts[j]}
<1>1. \E f : f = [j \in Key |-> F(f, j)]
  <2>1. \A j \in Key : own[j] = {<<i, Now(i)>> : i \in Direct[j]}
    OBVIOUS
  <2> HIDE DEF own
  <2>2. HasFixpoint(Keys, cache, own)
    BY Fixpoint
  <2>3. PICK V : \E f \in [Key -> V] : \A j \in Key : \A u :
           u \in f[j] <=> \/ j \in Keys /\ u \in cache[j]
                          \/ j \notin Keys /\ (u \in own[j] \/ \E p \in Parts[j] : u \in f[p])
    BY <2>2 DEF HasFixpoint
  <2>4. PICK f \in [Key -> V] : \A j \in Key : \A u :
           u \in f[j] <=> \/ j \in Keys /\ u \in cache[j]
                          \/ j \notin Keys /\ (u \in own[j] \/ \E p \in Parts[j] : u \in f[p])
    BY <2>3
  <2>5. \A j \in Key : f[j] = F(f, j)
    <3>1. SUFFICES ASSUME NEW j \in Key PROVE \A u : u \in f[j] <=> u \in F(f, j)
      OBVIOUS
    <3>2. ASSUME NEW u PROVE u \in F(f, j) <=> IF j \in Keys THEN u \in cache[j]
                                 ELSE u \in own[j] \/ \E p \in Parts[j] : u \in f[p]
      BY <2>1
    <3> HIDE DEF F
    <3> QED
      BY <2>4, <3>2
  <2>6. f = [j \in Key |-> f[j]]
    OBVIOUS
  <2> HIDE DEF F
  <2>7. f = [j \in Key |-> F(f, j)]
    BY <2>5, <2>6
  <2> QED
    BY <2>7
<1>2. Content = [j \in Key |-> F(Content, j)]
  BY <1>1 DEF Content
<1>3. Content[k] = F(Content, k)
  <2> HIDE DEF F
  <2> QED
    BY <1>2
<1> QED
  BY <1>3

(* And after a step.                                                         *)
LEMMA ContentIsNext ==
  ASSUME NEW k \in Key
  PROVE  /\ k \in Keys' => Content'[k] = cache'[k]
         /\ k \notin Keys' => \A u : u \in Content'[k] <=>
              (\E i \in Direct[k] : u = <<i, Now(i)'>>) \/ \E p \in Parts[k] : u \in Content'[p]
<1> DEFINE own == [j \in Key |-> {<<i, Now(i)'>> : i \in Direct[j]}]
           F(f, j) == IF j \in Keys' THEN cache'[j]
                      ELSE {<<i, Now(i)'>> : i \in Direct[j]} \cup UNION {f[p] : p \in Parts[j]}
<1>1. \E f : f = [j \in Key |-> F(f, j)]
  <2>1. \A j \in Key : own[j] = {<<i, Now(i)'>> : i \in Direct[j]}
    OBVIOUS
  <2> HIDE DEF own
  <2>2. HasFixpoint(Keys', cache', own)
    BY Fixpoint
  <2>3. PICK V : \E f \in [Key -> V] : \A j \in Key : \A u :
           u \in f[j] <=> \/ j \in Keys' /\ u \in cache'[j]
                          \/ j \notin Keys' /\ (u \in own[j] \/ \E p \in Parts[j] : u \in f[p])
    BY <2>2 DEF HasFixpoint
  <2>4. PICK f \in [Key -> V] : \A j \in Key : \A u :
           u \in f[j] <=> \/ j \in Keys' /\ u \in cache'[j]
                          \/ j \notin Keys' /\ (u \in own[j] \/ \E p \in Parts[j] : u \in f[p])
    BY <2>3
  <2>5. \A j \in Key : f[j] = F(f, j)
    <3>1. SUFFICES ASSUME NEW j \in Key PROVE \A u : u \in f[j] <=> u \in F(f, j)
      OBVIOUS
    <3>2. ASSUME NEW u PROVE u \in F(f, j) <=> IF j \in Keys' THEN u \in cache'[j]
                                 ELSE u \in own[j] \/ \E p \in Parts[j] : u \in f[p]
      BY <2>1
    <3> HIDE DEF F
    <3> QED
      BY <2>4, <3>2
  <2>6. f = [j \in Key |-> f[j]]
    OBVIOUS
  <2> HIDE DEF F
  <2>7. f = [j \in Key |-> F(f, j)]
    BY <2>5, <2>6
  <2> QED
    BY <2>7
<1>2. Content' = [j \in Key |-> F(Content', j)]
  BY <1>1 DEF Content
<1>3. Content'[k] = F(Content', k)
  <2> HIDE DEF F
  <2> QED
    BY <1>2
<1> QED
  BY <1>3

(* What it links to.                                                         *)
LEMMA NodeIs ==
  ASSUME NEW k \in Key
  PROVE  /\ k \in Keys => Node[k] = reads[k]
         /\ k \notin Keys => \A u : u \in Node[k] <=>
              u \in Direct[k] \cap Quote \/ \E p \in Parts[k] : u \in Node[p]
<1> DEFINE own == [j \in Key |-> (Direct[j] \cap Quote)]
           F(f, j) == IF j \in Keys THEN reads[j]
                      ELSE (Direct[j] \cap Quote) \cup UNION {f[p] : p \in Parts[j]}
<1>1. \E f : f = [j \in Key |-> F(f, j)]
  <2>1. \A j \in Key : own[j] = (Direct[j] \cap Quote)
    OBVIOUS
  <2> HIDE DEF own
  <2>2. HasFixpoint(Keys, reads, own)
    BY Fixpoint
  <2>3. PICK V : \E f \in [Key -> V] : \A j \in Key : \A u :
           u \in f[j] <=> \/ j \in Keys /\ u \in reads[j]
                          \/ j \notin Keys /\ (u \in own[j] \/ \E p \in Parts[j] : u \in f[p])
    BY <2>2 DEF HasFixpoint
  <2>4. PICK f \in [Key -> V] : \A j \in Key : \A u :
           u \in f[j] <=> \/ j \in Keys /\ u \in reads[j]
                          \/ j \notin Keys /\ (u \in own[j] \/ \E p \in Parts[j] : u \in f[p])
    BY <2>3
  <2>5. \A j \in Key : f[j] = F(f, j)
    <3>1. SUFFICES ASSUME NEW j \in Key PROVE \A u : u \in f[j] <=> u \in F(f, j)
      OBVIOUS
    <3>2. ASSUME NEW u PROVE u \in F(f, j) <=> IF j \in Keys THEN u \in reads[j]
                                 ELSE u \in own[j] \/ \E p \in Parts[j] : u \in f[p]
      BY <2>1
    <3> HIDE DEF F
    <3> QED
      BY <2>4, <3>2
  <2>6. f = [j \in Key |-> f[j]]
    OBVIOUS
  <2> HIDE DEF F
  <2>7. f = [j \in Key |-> F(f, j)]
    BY <2>5, <2>6
  <2> QED
    BY <2>7
<1>2. Node = [j \in Key |-> F(Node, j)]
  BY <1>1 DEF Node
<1>3. Node[k] = F(Node, k)
  <2> HIDE DEF F
  <2> QED
    BY <1>2
<1> QED
  BY <1>3

(* What it builds on the way.                                                *)
LEMMA MissingIs ==
  ASSUME NEW k \in Key
  PROVE  /\ k \in Keys => Missing[k] = {}
         /\ k \notin Keys => \A u : u \in Missing[k] <=>
              u = k \/ \E p \in Parts[k] : u \in Missing[p]
<1> DEFINE own == [j \in Key |-> {j}]
           held == [j \in Key |-> {}]
           F(f, j) == IF j \in Keys THEN {}
                      ELSE {j} \cup UNION {f[p] : p \in Parts[j]}
<1>1. \E f : f = [j \in Key |-> F(f, j)]
  <2>1. \A j \in Key : own[j] = {j} /\ held[j] = {}
    OBVIOUS
  <2> HIDE DEF own, held
  <2>2. HasFixpoint(Keys, held, own)
    BY Fixpoint
  <2>3. PICK V : \E f \in [Key -> V] : \A j \in Key : \A u :
           u \in f[j] <=> \/ j \in Keys /\ u \in {}
                          \/ j \notin Keys /\ (u \in own[j] \/ \E p \in Parts[j] : u \in f[p])
    BY <2>2, <2>1 DEF HasFixpoint
  <2>4. PICK f \in [Key -> V] : \A j \in Key : \A u :
           u \in f[j] <=> \/ j \in Keys /\ u \in {}
                          \/ j \notin Keys /\ (u \in own[j] \/ \E p \in Parts[j] : u \in f[p])
    BY <2>3
  <2>5. \A j \in Key : f[j] = F(f, j)
    <3>1. SUFFICES ASSUME NEW j \in Key PROVE \A u : u \in f[j] <=> u \in F(f, j)
      OBVIOUS
    <3>2. ASSUME NEW u PROVE u \in F(f, j) <=> IF j \in Keys THEN u \in {}
                                 ELSE u \in own[j] \/ \E p \in Parts[j] : u \in f[p]
      BY <2>1
    <3> HIDE DEF F
    <3> QED
      BY <2>4, <3>2
  <2>6. f = [j \in Key |-> f[j]]
    OBVIOUS
  <2> HIDE DEF F
  <2>7. f = [j \in Key |-> F(f, j)]
    BY <2>5, <2>6
  <2> QED
    BY <2>7
<1>2. Missing = [j \in Key |-> F(Missing, j)]
  BY <1>1 DEF Missing
<1>3. Missing[k] = F(Missing, k)
  <2> HIDE DEF F
  <2> QED
    BY <1>2
<1> QED
  BY <1>3

-----------------------------------------------------------------------------
(* No build asks for itself, so what holds of a key whenever it holds of its *)
(* parts holds of every key: the keys it fails of have no first.             *)

LEMMA NoFirst ==
  ASSUME NEW B \in SUBSET Key, \A k \in B : \E p \in Parts[k] : p \in B
  PROVE  B = {}
BY BuildersAssumption DEF BuildersAssumption

LEMMA PartsAreKeys == \A k \in Key : \A p \in Parts[k] : p \in Key
BY CacheAssumption DEF CacheAssumption

(* A part below some tiers leaves the key below them too, read upwards.      *)
LEMMA PartsBelow ==
  ASSUME NEW tiers, ClosedUp(tiers), NEW k \in Key, Tier[k] \notin tiers, NEW p \in Parts[k]
  PROVE  Tier[p] \notin tiers
BY DEF ClosedUp

(* What a build makes is not held, and is closed under the parts not held.   *)
LEMMA MissingIsOut == \A k \in Key : Missing[k] \subseteq Key \ Keys
<1> DEFINE B == {k \in Key : ~(Missing[k] \subseteq Key \ Keys)}
<1>1. \A k \in B : \E p \in Parts[k] : p \in B
  <2>1. SUFFICES ASSUME NEW k \in Key, \A p \in Parts[k] : Missing[p] \subseteq Key \ Keys
                 PROVE  Missing[k] \subseteq Key \ Keys
    BY PartsAreKeys
  <2>2. CASE k \in Keys
    BY <2>2, MissingIs
  <2>3. CASE k \notin Keys
    BY <2>1, <2>3, MissingIs
  <2> QED
    BY <2>2, <2>3
<1>2. B = {}
  BY <1>1, NoFirst
<1> QED
  BY <1>2

LEMMA MissingHasItself == \A k \in Key : k \notin Keys => k \in Missing[k]
BY MissingIs

LEMMA MissingIsClosed ==
  \A k \in Key : \A m \in Missing[k] : \A p \in Parts[m] : p \notin Keys => p \in Missing[k]
<1> DEFINE P(k) == \A m \in Missing[k] : \A p \in Parts[m] : p \notin Keys => p \in Missing[k]
           B == {k \in Key : ~P(k)}
<1>1. \A k \in B : \E p \in Parts[k] : p \in B
  <2>1. SUFFICES ASSUME NEW k \in Key, \A p \in Parts[k] : P(p) PROVE P(k)
    BY PartsAreKeys
  <2>2. SUFFICES ASSUME NEW m \in Missing[k], NEW p \in Parts[m], p \notin Keys
                 PROVE  p \in Missing[k]
    OBVIOUS
  <2>3. k \notin Keys
    BY <2>2, MissingIs
  <2>4. CASE m = k
    BY <2>2, <2>3, <2>4, MissingIs, MissingHasItself, PartsAreKeys
  <2>5. CASE m # k
    <3>1. PICK q \in Parts[k] : m \in Missing[q]
      BY <2>3, <2>5, MissingIs
    <3>2. p \in Missing[q]
      BY <2>1, <2>2, <3>1
    <3> QED
      BY <2>3, <3>1, <3>2, MissingIs
  <2> QED
    BY <2>4, <2>5
<1>2. B = {}
  BY <1>1, NoFirst
<1> QED
  BY <1>2

LEMMA MissingBelow ==
  ASSUME NEW tiers, ClosedUp(tiers)
  PROVE  \A k \in Key : Tier[k] \notin tiers => \A m \in Missing[k] : Tier[m] \notin tiers
<1> DEFINE P(k) == Tier[k] \notin tiers => \A m \in Missing[k] : Tier[m] \notin tiers
           B == {k \in Key : ~P(k)}
<1>1. \A k \in B : \E p \in Parts[k] : p \in B
  <2>1. SUFFICES ASSUME NEW k \in Key, \A p \in Parts[k] : P(p), Tier[k] \notin tiers,
                        NEW m \in Missing[k]
                 PROVE  Tier[m] \notin tiers
    BY PartsAreKeys
  <2>2. k \notin Keys
    BY <2>1, MissingIs
  <2>3. m = k \/ \E p \in Parts[k] : m \in Missing[p]
    BY <2>2, MissingIs
  <2> QED
    BY <2>1, <2>3, PartsBelow
<1>2. B = {}
  BY <1>1, NoFirst
<1> QED
  BY <1>2

-----------------------------------------------------------------------------
(* What a lookup finds keeps what the entries keep.                          *)

LEMMA ContentTyped ==
  ASSUME TypeOK
  PROVE  \A k \in Key : Content[k] \subseteq Input \X Int /\ Node[k] \subseteq Quote
<1> DEFINE P(k) == Content[k] \subseteq Input \X Int /\ Node[k] \subseteq Quote
           B == {k \in Key : ~P(k)}
<1>1. \A i \in Input : Now(i) \in Int
  BY CacheAssumption DEF CacheAssumption, TypeOK, Now, Input
<1>2. \A k \in B : \E p \in Parts[k] : p \in B
  <2>1. SUFFICES ASSUME NEW k \in Key, \A p \in Parts[k] : P(p) PROVE P(k)
    BY PartsAreKeys
  <2>2. CASE k \in Keys
    BY <2>2, ContentIs, NodeIs DEF TypeOK
  <2>3. CASE k \notin Keys
    <3>1. \A i \in Direct[k] : i \in Input
      BY CacheAssumption DEF CacheAssumption
    <3>2. ASSUME NEW u \in Content[k] PROVE u \in Input \X Int
      BY <1>1, <2>1, <2>3, <3>1, ContentIs
    <3>3. ASSUME NEW u \in Node[k] PROVE u \in Quote
      BY <2>1, <2>3, NodeIs
    <3> QED
      BY <3>2, <3>3
  <2> QED
    BY <2>2, <2>3
<1>3. B = {}
  BY <1>2, NoFirst
<1> QED
  BY <1>3

(* The prices in an entry, by name: those of its node.                       *)
LEMMA ContentPrices ==
  ASSUME TypeOK, PricesInNodes
  PROVE  \A k \in Key : /\ \A q \in Quote : q \in Node[k] <=> \E u \in Content[k] : u[1] = q
                        /\ Tier[k] = "hist" => Node[k] = {}
<1> DEFINE P(k) == /\ \A q \in Quote : q \in Node[k] <=> \E u \in Content[k] : u[1] = q
                   /\ Tier[k] = "hist" => Node[k] = {}
           B == {k \in Key : ~P(k)}
<1>1. \A k \in B : \E p \in Parts[k] : p \in B
  <2>1. SUFFICES ASSUME NEW k \in Key, \A p \in Parts[k] : P(p) PROVE P(k)
    BY PartsAreKeys
  <2>2. CASE k \in Keys
    <3>1. Content[k] = cache[k] /\ Node[k] = reads[k]
      BY <2>2, ContentIs, NodeIs
    <3>2. \A q \in Quote : q \in {u[1] : u \in cache[k]} <=> q \in reads[k]
      BY <2>2 DEF PricesInNodes
    <3>3. Tier[k] = "hist" => reads[k] = {}
      BY <2>2 DEF PricesInNodes
    <3> QED
      BY <3>1, <3>2, <3>3
  <2>3. CASE k \notin Keys
    <3>1. \A u : u \in Content[k] <=>
              (\E i \in Direct[k] : u = <<i, Now(i)>>) \/ \E p \in Parts[k] : u \in Content[p]
      BY <2>3, ContentIs
    <3>2. \A u : u \in Node[k] <=> u \in Direct[k] \cap Quote \/ \E p \in Parts[k] : u \in Node[p]
      BY <2>3, NodeIs
    <3>3. ASSUME NEW q \in Quote, q \in Node[k] PROVE \E u \in Content[k] : u[1] = q
      <4>1. CASE q \in Direct[k]
        <5>1. <<q, Now(q)>> \in Content[k]
          BY <3>1, <4>1
        <5> QED
          BY <5>1
      <4>2. CASE \E p \in Parts[k] : q \in Node[p]
        BY <2>1, <3>1, <3>3, <4>2
      <4> QED
        BY <3>2, <3>3, <4>1, <4>2
    <3>4. ASSUME NEW u \in Content[k], u[1] \in Quote PROVE u[1] \in Node[k]
      BY <2>1, <3>1, <3>2, <3>4
    <3>5. ASSUME Tier[k] = "hist" PROVE Node[k] = {}
      BY <3>2, <3>5, BuildersAssumption DEF BuildersAssumption
    <3> QED
      BY <3>3, <3>4, <3>5
  <2> QED
    BY <2>2, <2>3
<1>2. B = {}
  BY <1>1, NoFirst
<1> QED
  BY <1>2

LEMMA NodesAreLive ==
  ASSUME PricesAreLive
  PROVE  \A k \in Key : Node[k] # {} => Tier[k] \in LiveTailTiers \cup {"inputs"}
<1> DEFINE T == LiveTailTiers \cup {"inputs"}
           B == {k \in Key : ~(Node[k] # {} => Tier[k] \in T)}
<1>1. \A k \in B : \E p \in Parts[k] : p \in B
  <2> HIDE DEF T
  <2>1. SUFFICES ASSUME NEW k \in Key, \A p \in Parts[k] : Node[p] # {} => Tier[p] \in T,
                        NEW q \in Node[k]
                 PROVE  Tier[k] \in T
    BY PartsAreKeys
  <2>2. CASE k \in Keys
    BY <2>2, NodeIs DEF PricesAreLive, T
  <2>3. CASE k \notin Keys
    <3>1. q \in Direct[k] \cap Quote \/ \E p \in Parts[k] : q \in Node[p]
      BY <2>3, NodeIs
    <3>2. CASE q \in Direct[k] \cap Quote
      BY <3>2, BuildersAssumption DEF BuildersAssumption, T
    <3>3. CASE \E p \in Parts[k] : q \in Node[p]
      <4>1. ClosedUp(T)
        BY BuildersAssumption DEF BuildersAssumption, T
      <4> QED
        BY <2>1, <3>3, <4>1 DEF ClosedUp
    <3> QED
      BY <3>1, <3>2, <3>3
  <2> QED
    BY <2>2, <2>3
<1>2. B = {}
  BY <1>1, NoFirst
<1> QED
  BY <1>2

LEMMA ContentOfToday ==
  ASSUME Valid, OfItsDay
  PROVE  \A k \in Key : \A u \in Content[k] : u[1] = "day" => u[2] = today
<1> DEFINE P(k) == \A u \in Content[k] : u[1] = "day" => u[2] = today
           B == {k \in Key : ~P(k)}
<1>1. \A k \in B : \E p \in Parts[k] : p \in B
  <2>1. SUFFICES ASSUME NEW k \in Key, \A p \in Parts[k] : P(p),
                        NEW u \in Content[k], u[1] = "day"
                 PROVE  u[2] = today
    BY PartsAreKeys
  <2>2. CASE k \in Keys
    BY <2>1, <2>2, ContentIs DEF OfItsDay, Valid
  <2>3. CASE k \notin Keys
    <3>1. (\E i \in Direct[k] : u = <<i, Now(i)>>) \/ \E p \in Parts[k] : u \in Content[p]
      BY <2>3, ContentIs
    <3>2. CASE \E i \in Direct[k] : u = <<i, Now(i)>>
      BY <2>1, <3>2 DEF Now
    <3>3. CASE \E p \in Parts[k] : u \in Content[p]
      BY <2>1, <3>3
    <3> QED
      BY <3>1, <3>2, <3>3
  <2> QED
    BY <2>2, <2>3
<1>2. B = {}
  BY <1>1, NoFirst
<1> QED
  BY <1>2

LEMMA ContentOfPlain ==
  ASSUME PlainIsDropped
  PROVE  \A k \in Key : \A u \in Content[k] : u[1] = "plain" =>
           Tier[k] \in ApiTiers /\ (u[2] = plain \/ seen # version \/ answering)
<1> DEFINE P(k) == \A u \in Content[k] : u[1] = "plain" =>
                     Tier[k] \in ApiTiers /\ (u[2] = plain \/ seen # version \/ answering)
           B == {k \in Key : ~P(k)}
<1>1. \A k \in B : \E p \in Parts[k] : p \in B
  <2>1. SUFFICES ASSUME NEW k \in Key, \A p \in Parts[k] : P(p),
                        NEW u \in Content[k], u[1] = "plain"
                 PROVE  Tier[k] \in ApiTiers /\ (u[2] = plain \/ seen # version \/ answering)
    BY PartsAreKeys
  <2>2. CASE k \in Keys
    BY <2>1, <2>2, ContentIs DEF PlainIsDropped
  <2>3. CASE k \notin Keys
    <3>1. (\E i \in Direct[k] : u = <<i, Now(i)>>) \/ \E p \in Parts[k] : u \in Content[p]
      BY <2>3, ContentIs
    <3>2. CASE \E i \in Direct[k] : u = <<i, Now(i)>>
      BY <2>1, <3>2, BuildersAssumption DEF BuildersAssumption, Now
    <3>3. CASE \E p \in Parts[k] : u \in Content[p]
      <4>1. ClosedUp(ApiTiers)
        BY BuildersAssumption DEF BuildersAssumption
      <4> QED
        BY <2>1, <3>3, <4>1 DEF ClosedUp
    <3> QED
      BY <3>1, <3>2, <3>3
  <2> QED
    BY <2>2, <2>3
<1>2. B = {}
  BY <1>1, NoFirst
<1> QED
  BY <1>2

LEMMA ContentOfRows ==
  ASSUME RowsAreKnown, ~skipped, counted
  PROVE  \A k \in Key : \A u \in Content[k] : u[1] = "rows" =>
           u[2] = head \/ seen # version \/ (Behind /\ Tier[k] \in MonthTiers)
<1> DEFINE R(k, u) == u[2] = head \/ seen # version \/ (Behind /\ Tier[k] \in MonthTiers)
           P(k) == \A u \in Content[k] : u[1] = "rows" => R(k, u)
           B == {k \in Key : ~P(k)}
<1>1. \A k \in B : \E p \in Parts[k] : p \in B
  <2>1. SUFFICES ASSUME NEW k \in Key, \A p \in Parts[k] : P(p),
                        NEW u \in Content[k], u[1] = "rows"
                 PROVE  R(k, u)
    BY PartsAreKeys
  <2>2. CASE k \in Keys
    BY <2>1, <2>2, ContentIs DEF RowsAreKnown, RowIsKnown
  <2>3. CASE k \notin Keys
    <3>1. (\E i \in Direct[k] : u = <<i, Now(i)>>) \/ \E p \in Parts[k] : u \in Content[p]
      BY <2>3, ContentIs
    <3>2. CASE \E i \in Direct[k] : u = <<i, Now(i)>>
      BY <2>1, <3>2 DEF Now
    <3>3. CASE \E p \in Parts[k] : u \in Content[p]
      <4>1. ClosedUp(MonthTiers)
        BY BuildersAssumption DEF BuildersAssumption
      <4> QED
        BY <2>1, <3>3, <4>1 DEF ClosedUp
    <3> QED
      BY <3>1, <3>2, <3>3
  <2> QED
    BY <2>2, <2>3
<1>2. B = {}
  BY <1>1, NoFirst
<1> QED
  BY <1>2

(* Below the pages and the expense lines, what a lookup finds is at today's  *)
(* prices, but for those untold: the expense lines are part of none of it.   *)
LEMMA ContentAtPrices ==
  ASSUME PricesAreCurrent
  PROVE  \A k \in Key : Tier[k] \notin ApiTiers => \A u \in Rates(Content[k]) : AtPrice(u)
<1> DEFINE P(k) == Tier[k] \notin ApiTiers => \A u \in Rates(Content[k]) : AtPrice(u)
           B == {k \in Key : ~P(k)}
<1>1. \A k \in B : \E p \in Parts[k] : p \in B
  <2>1. SUFFICES ASSUME NEW k \in Key, \A p \in Parts[k] : P(p), Tier[k] \notin ApiTiers,
                        NEW u \in Content[k], u[1] \in Quote
                 PROVE  AtPrice(u)
    BY PartsAreKeys DEF Rates
  <2>2. CASE k \in Keys
    BY <2>1, <2>2, ContentIs DEF PricesAreCurrent, Rates, ApiTiers
  <2>3. CASE k \notin Keys
    <3>1. (\E i \in Direct[k] : u = <<i, Now(i)>>) \/ \E p \in Parts[k] : u \in Content[p]
      BY <2>3, ContentIs
    <3>2. CASE \E i \in Direct[k] : u = <<i, Now(i)>>
      <4>1. u[1] \notin {"rows", "plain", "day"}
        BY <2>1, CacheAssumption DEF CacheAssumption
      <4> QED
        BY <2>1, <3>2, <4>1 DEF Now, AtPrice
    <3>3. CASE \E p \in Parts[k] : u \in Content[p]
      <4>1. ClosedUp(ApiTiers)
        BY BuildersAssumption DEF BuildersAssumption
      <4> QED
        BY <2>1, <3>3, <4>1, PartsBelow DEF Rates
    <3> QED
      BY <3>1, <3>2, <3>3
  <2> QED
    BY <2>2, <2>3
<1>2. B = {}
  BY <1>1, NoFirst
<1> QED
  BY <1>2

(* Expense lines compared with the cards are at today's prices as well.      *)
LEMMA LinesAtPrices ==
  ASSUME PricesAreCurrent, NEW l \in Key, Tier[l] = "inputs", ~OutOfRate(l)
  PROVE  \A u \in Rates(Content[l]) : AtPrice(u)
<1>1. PICK c \in Parts[l] : Tier[c] = "card"
  BY BuildersAssumption DEF BuildersAssumption
<1>2. c \in Key /\ Tier[c] \notin ApiTiers
  BY <1>1, PartsAreKeys DEF ApiTiers
<1>3. Rates(Content[c]) = Rates(Content[l])
  BY <1>1 DEF OutOfRate, Cards
<1> QED
  BY <1>2, <1>3, ContentAtPrices

(* All a lookup of k makes and holds is at today's prices, when the expense  *)
(* lines it came by were compared.                                           *)
LEMMA LookUpAtPrices ==
  ASSUME PricesAreCurrent, NEW k \in Key, AtRates(k)
  PROVE  \A m \in Keys \cup Missing[k] :
           m \in Key /\ Tier[m] # "inputs" => \A u \in Rates(Content[m]) : AtPrice(u)
<1> DEFINE W == {m \in Missing[k] : /\ Tier[m] # "inputs"
                                   /\ \E u \in Rates(Content[m]) : ~AtPrice(u)}
<1>1. W \in SUBSET Key
  BY MissingIsOut
<1>2. \A m \in W : \E p \in Parts[m] : p \in W
  <2>1. SUFFICES ASSUME NEW m \in Missing[k], Tier[m] # "inputs",
                        NEW u \in Content[m], u[1] \in Quote, ~AtPrice(u),
                        \A p \in Parts[m] : p \notin W
                 PROVE  FALSE
    BY DEF Rates
  <2>2. m \in Key /\ m \notin Keys
    BY <2>1, MissingIsOut
  <2>3. (\E i \in Direct[m] : u = <<i, Now(i)>>) \/ \E p \in Parts[m] : u \in Content[p]
    BY <2>2, ContentIs
  <2>4. ~\E i \in Direct[m] : u = <<i, Now(i)>>
    <3>1. u[1] \notin {"rows", "plain", "day"}
      BY <2>1, CacheAssumption DEF CacheAssumption
    <3> QED
      BY <2>1, <3>1 DEF Now, AtPrice
  <2>5. PICK p \in Parts[m] : u \in Content[p]
    BY <2>3, <2>4
  <2>6. p \in Key
    BY <2>2, PartsAreKeys
  <2>7. u \in Rates(Content[p])
    BY <2>1, <2>5 DEF Rates
  <2>8. CASE Tier[p] = "inputs"
    <3>1. ~OutOfRate(p)
      BY <2>1, <2>8 DEF AtRates
    <3> QED
      BY <2>1, <2>6, <2>7, <2>8, <3>1, LinesAtPrices
  <2>9. CASE Tier[p] # "inputs" /\ p \in Keys
    BY <2>1, <2>6, <2>7, <2>9, ContentIs DEF PricesAreCurrent
  <2>10. CASE Tier[p] # "inputs" /\ p \notin Keys
    <3>1. p \in Missing[k]
      BY <2>10, MissingIsClosed
    <3> QED
      BY <2>1, <2>7, <2>10, <3>1
  <2> QED
    BY <2>8, <2>9, <2>10
<1>3. W = {}
  BY <1>1, <1>2, NoFirst
<1>4. ASSUME NEW m \in Keys, m \in Key, Tier[m] # "inputs"
      PROVE  \A u \in Rates(Content[m]) : AtPrice(u)
  BY <1>4, ContentIs DEF PricesAreCurrent
<1> QED
  BY <1>3, <1>4

-----------------------------------------------------------------------------
(* What a step does to the entries: it drops some, or it holds what lookups  *)
(* found; either way an entry is what a lookup would have found before. Or   *)
(* the build of a bundle goes on.                                            *)

Kept == /\ DOMAIN reads' = Keys' /\ DOMAIN left' = Keys'
        /\ \A k \in Keys' : /\ k \in Keys
                            /\ cache'[k] = cache[k] /\ reads'[k] = reads[k] /\ left'[k] = left[k]

Filled == /\ DOMAIN reads' = Keys' /\ DOMAIN left' = Keys'
          /\ \A k \in Keys' : /\ k \in Key /\ cache'[k] = Content[k] /\ reads'[k] = Node[k]
                              /\ left'[k] = IF k \in Keys THEN left[k] ELSE Later[k]

Grown(k, x) ==
  /\ k \in Keys /\ Tier[k] = "bundle" /\ (\A l \in Key : k \notin Parts[l])
  /\ Comes(k, x) /\ x \in Key \cup Input
  /\ Keys' = Keys /\ DOMAIN reads' = Keys /\ DOMAIN left' = Keys
  /\ cache'[k] = cache[k] \cup IF x \in Key THEN cache[x] ELSE {<<x, Now(x)>>}
  /\ reads'[k] = reads[k] \cup IF x \in Key THEN reads[x] ELSE {x} \cap Quote
  /\ left'[k] = left[k] \ {x}
  /\ \A m \in Keys : m # k => /\ cache'[m] = cache[m]
                              /\ reads'[m] = reads[m] /\ left'[m] = left[m]

LEMMA Dropped ==
  ASSUME TypeOK, NEW D, Drop(D)
  PROVE  Kept /\ Keys' = Keys \ D
BY DEF TypeOK, Drop, Kept, Keys, Restrict

LEMMA Untouched ==
  ASSUME TypeOK, UNCHANGED heldVars
  PROVE  Kept /\ Keys' = Keys
BY DEF TypeOK, Kept, Keys, heldVars

LEMMA KeptIsFilled ==
  ASSUME TypeOK, Kept
  PROVE  Filled
BY ContentIs, NodeIs DEF TypeOK, Kept, Filled

LEMMA HeldIsFilled ==
  ASSUME NEW K \in SUBSET Key, Holds(K)
  PROVE  Filled /\ Keys' = K
BY DEF Holds, Leaves, Filled, Keys

LEMMA LookedUp ==
  ASSUME TypeOK, NEW k \in Key, LookUp(k)
  PROVE  Filled /\ Keys' = Keys \cup Missing[k] /\ k \in Keys'
<1>1. Keys \cup Missing[k] \in SUBSET Key
  BY MissingIsOut DEF TypeOK
<1>2. Holds(Keys \cup Missing[k])
  BY DEF LookUp
<1> QED
  BY <1>1, <1>2, HeldIsFilled, MissingHasItself

(* Only page bundles grow, and nothing is built on them.                     *)
LEMMA Grew ==
  ASSUME TypeOK, NEW k \in Key, FlightReads(k)
  PROVE  \E x \in Key \cup Input : Grown(k, x)
<1>1. PICK x \in Later[k] :
        /\ Comes(k, x)
        /\ cache' = Takes(k, x)
        /\ reads' = [reads EXCEPT ![k] = @ \cup IF x \in Key THEN reads[x] ELSE {x} \cap Quote]
        /\ left' = [left EXCEPT ![k] = @ \ {x}]
  BY DEF FlightReads
<1>2. k \in Keys /\ DOMAIN reads = Keys /\ DOMAIN left = Keys
  BY <1>1 DEF Comes, TypeOK
<1>3. Tier[k] = "bundle" /\ \A l \in Key : k \notin Parts[l]
  BY <1>1, BuildersAssumption DEF BuildersAssumption
<1>4. x \in Key \cup Input
  BY <1>1, CacheAssumption DEF CacheAssumption
<1>5. DOMAIN cache' = DOMAIN cache
  BY <1>1 DEF Takes
<1>6. cache'[k] = cache[k] \cup IF x \in Key THEN cache[x] ELSE {<<x, Now(x)>>}
  BY <1>1, <1>2 DEF Takes, Keys
<1>7. \A m \in Keys : m # k => cache'[m] = cache[m]
  BY <1>1, <1>2 DEF Takes, Keys
<1>8. DOMAIN reads' = Keys /\ DOMAIN left' = Keys
  BY <1>1, <1>2
<1>9. /\ reads'[k] = reads[k] \cup IF x \in Key THEN reads[x] ELSE {x} \cap Quote
      /\ left'[k] = left[k] \ {x}
      /\ \A m \in Keys : m # k => reads'[m] = reads[m] /\ left'[m] = left[m]
  BY <1>1, <1>2
<1> QED
  BY <1>1, <1>2, <1>3, <1>4, <1>5, <1>6, <1>7, <1>8, <1>9 DEF Grown, Keys

(* Where what is in an entry comes from after that.                          *)
LEMMA GrownFrom ==
  ASSUME NEW k, NEW x, Grown(k, x), NEW m \in Keys', NEW u \in cache'[m]
  PROVE  /\ m \in Keys
         /\ \/ u \in cache[m]
            \/ m = k /\ Tier[m] = "bundle" /\ x \in Keys /\ x \in Key /\ AtRates(x) /\ u \in cache[x]
            \/ m = k /\ Tier[m] = "bundle" /\ x \in Input /\ u = <<x, Now(x)>>
BY DEF Grown, Comes

LEMMA Synced ==
  ASSUME TypeOK, SyncRates
  PROVE  /\ CanLookUp /\ Filled
         /\ \E k \in In({"inputs"}) : OutOfRate(k)
         /\ Keys' \cap In({"inputs", "flows"}) = {}
         /\ \A m \in Keys' : m \in Keys \/ Tier[m] \notin ApiTiers
<1>1. PICK k \in In({"inputs"}) :
        OutOfRate(k) /\ Holds((Keys \cup UNION {Missing[c] : c \in Cards(k)}) \ In({"inputs", "flows"}))
  BY DEF SyncRates
<1>2. \A c \in Cards(k) : c \in Key /\ Tier[c] \notin ApiTiers
  BY PartsAreKeys DEF Cards, ApiTiers, In, TypeOK
<1> DEFINE K == (Keys \cup UNION {Missing[c] : c \in Cards(k)}) \ In({"inputs", "flows"})
<1>3. K \in SUBSET Key
  BY <1>2, MissingIsOut DEF TypeOK
<1>4. Filled /\ Keys' = K
  BY <1>1, <1>3, HeldIsFilled
<1>5. \A m \in K : m \in Keys \/ Tier[m] \notin ApiTiers
  <2>1. ClosedUp(ApiTiers)
    BY BuildersAssumption DEF BuildersAssumption
  <2> QED
    BY <1>2, <2>1, MissingBelow
<1> QED
  BY <1>1, <1>4, <1>5 DEF SyncRates

LEMMA Reported ==
  ASSUME TypeOK, Report
  PROVE  Kept /\ Keys' = {}
<1> DEFINE depto == {k \in Key : Tier[k] = "depto"}
           mid   == [k \in depto \cup (Keys \ In(AccountTiers)) |->
                       IF k \in depto THEN {<<"rows", None>>} ELSE cache[k]]
           after == {k \in DOMAIN mid : Tier[k] \notin AccountTiers}
<1>1. cache' = Restrict(mid, after) /\ reads' = [k \in after |-> {}] /\ left' = [k \in after |-> {}]
  BY DEF Report
<1>2. DOMAIN mid \subseteq Key
  BY DEF TypeOK
<1>3. after = {}
  <2> HIDE DEF mid
  <2> QED
    BY <1>2, CacheAssumption DEF CacheAssumption, AccountTiers
<1>4. DOMAIN cache' = {} /\ DOMAIN reads' = {} /\ DOMAIN left' = {}
  <2> HIDE DEF mid, after
  <2> QED
    BY <1>1, <1>3 DEF Restrict
<1> QED
  BY <1>4 DEF Kept, Keys

LEMMA Published ==
  ASSUME TypeOK, PollPublishes
  PROVE  /\ Kept
         /\ "close" \in moved => Keys' = Keys \ In(LiveTailTiers)
         /\ "close" \notin moved => /\ Keys' = Keys \ UNION {Affected(q) : q \in moved}
                                    /\ unheard' = unheard \ moved
         /\ moved' = {}
<1>1. CASE "close" \in moved
  BY <1>1, Dropped DEF PollPublishes
<1>2. CASE "close" \notin moved
  BY <1>2, Dropped DEF PollPublishes
<1> QED
  BY <1>1, <1>2 DEF PollPublishes

LEMMA Versioned ==
  ASSUME TypeOK, CheckVersion
  PROVE  /\ Kept
         /\ Keys' = {} \/ (Keys' = Keys /\ cacheDay = today /\ seen = version /\ UNCHANGED pollVars)
<1>1. CASE cacheDay # today \/ seen # version
  BY <1>1, Dropped DEF CheckVersion
<1>2. CASE ~(cacheDay # today \/ seen # version)
  BY <1>2, Untouched DEF CheckVersion, pollVars
<1> QED
  BY <1>1, <1>2

LEMMA StepFills ==
  ASSUME TypeOK, [Next]_vars
  PROVE  \/ Kept
         \/ UNCHANGED dataVars /\ \E k \in Key : LookUp(k)
         \/ UNCHANGED dataVars /\ SyncRates
         \/ UNCHANGED dataVars /\ \E k \in Key, x \in Key \cup Input : Grown(k, x)
<1> USE DEF cacheVars
<1>1. CASE CacheStep
  <2>1. CASE CheckLog
    BY <2>1, Dropped DEF CheckLog
  <2>2. CASE CheckVersion
    BY <2>2, Versioned
  <2>3. CASE StretchEnds
    BY <2>3, Untouched DEF StretchEnds
  <2>4. CASE \E k \in Page \cup Asked : Build(k)
    BY <2>4, CacheAssumption DEF CacheAssumption, Asked, Build
  <2>5. CASE \E k \in Key : FlightReads(k)
    BY <2>5, Grew DEF FlightReads
  <2>6. CASE FlightFails
    BY <2>6, Dropped DEF FlightFails
  <2>7. CASE SyncRates
    BY <2>7 DEF SyncRates
  <2>8. CASE AccountWrite
    BY <2>8, Dropped DEF AccountWrite
  <2>9. CASE SyncWrite
    BY <2>9, Untouched DEF SyncWrite
  <2>10. CASE SyncAnnounces
    BY <2>10, Dropped DEF SyncAnnounces
  <2>11. CASE ApiWrite
    BY <2>11, Untouched DEF ApiWrite
  <2>12. CASE ApiFinishes
    BY <2>12, Dropped DEF ApiFinishes
  <2>13. CASE Report
    BY <2>13, Reported
  <2>14. CASE \E q \in Quote : StreamTick(q)
    BY <2>14, Dropped DEF StreamTick
  <2>15. CASE \E q \in Quote : PollWrites(q)
    BY <2>15, Untouched DEF PollWrites
  <2>16. CASE \E q \in Quote : WriteFails(q)
    BY <2>16, Untouched DEF WriteFails
  <2>17. CASE PollCloses
    BY <2>17, Untouched DEF PollCloses
  <2>18. CASE PollPublishes
    BY <2>18, Published
  <2>19. CASE PollFails
    BY <2>19, Untouched DEF PollFails
  <2>20. CASE OtherCommit
    BY <2>20, Untouched DEF OtherCommit
  <2>21. CASE NewDay
    BY <2>21, Untouched DEF NewDay
  <2> QED
    BY <1>1, <2>1, <2>2, <2>3, <2>4, <2>5, <2>6, <2>7, <2>8, <2>9, <2>10, <2>11, <2>12, <2>13,
       <2>14, <2>15, <2>16, <2>17, <2>18, <2>19, <2>20, <2>21 DEF CacheStep, CacheNext
<1>2. CASE DebounceFires
  BY <1>2, Untouched DEF DebounceFires
<1>3. CASE MidnightFires
  BY <1>3, Untouched DEF MidnightFires
<1>4. CASE WarmStep
  <2>1. Warm[step] \in Key
    BY <1>4, WarmerAssumption DEF WarmerAssumption, WarmStep, Steps
  <2> QED
    BY <1>4, <2>1 DEF WarmStep
<1>5. CASE WarmResumes
  BY <1>5, Untouched DEF WarmResumes
<1>6. CASE WarmEnds
  BY <1>6, Untouched DEF WarmEnds, Finally
<1>7. CASE WarmFails
  BY <1>7, Untouched DEF WarmFails, Finally
<1>8. CASE Poll
  BY <1>8, Untouched DEF Poll
<1>9. CASE Boot
  BY <1>9, Untouched DEF Boot
<1>10. CASE UNCHANGED vars
  BY <1>10, Untouched DEF vars
<1> QED
  BY <1>1, <1>2, <1>3, <1>4, <1>5, <1>6, <1>7, <1>8, <1>9, <1>10 DEF Next

LEMMA StepIsFilled ==
  ASSUME TypeOK, [Next]_vars
  PROVE  \/ Filled /\ (Kept \/ CanLookUp)
         \/ CanLookUp /\ \E k \in Key, x \in Key \cup Input : Grown(k, x)
BY StepFills, KeptIsFilled, LookedUp, Synced DEF LookUp, Grown, Comes

-----------------------------------------------------------------------------
(* The types, and the invariant about entries and their nodes.               *)

(* The variables that are not the entries: numbers, flags, and the sets of   *)
(* what is untold.                                                           *)
NumbersOK ==
  /\ head \in 0 .. MaxRows /\ plain \in 0 .. MaxPlain /\ today \in 1 .. LastDay
  /\ quote \in [Quote -> 0 .. 1] /\ version \in 0 .. MaxCommits /\ ticks \in 0 .. MaxTicks
  /\ applied \in Nat \cup {None} /\ seen \in Nat \cup {None}
  /\ cacheDay \in 1 .. LastDay \cup {None}
  /\ step \in 0 .. Len(Warm) + 1
  /\ lastWarmed \in 0 .. MaxCommits \cup {None}

FlagsOK ==
  /\ skipped \in BOOLEAN /\ checked \in BOOLEAN /\ counted \in BOOLEAN /\ checking \in BOOLEAN
  /\ owed \in BOOLEAN /\ answering \in BOOLEAN /\ debounce \in BOOLEAN
  /\ rewarm \in BOOLEAN /\ midnight \in BOOLEAN /\ excused \in BOOLEAN
  /\ moved \subseteq Quote \cup {"close"} /\ unheard \subseteq Quote \cup {"close"}

AwaitsOK ==
  /\ awaits \in {"none", "entry", "gone"}
  /\ awaits # "none" => step \in Steps /\ Later[Warm[step]] # {}
  /\ awaits = "entry" => Warm[step] \in Keys
  /\ rewarm => warming

LEMMA TypeParts ==
  WarmerTypeOK <=> /\ NumbersOK /\ FlagsOK /\ AwaitsOK
                   /\ Keys \subseteq Key /\ \A k \in Keys : cache[k] \subseteq Input \X Int
                   /\ DOMAIN reads = Keys /\ \A k \in Keys : reads[k] \subseteq Quote
                   /\ DOMAIN left = Keys /\ \A k \in Keys : left[k] \subseteq Later[k]
BY DEF WarmerTypeOK, TypeOK, NumbersOK, FlagsOK, AwaitsOK, Untold

LEMMA NumbersStep ==
  ASSUME NumbersOK, AwaitsOK, [Next]_vars
  PROVE  NumbersOK'
<1> USE DEF NumbersOK, Consumed, cacheVars, warmVars, dataVars, checkVars
<1> USE CacheAssumption DEF CacheAssumption
<1> USE DEF Steps, warming, None
<1>0. Len(Warm) \in Nat /\ Len(Warm) >= 1
  BY WarmerAssumption DEF WarmerAssumption
<1>1. CASE CacheStep
  <2> USE <1>1 DEF CacheStep
  <2>1. CASE CheckLog
    BY <2>1 DEF CheckLog
  <2>2. CASE CheckVersion
    BY <2>2 DEF CheckVersion
  <2>3. CASE StretchEnds
    BY <2>3 DEF StretchEnds, EndsStretch
  <2>4. CASE \E k \in Page \cup Asked : Build(k)
    BY <2>4 DEF Build
  <2>5. CASE \E k \in Key : FlightReads(k)
    BY <2>5 DEF FlightReads
  <2>6. CASE FlightFails
    BY <2>6 DEF FlightFails
  <2>7. CASE SyncRates
    BY <2>7 DEF SyncRates
  <2>8. CASE AccountWrite
    BY <2>8 DEF AccountWrite, Logs, Wrote
  <2>9. CASE SyncWrite
    BY <2>9 DEF SyncWrite, Logs, Wrote
  <2>10. CASE SyncAnnounces
    BY <2>10 DEF SyncAnnounces
  <2>11. CASE ApiWrite
    BY <2>11 DEF ApiWrite, Wrote
  <2>12. CASE ApiFinishes
    BY <2>12 DEF ApiFinishes
  <2>13. CASE Report
    BY <2>13 DEF Report, Wrote
  <2>14. CASE \E q \in Quote : StreamTick(q)
    BY <2>14 DEF StreamTick, Moves, Wrote
  <2>15. CASE \E q \in Quote : PollWrites(q)
    BY <2>15 DEF PollWrites, Moves, Wrote
  <2>16. CASE \E q \in Quote : WriteFails(q)
    BY <2>16 DEF WriteFails, Moves, Wrote
  <2>17. CASE PollCloses
    BY <2>17 DEF PollCloses, Logs, Wrote
  <2>18. CASE PollPublishes
    BY <2>18 DEF PollPublishes
  <2>19. CASE PollFails
    BY <2>19 DEF PollFails
  <2>20. CASE OtherCommit
    <3>1. /\ version' \in 0 .. MaxCommits
          /\ head' \in 0 .. MaxRows /\ plain' \in 0 .. MaxPlain
      BY <2>20 DEF OtherCommit, Logs
    <3>2. UNCHANGED <<today, quote, ticks, applied, cacheDay, seen, step, lastWarmed>>
      BY <2>20 DEF OtherCommit
    <3> QED
      BY <3>1, <3>2
  <2>21. CASE NewDay
    BY <2>21 DEF NewDay
  <2> QED
    BY <2>1, <2>2, <2>3, <2>4, <2>5, <2>6, <2>7, <2>8, <2>9, <2>10, <2>11, <2>12, <2>13,
       <2>14, <2>15, <2>16, <2>17, <2>18, <2>19, <2>20, <2>21 DEF CacheNext
<1>2. CASE DebounceFires
  BY <1>0, <1>2 DEF DebounceFires, RunWarm
<1>3. CASE MidnightFires
  BY <1>0, <1>3 DEF MidnightFires, RunWarm
<1>4. CASE WarmStep
  BY <1>0, <1>4 DEF WarmStep, EndsStretch
<1>5. CASE WarmResumes
  BY <1>0, <1>5 DEF WarmResumes
<1>6. CASE WarmEnds
  BY <1>0, <1>6 DEF WarmEnds, Finally
<1>7. CASE WarmFails
  BY <1>0, <1>7 DEF WarmFails, Finally
<1>8. CASE Poll
  BY <1>8 DEF Poll
<1>9. CASE Boot
  BY <1>9 DEF Boot
<1>10. CASE UNCHANGED vars
  BY <1>10 DEF vars
<1> QED
  BY <1>1, <1>2, <1>3, <1>4, <1>5, <1>6, <1>7, <1>8, <1>9, <1>10 DEF Next

LEMMA FlagsStep ==
  ASSUME FlagsOK, [Next]_vars
  PROVE  FlagsOK'
<1> USE DEF FlagsOK, Unanswered, Untold, cacheVars, warmVars, dataVars, checkVars, restVars, pollVars
<1>1. CASE CacheStep
  <2> USE <1>1 DEF CacheStep
  <2>1. CASE CheckLog
    BY <2>1 DEF CheckLog
  <2>2. CASE CheckVersion
    BY <2>2 DEF CheckVersion
  <2>3. CASE StretchEnds
    BY <2>3 DEF StretchEnds, EndsStretch
  <2>4. CASE \E k \in Page \cup Asked : Build(k)
    BY <2>4 DEF Build
  <2>5. CASE \E k \in Key : FlightReads(k)
    BY <2>5 DEF FlightReads
  <2>6. CASE FlightFails
    BY <2>6 DEF FlightFails
  <2>7. CASE SyncRates
    BY <2>7 DEF SyncRates
  <2>8. CASE AccountWrite
    BY <2>8 DEF AccountWrite, Logs, Wrote
  <2>9. CASE SyncWrite
    BY <2>9 DEF SyncWrite, Logs, Wrote
  <2>10. CASE SyncAnnounces
    BY <2>10 DEF SyncAnnounces
  <2>11. CASE ApiWrite
    BY <2>11 DEF ApiWrite, Wrote
  <2>12. CASE ApiFinishes
    BY <2>12 DEF ApiFinishes
  <2>13. CASE Report
    BY <2>13 DEF Report, Wrote
  <2>14. CASE \E q \in Quote : StreamTick(q)
    BY <2>14 DEF StreamTick, Moves, Wrote
  <2>15. CASE \E q \in Quote : PollWrites(q)
    BY <2>15 DEF PollWrites, Moves, Wrote
  <2>16. CASE \E q \in Quote : WriteFails(q)
    BY <2>16 DEF WriteFails, Moves, Wrote
  <2>17. CASE PollCloses
    BY <2>17 DEF PollCloses, Logs, Wrote
  <2>18. CASE PollPublishes
    BY <2>18 DEF PollPublishes
  <2>19. CASE PollFails
    BY <2>19 DEF PollFails
  <2>20. CASE OtherCommit
    BY <2>20 DEF OtherCommit, Logs
  <2>21. CASE NewDay
    BY <2>21 DEF NewDay
  <2> QED
    BY <2>1, <2>2, <2>3, <2>4, <2>5, <2>6, <2>7, <2>8, <2>9, <2>10, <2>11, <2>12, <2>13,
       <2>14, <2>15, <2>16, <2>17, <2>18, <2>19, <2>20, <2>21 DEF CacheNext
<1>2. CASE DebounceFires
  BY <1>2 DEF DebounceFires, RunWarm
<1>3. CASE MidnightFires
  BY <1>3 DEF MidnightFires, RunWarm
<1>4. CASE WarmStep
  BY <1>4 DEF WarmStep, EndsStretch
<1>5. CASE WarmResumes
  BY <1>5 DEF WarmResumes
<1>6. CASE WarmEnds
  BY <1>6 DEF WarmEnds, Finally
<1>7. CASE WarmFails
  BY <1>7 DEF WarmFails, Finally
<1>8. CASE Poll
  BY <1>8 DEF Poll
<1>9. CASE Boot
  BY <1>9 DEF Boot
<1>10. CASE UNCHANGED vars
  BY <1>10 DEF vars
<1> QED
  BY <1>1, <1>2, <1>3, <1>4, <1>5, <1>6, <1>7, <1>8, <1>9, <1>10 DEF Next

LEMMA AwaitsStep ==
  ASSUME WarmerTypeOK, [Next]_vars
  PROVE  AwaitsOK'
<1> USE DEF AwaitsOK, cacheVars, warmVars, warming
<1>0. TypeOK /\ AwaitsOK
  BY TypeParts DEF WarmerTypeOK
<1>1. CASE CacheStep
  BY <1>0, <1>1 DEF CacheStep
<1>2. CASE DebounceFires \/ MidnightFires
  <2>1. Keys' = Keys /\ awaits' = awaits
    BY <1>2 DEF DebounceFires, MidnightFires, heldVars, Keys
  <2>2. CASE warming
    BY <1>0, <1>2, <2>1, <2>2 DEF DebounceFires, MidnightFires, RunWarm
  <2>3. CASE ~warming
    BY <1>0, <1>2, <2>1, <2>3 DEF DebounceFires, MidnightFires, RunWarm, Steps
  <2> QED
    BY <2>2, <2>3
<1>3. CASE WarmStep
  <2>1. step \in Steps /\ awaits = "none" /\ LookUp(Warm[step])
    BY <1>3 DEF WarmStep
  <2>2. PICK k \in Key : k = Warm[step]
    BY <2>1, WarmerAssumption DEF WarmerAssumption, Steps
  <2>3. k \in Keys' /\ left'[k] \subseteq Later[k]
    BY <1>0, <2>1, <2>2, LookedUp DEF Filled, TypeOK
  <2>4. step' # 0
    BY <2>1, <1>3 DEF WarmStep, Steps
  <2>5. CASE left'[k] = {}
    BY <1>3, <2>1, <2>2, <2>4, <2>5 DEF WarmStep
  <2>6. CASE left'[k] # {}
    <3>1. awaits' = "entry" /\ step' = step
      BY <1>3, <2>2, <2>6 DEF WarmStep
    <3> QED
      BY <2>1, <2>2, <2>3, <2>4, <2>6, <3>1
  <2> QED
    BY <2>5, <2>6
<1>4. CASE WarmResumes
  BY <1>0, <1>4 DEF WarmResumes, Steps
<1>5. CASE WarmEnds \/ WarmFails
  BY <1>5 DEF WarmEnds, WarmFails, Finally
<1>6. CASE Poll \/ Boot \/ UNCHANGED vars
  BY <1>0, <1>6 DEF Poll, Boot, vars, heldVars, Keys
<1> QED
  BY <1>1, <1>2, <1>3, <1>4, <1>5, <1>6 DEF Next

LEMMA TypeStep ==
  ASSUME WarmerTypeOK, [Next]_vars
  PROVE  WarmerTypeOK'
<1>1. NumbersOK' /\ FlagsOK' /\ AwaitsOK' /\ TypeOK
  BY NumbersStep, FlagsStep, AwaitsStep, TypeParts DEF WarmerTypeOK
<1>2. /\ Keys' \subseteq Key /\ DOMAIN reads' = Keys' /\ DOMAIN left' = Keys'
      /\ \A k \in Keys' : /\ cache'[k] \subseteq Input \X Int /\ reads'[k] \subseteq Quote
                          /\ left'[k] \subseteq Later[k]
  <2>1. CASE Filled
    BY <1>1, <2>1, ContentTyped DEF Filled, TypeOK
  <2>2. CASE \E k \in Key, x \in Key \cup Input : Grown(k, x)
    <3>1. PICK k \in Key, x \in Key \cup Input : Grown(k, x)
      BY <2>2
    <3>2. Keys' = Keys /\ DOMAIN reads' = Keys /\ DOMAIN left' = Keys /\ k \in Keys
      BY <3>1 DEF Grown
    <3>3. x \in Input => Now(x) \in Int
      BY <1>1, CacheAssumption DEF CacheAssumption, TypeOK, Now, Input
    <3>4. CASE x \in Key
      <4>1. x \in Keys
        BY <3>1, <3>4 DEF Grown, Comes
      <4> QED
        BY <1>1, <3>1, <3>2, <3>4, <4>1 DEF Grown, TypeOK
    <3>5. CASE x \notin Key
      <4>1. x \in Input
        BY <3>1, <3>5 DEF Grown
      <4>2. <<x, Now(x)>> \in Input \X Int
        BY <3>3, <4>1
      <4> QED
        BY <1>1, <3>1, <3>2, <3>5, <4>2 DEF Grown, TypeOK
    <3> QED
      BY <3>4, <3>5
  <2> QED
    BY <1>1, <2>1, <2>2, StepIsFilled
<1> QED
  BY <1>1, <1>2 DEF WarmerTypeOK, TypeOK, NumbersOK, FlagsOK, AwaitsOK, Untold

LEMMA PricesStep ==
  ASSUME WarmerTypeOK, PricesInNodes, PricesAreLive, [Next]_vars
  PROVE  PricesInNodes' /\ PricesAreLive'
<1>1. TypeOK
  BY DEF WarmerTypeOK
<1>2. CASE Filled
  <2>1. ASSUME NEW k \in Keys'
        PROVE  /\ {p[1] : p \in cache'[k]} \cap Quote = reads'[k]
               /\ Tier[k] = "hist" => reads'[k] = {}
               /\ reads'[k] # {} => Tier[k] \in LiveTailTiers \cup {"inputs"}
    <3>1. k \in Key /\ cache'[k] = Content[k] /\ reads'[k] = Node[k]
      BY <1>2 DEF Filled
    <3>2. Node[k] \subseteq Quote
      BY <1>1, <3>1, ContentTyped
    <3>3. \A q \in Quote : q \in Node[k] <=> \E u \in Content[k] : u[1] = q
      BY <1>1, <3>1, ContentPrices
    <3>4. {p[1] : p \in Content[k]} \cap Quote = Node[k]
      BY <3>2, <3>3
    <3>5. Tier[k] = "hist" => Node[k] = {}
      BY <1>1, <3>1, ContentPrices
    <3>6. Node[k] # {} => Tier[k] \in LiveTailTiers \cup {"inputs"}
      BY <3>1, NodesAreLive
    <3> QED
      BY <3>1, <3>4, <3>5, <3>6
  <2> QED
    BY <2>1 DEF PricesInNodes, PricesAreLive
<1>3. CASE \E k \in Key, x \in Key \cup Input : Grown(k, x)
  <2>1. PICK k \in Key, x \in Key \cup Input : Grown(k, x)
    BY <1>3
  <2>2. k \in Keys /\ Keys' = Keys /\ Tier[k] = "bundle"
    BY <2>1 DEF Grown
  <2>3. {p[1] : p \in cache[k]} \cap Quote = reads[k]
    BY <2>2 DEF PricesInNodes
  <2>4. {p[1] : p \in cache'[k]} \cap Quote = reads'[k]
    <3>1. CASE x \in Key
      <4>1. x \in Keys
        BY <2>1, <3>1 DEF Grown, Comes
      <4>2. {p[1] : p \in cache[x]} \cap Quote = reads[x]
        BY <4>1 DEF PricesInNodes
      <4>3. cache'[k] = cache[k] \cup cache[x] /\ reads'[k] = reads[k] \cup reads[x]
        BY <2>1, <3>1 DEF Grown
      <4> QED
        BY <2>3, <4>2, <4>3
    <3>2. CASE x \notin Key
      <4>1. cache'[k] = cache[k] \cup {<<x, Now(x)>>} /\ reads'[k] = reads[k] \cup ({x} \cap Quote)
        BY <2>1, <3>2 DEF Grown
      <4>2. {p[1] : p \in {<<x, Now(x)>>}} = {x}
        OBVIOUS
      <4> QED
        BY <2>3, <4>1, <4>2
    <3> QED
      BY <3>1, <3>2
  <2>5. \A m \in Keys : m # k => cache'[m] = cache[m] /\ reads'[m] = reads[m]
    BY <2>1 DEF Grown
  <2>6. PricesInNodes'
    BY <2>2, <2>4, <2>5 DEF PricesInNodes
  <2>7. PricesAreLive'
    BY <2>2, <2>5 DEF PricesAreLive, LiveTailTiers
  <2> QED
    BY <2>6, <2>7
<1> QED
  BY <1>1, <1>2, <1>3, StepIsFilled

-----------------------------------------------------------------------------
(* Which steps change what the checks compare.                               *)

LEMMA Frames ==
  ASSUME [Next]_vars
  PROVE  /\ \/ UNCHANGED cacheDay
            \/ CheckVersion
         /\ \/ UNCHANGED <<plain, seen, version, answering>>
            \/ CheckVersion \/ ApiWrite \/ ApiFinishes \/ OtherCommit
         /\ \/ /\ UNCHANGED <<head, applied, skipped, seen, version, checking>>
               /\ (Behind' <=> Behind) /\ (counted' => counted)
            \/ CheckLog \/ CheckVersion \/ AccountWrite \/ SyncWrite \/ SyncAnnounces \/ Report
            \/ PollCloses \/ PollPublishes \/ OtherCommit
         /\ \/ UNCHANGED <<quote, pollVars>>
            \/ CheckVersion \/ SyncAnnounces
            \/ (\E q \in Quote : StreamTick(q)) \/ (\E q \in Quote : PollWrites(q))
            \/ (\E q \in Quote : WriteFails(q)) \/ PollCloses \/ PollPublishes \/ PollFails
<1> USE DEF Behind, Untold, cacheVars, warmVars, dataVars, checkVars, restVars, pollVars
<1>0. "close" \notin Quote
  BY CacheAssumption DEF CacheAssumption
<1>1. CASE CacheStep
  <2> USE <1>1 DEF CacheStep
  <2>1. CASE CheckLog
    BY <2>1 DEF CheckLog
  <2>2. CASE CheckVersion
    BY <2>2 DEF CheckVersion
  <2>3. CASE StretchEnds
    BY <2>3 DEF StretchEnds, EndsStretch
  <2>4. CASE \E k \in Page \cup Asked : Build(k)
    BY <2>4 DEF Build
  <2>5. CASE \E k \in Key : FlightReads(k)
    BY <2>5 DEF FlightReads
  <2>6. CASE FlightFails
    BY <2>6 DEF FlightFails
  <2>7. CASE SyncRates
    BY <2>7 DEF SyncRates
  <2>8. CASE AccountWrite
    BY <2>8 DEF AccountWrite, Logs, Wrote
  <2>9. CASE SyncWrite
    BY <2>9 DEF SyncWrite, Logs, Wrote
  <2>10. CASE SyncAnnounces
    BY <2>10 DEF SyncAnnounces
  <2>11. CASE ApiWrite
    BY <2>11 DEF ApiWrite, Wrote
  <2>12. CASE ApiFinishes
    BY <2>12 DEF ApiFinishes
  <2>13. CASE Report
    BY <2>13 DEF Report, Wrote
  <2>14. CASE \E q \in Quote : StreamTick(q)
    <3>1. "close" \in Untold' <=> "close" \in Untold
      BY <1>0, <2>14 DEF StreamTick
    <3>2. owed' = owed
      BY <2>14 DEF StreamTick, Moves
    <3> QED
      BY <2>14, <3>1, <3>2 DEF StreamTick, Moves, Wrote
  <2>15. CASE \E q \in Quote : PollWrites(q)
    <3>1. "close" \in Untold' <=> "close" \in Untold
      BY <1>0, <2>15 DEF PollWrites
    <3>2. owed' = owed
      BY <2>15 DEF PollWrites, Moves
    <3> QED
      BY <2>15, <3>1, <3>2 DEF PollWrites, Moves, Wrote
  <2>16. CASE \E q \in Quote : WriteFails(q)
    <3>1. "close" \in Untold' <=> "close" \in Untold
      BY <1>0, <2>16 DEF WriteFails
    <3>2. owed' = owed
      BY <2>16 DEF WriteFails, Moves
    <3> QED
      BY <2>16, <3>1, <3>2 DEF WriteFails, Moves, Wrote
  <2>17. CASE PollCloses
    BY <2>17 DEF PollCloses, Logs, Wrote
  <2>18. CASE PollPublishes
    BY <2>18 DEF PollPublishes
  <2>19. CASE PollFails
    BY <2>19 DEF PollFails
  <2>20. CASE OtherCommit
    BY <2>20 DEF OtherCommit, Logs
  <2>21. CASE NewDay
    BY <2>21 DEF NewDay
  <2> QED
    BY <2>1, <2>2, <2>3, <2>4, <2>5, <2>6, <2>7, <2>8, <2>9, <2>10, <2>11, <2>12, <2>13,
       <2>14, <2>15, <2>16, <2>17, <2>18, <2>19, <2>20, <2>21 DEF CacheNext
<1>2. CASE DebounceFires
  BY <1>2 DEF DebounceFires, RunWarm
<1>3. CASE MidnightFires
  BY <1>3 DEF MidnightFires, RunWarm
<1>4. CASE WarmStep
  BY <1>4 DEF WarmStep, EndsStretch
<1>5. CASE WarmResumes
  BY <1>5 DEF WarmResumes
<1>6. CASE WarmEnds
  BY <1>6 DEF WarmEnds, Finally
<1>7. CASE WarmFails
  BY <1>7 DEF WarmFails, Finally
<1>8. CASE Poll
  BY <1>8 DEF Poll
<1>9. CASE Boot
  BY <1>9 DEF Boot
<1>10. CASE UNCHANGED vars
  BY <1>10 DEF vars
<1> QED
  BY <1>1, <1>2, <1>3, <1>4, <1>5, <1>6, <1>7, <1>8, <1>9, <1>10 DEF Next

LEMMA ChecksStep ==
  ASSUME WarmerTypeOK, ChecksInOrder, [Next]_vars
  PROVE  ChecksInOrder'
<1> USE DEF ChecksInOrder, NumbersOK, Consumed, None, cacheVars, warmVars, dataVars, checkVars
<1>0. Keys' # {} => Keys # {} \/ checked
  BY StepIsFilled DEF Kept, CanLookUp, Valid, WarmerTypeOK
<1> USE <1>0, TypeParts
<1>1. CASE CacheStep
  <2> USE <1>1 DEF CacheStep
  <2>1. CASE CheckLog
    BY <2>1 DEF CheckLog
  <2>2. CASE CheckVersion
    BY <2>2 DEF CheckVersion
  <2>3. CASE StretchEnds
    BY <2>3 DEF StretchEnds, EndsStretch
  <2>4. CASE \E k \in Page \cup Asked : Build(k)
    BY <2>4 DEF Build
  <2>5. CASE \E k \in Key : FlightReads(k)
    BY <2>5 DEF FlightReads
  <2>6. CASE FlightFails
    BY <2>6 DEF FlightFails
  <2>7. CASE SyncRates
    BY <2>7 DEF SyncRates
  <2>8. CASE AccountWrite
    BY <2>8 DEF AccountWrite, Logs, Wrote
  <2>9. CASE SyncWrite
    BY <2>9 DEF SyncWrite, Logs, Wrote
  <2>10. CASE SyncAnnounces
    BY <2>10 DEF SyncAnnounces
  <2>11. CASE ApiWrite
    BY <2>11 DEF ApiWrite, Wrote
  <2>12. CASE ApiFinishes
    BY <2>12 DEF ApiFinishes
  <2>13. CASE Report
    BY <2>13 DEF Report, Wrote
  <2>14. CASE \E q \in Quote : StreamTick(q)
    BY <2>14 DEF StreamTick, Moves, Wrote
  <2>15. CASE \E q \in Quote : PollWrites(q)
    BY <2>15 DEF PollWrites, Moves, Wrote
  <2>16. CASE \E q \in Quote : WriteFails(q)
    BY <2>16 DEF WriteFails, Moves, Wrote
  <2>17. CASE PollCloses
    BY <2>17 DEF PollCloses, Logs, Wrote
  <2>18. CASE PollPublishes
    BY <2>18 DEF PollPublishes
  <2>19. CASE PollFails
    BY <2>19 DEF PollFails
  <2>20. CASE OtherCommit
    BY <2>20 DEF OtherCommit, Logs
  <2>21. CASE NewDay
    BY <2>21 DEF NewDay
  <2> QED
    BY <2>1, <2>2, <2>3, <2>4, <2>5, <2>6, <2>7, <2>8, <2>9, <2>10, <2>11, <2>12, <2>13,
       <2>14, <2>15, <2>16, <2>17, <2>18, <2>19, <2>20, <2>21 DEF CacheNext
<1>2. CASE DebounceFires
  BY <1>2 DEF DebounceFires, RunWarm
<1>3. CASE MidnightFires
  BY <1>3 DEF MidnightFires, RunWarm
<1>4. CASE WarmStep
  BY <1>4 DEF WarmStep, EndsStretch, LookUp, CanLookUp
<1>5. CASE WarmResumes
  BY <1>5 DEF WarmResumes
<1>6. CASE WarmEnds
  BY <1>6 DEF WarmEnds, Finally
<1>7. CASE WarmFails
  BY <1>7 DEF WarmFails, Finally
<1>8. CASE Poll
  BY <1>8 DEF Poll
<1>9. CASE Boot
  BY <1>9 DEF Boot
<1>10. CASE UNCHANGED vars
  BY <1>10 DEF vars
<1> QED
  BY <1>1, <1>2, <1>3, <1>4, <1>5, <1>6, <1>7, <1>8, <1>9, <1>10 DEF Next

-----------------------------------------------------------------------------
(* One kind of input after another.                                          *)

LEMMA DayStep ==
  ASSUME WarmerTypeOK, OfItsDay, [Next]_vars
  PROVE  OfItsDay'
<1>1. TypeOK
  BY DEF WarmerTypeOK
<1>2. CASE CheckVersion
  <2>1. Kept /\ (Keys' = {} \/ cacheDay = today)
    BY <1>1, <1>2, Versioned
  <2>2. cacheDay' = today
    BY <1>2 DEF CheckVersion
  <2> QED
    BY <2>1, <2>2 DEF Kept, OfItsDay
<1>3. CASE UNCHANGED cacheDay
  <2>1. CASE Kept
    BY <1>3, <2>1 DEF Kept, OfItsDay
  <2>2. CASE Filled /\ CanLookUp
    <3>1. \A k \in Key : \A u \in Content[k] : u[1] = "day" => u[2] = today
      BY <2>2, ContentOfToday DEF CanLookUp
    <3>2. cacheDay = today
      BY <2>2 DEF CanLookUp, Valid
    <3> QED
      BY <1>3, <2>2, <3>1, <3>2 DEF Filled, OfItsDay
  <2>3. CASE CanLookUp /\ \E k \in Key, x \in Key \cup Input : Grown(k, x)
    <3>1. PICK k \in Key, x \in Key \cup Input : Grown(k, x)
      BY <2>3
    <3>2. SUFFICES ASSUME NEW m \in Keys', NEW u \in cache'[m], u[1] = "day" PROVE u[2] = cacheDay
      BY <1>3 DEF OfItsDay
    <3>3. cacheDay = today
      BY <2>3 DEF CanLookUp, Valid
    <3> QED
      BY <3>1, <3>2, <3>3, GrownFrom DEF OfItsDay, Now
  <2> QED
    BY <1>1, <2>1, <2>2, <2>3, StepIsFilled
<1> QED
  BY <1>2, <1>3, Frames

LEMMA PlainStep ==
  ASSUME WarmerTypeOK, ChecksInOrder, PlainIsDropped, [Next]_vars
  PROVE  PlainIsDropped'
<1>1. TypeOK
  BY DEF WarmerTypeOK
<1>2. CASE CheckVersion
  <2>1. Kept /\ (Keys' = {} \/ seen = version)
    BY <1>1, <1>2, Versioned
  <2>2. UNCHANGED <<plain, version, answering>> /\ seen' = version
    BY <1>2 DEF CheckVersion, dataVars
  <2> QED
    BY <2>1, <2>2 DEF Kept, PlainIsDropped
<1>3. CASE ApiWrite
  <2>1. Kept /\ answering' = TRUE
    BY <1>1, <1>3, Untouched DEF ApiWrite
  <2> QED
    BY <2>1 DEF Kept, PlainIsDropped
<1>4. CASE ApiFinishes
  <2>1. Kept /\ Keys' = Keys \ In(ApiTiers)
    BY <1>1, <1>4, Dropped DEF ApiFinishes
  <2> QED
    BY <2>1 DEF Kept, PlainIsDropped, In
<1>5. CASE OtherCommit
  <2>1. Kept
    BY <1>1, <1>5, Untouched DEF OtherCommit
  <2>2. seen' = seen /\ version' = version + 1
    BY <1>5 DEF OtherCommit, checkVars
  <2>3. seen' # version'
    BY <1>1, <2>2 DEF ChecksInOrder, TypeOK, None
  <2> QED
    BY <2>1, <2>3 DEF Kept, PlainIsDropped
<1>6. CASE UNCHANGED <<plain, seen, version, answering>>
  <2>1. CASE Kept
    BY <1>6, <2>1 DEF Kept, PlainIsDropped
  <2>2. CASE Filled
    BY <1>6, <2>2, ContentOfPlain DEF Filled, PlainIsDropped
  <2>3. CASE \E k \in Key, x \in Key \cup Input : Grown(k, x)
    <3>1. PICK k \in Key, x \in Key \cup Input : Grown(k, x)
      BY <2>3
    <3>2. SUFFICES ASSUME NEW m \in Keys', NEW u \in cache'[m], u[1] = "plain"
                   PROVE  Tier[m] \in ApiTiers /\ (u[2] = plain \/ seen # version \/ answering)
      BY <1>6 DEF PlainIsDropped
    <3> QED
      BY <3>1, <3>2, GrownFrom DEF PlainIsDropped, Now, ApiTiers
  <2> QED
    BY <1>1, <2>1, <2>2, <2>3, StepIsFilled
<1> QED
  BY <1>2, <1>3, <1>4, <1>5, <1>6, Frames

(* The steps that log a row, but for a row hidden by a rollback, leave it to *)
(* the next check: it comes after what the log's consumer has applied.       *)
LEMMA LoggedIsAhead ==
  ASSUME WarmerTypeOK, Logs, ~skipped'
  PROVE  ~skipped /\ head' = head + 1 /\ (applied # None => head' > applied)
<1>1. head \in Nat /\ applied \in Nat \cup {None}
  BY TypeParts DEF NumbersOK
<1>2. ~skipped /\ ~(head < applied) /\ head' = head + 1
  BY DEF Logs
<1> QED
  BY <1>1, <1>2

LEMMA RowsStep ==
  ASSUME WarmerTypeOK, ChecksInOrder, RowsAreKnown, [Next]_vars
  PROVE  RowsAreKnown'
<1>1. TypeOK
  BY DEF WarmerTypeOK
<1>2. SUFFICES ASSUME ~skipped', NEW k \in Keys', NEW p \in cache'[k], p[1] = "rows"
               PROVE  RowIsKnown(k, p[2])'
  BY DEF RowsAreKnown
<1>3. CASE CheckLog
  <2>1. Kept /\ Keys' = Keys \ Listened(head)
    BY <1>1, <1>3, Dropped DEF CheckLog
  <2>2. ~skipped /\ UNCHANGED <<head, seen, version>> /\ (Behind' <=> Behind)
    BY <1>2, <1>3 DEF CheckLog, dataVars, restVars, pollVars, Behind, Untold
  <2>3. RowIsKnown(k, p[2])
    BY <1>2, <2>1, <2>2 DEF Kept, RowsAreKnown
  <2>4. Trims(head) => Tier[k] \notin ListenerTiers
    BY <2>1 DEF Kept, Listened, In
  <2> QED
    BY <2>2, <2>3, <2>4 DEF RowIsKnown
<1>4. CASE CheckVersion
  <2>1. Kept /\ seen = version /\ UNCHANGED pollVars
    BY <1>1, <1>2, <1>4, Versioned
  <2>2. /\ ~skipped /\ checking /\ seen' = version /\ UNCHANGED <<head, version>>
        /\ Behind' <=> Behind
    BY <1>2, <1>4, <2>1 DEF CheckVersion, dataVars, pollVars, Behind, Untold
  <2>3. RowIsKnown(k, p[2])
    BY <1>2, <2>1, <2>2 DEF Kept, RowsAreKnown
  <2> QED
    BY <2>1, <2>2, <2>3 DEF RowIsKnown
<1>5. CASE AccountWrite
  <2>1. Kept /\ Keys' = Keys \ In(AccountTiers)
    BY <1>1, <1>5, Dropped DEF AccountWrite
  <2> QED
    BY <1>1, <1>2, <2>1, CacheAssumption DEF CacheAssumption, TypeOK, In, AccountTiers
<1>6. CASE SyncWrite
  <2>1. Kept
    BY <1>1, <1>6, Untouched DEF SyncWrite
  <2>2. ~skipped /\ head' = head + 1 /\ (applied # None => head' > applied)
    BY <1>2, <1>6, LoggedIsAhead DEF SyncWrite
  <2>3. applied # None
    BY <1>2, <2>1 DEF Kept, ChecksInOrder
  <2>4. Behind' /\ ~counted' /\ ~checking' /\ applied' = applied
    BY <1>6 DEF SyncWrite, Wrote, Behind
  <2>5. Tier[k] \in ListenerTiers \cup MonthTiers
    BY <1>1, <1>2, <2>1, CacheAssumption DEF CacheAssumption, TypeOK, Kept, Tiers, ListenerTiers, MonthTiers
  <2> QED
    BY <2>2, <2>3, <2>4, <2>5 DEF RowIsKnown, Trims
<1>7. CASE SyncAnnounces
  <2>1. Kept /\ Keys' = Keys \ (In(HistoricalTiers) \cup Listened(head))
    BY <1>1, <1>7, Dropped DEF SyncAnnounces
  <2>2. ~skipped /\ UNCHANGED <<head, seen, version>>
    BY <1>2, <1>7 DEF SyncAnnounces, dataVars, checkVars
  <2>3. RowIsKnown(k, p[2])
    BY <1>2, <2>1, <2>2 DEF Kept, RowsAreKnown
  <2>4. Tier[k] \notin MonthTiers
    BY <1>2, <2>1 DEF In, HistoricalTiers, MonthTiers
  <2>5. Trims(head) => Tier[k] \notin ListenerTiers
    BY <2>1 DEF Kept, Listened, In
  <2> QED
    BY <2>2, <2>3, <2>4, <2>5 DEF RowIsKnown
<1>8. CASE Report
  BY <1>1, <1>2, <1>8, Reported
<1>9. CASE PollCloses
  <2>1. Kept
    BY <1>1, <1>9, Untouched DEF PollCloses
  <2>2. ~skipped /\ head' = head + 1 /\ (applied # None => head' > applied)
    BY <1>2, <1>9, LoggedIsAhead DEF PollCloses
  <2>3. applied # None
    BY <1>2, <2>1 DEF Kept, ChecksInOrder
  <2>4. Behind' /\ ~counted' /\ ~checking' /\ applied' = applied
    BY <1>9 DEF PollCloses, Wrote, Behind, Untold
  <2>5. Tier[k] \in ListenerTiers \cup MonthTiers
    BY <1>1, <1>2, <2>1, CacheAssumption DEF CacheAssumption, TypeOK, Kept, Tiers, ListenerTiers, MonthTiers
  <2> QED
    BY <2>2, <2>3, <2>4, <2>5 DEF RowIsKnown, Trims
<1>10. CASE PollPublishes
  <2>1. Kept /\ ("close" \in moved => Keys' = Keys \ In(LiveTailTiers))
    BY <1>1, <1>10, Published
  <2>2. /\ ~skipped /\ UNCHANGED <<head, applied, seen, version, checking, counted, owed>>
        /\ "close" \notin moved => ("close" \in Untold' <=> "close" \in Untold)
    BY <1>2, <1>10 DEF PollPublishes, dataVars, checkVars, Untold
  <2>3. RowIsKnown(k, p[2])
    BY <1>2, <2>1, <2>2 DEF Kept, RowsAreKnown
  <2>4. "close" \in moved => Tier[k] \notin MonthTiers
    BY <1>2, <2>1 DEF Kept, In, LiveTailTiers, MonthTiers
  <2> QED
    BY <2>2, <2>3, <2>4 DEF RowIsKnown, Behind, Trims
<1>11. CASE OtherCommit
  <2>1. seen' = seen /\ version' = version + 1
    BY <1>11 DEF OtherCommit, checkVars
  <2>2. seen' # version'
    BY <1>1, <2>1 DEF ChecksInOrder, TypeOK, None
  <2> QED
    BY <2>2 DEF RowIsKnown
<1>12. CASE /\ UNCHANGED <<head, applied, skipped, seen, version, checking>>
              /\ (Behind' <=> Behind) /\ (counted' => counted)
  <2>1. ~skipped
    BY <1>2, <1>12
  <2>2. CASE Kept
    <3>1. RowIsKnown(k, p[2])
      BY <1>2, <2>1, <2>2 DEF Kept, RowsAreKnown
    <3> QED
      BY <1>12, <3>1 DEF RowIsKnown, Trims
  <2>3. CASE Filled /\ CanLookUp
    <3>1. p[2] = head \/ seen # version \/ (Behind /\ Tier[k] \in MonthTiers)
      BY <1>2, <2>1, <2>3, ContentOfRows DEF Filled, CanLookUp, Valid
    <3> QED
      BY <1>12, <3>1 DEF RowIsKnown
  <2>4. CASE CanLookUp /\ \E l \in Key, x \in Key \cup Input : Grown(l, x)
    <3>1. PICK l \in Key, x \in Key \cup Input : Grown(l, x)
      BY <2>4
    <3>2. counted
      BY <2>4 DEF CanLookUp, Valid
    <3>3. CASE p \in cache[k]
      BY <1>2, <1>12, <2>1, <3>1, <3>3, GrownFrom DEF RowsAreKnown, RowIsKnown, Trims
    <3>4. CASE x \in Keys /\ Tier[k] = "bundle" /\ p \in cache[x]
      <4>1. RowIsKnown(x, p[2])
        BY <1>2, <2>1, <3>4 DEF RowsAreKnown
      <4>2. Tier[k] \in MonthTiers
        BY <3>4 DEF MonthTiers
      <4> QED
        BY <1>12, <3>2, <4>1, <4>2 DEF RowIsKnown
    <3>5. CASE p = <<x, Now(x)>>
      BY <1>2, <1>12, <3>5 DEF RowIsKnown, Now
    <3> QED
      BY <1>2, <3>1, <3>3, <3>4, <3>5, GrownFrom
  <2> QED
    BY <1>1, <2>2, <2>3, <2>4, StepIsFilled
<1> QED
  BY <1>3, <1>4, <1>5, <1>6, <1>7, <1>8, <1>9, <1>10, <1>11, <1>12, Frames

LEMMA CurrentStep ==
  ASSUME WarmerTypeOK, PricesInNodes, PricesAreLive, PricesAreCurrent, [Next]_vars
  PROVE  PricesAreCurrent'
<1>1. TypeOK
  BY DEF WarmerTypeOK
<1>2. CASE \E q \in Quote : StreamTick(q)
  <2>1. PICK q \in Quote : StreamTick(q)
    BY <1>2
  <2>2. Kept /\ Keys' = Keys \ Affected(q)
    BY <1>1, <2>1, Dropped DEF StreamTick
  <2>3. quote' = [quote EXCEPT ![q] = 1 - @] /\ moved' = moved /\ unheard' = unheard \ {q}
    BY <2>1 DEF StreamTick, Moves
  <2>4. ASSUME NEW k \in Keys', Tier[k] # "inputs", NEW u \in cache[k], u[1] \in Quote
        PROVE  AtPrice(u)'
    <3>1. k \in Keys /\ k \notin Affected(q)
      BY <2>2, <2>4
    <3>2. u[1] \in reads[k]
      BY <2>4, <3>1 DEF PricesInNodes
    <3>3. Tier[k] \in LiveTailTiers
      BY <2>4, <3>1, <3>2 DEF PricesAreLive
    <3>4. u[1] # q
      BY <3>1, <3>2, <3>3 DEF Affected, In
    <3>5. quote'[u[1]] = quote[u[1]]
      BY <1>1, <2>3, <2>4, <3>4 DEF TypeOK
    <3>6. u[1] \in Untold => u[1] \in Untold'
      BY <2>3, <3>4 DEF Untold
    <3>7. AtPrice(u)
      BY <2>4, <3>1 DEF PricesAreCurrent, Rates
    <3> QED
      BY <3>5, <3>6, <3>7 DEF AtPrice
  <2> QED
    BY <2>2, <2>4 DEF Kept, PricesAreCurrent, Rates
<1>3. CASE \E q \in Quote : PollWrites(q) \/ WriteFails(q)
  <2>1. PICK q \in Quote : PollWrites(q) \/ WriteFails(q)
    BY <1>3
  <2>2. Kept
    BY <1>1, <2>1, Untouched DEF PollWrites, WriteFails, heldVars
  <2>3. quote' = [quote EXCEPT ![q] = 1 - @]
    BY <2>1 DEF PollWrites, WriteFails, Moves
  <2>4. q \in Untold' /\ Untold \subseteq Untold'
    BY <2>1 DEF PollWrites, WriteFails, Untold
  <2>5. \A u : u[1] \in Quote /\ AtPrice(u) => AtPrice(u)'
    BY <1>1, <2>3, <2>4 DEF AtPrice, TypeOK
  <2> QED
    BY <2>2, <2>5 DEF Kept, PricesAreCurrent, Rates
<1>4. CASE PollPublishes
  <2>1. Kept /\ moved' = {} /\ quote' = quote
    BY <1>1, <1>4, Published DEF PollPublishes, dataVars
  <2>2. ASSUME NEW k \in Keys', Tier[k] # "inputs", NEW u \in cache[k], u[1] \in Quote
        PROVE  AtPrice(u)'
    <3>1. k \in Keys /\ AtPrice(u)
      BY <2>1, <2>2 DEF Kept, PricesAreCurrent, Rates
    <3>2. u[1] \in reads[k]
      BY <2>2, <3>1 DEF PricesInNodes
    <3>3. Tier[k] \in LiveTailTiers
      BY <2>2, <3>1, <3>2 DEF PricesAreLive
    <3>4. k \in In(LiveTailTiers)
      BY <3>1, <3>3 DEF In
    <3>5. "close" \notin moved
      BY <1>1, <1>4, <2>2, <3>4, Published
    <3>6. unheard' = unheard \ moved /\ \A q \in moved : k \notin Affected(q)
      BY <1>1, <1>4, <2>2, <3>5, Published
    <3>7. u[1] \notin moved
      BY <3>2, <3>4, <3>6 DEF Affected
    <3> QED
      BY <2>1, <3>1, <3>6, <3>7 DEF AtPrice, Untold
  <2> QED
    BY <2>1, <2>2 DEF Kept, PricesAreCurrent, Rates
<1>5. CASE CheckVersion
  <2>1. Kept /\ (Keys' = {} \/ UNCHANGED pollVars)
    BY <1>1, <1>5, Versioned
  <2>2. quote' = quote
    BY <1>5 DEF CheckVersion, dataVars
  <2> QED
    BY <2>1, <2>2 DEF Kept, PricesAreCurrent, Rates, AtPrice, Untold, pollVars
<1>6. CASE SyncAnnounces \/ PollCloses \/ PollFails
  <2>1. Kept
    BY <1>1, <1>6, Dropped, Untouched DEF SyncAnnounces, PollCloses, PollFails
  <2>2. quote' = quote
    BY <1>6 DEF SyncAnnounces, PollCloses, PollFails, dataVars
  <2>3. \A q \in Quote : q \in Untold => q \in Untold'
    BY <1>6, CacheAssumption DEF CacheAssumption, SyncAnnounces, PollCloses, PollFails, Untold
  <2> QED
    BY <2>1, <2>2, <2>3 DEF Kept, PricesAreCurrent, Rates, AtPrice
<1>7. CASE UNCHANGED <<quote, pollVars>>
  <2>1. \A u : AtPrice(u)' <=> AtPrice(u)
    BY <1>7 DEF AtPrice, Untold, pollVars
  <2>2. CASE Kept
    BY <2>1, <2>2 DEF Kept, PricesAreCurrent, Rates
  <2>3. CASE \E k \in Key : LookUp(k)
    <3>1. PICK k \in Key : LookUp(k)
      BY <2>3
    <3>2. Filled /\ Keys' = Keys \cup Missing[k]
      BY <1>1, <3>1, LookedUp
    <3>3. \A m \in Keys' : Tier[m] # "inputs" => \A u \in Rates(Content[m]) : AtPrice(u)
      BY <3>1, <3>2, LookUpAtPrices DEF Filled, LookUp
    <3> QED
      BY <2>1, <3>2, <3>3 DEF Filled, PricesAreCurrent, Rates
  <2>4. CASE SyncRates
    <3>1. Filled /\ \A m \in Keys' : m \in Keys \/ Tier[m] \notin ApiTiers
      BY <1>1, <2>4, Synced
    <3>2. ASSUME NEW m \in Keys', Tier[m] # "inputs"
          PROVE  \A u \in Rates(Content[m]) : AtPrice(u)
      <4>1. m \in Key
        BY <3>1 DEF Filled
      <4>2. CASE m \in Keys
        BY <3>2, <4>1, <4>2, ContentIs DEF PricesAreCurrent
      <4>3. CASE Tier[m] \notin ApiTiers
        BY <4>1, <4>3, ContentAtPrices
      <4> QED
        BY <3>1, <4>2, <4>3
    <3> QED
      BY <2>1, <3>1, <3>2 DEF Filled, PricesAreCurrent, Rates
  <2>5. CASE \E k \in Key, x \in Key \cup Input : Grown(k, x)
    <3>1. PICK k \in Key, x \in Key \cup Input : Grown(k, x)
      BY <2>5
    <3>2. SUFFICES ASSUME NEW m \in Keys', Tier[m] # "inputs",
                          NEW u \in cache'[m], u[1] \in Quote
                   PROVE  AtPrice(u)
      BY <2>1 DEF PricesAreCurrent, Rates
    <3>3. CASE u \in cache[m]
      BY <3>1, <3>2, <3>3, GrownFrom DEF PricesAreCurrent, Rates
    <3>4. CASE x \in Keys /\ x \in Key /\ AtRates(x) /\ u \in cache[x]
      <4>1. u \in Rates(cache[x]) /\ Content[x] = cache[x]
        BY <3>2, <3>4, ContentIs DEF Rates
      <4>2. CASE Tier[x] = "inputs"
        BY <3>4, <4>1, <4>2, LinesAtPrices DEF AtRates
      <4>3. CASE Tier[x] # "inputs"
        BY <3>4, <4>1, <4>3 DEF PricesAreCurrent
      <4> QED
        BY <4>2, <4>3
    <3>5. CASE u = <<x, Now(x)>>
      <4>1. u[1] \notin {"rows", "plain", "day"}
        BY <3>2, CacheAssumption DEF CacheAssumption
      <4> QED
        BY <3>5, <4>1 DEF Now, AtPrice
    <3> QED
      BY <3>1, <3>2, <3>3, <3>4, <3>5, GrownFrom
  <2> QED
    BY <1>1, <2>2, <2>3, <2>4, <2>5, StepFills
<1> QED
  BY <1>2, <1>3, <1>4, <1>5, <1>6, <1>7, Frames

-----------------------------------------------------------------------------
(* The warmer.                                                               *)

(* What the entries keep, whatever the warmer does.                          *)
EntriesInv ==
  /\ WarmerTypeOK
  /\ PricesInNodes /\ PricesAreLive
  /\ ChecksInOrder
  /\ OfItsDay /\ PlainIsDropped /\ RowsAreKnown /\ PricesAreCurrent

LEMMA EntriesStep ==
  ASSUME EntriesInv, [Next]_vars
  PROVE  EntriesInv'
BY TypeStep, PricesStep, ChecksStep, DayStep, PlainStep, RowsStep, CurrentStep DEF EntriesInv

(* Lookups that add entries, and writes of nothing, leave what any lookup    *)
(* finds as it was.                                                          *)
LEMMA ContentStays ==
  ASSUME Filled, Keys \subseteq Keys', UNCHANGED dataVars
  PROVE  \A k \in Key : Content'[k] = Content[k]
<1> DEFINE B == {k \in Key : Content'[k] # Content[k]}
<1>1. \A k \in B : \E p \in Parts[k] : p \in B
  <2>1. SUFFICES ASSUME NEW k \in Key, \A p \in Parts[k] : Content'[p] = Content[p]
                 PROVE  Content'[k] = Content[k]
    BY PartsAreKeys
  <2>2. CASE k \in Keys'
    BY <2>2, ContentIsNext DEF Filled
  <2>3. CASE k \notin Keys'
    <3>1. k \notin Keys
      BY <2>3
    <3>2. \A i : Now(i)' = Now(i)
      BY DEF Now, dataVars
    <3>3. ASSUME NEW u PROVE u \in Content'[k] <=> u \in Content[k]
      <4>1. u \in Content'[k] <=>
              (\E i \in Direct[k] : u = <<i, Now(i)'>>) \/ \E p \in Parts[k] : u \in Content'[p]
        BY <2>3, ContentIsNext
      <4>2. u \in Content[k] <=>
              (\E i \in Direct[k] : u = <<i, Now(i)>>) \/ \E p \in Parts[k] : u \in Content[p]
        BY <3>1, ContentIs
      <4>3. (\E i \in Direct[k] : u = <<i, Now(i)'>>) <=> \E i \in Direct[k] : u = <<i, Now(i)>>
        BY <3>2
      <4> QED
        BY <2>1, <4>1, <4>2, <4>3
    <3>4. Content'[k] \subseteq Content[k] /\ Content[k] \subseteq Content'[k]
      BY <3>3
    <3> QED
      BY <3>4
  <2> QED
    BY <2>2, <2>3
<1>2. B = {}
  BY <1>1, NoFirst
<1> QED
  BY <1>2

LEMMA RatesStay ==
  ASSUME Filled, Keys \subseteq Keys', UNCHANGED dataVars, NEW l \in Key, ~OutOfRate(l)
  PROVE  ~OutOfRate(l)'
<1>1. \A c \in Cards(l) : c \in Key /\ Rates(Content[c]) = Rates(Content[l])
  BY PartsAreKeys DEF OutOfRate, Cards
<1>2. \A c \in Cards(l) : Rates(Content'[c]) = Rates(Content'[l])
  BY <1>1, ContentStays
<1> QED
  BY <1>2 DEF OutOfRate, Cards, Rates

(* Nor does a bundle that grows: nothing is built on one.                    *)
LEMMA GrownStays ==
  ASSUME NEW k \in Key, NEW x, Grown(k, x), UNCHANGED dataVars
  PROVE  \A m \in Key : m # k => Content'[m] = Content[m]
<1> DEFINE B == {m \in Key : m # k /\ Content'[m] # Content[m]}
<1>1. \A m \in B : \E p \in Parts[m] : p \in B
  <2>1. SUFFICES ASSUME NEW m \in Key, m # k, \A p \in Parts[m] : p \notin B
                 PROVE  Content'[m] = Content[m]
    OBVIOUS
  <2>2. \A p \in Parts[m] : Content'[p] = Content[p]
    BY <2>1, PartsAreKeys DEF Grown
  <2>3. CASE m \in Keys'
    BY <2>1, <2>3, ContentIs, ContentIsNext DEF Grown
  <2>4. CASE m \notin Keys'
    <3>1. m \notin Keys
      BY <2>4 DEF Grown
    <3>2. \A i : Now(i)' = Now(i)
      BY DEF Now, dataVars
    <3>3. ASSUME NEW u PROVE u \in Content'[m] <=> u \in Content[m]
      <4>1. u \in Content'[m] <=>
              (\E i \in Direct[m] : u = <<i, Now(i)'>>) \/ \E p \in Parts[m] : u \in Content'[p]
        BY <2>4, ContentIsNext
      <4>2. u \in Content[m] <=>
              (\E i \in Direct[m] : u = <<i, Now(i)>>) \/ \E p \in Parts[m] : u \in Content[p]
        BY <3>1, ContentIs
      <4>3. (\E i \in Direct[m] : u = <<i, Now(i)'>>) <=> \E i \in Direct[m] : u = <<i, Now(i)>>
        BY <3>2
      <4> QED
        BY <2>2, <4>1, <4>2, <4>3
    <3>4. Content'[m] \subseteq Content[m] /\ Content[m] \subseteq Content'[m]
      BY <3>3
    <3> QED
      BY <3>4
  <2> QED
    BY <2>3, <2>4
<1>2. B = {}
  BY <1>1, NoFirst
<1> QED
  BY <1>2

LEMMA GrownRatesStay ==
  ASSUME NEW k \in Key, NEW x, Grown(k, x), UNCHANGED dataVars,
         NEW l \in Key, Tier[l] = "inputs", ~OutOfRate(l)
  PROVE  ~OutOfRate(l)'
<1>1. l # k /\ Content'[l] = Content[l]
  BY GrownStays DEF Grown
<1>2. \A c \in Cards(l) : /\ c \in Key /\ c # k /\ Content'[c] = Content[c]
                         /\ Rates(Content[c]) = Rates(Content[l])
  BY PartsAreKeys, GrownStays DEF OutOfRate, Cards, Grown
<1> QED
  BY <1>1, <1>2 DEF OutOfRate, Cards, Rates

(* The steps after which it is calm: a warm begins; another process commits  *)
(* and the poll has to see it; or it was calm, and nothing was written, or   *)
(* stored by a live source that has not told.                                *)
Idles == \/ CheckLog /\ ~Trims(head)
         \/ CheckVersion \/ StretchEnds
         \/ \E k \in Page \cup Asked : Build(k)
         \/ \E k \in Key : FlightReads(k)
         \/ SyncRates
         \/ UNCHANGED vars

Awaits == awaits' = IF awaits = "entry" /\ Warm[step] \notin Keys' THEN "gone" ELSE awaits

Stores == /\ Untold' # {}
          /\ UNCHANGED <<heldVars, seen, cacheDay, version, today>> /\ (counted' => counted)

LEMMA CalmSteps ==
  ASSUME WarmerTypeOK, ChecksInOrder, [Next]_vars, Calm'
  PROVE  \/ ~counted' /\ step' = 1 /\ awaits' = "none"
         \/ ~warming' /\ version' # lastWarmed'
         \/ Calm /\ Idles /\ Awaits /\ UNCHANGED <<step, lastWarmed, dataVars>>
         \/ Calm /\ Stores /\ Awaits /\ UNCHANGED <<step, lastWarmed>>
         \/ Calm /\ WarmStep
         \/ Calm /\ WarmResumes
         \/ Calm /\ WarmEnds
<1> USE DEF Calm, Awaits, cacheVars, warmVars, dataVars, checkVars, restVars
<1>0. "none" = awaits \/ warming
  BY TypeParts DEF AwaitsOK, warming, Steps
<1>1. CASE CacheStep
  <2> USE <1>1 DEF CacheStep
  <2>1. CASE CheckLog
    BY <2>1 DEF CheckLog, Idles
  <2>2. CASE CheckVersion
    BY <2>2 DEF CheckVersion, Idles
  <2>3. CASE StretchEnds
    BY <2>3 DEF StretchEnds, Idles
  <2>4. CASE \E k \in Page \cup Asked : Build(k)
    <3>1. Idles
      BY <2>4 DEF Idles
    <3>2. UNCHANGED <<dataVars, skipped, restVars, debounce>>
      BY <2>4 DEF Build
    <3> QED
      BY <3>1, <3>2
  <2>5. CASE \E k \in Key : FlightReads(k)
    <3>1. Idles
      BY <2>5 DEF Idles
    <3>2. UNCHANGED <<dataVars, skipped, restVars, debounce>>
      BY <2>5 DEF FlightReads
    <3> QED
      BY <3>1, <3>2
  <2>6. CASE FlightFails
    BY <2>6 DEF Unanswered
  <2>7. CASE SyncRates
    BY <2>7 DEF SyncRates, Idles
  <2>8. CASE AccountWrite
    BY <2>8 DEF AccountWrite, Logs, Wrote
  <2>9. CASE SyncWrite
    BY <2>9 DEF SyncWrite
  <2>10. CASE SyncAnnounces
    BY <2>10 DEF SyncAnnounces
  <2>11. CASE ApiWrite
    BY <2>11 DEF ApiWrite, Wrote
  <2>12. CASE ApiFinishes
    BY <2>12 DEF Unanswered
  <2>13. CASE Report
    BY <2>13 DEF Report, Wrote
  <2>14. CASE \E q \in Quote : StreamTick(q)
    BY <2>14 DEF Unanswered
  <2>15. CASE \E q \in Quote : PollWrites(q)
    <3>1. Stores
      BY <2>15 DEF Stores, PollWrites, Wrote, Moves, Untold
    <3>2. UNCHANGED <<skipped, owed, answering, debounce>>
      BY <2>15 DEF PollWrites, Moves
    <3>3. Calm
      BY <3>2
    <3> QED
      BY <3>1, <3>3
  <2>16. CASE \E q \in Quote : WriteFails(q)
    <3>1. Stores
      BY <2>16 DEF Stores, WriteFails, Wrote, Moves, Untold
    <3>2. UNCHANGED <<skipped, owed, answering, debounce>>
      BY <2>16 DEF WriteFails, Moves
    <3>3. Calm
      BY <3>2
    <3> QED
      BY <3>1, <3>3
  <2>17. CASE PollCloses
    <3>1. Stores
      BY <2>17 DEF Stores, PollCloses, Wrote, Untold
    <3> QED
      BY <2>17, <3>1 DEF PollCloses, Logs
  <2>18. CASE PollPublishes
    BY <2>18 DEF Unanswered
  <2>19. CASE PollFails
    <3>1. Stores
      BY <2>19 DEF Stores, PollFails, Untold
    <3> QED
      BY <2>19, <3>1 DEF PollFails
  <2>20. CASE OtherCommit
    <3>1. ~warming
      BY <2>20 DEF Unanswered
    <3>2. version' = version + 1 /\ step' = step /\ lastWarmed' = lastWarmed
      BY <2>20 DEF OtherCommit
    <3>3. version \in Nat /\ lastWarmed \in Nat \cup {None} /\ lastWarmed <= version
      BY TypeParts, CacheAssumption DEF CacheAssumption, NumbersOK, ChecksInOrder
    <3> QED
      BY <3>1, <3>2, <3>3 DEF warming, None
  <2>21. CASE NewDay
    <3>1. today' = today + 1 /\ today \in Nat
      BY <2>21, TypeParts, CacheAssumption DEF CacheAssumption, NewDay, NumbersOK
    <3>2. today' # today
      BY <3>1
    <3> QED
      BY <3>2
  <2> QED
    BY <2>1, <2>2, <2>3, <2>4, <2>5, <2>6, <2>7, <2>8, <2>9, <2>10, <2>11, <2>12, <2>13,
       <2>14, <2>15, <2>16, <2>17, <2>18, <2>19, <2>20, <2>21 DEF CacheNext
<1>2. CASE DebounceFires
  BY <1>0, <1>2 DEF DebounceFires, RunWarm, ChecksInOrder
<1>3. CASE MidnightFires
  BY <1>0, <1>3 DEF MidnightFires, RunWarm, ChecksInOrder
<1>4. CASE WarmStep
  BY <1>4 DEF WarmStep, EndsStretch
<1>5. CASE WarmResumes
  BY <1>5 DEF WarmResumes
<1>6. CASE WarmEnds
  BY <1>6 DEF WarmEnds, Finally
<1>7. CASE WarmFails
  BY <1>7 DEF WarmFails, Finally
<1>8. CASE Poll
  BY <1>8 DEF Poll
<1>9. CASE Boot
  BY <1>9 DEF Boot
<1>10. CASE UNCHANGED vars
  <2>1. Idles
    BY <1>10 DEF Idles
  <2>2. awaits' = IF awaits = "entry" /\ Warm[step] \notin Keys' THEN "gone" ELSE awaits
    BY <1>10, TypeParts DEF AwaitsOK, vars, heldVars, Keys
  <2> QED
    BY <1>10, <2>1, <2>2 DEF vars
<1> QED
  BY <1>1, <1>2, <1>3, <1>4, <1>5, <1>6, <1>7, <1>8, <1>9, <1>10 DEF Next

(* What a lookup finds in the calm, with nothing untold, is right.           *)
LEMMA FoundIsRight ==
  ASSUME EntriesInv, Calm, Untold = {}, seen = version, CanLookUp,
         NEW k \in Key, AtRates(k)
  PROVE  \A u \in Content[k] : u[1] \in Input => u[2] = Now(u[1])
<1>1. TypeOK /\ Valid /\ counted /\ ~Behind
  BY DEF EntriesInv, WarmerTypeOK, CanLookUp, Valid, Behind, Calm
<1>2. SUFFICES ASSUME NEW u \in Content[k], u[1] \in Input PROVE u[2] = Now(u[1])
  OBVIOUS
<1>3. CASE u[1] = "rows"
  BY <1>1, <1>3, ContentOfRows DEF Now, Calm, EntriesInv
<1>4. CASE u[1] = "plain"
  BY <1>1, <1>4, ContentOfPlain DEF Now, Calm, EntriesInv
<1>5. CASE u[1] = "day"
  BY <1>1, <1>5, ContentOfToday DEF Now, EntriesInv
<1>6. CASE u[1] \in Quote
  <2>1. u[1] \notin {"rows", "plain", "day"}
    BY <1>6, CacheAssumption DEF CacheAssumption
  <2>2. Now(u[1]) = quote[u[1]]
    BY <2>1 DEF Now
  <2>3. u \in Rates(Content[k])
    BY <1>6 DEF Rates
  <2>4. AtPrice(u)
    <3>1. CASE Tier[k] = "inputs"
      BY <2>3, <3>1, LinesAtPrices DEF AtRates, EntriesInv
    <3>2. CASE Tier[k] # "inputs"
      <4>1. k \in Keys \cup Missing[k]
        BY MissingHasItself
      <4> QED
        BY <2>3, <3>2, <4>1, LookUpAtPrices DEF EntriesInv
    <3> QED
      BY <3>1, <3>2
  <2> QED
    BY <2>2, <2>4 DEF AtPrice
<1> QED
  BY <1>2, <1>3, <1>4, <1>5, <1>6 DEF Input

(* What was looked up in the calm stays right, when its entries stay.        *)
LEMMA BegunStays ==
  ASSUME EntriesInv, WarmSoFar, Calm, Untold = {}, Filled, UNCHANGED dataVars,
         NEW i \in Begun, Warm[i] \in Keys',
         Tier[Warm[i]] \in {"flows", "inputs"} => Keys \subseteq Keys'
  PROVE  StandsRight(i)' /\ left'[Warm[i]] = left[Warm[i]]
<1> DEFINE k == Warm[i]
<1>1. StandsRight(i)
  BY DEF WarmSoFar
<1>2. k \in Keys /\ RightOn(k, Input) /\ (Tier[k] \in {"flows", "inputs"} => LinesCompared)
  BY <1>1 DEF StandsRight
<1>3. cache'[k] = cache[k] /\ left'[k] = left[k]
  BY <1>2, ContentIs DEF Filled, EntriesInv, WarmerTypeOK, TypeOK
<1>4. \A j : Now(j)' = Now(j)
  BY DEF Now, dataVars
<1>5. RightOn(k, Input)'
  BY <1>2, <1>3, <1>4 DEF RightOn
<1>6. ASSUME Tier[k] \in {"flows", "inputs"} PROVE LinesCompared'
  BY <1>2, <1>6, RatesStay DEF LinesCompared
<1> QED
  BY <1>3, <1>5, <1>6 DEF StandsRight

(* The build of a bundle the warmer awaits, or of another, adds what is      *)
(* right.                                                                    *)
LEMMA BegunGrows ==
  ASSUME EntriesInv, WarmSoFar, Calm, Untold = {}, UNCHANGED dataVars,
         NEW k \in Key, NEW x \in Key \cup Input, Grown(k, x), NEW i \in Begun
  PROVE  /\ StandsRight(i)'
         /\ left[Warm[i]] = {} => left'[Warm[i]] = {}
<1>1. /\ StandsRight(i) /\ seen = version
      /\ k \in Keys /\ Keys' = Keys /\ CanLookUp /\ x \in left[k]
      /\ x \in Key => x \in Keys /\ AtRates(x)
  BY DEF WarmSoFar, Grown, Comes
<1>2. /\ Warm[i] \in Keys /\ RightOn(Warm[i], Input)
      /\ Tier[Warm[i]] \in {"flows", "inputs"} => LinesCompared
  BY <1>1 DEF StandsRight
<1>3. \A j : Now(j)' = Now(j)
  BY DEF Now, dataVars
<1>4. Tier[Warm[i]] \in {"flows", "inputs"} => LinesCompared'
  BY <1>2, GrownRatesStay DEF LinesCompared
<1>5. CASE Warm[i] = k
  <2>1. SUFFICES ASSUME NEW u \in cache'[k], u[1] \in Input PROVE u[2] = Now(u[1])
    BY <1>1, <1>2, <1>3, <1>4, <1>5 DEF StandsRight, RightOn
  <2>2. CASE u \in cache[k]
    BY <1>2, <1>5, <2>1, <2>2 DEF RightOn
  <2>3. CASE x \in Key /\ u \in cache[x]
    <3>1. Content[x] = cache[x]
      BY <1>1, <2>3, ContentIs
    <3> QED
      BY <1>1, <2>1, <2>3, <3>1, FoundIsRight
  <2>4. CASE u = <<x, Now(x)>>
    BY <2>4
  <2> QED
    BY <1>1, <2>1, <2>2, <2>3, <2>4, GrownFrom
<1>6. CASE Warm[i] # k
  <2>1. cache'[Warm[i]] = cache[Warm[i]] /\ left'[Warm[i]] = left[Warm[i]]
    BY <1>2, <1>6 DEF Grown
  <2> QED
    BY <1>1, <1>2, <1>3, <1>4, <2>1 DEF StandsRight, RightOn
<1> QED
  BY <1>5, <1>6

(* A step of the cache that writes nothing, in the calm.                     *)
LEMMA IdleStep ==
  ASSUME EntriesInv, WarmSoFar, Calm, Idles, Awaits, [Next]_vars,
         UNCHANGED <<step, lastWarmed, dataVars>>
  PROVE  /\ (warming /\ counted => seen = version)'
         /\ awaits' # "gone"
         /\ (Begun # {} => seen = version /\ cacheDay = today)'
         /\ (Untold = {})' => /\ \A i \in Begun' : StandsRight(i)'
                              /\ \A i \in Warmed' : left'[Warm[i]] = {}
<1>1. WarmerTypeOK /\ TypeOK
  BY DEF EntriesInv, WarmerTypeOK
<1>2. Warmed' = Warmed /\ warming' = warming /\ UNCHANGED <<version, today>>
  BY DEF Warmed, warming, Steps, dataVars
<1>3. /\ warming /\ counted => seen = version
      /\ awaits # "gone"
      /\ Begun # {} => seen = version /\ cacheDay = today
      /\ Untold = {} => /\ \A i \in Begun : StandsRight(i)
                        /\ \A i \in Warmed : left[Warm[i]] = {}
  BY DEF WarmSoFar
<1>4. \/ seen' = version' /\ cacheDay' = today'
      \/ seen' = seen /\ cacheDay' = cacheDay /\ (counted' => counted)
  BY <1>2 DEF Idles, CheckLog, CheckVersion, StretchEnds, EndsStretch, Build, FlightReads, SyncRates,
     checkVars, vars, cacheVars
\* A bundle that is awaited is dropped by none of these steps.
<1>5. awaits = "entry" => /\ Warm[step] \in Keys /\ Tier[Warm[step]] = "bundle" /\ step \in Begun
  <2>1. SUFFICES ASSUME awaits = "entry" PROVE Warm[step] \in Keys /\ Tier[Warm[step]] = "bundle"
    BY DEF Begun
  <2>2. step \in Steps /\ Later[Warm[step]] # {} /\ Warm[step] \in Keys
    BY <1>1, <2>1 DEF WarmerTypeOK
  <2> QED
    BY <1>1, <2>2, BuildersAssumption DEF BuildersAssumption, TypeOK
\* What the warmer stands for stays, and so do expense lines under it.
<1>6. ASSUME NEW k \in Keys, Begun # {},
             Tier[k] \in {"flows", "inputs"} => Untold = {} /\ LinesCompared
      PROVE  /\ k \in Keys'
             /\ Tier[k] \in {"flows", "inputs"} => Keys \subseteq Keys'
  <2>1. CASE CheckLog /\ ~Trims(head)
    BY <1>1, <1>6, <2>1, Dropped DEF CheckLog, Listened
  <2>2. CASE CheckVersion
    BY <1>1, <1>3, <1>6, <2>2, Untouched DEF CheckVersion
  <2>3. CASE StretchEnds \/ UNCHANGED vars
    BY <1>1, <1>6, <2>3, Untouched DEF StretchEnds, vars, cacheVars
  <2>4. CASE \E l \in Page \cup Asked : Build(l)
    BY <1>1, <1>6, <2>4, LookedUp, CacheAssumption DEF CacheAssumption, Asked, Build
  <2>5. CASE \E l \in Key : FlightReads(l)
    BY <1>1, <1>6, <2>5, Grew DEF Grown
  <2>6. CASE SyncRates
    <3>1. PICK l \in In({"inputs"}) :
            /\ OutOfRate(l)
            /\ Holds((Keys \cup UNION {Missing[c] : c \in Cards(l)}) \ In({"inputs", "flows"}))
      BY <2>6 DEF SyncRates
    <3>2. l \in Key /\ Tier[l] = "inputs"
      BY <1>1, <3>1 DEF In, TypeOK
    <3>3. Tier[k] \notin {"flows", "inputs"}
      BY <1>6, <3>1, <3>2 DEF LinesCompared
    <3>4. k \in Keys'
      BY <1>6, <3>1, <3>3 DEF Holds, Keys, In
    <3> QED
      BY <3>3, <3>4
  <2> QED
    BY <2>1, <2>2, <2>3, <2>4, <2>5, <2>6 DEF Idles
<1>7. awaits' = awaits
  BY <1>5, <1>6 DEF Awaits
<1>8. Begun' = Begun
  BY <1>2, <1>7 DEF Begun
<1>9. ASSUME Untold' = {}, NEW i \in Begun
      PROVE  StandsRight(i)' /\ (i \in Warmed => left'[Warm[i]] = {})
  <2>1. Untold = {}
    <3>1. CASE CheckVersion
      BY <1>3, <1>9, <3>1 DEF CheckVersion, Untold
    <3>2. CASE ~CheckVersion
      BY <1>9, <3>2 DEF Idles, CheckLog, StretchEnds, Build, FlightReads, SyncRates, vars, cacheVars,
         restVars, pollVars, Untold
    <3> QED
      BY <3>1, <3>2
  <2>2. StandsRight(i) /\ (i \in Warmed => left[Warm[i]] = {})
    BY <1>3, <1>9, <2>1
  <2>3. CASE Filled
    <3>1. /\ Warm[i] \in Keys'
          /\ Tier[Warm[i]] \in {"flows", "inputs"} => Keys \subseteq Keys'
      BY <1>6, <1>9, <2>1, <2>2 DEF StandsRight
    <3> QED
      BY <1>9, <2>1, <2>2, <2>3, <3>1, BegunStays
  <2>4. CASE \E k \in Key, x \in Key \cup Input : Grown(k, x)
    BY <1>9, <2>1, <2>2, <2>4, BegunGrows
  <2> QED
    BY <1>1, <2>3, <2>4, StepIsFilled
<1>10. Warmed \subseteq Begun
  BY DEF Begun
<1> QED
  BY <1>2, <1>3, <1>4, <1>7, <1>8, <1>9, <1>10

(* The warmer's own step.                                                    *)
LEMMA WarmStepWarms ==
  ASSUME EntriesInv, WarmSoFar, Calm, WarmStep
  PROVE  /\ ~counted' /\ awaits' # "gone"
         /\ (seen = version /\ cacheDay = today)'
         /\ (Untold = {})' => /\ \A i \in Begun' : StandsRight(i)'
                              /\ \A i \in Warmed' : left'[Warm[i]] = {}
<1>1. WarmerTypeOK /\ TypeOK
  BY DEF EntriesInv, WarmerTypeOK
<1>2. step \in Nat /\ Len(Warm) \in Nat
  BY <1>1, TypeParts, WarmerAssumption DEF NumbersOK, WarmerAssumption
<1>3. step \in Steps /\ awaits = "none" /\ LookUp(Warm[step]) /\ UNCHANGED dataVars
  BY DEF WarmStep
<1>4. PICK now \in Steps, k \in Key : now = step /\ k = Warm[now]
  BY <1>3, WarmerAssumption DEF WarmerAssumption, Steps
<1>5. ~counted' /\ UNCHANGED <<seen, cacheDay, version, today, Untold>>
  BY DEF WarmStep, EndsStretch, dataVars, restVars, pollVars, Untold
<1>6. Warmed = 1 .. step - 1 /\ Begun = Warmed /\ warming
  BY <1>2, <1>3 DEF Warmed, Begun, warming, Steps
<1>7. seen = version /\ cacheDay = today
  BY <1>3, <1>6 DEF WarmSoFar, LookUp, CanLookUp, Valid
<1>8. Filled /\ Keys \subseteq Keys' /\ k \in Keys' /\ CanLookUp /\ AtRates(k)
  BY <1>1, <1>3, <1>4, LookedUp DEF LookUp
\* The lookup is done, or waits for the build it has found or begun.
<1>9. /\ awaits' # "gone"
      /\ \A i \in Begun' : i = now \/ i \in Warmed
      /\ \A i \in Warmed' : (i = now /\ left'[k] = {}) \/ i \in Warmed
  <2>1. CASE left'[k] = {}
    <3>1. step' = step + 1 /\ awaits' = "none"
      BY <1>3, <1>4, <2>1 DEF WarmStep
    <3>2. Warmed' = 1 .. step /\ Begun' = Warmed'
      BY <1>2, <1>3, <3>1 DEF Warmed, Begun, warming, Steps
    <3> QED
      BY <1>2, <1>4, <1>6, <2>1, <3>1, <3>2
  <2>2. CASE left'[k] # {}
    <3>1. step' = step /\ awaits' = "entry"
      BY <1>4, <2>2 DEF WarmStep
    <3>2. Warmed' = Warmed /\ Begun' = Warmed \cup {step}
      BY <1>6, <3>1 DEF Warmed, Begun, warming, Steps
    <3> QED
      BY <1>4, <3>1, <3>2
  <2> QED
    BY <2>1, <2>2
<1>10. SUFFICES ASSUME Untold = {}
                PROVE  /\ StandsRight(now)'
                       /\ \A i \in Warmed : StandsRight(i)' /\ left'[Warm[i]] = {}
  BY <1>4, <1>5, <1>7, <1>9
<1>11. RightOn(k, Input)'
  <2>1. \A j : Now(j)' = Now(j)
    BY <1>3 DEF Now, dataVars
  <2>2. cache'[k] = Content[k]
    BY <1>8 DEF Filled
  <2> QED
    BY <1>7, <1>8, <1>10, <2>1, <2>2, FoundIsRight DEF RightOn
<1>12. ASSUME Tier[k] \in {"flows", "inputs"} PROVE LinesCompared'
  <2>1. SUFFICES ASSUME NEW l \in Key, Tier[l] = "inputs" PROVE ~OutOfRate(l)'
    BY DEF LinesCompared
  <2>2. l \in {k} \cup Parts[k]
    BY <1>3, <1>4, <1>12, <2>1, WarmerAssumption DEF WarmerAssumption, Steps
  <2>3. ~OutOfRate(l)
    BY <1>8, <2>1, <2>2 DEF AtRates
  <2> QED
    BY <1>3, <1>8, <2>3, RatesStay
<1>13. StandsRight(now)'
  <2>1. Warm[now] \in Keys' /\ RightOn(Warm[now], Input)'
    BY <1>4, <1>8, <1>11
  <2> QED
    BY <1>4, <1>12, <2>1 DEF StandsRight
<1>14. ASSUME NEW i \in Warmed PROVE StandsRight(i)' /\ left'[Warm[i]] = {}
  <2>1. i \in Begun /\ StandsRight(i) /\ left[Warm[i]] = {}
    BY <1>6, <1>10, <1>14 DEF WarmSoFar
  <2>2. Warm[i] \in Keys'
    BY <1>8, <2>1 DEF StandsRight
  <2> QED
    BY <1>3, <1>8, <1>10, <2>1, <2>2, BegunStays
<1> QED
  BY <1>13, <1>14

(* What is awaited becomes warmed, and a warm's entries those of the rest.   *)
LEMMA WarmGoesOn ==
  ASSUME EntriesInv, WarmSoFar, Calm, WarmResumes \/ WarmEnds
  PROVE  /\ UNCHANGED <<heldVars, seen, cacheDay, counted, pollVars, dataVars>>
         /\ warming' => warming
         /\ awaits' = "none" /\ Begun' = Begun
         /\ Warmed' = Begun' /\ (Untold = {} => \A i \in Begun : left[Warm[i]] = {})
<1>1. WarmerTypeOK /\ step \in Nat /\ Len(Warm) \in Nat
  BY TypeParts, WarmerAssumption DEF EntriesInv, NumbersOK, WarmerAssumption
<1>2. awaits # "gone" /\ (Untold = {} => \A i \in Warmed : left[Warm[i]] = {})
  BY DEF WarmSoFar
<1>3. CASE WarmResumes
  <2>1. /\ step \in Steps /\ awaits = "entry" /\ left[Warm[step]] = {}
        /\ step' = step + 1 /\ awaits' = "none" /\ UNCHANGED cacheVars
    BY <1>2, <1>3 DEF WarmResumes
  <2>2. Begun = 1 .. step /\ Warmed' = 1 .. step /\ Begun' = Warmed' /\ warming
    BY <1>1, <2>1 DEF Begun, Warmed, warming, Steps
  <2>3. \A i \in Begun : i = step \/ i \in Warmed
    BY <2>1 DEF Begun
  <2> QED
    BY <1>2, <2>1, <2>2, <2>3 DEF cacheVars, checkVars, restVars
<1>4. CASE WarmEnds
  <2>1. /\ step = Len(Warm) + 1 /\ step' = 0 /\ awaits' = "none" /\ lastWarmed' = version
        /\ UNCHANGED <<dataVars, heldVars, checkVars, restVars>>
    BY <1>4 DEF WarmEnds, Finally
  <2>2. awaits = "none"
    BY <1>1, <2>1 DEF WarmerTypeOK, Steps
  <2>3. Warmed = Steps /\ Begun = Steps /\ Warmed' = Steps /\ Begun' = Steps /\ ~warming'
    BY <1>1, <2>1, <2>2 DEF Warmed, Begun, warming, Steps, dataVars
  <2> QED
    BY <1>2, <2>1, <2>3 DEF checkVars, restVars
<1> QED
  BY <1>3, <1>4

LEMMA WarmerStep ==
  ASSUME EntriesInv, WarmSoFar, [Next]_vars
  PROVE  WarmSoFar'
<1>1. WarmerTypeOK /\ ChecksInOrder /\ WarmerTypeOK'
  BY TypeStep DEF EntriesInv
<1>2. SUFFICES ASSUME Calm'
               PROVE  /\ (warming /\ counted => seen = version)'
                      /\ awaits' # "gone"
                      /\ (Begun # {} => seen = version /\ cacheDay = today)'
                      /\ (Untold = {})' => /\ \A i \in Begun' : StandsRight(i)'
                                           /\ \A i \in Warmed' : left'[Warm[i]] = {}
  BY DEF WarmSoFar
<1>3. CASE ~counted' /\ step' = 1 /\ awaits' = "none"
  <2>1. Warmed' = {} /\ Begun' = {}
    BY <1>3 DEF Warmed, Begun, warming
  <2> QED
    BY <1>3, <2>1
<1>4. CASE ~warming' /\ version' # lastWarmed'
  <2>1. awaits' = "none"
    BY <1>1, <1>4 DEF WarmerTypeOK, warming, Steps
  <2>2. Warmed' = {} /\ Begun' = {}
    BY <1>4, <2>1 DEF Warmed, Begun
  <2> QED
    BY <1>4, <2>1, <2>2
<1>5. CASE Calm /\ Idles /\ Awaits /\ UNCHANGED <<step, lastWarmed, dataVars>>
  BY <1>5, IdleStep
<1>6. CASE Calm /\ Stores /\ Awaits /\ UNCHANGED <<step, lastWarmed>>
  <2>1. /\ Untold' # {} /\ Keys' = Keys
        /\ UNCHANGED <<seen, cacheDay, version, today>> /\ (counted' => counted)
    BY <1>6 DEF Stores, heldVars, Keys
  <2>2. awaits' = awaits
    BY <1>1, <1>6, <2>1 DEF Awaits, WarmerTypeOK
  <2>3. Warmed' = Warmed /\ Begun' = Begun /\ warming' = warming
    BY <1>6, <2>1, <2>2 DEF Warmed, Begun, warming, Steps
  <2> QED
    BY <1>6, <2>1, <2>2, <2>3 DEF WarmSoFar
<1>7. CASE Calm /\ WarmStep
  BY <1>7, WarmStepWarms
<1>8. CASE Calm /\ (WarmResumes \/ WarmEnds)
  <2>1. /\ UNCHANGED <<heldVars, seen, cacheDay, counted, pollVars, dataVars>>
        /\ warming' => warming
        /\ awaits' = "none" /\ Begun' = Begun
        /\ Warmed' = Begun' /\ (Untold = {} => \A i \in Begun : left[Warm[i]] = {})
    BY <1>8, WarmGoesOn
  <2>2. /\ (warming /\ counted => seen = version)'
        /\ (Begun # {} => seen = version /\ cacheDay = today)'
    BY <1>8, <2>1 DEF WarmSoFar, dataVars
  <2>3. Untold' = Untold /\ left' = left
    BY <2>1 DEF Untold, pollVars, heldVars
  <2>4. ASSUME Untold = {}, NEW i \in Begun PROVE StandsRight(i)'
    <3>1. Filled /\ Keys' = Keys
      BY <1>1, <2>1, Untouched, KeptIsFilled DEF WarmerTypeOK
    <3>2. Warm[i] \in Keys
      BY <1>8, <2>4 DEF WarmSoFar, StandsRight
    <3> QED
      BY <1>8, <2>1, <2>4, <3>1, <3>2, BegunStays
  <2> QED
    BY <2>1, <2>2, <2>3, <2>4
<1> QED
  BY <1>1, <1>2, <1>3, <1>4, <1>5, <1>6, <1>7, <1>8, CalmSteps

-----------------------------------------------------------------------------
(* The theorems.                                                             *)

LEMMA CacheInit == WarmerInit => CacheInv
<1> SUFFICES ASSUME WarmerInit PROVE CacheInv
  OBVIOUS
<1> USE DEF WarmerInit, Init
<1>1. DOMAIN cache = {} /\ DOMAIN reads = {} /\ DOMAIN left = {}
  OBVIOUS
<1>2. WarmerTypeOK
  <2>1. Len(Warm) \in Nat
    BY WarmerAssumption DEF WarmerAssumption
  <2>2. NumbersOK
    BY <2>1, CacheAssumption DEF CacheAssumption, NumbersOK, None
  <2>3. FlagsOK /\ AwaitsOK
    BY DEF FlagsOK, AwaitsOK
  <2> QED
    BY <1>1, <2>2, <2>3, TypeParts DEF Keys
<1>3. /\ PricesInNodes /\ PricesAreLive
      /\ OfItsDay /\ PlainIsDropped /\ RowsAreKnown /\ PricesAreCurrent
  BY <1>1 DEF PricesInNodes, PricesAreLive, OfItsDay, PlainIsDropped, RowsAreKnown,
     PricesAreCurrent, Keys
<1>4. ChecksInOrder
  BY <1>1 DEF ChecksInOrder, Keys, None
<1>5. WarmSoFar
  <2>1. Warmed = {} /\ Begun = {}
    BY DEF Warmed, Begun, warming, None
  <2> QED
    BY <2>1 DEF WarmSoFar
<1> QED
  BY <1>2, <1>3, <1>4, <1>5 DEF CacheInv

LEMMA CacheStepInv == CacheInv /\ [Next]_vars => CacheInv'
<1> SUFFICES ASSUME CacheInv, [Next]_vars PROVE CacheInv'
  OBVIOUS
<1>1. EntriesInv /\ WarmSoFar
  BY DEF CacheInv, EntriesInv
<1>2. EntriesInv' /\ WarmSoFar'
  BY <1>1, EntriesStep, WarmerStep
<1> QED
  BY <1>2 DEF CacheInv, EntriesInv

(* Every entry, a bundle in flight included, is right, or known to be wrong  *)
(* by what is going to drop it - or holds a price or, of the months, rows    *)
(* that a poll has stored and has not published, which nothing may.          *)
THEOREM CacheInvariant == Spec => []CacheInv
BY CacheInit, CacheStepInv, PTL DEF Spec

(* Every variable of the cache and of its warmer has its type.               *)
THEOREM WarmerTypeCorrect == Spec => []WarmerTypeOK
<1>1. CacheInv => WarmerTypeOK
  BY DEF CacheInv
<1> QED
  BY <1>1, CacheInvariant, PTL

(* A tick finds what it outdates: for any builders, however deep one entry   *)
(* is made of others, whichever of them were held when it was built, and     *)
(* whatever a bundle in flight has read since, an entry's node names the     *)
(* prices in it (cacheDependencies.ts), and no entry of the history tier     *)
(* holds one.                                                                *)
THEOREM NodesTellPrices == Spec => []PricesAreRecorded
<1>1. CacheInv => PricesAreRecorded
  BY DEF CacheInv, PricesInNodes, PricesAreRecorded
<1> QED
  BY <1>1, CacheInvariant, PTL

(* What a lookup serves is what a rebuild would return, but for what the     *)
(* property names, prices a poll has not published among it                  *)
(* (getAggregationCached).                                                   *)
THEOREM LookupsServeRight == Spec => []ServesRight
<1>1. CacheInv => ServesRight
  <2>1. SUFFICES ASSUME CacheInv, Valid, ~checking, seen = version, ~skipped,
                        NEW k \in Keys, NEW p \in cache[k], p[1] \in Input,
                        answering => p[1] # "plain", p[1] \notin Untold,
                        Tier[k] = "inputs" => p[1] \notin Quote,
                        Behind /\ Tier[k] \in MonthTiers => p[1] # "rows"
                 PROVE  p[2] = Now(p[1])
    BY DEF ServesRight, RightOn
  <2>2. CASE p[1] = "rows"
    BY <2>1, <2>2 DEF CacheInv, RowsAreKnown, RowIsKnown, Valid, Now
  <2>3. CASE p[1] = "plain"
    BY <2>1, <2>3 DEF CacheInv, PlainIsDropped, Now
  <2>4. CASE p[1] = "day"
    BY <2>1, <2>4 DEF CacheInv, OfItsDay, Valid, Now
  <2>5. CASE p[1] \in Quote
    <3>1. p[1] \notin {"rows", "plain", "day"}
      BY <2>5, CacheAssumption DEF CacheAssumption
    <3>2. Now(p[1]) = quote[p[1]]
      BY <3>1 DEF Now
    <3> QED
      BY <2>1, <2>5, <3>2 DEF CacheInv, PricesAreCurrent, Rates, AtPrice
  <2> QED
    BY <2>1, <2>2, <2>3, <2>4, <2>5 DEF Input
<1> QED
  BY <1>1, CacheInvariant, PTL

(* No invalidation is forgotten: a warmer at rest, with nothing a poll       *)
(* stored left unpublished, has its pages cached, whole and right, whatever  *)
(* came before, during or after its warms, stretches of the bundles' builds  *)
(* included (dashboardCacheWarmer.ts).                                       *)
THEOREM WarmerRestsWarm == Spec => []RestIsWarm
<1>1. CacheInv => RestIsWarm
  <2>1. SUFFICES ASSUME CacheInv, ~warming, ~debounce, ~midnight, lastWarmed = version, ~excused,
                        ~answering, ~owed, Untold = {}, ~skipped
                 PROVE  \A i \in Steps : /\ Warm[i] \in Keys /\ left[Warm[i]] = {}
                                         /\ RightOn(Warm[i], Input)
    BY DEF RestIsWarm
  <2>2. ~rewarm /\ awaits = "none"
    BY <2>1 DEF CacheInv, WarmerTypeOK, warming, Steps
  <2>3. Calm /\ Warmed = Steps /\ Begun = Steps
    BY <2>1, <2>2 DEF Calm, Warmed, Begun
  <2> QED
    BY <2>1, <2>3 DEF CacheInv, WarmSoFar, StandsRight
<1> QED
  BY <1>1, CacheInvariant, PTL

=============================================================================
