-------------------------- MODULE AggregationCache --------------------------
(* The in-process cache of aggregates (aggregationCache.ts): what a lookup   *)
(* checks before it serves an entry, what each kind of write drops, and the  *)
(* live inputs an entry records while it is built (cacheDependencies.ts), so *)
(* that a price tick drops only what read that price.                        *)
(*                                                                           *)
(* An entry is the set of <<input, value>> pairs its build read, those of    *)
(* the cached parts it used included; it is right while every value is still *)
(* the current one. Parts and Direct stand for the builders, which are other *)
(* modules: they say what each build looks up and what it reads itself. A    *)
(* page bundle is cached as a promise while its build goes on over several   *)
(* stretches: its entry is there from the first of them, and grows.          *)
(*                                                                           *)
(* The series of daily marks are in MarkInputs: here their log is its last   *)
(* id.                                                                       *)
EXTENDS Integers, FiniteSets, Functions, TLC

CONSTANTS
  Key,      \* cached entries
  Page,     \* those a request asks for; the others are parts of them
  Tier,     \* the prefix each key falls under
  Parts,    \* keys looked up by the build of a key
  Direct,   \* inputs the build of a key reads itself
  Later,    \* what it looks up or reads in the stretches that follow the first
  Quote,    \* live prices
  LiveFx,   \* the dollar's
  MaxRows, MaxPlain, MaxCommits, MaxTicks, LastDay  \* bounds on the writes

Tiers == {"hist", "live", "daily", "perf", "card", "depto", "bundle", "inputs", "flows"}
Input == {"rows", "plain", "day"} \cup Quote
None  == -1

ASSUME CacheAssumption ==
  /\ Page \subseteq Key /\ LiveFx \in Quote
  /\ Quote \cap {"rows", "plain", "day", "close"} = {} /\ Key \cap Input = {}
  /\ Tier \in [Key -> Tiers]
  /\ Parts \in [Key -> SUBSET Key]
  /\ Direct \in [Key -> SUBSET Input]
  /\ Later \in [Key -> SUBSET (Key \cup Input)]
  /\ {MaxRows, MaxPlain, MaxCommits, MaxTicks} \subseteq Nat /\ LastDay \in Nat \ {0}

\* The prefixes each invalidation drops. The daily series, the ledgers and the
\* cards come back from the log's listener; the months wait for the sync's.
ListenerTiers   == {"hist", "live", "daily", "depto", "card", "bundle", "inputs", "flows"}
AccountTiers    == Tiers
HistoricalTiers == {"live", "perf", "bundle", "inputs", "flows", "hist", "daily"}
LiveTailTiers   == {"live", "perf", "bundle", "flows", "daily", "card"}
ApiTiers        == {"flows", "inputs", "bundle"}
MonthTiers      == {"perf", "bundle", "flows"}

\* What the builders keep to, and the invalidations count on: no build asks for
\* itself; the memos of the past read no price; and what is built on a row no
\* funnel covers, on the months or on a price is of a tier dropped with it (the
\* expense lines, which are compared instead, take their prices of the cards).
ClosedUp(tiers) == \A k \in Key : (\E p \in Parts[k] : Tier[p] \in tiers) => Tier[k] \in tiers

ASSUME BuildersAssumption ==
  /\ \A S \in SUBSET Key : S # {} => \E k \in S : Parts[k] \cap S = {}
  /\ \A k \in Key :
       /\ Tier[k] = "hist" => Direct[k] \cap Quote = {} /\ Parts[k] = {}
       /\ Direct[k] \cap Quote # {} => Tier[k] \in LiveTailTiers
       /\ "plain" \in Direct[k] => Tier[k] \in ApiTiers
       /\ Tier[k] = "inputs" => \E c \in Parts[k] : Tier[c] = "card"
  \* Only page bundles are promises, and no build looks one up.
  /\ \A k \in Key : Later[k] # {} =>
       Tier[k] = "bundle" /\ \A l \in Key : k \notin Parts[l] \cup Later[l]
  /\ ClosedUp(ApiTiers) /\ ClosedUp(MonthTiers) /\ ClosedUp(LiveTailTiers \cup {"inputs"})

VARIABLES
  head,      \* the last id of mark_input_changes; its rows' content
  plain,     \* content of the rows outside the log (labels, categories, plans)
  today,     \* Chile calendar day
  quote,     \* live_market_quotes: the price of each symbol
  version,   \* PRAGMA data_version: commits of other connections
  cache,     \* the entries held, and the memos of the live tier (which the
             \* turn of the minute also drops: dropping more is always safe)
  reads,     \* the quotes each entry recorded (its CacheDepNode)
  left,      \* what the build of each entry, if it still runs, has to read yet
  applied,   \* lastAppliedId of the log's consumer
  skipped,   \* a row was logged under an id the consumer counts as applied
  cacheDay,  \* cacheDayYmd
  seen,      \* cacheDbDataVersion
  checked,   \* checkedInStretch
  counted,   \* checkedAtWriteCount equals the connection's write count
  checking,  \* between the two queries of ensureCacheFreshForChileDay
  owed,      \* a sync wrote rows and has not called its invalidation yet
  answering, \* an API write has not finished its response
  moved,     \* what the running poll has stored and not published yet: quotes
             \* that changed, "close" for the day's close of the dollar
  unheard,   \* what was stored so and, after an error, nobody will publish
  debounce,  \* the warmer's debounceTimer, armed by the invalidation listener
  ticks      \* bound: live ticks

dataVars  == <<head, plain, today, quote, version, ticks>>
heldVars  == <<cache, reads, left>>
checkVars == <<cacheDay, seen, checked, counted, checking>>
pollVars  == <<moved, unheard>>
restVars  == <<owed, answering, pollVars>>
cacheVars == <<dataVars, heldVars, applied, skipped, checkVars, restVars, debounce>>

Now(i) == CASE i = "rows" -> head [] i = "plain" -> plain
            [] i = "day" -> today [] OTHER -> quote[i]

Keys == DOMAIN cache

\* What an entry may be behind on: prices; the months also on the rows that a
\* sync or a day's close stored.
Untold == moved \cup unheard
Behind == owed \/ "close" \in Untold

TypeOK ==
  /\ head \in 0 .. MaxRows /\ plain \in 0 .. MaxPlain /\ today \in 1 .. LastDay
  /\ quote \in [Quote -> 0 .. 1] /\ version \in 0 .. MaxCommits /\ ticks \in 0 .. MaxTicks
  /\ Keys \subseteq Key /\ \A k \in Keys : cache[k] \subseteq Input \X Int
  /\ DOMAIN reads = Keys /\ \A k \in Keys : reads[k] \subseteq Quote
  /\ DOMAIN left = Keys /\ \A k \in Keys : left[k] \subseteq Later[k]
  /\ Untold \subseteq Quote \cup {"close"}
  /\ applied \in Nat \cup {None} /\ seen \in Nat \cup {None}
  /\ cacheDay \in 1 .. LastDay \cup {None}
  /\ {skipped, checked, counted, checking, owed, answering, debounce} \subseteq BOOLEAN

Init ==
  /\ head = 0 /\ plain = 0 /\ today = 1 /\ quote = [q \in Quote |-> 0] /\ version = 0 /\ ticks = 0
  /\ cache = << >> /\ reads = << >> /\ left = << >>
  /\ applied = None /\ skipped = FALSE
  /\ cacheDay = None /\ seen = None
  /\ checked = FALSE /\ counted = FALSE /\ checking = FALSE
  /\ owed = FALSE /\ answering = FALSE /\ moved = {} /\ unheard = {}
  /\ debounce = FALSE

-----------------------------------------------------------------------------
(* What an invalidation drops.                                               *)

In(tiers)     == {k \in Keys : Tier[k] \in tiers}
Affected(q)   == {k \in In(LiveTailTiers) : q \in reads[k]}
Drop(dropped) == /\ cache' = Restrict(cache, Keys \ dropped)
                 /\ reads' = Restrict(reads, Keys \ dropped)
                 /\ left' = Restrict(left, Keys \ dropped)

\* applyPendingMarkInputChanges when the log's head is h; the first use takes
\* the head as applied. Its listener drops what was built on the trimmed marks.
Trims(h)      == applied # None /\ h > applied
Consumed(h)   == IF h > applied THEN h ELSE applied
Listened(h)   == IF Trims(h) THEN In(ListenerTiers) ELSE {}

Logs == /\ head < MaxRows
        /\ head' = head + 1
        /\ skipped' = (skipped \/ head < applied)

-----------------------------------------------------------------------------
(* ensureCacheFreshForChileDay: skipped within a synchronous stretch unless  *)
(* this connection wrote; otherwise the log is applied, then data_version is *)
(* read. Another process can commit between the two queries.                 *)

Valid == checked /\ counted /\ cacheDay = today

CheckLog ==
  /\ ~checking /\ ~Valid
  /\ checking' = TRUE /\ checked' = TRUE /\ counted' = FALSE
  /\ applied' = Consumed(head)
  /\ Drop(Listened(head))
  /\ debounce' = (debounce \/ Trims(head))
  /\ UNCHANGED <<dataVars, skipped, cacheDay, seen, restVars>>

CheckVersion ==
  /\ checking
  /\ checking' = FALSE /\ counted' = TRUE
  /\ cacheDay' = today /\ seen' = version
  /\ IF cacheDay # today \/ seen # version
     THEN Drop(Keys) /\ unheard' = {}
     ELSE UNCHANGED <<heldVars, unheard>>
  /\ UNCHANGED <<dataVars, applied, skipped, checked, owed, answering, moved, debounce>>

\* The next microtask. (The write count is only compared within a stretch.)
EndsStretch == checked' = FALSE /\ counted' = FALSE

StretchEnds ==
  /\ checked /\ ~checking
  /\ EndsStretch
  /\ UNCHANGED <<dataVars, heldVars, applied, skipped, cacheDay, seen, checking,
                 restVars, debounce>>

-----------------------------------------------------------------------------
(* A lookup: the entry held, or one made of what its build reads now and of  *)
(* what its parts hold, built on the way where they are missing. Its node is *)
(* linked to theirs, hit or miss; the history tier keeps none.               *)

Content[k \in Key] ==
  IF k \in Keys THEN cache[k]
  ELSE {<<i, Now(i)>> : i \in Direct[k]} \cup UNION {Content[p] : p \in Parts[k]}

Node[k \in Key] ==
  IF k \in Keys THEN reads[k]
  ELSE (Direct[k] \cap Quote) \cup UNION {Node[p] : p \in Parts[k]}

Missing[k \in Key] ==
  IF k \in Keys THEN {} ELSE {k} \cup UNION {Missing[p] : p \in Parts[k]}

\* The expense lines are kept over a tick, and compared with the cards' live
\* rate whenever they are asked for (syncFlowsInputsWithLiveUsdRates).
Rates(of)    == {p \in of : p[1] \in Quote}
Cards(k)     == {c \in Parts[k] : Tier[c] = "card"}
OutOfRate(k) == \E c \in Cards(k) : Rates(Content[c]) # Rates(Content[k])

\* What is left of the builds once the entries of keys are held.
Leaves(keys) == left' = [k \in keys |-> IF k \in Keys THEN left[k] ELSE Later[k]]

Holds(keys) == /\ cache' = [k \in keys |-> Content[k]]
               /\ reads' = [k \in keys |-> Node[k]]
               /\ Leaves(keys)

CanLookUp == Valid /\ ~checking

\* Whatever the lookup asks for on the way, expense lines held included, is
\* compared first.
AtRates(k) == \A p \in {k} \cup Parts[k] \cup UNION {Parts[m] : m \in Missing[k]} :
                Tier[p] = "inputs" => ~OutOfRate(p)

LookUp(k) == CanLookUp /\ AtRates(k) /\ Holds(Keys \cup Missing[k])

\* What builds in flight look up. One goes on when its entry is dropped, and
\* may then look up or reject at any later time: it is not followed further.
Asked == Key \cap UNION {Later[k] : k \in Key}

Build(k) ==
  /\ k \notin Keys
  /\ LookUp(k)
  /\ UNCHANGED <<dataVars, applied, skipped, checkVars, restVars, debounce>>

\* What the build in flight of k comes to next: a part it has looked up (Build,
\* where it was missing) or an input it reads itself. (No stretch of it goes
\* without a lookup, so what it reads itself has been checked as well.)
Comes(k, x) == /\ k \in Keys /\ x \in left[k]
               /\ CanLookUp
               /\ x \in Key => x \in Keys /\ AtRates(x)

Takes(k, x) == [cache EXCEPT ![k] = @ \cup IF x \in Key THEN cache[x] ELSE {<<x, Now(x)>>}]

\* Mutant: nodes are copied when an entry is made, so its later reads are lost.
FlightReadsUnlinked(k) ==
  /\ \E x \in Later[k] :
       Comes(k, x) /\ cache' = Takes(k, x) /\ left' = [left EXCEPT ![k] = @ \ {x}]
  /\ UNCHANGED <<dataVars, reads, applied, skipped, checkVars, restVars, debounce>>

\* The build goes on: its entry and its node grow.
FlightReads(k) ==
  /\ \E x \in Later[k] :
       /\ Comes(k, x)
       /\ cache' = Takes(k, x)
       /\ reads' = [reads EXCEPT ![k] = @ \cup IF x \in Key THEN reads[x] ELSE {x} \cap Quote]
       /\ left' = [left EXCEPT ![k] = @ \ {x}]
  /\ UNCHANGED <<dataVars, applied, skipped, checkVars, restVars, debounce>>

\* A build rejects, its entry still held or not: every bundle goes.
FlightFails ==
  /\ ~checking /\ In({"bundle"}) # {}
  /\ Drop(In({"bundle"}))
  /\ UNCHANGED <<dataVars, applied, skipped, checkVars, restVars, debounce>>

SyncRates ==
  /\ CanLookUp
  /\ \E k \in In({"inputs"}) :
       /\ OutOfRate(k)
       /\ Holds((Keys \cup UNION {Missing[c] : c \in Cards(k)}) \ In({"inputs", "flows"}))
  /\ UNCHANGED <<dataVars, applied, skipped, checkVars, restVars, debounce>>

-----------------------------------------------------------------------------
(* Writes of this connection; each runs its invalidations before it returns. *)

\* Mutant: the check is asked once per stretch, whatever was written since.
WroteUnnoticed == UNCHANGED counted

Wrote == counted' = FALSE   \* noteDbWrite

\* A row of a watched table and invalidateAggregationForAccountDate.
AccountWrite ==
  /\ ~checking
  /\ Logs
  /\ applied' = Consumed(head')
  /\ Drop(In(AccountTiers))
  /\ Wrote /\ debounce' = TRUE
  /\ UNCHANGED <<plain, today, quote, version, ticks, cacheDay, seen, checked, checking, restVars>>

\* A sync stores closes or rates in one of its steps, and calls
\* invalidateMarketDataAggregations("historical") after a later await.
SyncWrite ==
  /\ ~checking
  /\ Logs
  /\ owed' = TRUE /\ Wrote
  /\ UNCHANGED <<plain, today, quote, version, ticks, heldVars, applied, cacheDay, seen,
                 checked, checking, answering, pollVars, debounce>>

SyncAnnounces ==
  /\ ~checking /\ owed
  /\ applied' = Consumed(head)
  /\ Drop(In(HistoricalTiers) \cup Listened(head))
  /\ owed' = FALSE /\ unheard' = unheard \ {"close"}
  /\ debounce' = TRUE
  /\ UNCHANGED <<dataVars, skipped, checkVars, answering, moved>>

\* An API write of rows no funnel covers; index.ts drops the responses that
\* read them when the answer is sent. One such write at a time (a bound).
ApiWrite ==
  /\ ~checking /\ ~answering /\ plain < MaxPlain
  /\ plain' = plain + 1
  /\ answering' = TRUE /\ Wrote
  /\ UNCHANGED <<head, today, quote, version, ticks, heldVars, applied, skipped, cacheDay,
                 seen, checked, checking, owed, pollVars, debounce>>

ApiFinishes ==
  /\ ~checking /\ answering
  /\ Drop(In(ApiTiers))
  /\ answering' = FALSE
  /\ UNCHANGED <<dataVars, applied, skipped, checkVars, owed, pollVars, debounce>>

\* A report transaction (applyMortgageSheetPayments): a row is written and
\* announced, the depto ledger is read again, and all of it is rolled back;
\* the rows that reading used are not the database's (None). The finally drops
\* what was built meanwhile.
Report ==
  /\ ~checking
  /\ applied' = Consumed(head + 1)
  /\ LET depto == {k \in Key : Tier[k] = "depto"}
         mid   == [k \in depto \cup (Keys \ In(AccountTiers)) |->
                     IF k \in depto THEN {<<"rows", None>>} ELSE cache[k]]
         after == {k \in DOMAIN mid : Tier[k] \notin AccountTiers}
     IN  /\ cache' = Restrict(mid, after)
         /\ reads' = [k \in after |-> {}]
         /\ left' = [k \in after |-> {}]
  /\ Wrote /\ debounce' = TRUE
  /\ UNCHANGED <<dataVars, skipped, cacheDay, seen, checked, checking, restVars>>

-----------------------------------------------------------------------------
(* Live prices. The stream stores prices and drops what read them in one     *)
(* stretch; the poll stores each in a stretch of its own, between its awaits *)
(* of the source, and publishes them all at its end. The warmer's listener   *)
(* ignores either.                                                           *)

Moves(q) ==
  /\ ~checking /\ ticks < MaxTicks
  /\ quote' = [quote EXCEPT ![q] = 1 - @]
  /\ ticks' = ticks + 1
  /\ Wrote
  /\ UNCHANGED <<head, plain, today, version, applied, skipped, cacheDay, seen, checked,
                 checking, owed, answering, debounce>>

StreamTick(q) ==
  /\ Moves(q)
  /\ Drop(Affected(q))
  /\ unheard' = unheard \ {q}
  /\ UNCHANGED moved

PollWrites(q) ==
  /\ Moves(q)
  /\ moved' = moved \cup {q}
  /\ UNCHANGED <<heldVars, unheard>>

\* Of the poll or the stream: the row is stored, and something throws before it
\* is noted: clearing the symbol's error (which its caller takes for a failure),
\* or, in the stream, recording the error of another.
WriteFails(q) ==
  /\ Moves(q)
  /\ unheard' = unheard \cup {q}
  /\ UNCHANGED <<heldVars, moved>>

\* The first poll after the dollar's day ends stores its close, a row of a
\* watched table; what it mirrors into the live table is a PollWrites.
PollCloses ==
  /\ ~checking
  /\ Logs
  /\ moved' = moved \cup {"close"}
  /\ Wrote
  /\ UNCHANGED <<plain, today, quote, version, ticks, heldVars, applied, cacheDay, seen, checked,
                 checking, owed, answering, unheard, debounce>>

\* publishLiveQuoteChanges: only what read a price that moved goes, or, with a
\* close, all that a tick can reach.
PollPublishes ==
  /\ ~checking /\ moved # {}
  /\ IF "close" \in moved
     THEN Drop(In(LiveTailTiers)) /\ unheard' = {}
     ELSE Drop(UNION {Affected(q) : q \in moved}) /\ unheard' = unheard \ moved
  /\ moved' = {}
  /\ UNCHANGED <<dataVars, applied, skipped, checkVars, owed, answering, debounce>>

\* Something throws before that; the next poll finds the prices as stored.
PollFails ==
  /\ ~checking /\ moved # {}
  /\ unheard' = Untold /\ moved' = {}
  /\ UNCHANGED <<dataVars, heldVars, applied, skipped, checkVars, owed, answering, debounce>>

-----------------------------------------------------------------------------
(* Another connection commits at any time: rows of watched tables or others. *)

OtherCommit ==
  /\ version < MaxCommits
  /\ version' = version + 1
  /\ \/ Logs /\ UNCHANGED plain
     \/ plain < MaxPlain /\ plain' = plain + 1 /\ UNCHANGED <<head, skipped>>
  /\ UNCHANGED <<today, quote, ticks, heldVars, applied, checkVars, restVars, debounce>>

NewDay ==
  /\ ~checking /\ today < LastDay
  /\ today' = today + 1
  /\ UNCHANGED <<head, plain, quote, version, ticks, heldVars, applied, skipped, checkVars,
                 restVars, debounce>>

CacheNext ==
  \/ CheckLog \/ CheckVersion \/ StretchEnds
  \/ \E k \in Page \cup Asked : Build(k)
  \/ \E k \in Key : FlightReads(k)
  \/ FlightFails \/ SyncRates
  \/ AccountWrite \/ SyncWrite \/ SyncAnnounces \/ ApiWrite \/ ApiFinishes \/ Report
  \/ \E q \in Quote : StreamTick(q) \/ PollWrites(q) \/ WriteFails(q)
  \/ PollCloses \/ PollPublishes \/ PollFails
  \/ OtherCommit
  \/ NewDay

-----------------------------------------------------------------------------
RightOn(k, inputs) == \A p \in cache[k] : p[1] \in inputs => p[2] = Now(p[1])
=============================================================================
