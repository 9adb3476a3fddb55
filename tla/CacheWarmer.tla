---------------------------- MODULE CacheWarmer -----------------------------
(* The background rebuild of the dashboard's entries (dashboardCacheWarmer   *)
(* .ts) over the cache it fills. One warm is a run of steps, each its own    *)
(* stretch after the API requests in flight are done, so writes, ticks and   *)
(* other processes' commits fall between them; a step that looks a bundle up *)
(* awaits its promise besides. The listener of the cache only arms the       *)
(* debounce timer, whatever the warmer is doing. Delays are left out: an     *)
(* armed timer fires at any later time.                                      *)
EXTENDS AggregationCache, Sequences

CONSTANT Warm   \* the keys a warm builds, in order

\* The flows payloads it builds read the expense lines.
ASSUME WarmerAssumption ==
  /\ Warm \in Seq(Key) /\ Warm # << >>
  /\ \A i \in 1 .. Len(Warm), l \in Key :
       Tier[Warm[i]] \in {"flows", "inputs"} /\ Tier[l] = "inputs"
         => l \in {Warm[i]} \cup Parts[Warm[i]]

VARIABLES
  step,        \* 0: no warm running; else the step that comes next
  awaits,      \* what that step awaits: "none" yet, the build of its "entry",
               \* or one whose entry is "gone"
  rewarm,      \* rewarmQueued
  midnight,    \* the 00:05 timer of the current day has not fired
  lastWarmed,  \* lastWarmedDataVersion
  excused      \* since the warm began, something it does not answer to:
               \* a tick, an API answer, a build or a step that failed,
               \* another's commit

warmVars == <<step, awaits, rewarm, midnight, lastWarmed, excused>>
vars     == <<cacheVars, warmVars>>

Steps   == 1 .. Len(Warm)
warming == step # 0

WarmerTypeOK ==
  /\ TypeOK
  /\ step \in 0 .. Len(Warm) + 1
  /\ awaits \in {"none", "entry", "gone"}
  /\ awaits # "none" => step \in Steps /\ Later[Warm[step]] # {}
  /\ awaits = "entry" => Warm[step] \in Keys
  /\ lastWarmed \in 0 .. MaxCommits \cup {None}
  /\ {rewarm, midnight, excused} \subseteq BOOLEAN
  /\ rewarm => warming   \* what is queued is queued behind a warm

\* startDashboardCacheWarmer: the boot warm is scheduled.
WarmerInit ==
  /\ Init
  /\ step = 0 /\ awaits = "none" /\ rewarm = FALSE /\ midnight = FALSE
  /\ lastWarmed = None /\ excused = FALSE

-----------------------------------------------------------------------------
\* runWarm, asked for by a timer: no stretch of another task is open.
RunWarm ==
  IF warming
  THEN rewarm' = TRUE /\ UNCHANGED <<step, excused>>
  ELSE step' = 1 /\ excused' = FALSE /\ UNCHANGED rewarm

DebounceFires ==
  /\ debounce /\ ~checked
  /\ debounce' = FALSE
  /\ RunWarm
  /\ UNCHANGED <<dataVars, heldVars, applied, skipped, checkVars, restVars, awaits,
                 midnight, lastWarmed>>

MidnightFires ==
  /\ midnight /\ ~checked
  /\ midnight' = FALSE
  /\ RunWarm
  /\ UNCHANGED <<cacheVars, awaits, lastWarmed>>

\* A step looks its key up, and awaits the build where one is in flight; the
\* next one waits for a macrotask, so it begins in another stretch.
WarmStep ==
  /\ step \in Steps /\ awaits = "none"
  /\ LookUp(Warm[step])
  /\ IF left'[Warm[step]] = {} THEN step' = step + 1 /\ UNCHANGED awaits
                              ELSE awaits' = "entry" /\ UNCHANGED step
  /\ EndsStretch
  /\ UNCHANGED <<dataVars, applied, skipped, cacheDay, seen, checking, restVars,
                 debounce, rewarm, midnight, lastWarmed, excused>>

\* The promise resolves, dropped from the cache meanwhile or not.
WarmResumes ==
  /\ step \in Steps /\ ~checking
  /\ awaits = "gone" \/ (awaits = "entry" /\ left[Warm[step]] = {})
  /\ step' = step + 1 /\ awaits' = "none"
  /\ UNCHANGED <<cacheVars, rewarm, midnight, lastWarmed, excused>>

\* Mutant: the flag outlives the warm it was raised in.
FinallyKeepsFlag ==
  /\ step' = 0 /\ awaits' = "none"
  /\ debounce' = (debounce \/ rewarm)
  /\ UNCHANGED <<dataVars, heldVars, applied, skipped, checkVars, restVars, midnight, rewarm>>

\* Mutant: the flag is cleared and no rewarm is scheduled.
FinallyForgets ==
  /\ step' = 0 /\ awaits' = "none" /\ rewarm' = FALSE
  /\ UNCHANGED <<dataVars, heldVars, applied, skipped, checkVars, restVars, midnight, debounce>>

\* The finally of runWarm.
Finally ==
  /\ step' = 0 /\ awaits' = "none"
  /\ rewarm' = FALSE
  /\ debounce' = (debounce \/ rewarm)
  /\ UNCHANGED <<dataVars, heldVars, applied, skipped, checkVars, restVars, midnight>>

WarmEnds ==
  /\ step = Len(Warm) + 1 /\ ~checking
  /\ lastWarmed' = version
  /\ Finally
  /\ UNCHANGED excused

WarmFails ==
  /\ step \in Steps /\ ~checking
  /\ Finally
  /\ excused' = TRUE
  /\ UNCHANGED lastWarmed

\* The poll of data_version, every minute.
Poll ==
  /\ ~checking /\ ~warming /\ ~debounce
  /\ lastWarmed # None /\ version # lastWarmed
  /\ debounce' = TRUE
  /\ UNCHANGED <<dataVars, heldVars, applied, skipped, checkVars, restVars, warmVars>>

\* The boot warm is armed with a delay of two seconds.
Boot ==
  /\ lastWarmed = None /\ ~warming /\ ~debounce /\ ~excused
  /\ debounce' = TRUE
  /\ UNCHANGED <<dataVars, heldVars, applied, skipped, checkVars, restVars, warmVars>>

\* A step of the cache; a commit during a warm is not seen by its end, and
\* what ticks, API answers and failed builds drop is left to the next request.
Unanswered == \/ \E q \in Quote : StreamTick(q)
              \/ PollPublishes \/ ApiFinishes \/ FlightFails
              \/ OtherCommit /\ warming

CacheStep ==
  /\ CacheNext
  /\ excused' = (excused \/ Unanswered)
  /\ midnight' = (midnight \/ today' # today)
  /\ awaits' = IF awaits = "entry" /\ Warm[step] \notin Keys' THEN "gone" ELSE awaits
  /\ UNCHANGED <<step, rewarm, lastWarmed>>

Next ==
  \/ CacheStep
  \/ DebounceFires \/ MidnightFires
  \/ WarmStep \/ WarmResumes \/ WarmEnds \/ WarmFails
  \/ Poll \/ Boot

Spec == WarmerInit /\ [][Next]_vars

-----------------------------------------------------------------------------
(* What a lookup of this stretch can serve is what a rebuild would return,   *)
(* but for: a commit of another connection after the check (seen in the next *)
(* stretch); the months, and what is built on them, of a sync or of a day's  *)
(* close that has not been announced; a price a poll has not published, or   *)
(* never will; rows of an API write not answered yet; expense lines, whose   *)
(* rate is compared when they are asked for; and a log row hidden by a       *)
(* rollback. Of a bundle in flight: what its build has read so far.          *)
ServesRight ==
  (Valid /\ ~checking /\ seen = version /\ ~skipped) =>
    \A k \in Keys :
      RightOn(k, Input \ UNION {IF answering THEN {"plain"} ELSE {}, Untold,
                                IF Tier[k] = "inputs" THEN Quote ELSE {},
                                IF Behind /\ Tier[k] \in MonthTiers THEN {"rows"} ELSE {}})

(* The history tier outlives ticks, so no entry of it ever holds a price, at *)
(* any depth (buildHistoryTierValue's contract), and an entry that holds one *)
(* has it in its node: a tick always finds what it outdates.                 *)
PricesAreRecorded ==
  \A k \in Keys : {p[1] : p \in cache[k]} \cap Quote
                    = IF Tier[k] = "hist" THEN {} ELSE reads[k]

(* A warmer at rest - no warm running, no timer armed, the poll satisfied -  *)
(* has every page it warms cached and right, unless what happened since is   *)
(* of the kinds it leaves to requests: no invalidation that came before,     *)
(* during or after a warm is forgotten.                                      *)
RestIsWarm ==
  (~warming /\ ~debounce /\ ~midnight /\ lastWarmed = version /\ ~excused
     /\ ~answering /\ ~owed /\ Untold = {} /\ ~skipped) =>
    \A i \in Steps : Warm[i] \in Keys /\ left[Warm[i]] = {} /\ RightOn(Warm[i], Input)

=============================================================================
