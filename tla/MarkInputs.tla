----------------------------- MODULE MarkInputs -----------------------------
(* The per-account series of daily quantities (markSeriesStore.ts, read      *)
(* through accountMarkDailyCache.ts) and the log of changes that trims them  *)
(* (markInputChanges.ts). Triggers add a row to mark_input_changes in the    *)
(* transaction, of any connection, that writes a table a past mark reads;    *)
(* a process that keeps series remembers the last id it applied and, before  *)
(* it serves a series, drops the days the rows after that id can have moved. *)
(*                                                                           *)
(* The process modelled keeps the series; the other connections are the      *)
(* command-line imports and a second server. The functions of the process    *)
(* are synchronous, so only another connection's commit falls inside them.   *)
EXTENDS Integers, Sequences, FiniteSets

CONSTANTS
  Account,          \* accounts with a series
  Shared,           \* depto property and mortgage: they read one ledger
  RateIndependent,  \* accounts whose stored quantity no rate row can move
  Change,           \* the rows the writes can log (a subset of Row)
  LastDay,          \* days 1..LastDay can lie before Chile today
  Back,             \* days before its own date that some rows move marks
  Recent,           \* days before a change of the proxy basket that it re-values
  MaxRows           \* bound: rows logged

NoAccount == "none"   \* a row every account can read (account_id NULL)
NoTx      == -1
Unapplied == -1       \* lastAppliedId null: nothing read yet in this process

Day    == 1 .. LastDay
Source == {"movements", "cc_statements", "fund_unit_daily", "fx_daily", "equity_daily",
           "watchlist_composite_holdings"}

\* A basket row names no date: its day is the one it was logged on.
Row    == [source : Source, account : Account \cup {NoAccount}, day : 1 .. LastDay + 1]

ASSUME MarkInputsAssumption ==
  /\ NoAccount \notin Account
  /\ Shared \subseteq Account
  /\ RateIndependent \subseteq Account \ Shared   \* the depto is valued in pesos and UF
  /\ Change \subseteq Row
  /\ LastDay \in Nat \ {0}
  /\ Back \in Nat /\ Recent \in Nat
  /\ MaxRows \in Nat

VARIABLES
  today,        \* Chile calendar day: the days before it can be stored
  log,          \* every row logged and not rolled back; a row's id is its place
  pruned,       \* rows with an id up to this one were deleted
  tx,           \* rows the log had when this process's transaction began
  txWrong,      \* wrong, when it began
  lastApplied,  \* lastAppliedId
  series,       \* days of each account that the store holds
  wrong,        \* stored days whose quantity is no longer what a build returns
  lapsed,       \* of those, the days whose row was applied without taking them
  reading,      \* the read in progress: between the log and the last query
  skipped       \* a row was logged under an id already counted as applied

rowVars   == <<log, pruned, tx, txWrong, skipped>>
storeVars == <<series, wrong, lapsed>>
markVars  == <<rowVars, storeVars, today, lastApplied, reading>>

\* held: the stored days when it began; built: the days it adds; moved: days
\* other connections moved since; spent: those whose rows were applied since.
Idle == [account |-> NoAccount, held |-> {}, built |-> {}, moved |-> {}, spent |-> {}]

TypeOK ==
  /\ today \in 1 .. LastDay + 1
  /\ log \in Seq(Change) /\ Len(log) <= MaxRows
  /\ pruned \in 0 .. MaxRows
  /\ tx \in Nat \cup {NoTx}
  /\ txWrong \in [Account -> SUBSET Day]
  /\ lastApplied \in Nat \cup {Unapplied}
  /\ series \in [Account -> SUBSET {d \in Day : d < today}]
  /\ wrong \in [Account -> SUBSET Day]
  /\ lapsed \in [Account -> SUBSET Day]
  /\ reading \in [account : Account \cup {NoAccount}, held : SUBSET Day,
                 built : SUBSET Day, moved : SUBSET Day, spent : SUBSET Day]
  /\ skipped \in BOOLEAN

Init ==
  /\ today \in 1 .. LastDay + 1
  /\ log = <<>> /\ pruned = 0 /\ skipped = FALSE
  /\ tx = NoTx /\ txWrong = [a \in Account |-> {}]
  /\ lastApplied = Unapplied
  /\ series = [a \in Account |-> {}]
  /\ wrong = [a \in Account |-> {}]
  /\ lapsed = [a \in Account |-> {}]
  /\ reading = Idle

-----------------------------------------------------------------------------
(* What a write moves: the facts the rules below have to cover. A statement  *)
(* header re-values its billing period, a cuota the holidays before it; a    *)
(* rate moves the peso figures built with it; the proxy basket re-values the *)
(* days it marked, "30 days before the change"; the depto accounts read each *)
(* other's rows.                                                             *)

IsBasket(r) == r.source = "watchlist_composite_holdings"

Reach(r) == IF IsBasket(r) THEN Recent
            ELSE IF r.source \in {"cc_statements", "fund_unit_daily"} THEN Back ELSE 0

Reads(a, r) ==
  \/ r.account = a
  \/ r.account \in Shared /\ a \in Shared
  \/ r.account = NoAccount /\ (r.source = "fx_daily" => a \notin RateIndependent)

Moves(r, a) == IF Reads(a, r) THEN {d \in Day : d >= r.day - Reach(r)} ELSE {}

(* What the consumer trims for it: SOURCE_RULES, the resolver of the rate-   *)
(* independent accounts and DEPENDENT_KINDS.                                 *)

\* Mutant: every row is taken to reach back.
FromAlwaysBack(r) == IF IsBasket(r) THEN today - Recent ELSE r.day - Back

\* The first day a row trims. A basket row counts from the day it is applied.
From(r) ==
  CASE IsBasket(r) -> today - Recent
    [] r.source \in {"cc_statements", "fund_unit_daily"} -> r.day - Back
    [] OTHER -> r.day

Lowers(r, a) ==
  IF r.account = NoAccount THEN r.source = "fx_daily" => a \notin RateIndependent
                           ELSE r.account = a

\* A dependent account takes the date of any dependent account lowered by name:
\* by a row of its own, or by a rate, which lowers its accounts one by one.
Trims(r, a) ==
  \/ Lowers(r, a)
  \/ /\ a \in Shared /\ \E b \in Shared : Lowers(r, b)
     /\ r.account # NoAccount \/ r.source = "fx_daily"

\* Mutant: the row after the last applied one is skipped.
PendingOffByOne == {log[i] : i \in {j \in DOMAIN log : j > lastApplied + 1 /\ j > pruned}}

Pending == {log[i] : i \in {j \in DOMAIN log : j > lastApplied /\ j > pruned}}

\* Mutant: the consumer goes on from the oldest row that is left.
MissedRowsUnnoticed == FALSE

MissedRows == pruned > lastApplied /\ \E a \in Account : series[a] # {}

Kept(a) ==
  IF MissedRows THEN {}
  ELSE {d \in series[a] : \A r \in Pending : Trims(r, a) => d < From(r)}

\* Days a basket change moved that its trim, on a later day, does not reach.
OutOfReach(a) ==
  {d \in Day : d < today - Recent /\ \E r \in Pending : IsBasket(r) /\ d \in Moves(r, a)}

NothingNew == Len(log) <= lastApplied

\* applyPendingMarkInputChanges. The first use takes the log's head as applied.
Apply ==
  IF NothingNew
  THEN UNCHANGED <<lastApplied, storeVars>>
  ELSE /\ lastApplied' = Len(log)
       /\ IF lastApplied = Unapplied
          THEN UNCHANGED storeVars
          ELSE /\ series' = [a \in Account |-> Kept(a)]
               /\ wrong' = [a \in Account |-> wrong[a] \cap Kept(a)]
               /\ lapsed' = [a \in Account |->
                               wrong'[a] \cap (lapsed[a] \cup OutOfReach(a))]

-----------------------------------------------------------------------------
Logs(r) ==
  /\ Len(log) < MaxRows
  /\ IsBasket(r) => r.day = today
  /\ log' = Append(log, r)
  /\ wrong' = [a \in Account |-> wrong[a] \cup (series[a] \cap Moves(r, a))]
  /\ skipped' = (skipped \/ Len(log) < lastApplied)

\* A statement of this process writes a row of a watched table.
Write(r) ==
  /\ reading = Idle
  /\ Logs(r)
  /\ UNCHANGED <<pruned, tx, txWrong, today, lastApplied, series, lapsed, reading>>

\* Another connection commits. SQLite has one writer at a time.
OtherCommit(r) ==
  /\ tx = NoTx
  /\ Logs(r)
  /\ reading' = IF reading = Idle THEN Idle
                ELSE [reading EXCEPT !.moved = @ \cup Moves(r, reading.account)]
  /\ UNCHANGED <<pruned, tx, txWrong, today, lastApplied, series, lapsed>>

\* pruneMarkInputChanges, when a server boots on the same file. The newest
\* rows are days old at most, so the table is never emptied.
Prune ==
  /\ tx = NoTx /\ reading = Idle
  /\ \E n \in pruned + 1 .. Len(log) - 1 : pruned' = n
  /\ UNCHANGED <<log, tx, txWrong, skipped, storeVars, today, lastApplied, reading>>

-----------------------------------------------------------------------------
(* A transaction of this process that may be taken back: the report mode of  *)
(* the mortgage sheet and AFC imports, a drift found, an exception. SQLite   *)
(* takes the rows and the ids they used back. Such a transaction reads       *)
(* ledgers and looks things up in the caches, but reads no series.           *)

Begin ==
  /\ tx = NoTx /\ reading = Idle
  /\ tx' = Len(log) /\ txWrong' = wrong
  /\ UNCHANGED <<log, pruned, skipped, storeVars, today, lastApplied, reading>>

Commit ==
  /\ tx # NoTx
  /\ tx' = NoTx /\ txWrong' = [a \in Account |-> {}]
  /\ UNCHANGED <<log, pruned, skipped, storeVars, today, lastApplied, reading>>

Rollback ==
  /\ tx # NoTx
  /\ log' = SubSeq(log, 1, tx)
  /\ wrong' = [a \in Account |-> txWrong[a] \cap series[a]]
  /\ lapsed' = [a \in Account |-> lapsed[a] \cap wrong'[a]]
  /\ tx' = NoTx /\ txWrong' = [a \in Account |-> {}]
  /\ UNCHANGED <<pruned, skipped, today, lastApplied, series, reading>>

\* A cache lookup or an invalidation applies the log, inside a transaction too
\* (the depto ledger is read again after each row the import writes), and
\* inside a read, in the first lookup of its queries or after midnight.
ApplyLog ==
  /\ Apply
  /\ reading' = [reading EXCEPT !.spent = reading.moved]
  /\ UNCHANGED <<rowVars, today>>

-----------------------------------------------------------------------------
(* accountValueSeriesOnGrid over the days from..to. BeginRead applies the    *)
(* log, takes the stored days and finds what is missing of the contiguous    *)
(* run that covers both them and the window; FinishRead stores the days it   *)
(* took together with what the queries returned (cachedSeriesCovering).      *)

Hull(S) == {d \in Day : (\E x \in S : x <= d) /\ (\E y \in S : d <= y)}

\* Mutant: today is stored like the days before it.
WindowWithToday(from, to) == {d \in from .. to : d <= today}

Window(from, to) == {d \in from .. to : d < today}

\* Mutant: only the window is built, not what lies between it and the series.
MissingInWindow(held, asked) == asked \ held

Missing(held, asked) == Hull(held \cup asked) \ held

BeginRead(a, from, to) ==
  /\ tx = NoTx /\ reading = Idle
  /\ Apply
  /\ Window(from, to) # {}
  /\ reading' = [account |-> a,
                 held |-> series'[a],
                 built |-> Missing(series'[a], Window(from, to)),
                 moved |-> {}, spent |-> {}]
  /\ UNCHANGED <<rowVars, today>>

\* Of the built days another connection moved meanwhile, some were built
\* before. What the log took away meanwhile is stored again.
FinishRead ==
  /\ reading # Idle
  /\ IF reading.built = {} THEN UNCHANGED storeVars
     ELSE LET a == reading.account
          IN  \E early \in SUBSET (reading.built \cap reading.moved) :
                LET stale == (reading.held \cap reading.moved) \cup early
                IN  /\ series' = [series EXCEPT ![a] = reading.held \cup reading.built]
                    /\ wrong' = [wrong EXCEPT ![a] = @ \cup stale]
                    /\ lapsed' = [lapsed EXCEPT ![a] = @ \cup (stale \cap reading.spent)]
  /\ reading' = Idle
  /\ UNCHANGED <<rowVars, today, lastApplied>>

\* Chile midnight: one more day can be stored, and the series survive it.
NewDay ==
  /\ today <= LastDay
  /\ today' = today + 1
  /\ UNCHANGED <<rowVars, storeVars, lastApplied, reading>>

Next ==
  \/ \E r \in Change : Write(r) \/ OtherCommit(r)
  \/ Prune \/ Begin \/ Commit \/ Rollback
  \/ ApplyLog
  \/ \E a \in Account, from \in Day, to \in Day : BeginRead(a, from, to)
  \/ FinishRead
  \/ NewDay

MarkSpec == Init /\ [][Next]_markVars

-----------------------------------------------------------------------------
\* A row not applied yet takes d away from a's series.
Covered(a, d) ==
  \E i \in DOMAIN log : /\ i > lastApplied /\ i > pruned
                        /\ Trims(log[i], a) /\ d >= From(log[i])

(* A stored day that a write moved is waiting to be trimmed: a row after the *)
(* last applied one takes it away, or the rows were pruned and the next read *)
(* drops every series. (applyPendingMarkInputChanges, whatever connection    *)
(* wrote and whatever was read in between.) Set aside are the days a change  *)
(* of the basket moved and that leave the reach of its trim when a day       *)
(* passes before it is applied, the days that a read held while the log took *)
(* them away, and all days once a row took the id of an applied row that a   *)
(* rollback had removed.                                                     *)
WrongIsPending ==
  ~skipped => \A a \in Account : \A d \in wrong[a] :
                \/ Covered(a, d) \/ pruned > lastApplied
                \/ d \in lapsed[a] \cup OutOfReach(a)

(* What a read takes from the store was right when the read applied the log, *)
(* but for the days set aside: only a commit of another connection, after    *)
(* that, can have moved it.                                                  *)
ServedIsRight ==
  (reading # Idle /\ ~skipped)
    => wrong[reading.account] \subseteq reading.moved \cup lapsed[reading.account]

(* The same whatever was rolled back: the rows are applied "before serving   *)
(* cached marks" (markInputChanges.ts:16).                                   *)
AlwaysServedIsRight ==
  reading # Idle
    => wrong[reading.account] \subseteq reading.moved \cup lapsed[reading.account]

(* A series is one run of days (assertSeriesAligned never throws), however   *)
(* the windows asked for and the trims alternate.                            *)
SeriesIsARun == \A a \in Account : series[a] = Hull(series[a])

(* A trim is no wider than the change: a stored day that no unapplied write  *)
(* moved, and no prune hid, is still stored after any step. (The waterfall   *)
(* "keeps the days before the change"; a rate leaves the shares alone.)      *)
RightIsKept ==
  [][\A a \in Account : \A d \in series[a] \ series'[a] :
       \/ pruned > lastApplied
       \/ \E r \in Pending : d \in Moves(r, a)]_markVars
=============================================================================
