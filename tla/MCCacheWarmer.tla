--------------------------- MODULE MCCacheWarmer ----------------------------
(* One key of each kind that matters to another: a memo of the past, a       *)
(* figure of today, a table of months built on both, the mortgage ledger, a  *)
(* card priced at the live dollar, the expense lines, the flows payload and  *)
(* the home page, whose build asks for the months in a second stretch. A     *)
(* warm builds the home page and the flows.                                  *)
EXTENDS CacheWarmer

MCTier ==
  "past" :> "hist" @@ "now" :> "live" @@ "months" :> "perf" @@ "depto" :> "depto" @@
  "card" :> "card" @@ "lines" :> "inputs" @@ "flows" :> "flows" @@ "home" :> "bundle"
MCKey == DOMAIN MCTier
MCPage == {"home", "flows"}
MCParts ==
  "past" :> {} @@ "now" :> {} @@ "months" :> {"past", "now"} @@ "depto" :> {} @@
  "card" :> {} @@ "lines" :> {"card"} @@ "flows" :> {"card", "lines"} @@
  "home" :> {"depto"}
MCDirect ==
  "past" :> {"rows", "day"} @@ "now" :> {"rows", "stock"} @@ "months" :> {"rows", "day"} @@
  "depto" :> {"rows"} @@ "card" :> {"rows", "dollar"} @@ "lines" :> {"plain"} @@
  "flows" :> {"day"} @@ "home" :> {"plain"}
MCLater == [k \in MCKey |-> IF k = "home" THEN {"months"} ELSE {}]
MCWarm == <<"home", "flows">>

\* Where a run need not go on: what is served and what is warm is excused once
\* a log row has come under an id that counts as applied. And any two of the
\* inputs may move, the same one never twice; a rolled back report counts as a
\* move of the rows it took for moved.
UntilSkipped == ~skipped
Rows     == IF applied > head THEN applied ELSE head
TwoMoves == Rows + plain + ticks + (today - 1) <= 2
=============================================================================
