---------------------------- MODULE MCMarkInputs ----------------------------
(* Three accounts: the two that share the depto ledger, and one that holds   *)
(* shares. One row of each reach: a movement of a depto account, a cuota     *)
(* dated on the last day, which every account may read and reaches back, a   *)
(* rate, and a change of the proxy basket on the last day but one on which   *)
(* anything happens, so that it is applied that day or the next.             *)
EXTENDS MarkInputs

MCAccount == {"property", "mortgage", "stocks"}
MCShared  == {"property", "mortgage"}
MCRateIndependent == {"stocks"}

MCChange ==
  { [source |-> "movements", account |-> "mortgage", day |-> 2],
    [source |-> "fund_unit_daily", account |-> NoAccount, day |-> 3],
    [source |-> "fx_daily", account |-> NoAccount, day |-> 1],
    [source |-> "watchlist_composite_holdings", account |-> NoAccount, day |-> 3] }

\* Two of the three accounts hold a series at a time: a row trims an account
\* for itself or for one other. A rolled-back id ends what can be said.
TwoHeld == Cardinality({a \in Account : series[a] # {}}) <= 2 /\ ~skipped
=============================================================================
