---------------------------- MODULE MCGlobalSync ----------------------------
(* A source polled fast and one whose freshness is in the state file only. *)
EXTENDS GlobalSync

CONSTANTS nyse, ipc

MCStepOrder == <<nyse, ipc>>
MCFast == {nyse}
MCState == {ipc}
MCPeriod == [s \in {nyse, ipc} |-> 4]
MCFirstDue == [s \in {nyse, ipc} |-> IF s = nyse THEN 1 ELSE 3]
MCRetryDelays == <<1, 2>>

=============================================================================
