-------------------------- MODULE MCJobQueuePolicy --------------------------
(***************************************************************************)
(* The kinds of JOB_KINDS, and a third resource of the plan                *)
(* (bank:santander) so that two jobs can start in one pass.                *)
(***************************************************************************)
EXTENDS JobQueuePolicyLoop

CONSTANTS nightly, hourly, deploy, bank

MCKinds == {nightly, hourly, deploy, bank}

MCResources == {"ingest-service", "server-restart", "bank:santander"}

MCResourceOf ==
    [k \in MCKinds |-> CASE k = deploy -> "server-restart"
                         [] k = bank -> "bank:santander"
                         [] OTHER -> "ingest-service"]

\* nightly > hourly as in JOB_KINDS; deploy and bank tie, so that the order
\* also falls back on not_before and on the id.
MCPriorityOf ==
    [k \in MCKinds |-> CASE k = nightly -> 2 [] k = hourly -> 1 [] OTHER -> 3]

MCLeaseOf == [k \in MCKinds |-> IF k = deploy THEN 2 ELSE 1]

=============================================================================
