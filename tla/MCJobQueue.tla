----------------------------- MODULE MCJobQueue -----------------------------
(* The three kinds of JOB_KINDS, with clock units for their delays. *)
EXTENDS JobQueue

CONSTANTS nightly, hourly, deploy

MCKinds == {nightly, hourly, deploy}

MCExecutorKinds == {nightly, hourly}

MCResources == {"ingest-service", "server-restart"}

MCResourceOf ==
    [k \in MCKinds |-> IF k = deploy THEN "server-restart" ELSE "ingest-service"]

MCPriorityOf ==
    [k \in MCKinds |-> CASE k = deploy -> 100 [] k = nightly -> 50 [] OTHER -> 40]

MCLeaseOf == [k \in MCKinds |-> IF k = deploy THEN 2 ELSE 1]

MCStaleDelay == [k \in MCKinds |-> IF k = nightly THEN 0 ELSE 1]

=============================================================================
