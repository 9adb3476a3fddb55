---------------------------- MODULE MCIngestQueue ----------------------------
(* The three kinds of JOB_KINDS over a few clock units. *)
EXTENDS IngestQueue

CONSTANT deploy

MCKinds == {Nightly, Hourly, deploy}
MCExecutorKinds == {Nightly, Hourly}
MCResources == {"ingest-service", "server-restart"}
MCResourceOf ==
    [k \in MCKinds |-> IF k = deploy THEN "server-restart" ELSE "ingest-service"]
MCPriorityOf ==
    [k \in MCKinds |-> CASE k = deploy -> 100 [] k = Nightly -> 50 [] OTHER -> 40]
MCLeaseOf == [k \in MCKinds |-> IF k = deploy THEN 3 ELSE 2]
MCStaleDelay == [k \in MCKinds |-> IF k = Nightly THEN 0 ELSE 2]

\* Only the kind, status and slot of a finished row are ever read.
View ==
    <<[j \in JobIds |->
          IF jobs[j].status \in {"queued", "running", "lost"}
          THEN jobs[j]
          ELSE [kind |-> jobs[j].kind, status |-> jobs[j].status,
                slot |-> jobs[j].slot]],
      now, exec, runs, daily, network, agent, faults>>

=============================================================================
