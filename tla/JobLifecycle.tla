---------------------------- MODULE JobLifecycle ----------------------------
(***************************************************************************)
(* What the jobs table promises of each row, whatever produces, runs and   *)
(* reports jobs: the statuses a job may take next (JOB_STATUSES).  A row   *)
(* is inserted as queued; it ends once, except that a job written off as   *)
(* lost may still learn how its work went.                                 *)
(***************************************************************************)
CONSTANT JobIds

VARIABLE status

Waiting == {"queued"}
Finished == {"done", "failed", "cancelled", "superseded"}
Status == {"absent", "running", "lost"} \cup Waiting \cup Finished

Moves ==
    {<<"absent", "queued">>}
    \cup {"queued"} \X {"running", "cancelled", "superseded", "done", "failed"}
    \cup {"running"} \X {"queued", "done", "failed", "lost"}
    \cup {"lost"} \X {"done", "failed"}

Init == status = [id \in JobIds |-> "absent"]

(* One transaction, or one executor tick, may move several rows. *)
Next ==
    /\ status' \in [JobIds -> Status]
    /\ \A id \in JobIds :
          status'[id] # status[id] => <<status[id], status'[id]>> \in Moves

Spec == Init /\ [][Next]_status

=============================================================================
