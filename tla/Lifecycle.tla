------------------------------ MODULE Lifecycle ------------------------------
(***************************************************************************)
(* What the rest of the system may assume of the instance lifecycle: the   *)
(* status and the backend of each row, and whether a background launch is  *)
(* still at work on it.  Instances implements it.  It promises nothing of  *)
(* when an instance is ended, and allows what the blind writes of the      *)
(* orchestrator make possible: a launch whose row was ended meanwhile      *)
(* still brings it up or fails it.                                         *)
(***************************************************************************)
CONSTANTS
    Ids,        \* instance ids
    Lossy       \* whether a launch may be lost: a crash, a failed statement

VARIABLES
    status,     \* Instance.status, "absent" before the row is inserted
    backend,    \* ids whose row has backend_host and backend_port
    launch      \* whether the launch of an id is yet to begin, open or over

lifecycleVars == <<status, backend, launch>>

Statuses == {"absent", "pending", "running", "destroyed", "error"}
Active   == {"pending", "running"}

IsActive(i) == status[i] \in Active
Launching(i) == launch[i] = "open"

Init ==
    /\ status = [i \in Ids |-> "absent"]
    /\ backend = {}
    /\ launch = [i \in Ids |-> "none"]

\* create or restart inserts a fresh row and attaches its launch.
Insert(i) ==
    /\ status[i] = "absent"
    /\ status' = [status EXCEPT ![i] = "pending"]
    /\ launch' = [launch EXCEPT ![i] = "open"]
    /\ backend' = backend

\* The worker has answered: the target is known before the launch is over.
Record(i) ==
    /\ Launching(i)
    /\ backend' = backend \cup {i}
    /\ UNCHANGED <<status, launch>>

\* The launch ends with its one result, whatever the row holds by then.
Finish(i, result) ==
    /\ Launching(i)
    /\ status' = [status EXCEPT ![i] = result]
    /\ launch' = [launch EXCEPT ![i] = "over"]
    /\ backend' = backend

ComeUp(i) == i \in backend /\ Finish(i, "running")
Fail(i)   == Finish(i, "error")

\* stop, restart or the reaper.
End(i) ==
    /\ status[i] # "absent"
    /\ status' = [status EXCEPT ![i] = "destroyed"]
    /\ UNCHANGED <<backend, launch>>

\* A fault takes launches away and leaves their rows as they are.
Abandon(gone) ==
    /\ Lossy
    /\ \A i \in gone : Launching(i)
    /\ launch' = [i \in Ids |-> IF i \in gone THEN "over" ELSE launch[i]]
    /\ UNCHANGED <<status, backend>>

Next ==
    \/ \E i \in Ids : Insert(i) \/ Record(i) \/ ComeUp(i) \/ Fail(i) \/ End(i)
    \/ \E gone \in SUBSET Ids : Abandon(gone)

Spec == Init /\ [][Next]_lifecycleVars

\* Every launch that begins ends: worker calls and polls have timeouts.
LaunchesEnd == \A i \in Ids : Launching(i) ~> ~ Launching(i)

=============================================================================
