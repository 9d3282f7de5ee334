--------------------------- MODULE AdapterContract ---------------------------
(***************************************************************************)
(* What the orchestrator relies on a worker for, whatever the runtime: one *)
(* /launch per instance that answers or raises, a container that appears   *)
(* while that call is open and at no other time, and destroys that remove  *)
(* it at any time.  RuntimeAdapter (worker/adapters/base.py) declares the  *)
(* two operations; Instances is the client's side of this contract and the *)
(* adapter modules are the implementations.                                *)
(***************************************************************************)
CONSTANTS
    Ids,
    Leftover    \* whether a launch that raises may leave its container

VARIABLES
    call,       \* per id: none, starting, created, ok or failed
    boxes       \* ids that have a container

contractVars == <<call, boxes>>

Init ==
    /\ call = [i \in Ids |-> "none"]
    /\ boxes = {}

Asked(i) ==
    /\ call[i] = "none"
    /\ call' = [call EXCEPT ![i] = "starting"]
    /\ UNCHANGED boxes

Creates(i) ==
    /\ call[i] = "starting"
    /\ call' = [call EXCEPT ![i] = "created"]
    /\ boxes' = boxes \cup {i}

Answers(i) ==
    /\ call[i] = "created"
    /\ call' = [call EXCEPT ![i] = "ok"]
    /\ UNCHANGED boxes

Raises(i) ==
    /\ call[i] \in {"starting", "created"}
    /\ call' = [call EXCEPT ![i] = "failed"]
    /\ boxes' = boxes \ {i} \/ (Leftover /\ boxes' = boxes)

Removes(i) ==
    /\ boxes' = boxes \ {i}
    /\ UNCHANGED call

Next == \E i \in Ids :
    Asked(i) \/ Creates(i) \/ Answers(i) \/ Raises(i) \/ Removes(i)

Spec == Init /\ [][Next]_contractVars
=============================================================================
