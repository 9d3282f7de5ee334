------------------------------ MODULE K8sAdapter ------------------------------
(***************************************************************************)
(* A worker agent with a Kubernetes runtime (worker/adapters/kctf.py and   *)
(* kata.py, which differ in the pod's runtime class only): launches and    *)
(* destroys interleaved at every API call, which runs in a thread of its   *)
(* own, the agent's in-memory map, and the pods and services of the        *)
(* cluster.  The adapters have no except branch: a launch that raises      *)
(* leaves what it has made.                                                *)
(***************************************************************************)
EXTENDS Integers, FiniteSets

CONSTANTS
    Ids,        \* instance ids
    Calls,      \* HTTP calls the agent serves at the same time
    Faults,     \* which faults may happen, a subset of FaultKinds
    Null

\* A restart of the agent; a request to the API server that fails.
FaultKinds == {"restart", "api"}

ASSUME NullAssumption  == Null \notin Ids
ASSUME FaultAssumption == Faults \subseteq FaultKinds

VARIABLES
    known,      \* ids in self._instances
    pods,       \* ids whose pod exists
    svcs,       \* ids whose service exists
    at,         \* per call: what it does next, or idle
    on,         \* per call: the instance it is about
    reply,      \* history: what the launch of an id has come to
    made,       \* history: ids a pod was created for
    torn,       \* history: ids a destroy has completed for
    raced,      \* history: ids a destroy and a launch overlapped on
    hurt        \* history: ids a fault left in an unfinished state

cluster == <<pods, svcs>>
agent   == <<known, at, on>>
vars    == <<known, pods, svcs, at, on, reply, made, torn, raced, hurt>>

LaunchPCs  == {"pod", "service", "record", "raise"}
DestroyPCs == {"deletePod", "deleteService"}

LaunchingBy(c, i) == on[c] = i /\ at[c] \in LaunchPCs

\* No call on i is in progress.
Quiet(i) == \A c \in Calls : on[c] # i

Init ==
    /\ known = {} /\ pods = {} /\ svcs = {}
    /\ at = [c \in Calls |-> "idle"]
    /\ on = [c \in Calls |-> Null]
    /\ reply = [i \in Ids |-> "none"]
    /\ made = {} /\ torn = {} /\ raced = {} /\ hurt = {}

Goto(c, l) == at' = [at EXCEPT ![c] = l]

Begin(c, i, l) ==
    /\ at[c] = "idle"
    /\ Goto(c, l)
    /\ on' = [on EXCEPT ![c] = i]

Step(c, l) == Goto(c, l) /\ UNCHANGED on

Return(c) == Goto(c, "idle") /\ on' = [on EXCEPT ![c] = Null]

-----------------------------------------------------------------------------
\* POST /launch, asked once per instance by the orchestrator.
Launch(c, i) ==
    /\ reply[i] = "none"
    /\ i \notin known
    /\ Begin(c, i, "pod")
    /\ reply' = [reply EXCEPT ![i] = "open"]
    /\ torn' = torn \ {i}
    /\ raced' = IF Quiet(i) THEN raced ELSE raced \cup {i}
    /\ UNCHANGED <<known, cluster, made, hurt>>

\* _create_pod: a name already taken (409) passes for success.
CreatePod(c) ==
    /\ at[c] = "pod"
    /\ \/ /\ pods' = pods \cup {on[c]} /\ made' = made \cup {on[c]}
          /\ Step(c, "service")
       \/ /\ "api" \in Faults
          /\ pods' = pods \cup {on[c]} /\ made' = made \cup {on[c]}
          /\ Step(c, "raise")
       \/ /\ "api" \in Faults
          /\ UNCHANGED <<pods, made>>
          /\ Step(c, "raise")
    /\ UNCHANGED <<known, svcs, reply, torn, raced, hurt>>

\* Mutant: a service that cannot be created is logged, as at its deletion.
CreateService_LogOnly(c) ==
    /\ at[c] = "service"
    /\ \/ svcs' = svcs \cup {on[c]}
       \/ "api" \in Faults /\ UNCHANGED svcs
    /\ Step(c, "record")
    /\ UNCHANGED <<known, pods, reply, made, torn, raced, hurt>>

\* _create_service; if it raises, the pod stays.
CreateService(c) ==
    /\ at[c] = "service"
    /\ \/ svcs' = svcs \cup {on[c]} /\ Step(c, "record")
       \/ /\ "api" \in Faults
          /\ svcs' \in {svcs, svcs \cup {on[c]}}
          /\ Step(c, "raise")
    /\ UNCHANGED <<known, pods, reply, made, torn, raced, hurt>>

\* The instance is recorded and the result returned.
Record(c) ==
    /\ at[c] = "record"
    /\ known' = known \cup {on[c]}
    /\ reply' = [reply EXCEPT ![on[c]] = "ok"]
    /\ Return(c)
    /\ UNCHANGED <<cluster, made, torn, raced, hurt>>

\* Mutant: a launch that raises tries once more.
Raise_Retry(c) ==
    /\ at[c] = "raise"
    /\ reply' = [reply EXCEPT ![on[c]] = "failed"]
    /\ hurt' = hurt \cup ({on[c]} \cap made)
    /\ Step(c, "pod")
    /\ UNCHANGED <<known, cluster, made, torn, raced>>

\* The exception reaches the endpoint, which answers 500.
Raise(c) ==
    /\ at[c] = "raise"
    /\ reply' = [reply EXCEPT ![on[c]] = "failed"]
    /\ hurt' = hurt \cup ({on[c]} \cap made)
    /\ Return(c)
    /\ UNCHANGED <<known, cluster, made, torn, raced>>

-----------------------------------------------------------------------------
\* Mutant: an instance the map does not know is not looked for.
Destroy_KnownOnly(c, i) ==
    /\ Begin(c, i, IF i \in known THEN "deletePod" ELSE "deleteService")
    /\ known' = known \ {i}
    /\ raced' = IF \E d \in Calls : LaunchingBy(d, i) THEN raced \cup {i}
                ELSE IF Quiet(i) THEN raced \ {i} ELSE raced
    /\ hurt' = IF Quiet(i) THEN hurt \ {i} ELSE hurt
    /\ UNCHANGED <<cluster, reply, made, torn>>

\* DELETE /destroy/{id}: the map entry goes first; for an id the map does not
\* know the names are derived.
Destroy(c, i) ==
    /\ Begin(c, i, "deletePod")
    /\ known' = known \ {i}
    /\ raced' = IF \E d \in Calls : LaunchingBy(d, i) THEN raced \cup {i}
                ELSE IF Quiet(i) THEN raced \ {i} ELSE raced
    /\ hurt' = IF Quiet(i) THEN hurt \ {i} ELSE hurt
    /\ UNCHANGED <<cluster, reply, made, torn>>

\* _delete_pod: a missing pod (404) is no error, an error status is logged,
\* any other exception ends the call before the service's turn.
DeletePod(c) ==
    /\ at[c] = "deletePod"
    /\ \/ /\ pods' = pods \ {on[c]} /\ UNCHANGED hurt
          /\ Step(c, "deleteService")
       \/ /\ "api" \in Faults
          /\ pods' \in {pods, pods \ {on[c]}}
          /\ hurt' = hurt \cup {on[c]}
          /\ Step(c, "deleteService") \/ Return(c)
    /\ UNCHANGED <<known, svcs, reply, made, torn, raced>>

\* Mutant: the service is left when its pod was not there.
DeleteService_Skip(c) ==
    /\ at[c] = "deleteService"
    /\ UNCHANGED <<svcs, hurt>>
    /\ torn' = torn \cup {on[c]}
    /\ Return(c)
    /\ UNCHANGED <<known, pods, reply, made, raced>>

\* _delete_service, likewise.
DeleteService(c) ==
    /\ at[c] = "deleteService"
    /\ \/ svcs' = svcs \ {on[c]} /\ UNCHANGED hurt
       \/ /\ "api" \in Faults
          /\ svcs' \in {svcs, svcs \ {on[c]}}
          /\ hurt' = hurt \cup {on[c]}
    /\ torn' = torn \cup {on[c]}
    /\ Return(c)
    /\ UNCHANGED <<known, pods, reply, made, raced>>

-----------------------------------------------------------------------------
\* The agent process dies and starts again: calls and the map are gone, the
\* cluster keeps what it has.
Restart ==
    /\ "restart" \in Faults
    /\ known' = {}
    /\ at' = [c \in Calls |-> "idle"]
    /\ on' = [c \in Calls |-> Null]
    /\ hurt' = hurt \cup {i \in Ids : ~ Quiet(i)}
    /\ UNCHANGED <<cluster, reply, made, torn, raced>>

LaunchStep(c)  == CreatePod(c) \/ CreateService(c) \/ Record(c) \/ Raise(c)
DestroyStep(c) == DeletePod(c) \/ DeleteService(c)

Next ==
    \/ \E c \in Calls : \E i \in Ids : Launch(c, i) \/ Destroy(c, i)
    \/ \E c \in Calls : LaunchStep(c) \/ DestroyStep(c)
    \/ Restart

Spec == Init /\ [][Next]_vars

-----------------------------------------------------------------------------
(***************************************************************************)
(* Properties.  An id is settled when no call on it is in progress, no     *)
(* launch and destroy of it have overlapped and no fault has interrupted   *)
(* one since the last destroy that ran alone.                              *)
(***************************************************************************)

\* Every variable stays within its type; a call is about an instance exactly
\* while it is in progress.
TypeOK ==
    /\ known \subseteq Ids /\ pods \subseteq Ids /\ svcs \subseteq Ids
    /\ at \in [Calls -> {"idle"} \cup LaunchPCs \cup DestroyPCs]
    /\ on \in [Calls -> Ids \cup {Null}]
    /\ \A c \in Calls : at[c] # "idle" <=> on[c] \in Ids
    /\ reply \in [Ids -> {"none", "open", "ok", "failed"}]
    /\ made \subseteq Ids /\ torn \subseteq Ids
    /\ raced \subseteq Ids /\ hurt \subseteq Ids

Settled(i) == Quiet(i) /\ i \notin raced \cup hurt

\* A settled instance has both its pod and its service or neither, and the
\* agent only remembers whole instances: over launches, destroys of ids it has
\* forgotten and restarts.
PodWithService ==
    \A i \in Ids : Settled(i) =>
        /\ i \in pods <=> i \in svcs
        /\ i \in known => i \in pods

\* A destroy that no launch overlaps and no fault hits leaves nothing behind,
\* whatever races, failed requests or restarts of the agent came before it.
DestroyTearsDown ==
    \A i \in torn : Settled(i) => i \notin pods \cup svcs \cup known

(***************************************************************************)
(* The inductive invariant: what each call may rely on when its step comes *)
(* up, part by part.                                                       *)
(***************************************************************************)

\* An instance is launched by one call at most, whose launch is still open
\* and which has made a pod once it is past that step.
LaunchedOnce == \A i \in Ids : \A c \in Calls : LaunchingBy(c, i) =>
    /\ reply[i] = "open"
    /\ \A d \in Calls : LaunchingBy(d, i) => d = c
    /\ at[c] = "pod" => i \notin made
    /\ at[c] \in {"service", "record"} => i \in made
    /\ at[c] = "raise" => "api" \in Faults

\* Whatever the cluster or the map holds was made by a launch.
OnlyMade == \A i \in Ids :
    /\ i \in pods \cup svcs \cup known => i \in made
    /\ reply[i] = "none" => i \notin made

\* A launch that no destroy overlaps is the only call on its instance, which
\* no destroy has torn down since it began.
LaunchesAlone == \A i \in Ids \ raced : \A c \in Calls : LaunchingBy(c, i) =>
    /\ \A d \in Calls : on[d] = i => d = c
    /\ i \notin torn

\* Where nothing overlaps or fails, each step finds what the one before left.
StepsBuildUp == \A i \in Ids \ (raced \cup hurt) : \A c \in Calls : on[c] = i =>
    /\ at[c] = "service" => i \in pods
    /\ at[c] = "record" => i \in pods \cap svcs
    /\ at[c] = "deletePod" => i \notin known
    /\ at[c] = "deleteService" => i \notin known \cup pods

IInv ==
    /\ TypeOK
    /\ LaunchedOnce /\ OnlyMade /\ LaunchesAlone /\ StepsBuildUp
    /\ PodWithService /\ DestroyTearsDown

\* The view of one launch per instance that the orchestrator relies on.
callView == [i \in Ids |->
    IF reply[i] # "open" THEN reply[i]
    ELSE IF i \in made THEN "created" ELSE "starting"]

Contract == INSTANCE AdapterContract WITH
    call <- callView, boxes <- pods, Leftover <- ("api" \in Faults)

\* The Kubernetes adapters keep the contract of AdapterContract, with pods
\* for containers, but only the weak form in which a launch that raises may
\* leave its pod.
KeepsContract == Contract!Spec

=============================================================================
