---------------------------- MODULE DockerAdapter ----------------------------
(***************************************************************************)
(* A worker agent with the Docker runtime (worker/main.py with             *)
(* worker/adapters/docker.py): the /launch and /destroy calls it serves,   *)
(* interleaved at every `docker` subprocess, its in-memory instance map,   *)
(* and the containers and networks of the Docker daemon, which outlive the *)
(* agent.                                                                  *)
(***************************************************************************)
EXTENDS Integers, FiniteSets

CONSTANTS
    Ids,        \* instance ids
    Calls,      \* HTTP calls the agent serves at the same time
    Faults,     \* which faults may happen, a subset of FaultKinds
    Null

\* A restart of the agent; no Traefik container to be found; an unchecked
\* docker command failing silently.
FaultKinds == {"restart", "gateway", "docker"}

ASSUME NullAssumption  == Null \notin Ids
ASSUME FaultAssumption == Faults \subseteq FaultKinds

VARIABLES
    known,      \* ids in self._instances
    cached,     \* whether self._gateway_container is set
    boxes,      \* ids whose container exists
    nets,       \* ids whose bridge network exists
    joined,     \* ids whose network the gateway is connected to
    at,         \* per call: the next docker command, or idle
    on,         \* per call: the instance it is about
    gw,         \* per call: whether it knows the gateway container
    reply,      \* history: what the last /launch of an id has come to
    made,       \* history: ids docker run has made a container for
    torn,       \* history: ids a /destroy has completed for
    raced,      \* history: ids a destroy and a launch overlapped on
    hurt        \* history: ids a fault left in an unfinished state

daemon == <<boxes, nets, joined>>
agent  == <<known, cached, at, on, gw>>
hist   == <<reply, made, torn, raced, hurt>>
vars   == <<known, cached, boxes, nets, joined, at, on, gw, reply, made, torn,
            raced, hurt>>

LaunchPCs  == {"create", "run", "resolve", "connect", "record", "undoBox", "undoNet"}
DestroyPCs == {"find", "disconnect", "remove", "removeNet"}

LaunchingBy(c, i)  == on[c] = i /\ at[c] \in LaunchPCs
DestroyingBy(c, i) == on[c] = i /\ at[c] \in DestroyPCs

\* No call on i is in progress.
Quiet(i) == \A c \in Calls : on[c] # i

Init ==
    /\ known = {} /\ cached = FALSE
    /\ boxes = {} /\ nets = {} /\ joined = {}
    /\ at = [c \in Calls |-> "idle"]
    /\ on = [c \in Calls |-> Null]
    /\ gw = [c \in Calls |-> FALSE]
    /\ reply = [i \in Ids |-> "none"]
    /\ made = {} /\ torn = {} /\ raced = {} /\ hurt = {}

Goto(c, l) == at' = [at EXCEPT ![c] = l]

Begin(c, i, l, g) ==
    /\ at[c] = "idle"
    /\ Goto(c, l)
    /\ on' = [on EXCEPT ![c] = i]
    /\ gw' = [gw EXCEPT ![c] = g]

\* The call returns; its locals are gone.
Return(c) ==
    /\ Goto(c, "idle")
    /\ on' = [on EXCEPT ![c] = Null]
    /\ gw' = [gw EXCEPT ![c] = FALSE]

Replies(c, r) == Return(c) /\ reply' = [reply EXCEPT ![on[c]] = r]

Step(c, l) == Goto(c, l) /\ UNCHANGED <<on, gw>>

\* An unchecked docker command does its work, or fails and nobody notices.
Does(c)  == UNCHANGED hurt
Slips(c) == "docker" \in Faults /\ hurt' = hurt \cup {on[c]}

-----------------------------------------------------------------------------
(***************************************************************************)
(* launch.                                                                 *)
(***************************************************************************)

\* POST /launch, asked once per instance by the orchestrator; an id the map
\* knows would be answered from it at once.
LaunchBegin(c, i) ==
    /\ reply[i] = "none"
    /\ i \notin known
    /\ Begin(c, i, "create", FALSE)
    /\ reply' = [reply EXCEPT ![i] = "open"]
    /\ torn' = torn \ {i}
    /\ raced' = IF Quiet(i) THEN raced ELSE raced \cup {i}
    /\ UNCHANGED <<known, cached, daemon, made, hurt>>

\* `docker network create`, outside the try: when it fails, out of addresses
\* or its name taken, the launch raises and nothing is cleaned up.
NetworkCreate(c) ==
    /\ at[c] = "create"
    /\ \/ /\ on[c] \notin nets
          /\ nets' = nets \cup {on[c]}
          /\ Step(c, "run") /\ UNCHANGED reply
       \/ Replies(c, "failed") /\ UNCHANGED nets
    /\ UNCHANGED <<known, cached, boxes, joined, made, torn, raced, hurt>>

\* `docker run -d` makes and starts the container.
RunContainer(c) ==
    /\ at[c] = "run"
    /\ on[c] \in nets /\ on[c] \notin boxes
    /\ boxes' = boxes \cup {on[c]}
    /\ made' = made \cup {on[c]}
    /\ Step(c, "resolve")
    /\ UNCHANGED <<known, cached, nets, joined, reply, torn, raced, hurt>>

\* Mutant: a container that did not start is taken for one that does not exist.
RunFails_NetworkOnly(c) ==
    /\ at[c] = "run"
    /\ \/ UNCHANGED <<boxes, made>>
       \/ /\ on[c] \notin boxes
          /\ boxes' = boxes \cup {on[c]}
          /\ made' = made \cup {on[c]}
    /\ reply' = [reply EXCEPT ![on[c]] = "failed"]
    /\ Step(c, "undoNet")
    /\ UNCHANGED <<known, cached, nets, joined, torn, raced, hurt>>

\* It fails: bad image, name taken or network gone, or, with the container
\* already made, at its start.
RunFails(c) ==
    /\ at[c] = "run"
    /\ \/ UNCHANGED <<boxes, made>>
       \/ /\ on[c] \notin boxes
          /\ boxes' = boxes \cup {on[c]}
          /\ made' = made \cup {on[c]}
    /\ Step(c, "undoBox")
    /\ UNCHANGED <<known, cached, nets, joined, reply, torn, raced, hurt>>

\* _resolve_gateway_container: the cached name, the configured one or the
\* first running Traefik container; without any of them it raises.
ResolveGateway(c) ==
    /\ at[c] = "resolve"
    /\ \/ cached' = TRUE /\ Step(c, "connect")
       \/ ~ cached /\ "gateway" \in Faults /\ Step(c, "undoBox") /\ UNCHANGED cached
    /\ UNCHANGED <<known, daemon, hist>>

\* `network connect`, unchecked: on a missing network it does nothing.
Connect(c) ==
    /\ at[c] = "connect"
    /\ \/ joined' = joined \cup ({on[c]} \cap nets) /\ Does(c)
       \/ UNCHANGED joined /\ Slips(c)
    /\ Step(c, "record")
    /\ UNCHANGED <<known, cached, boxes, nets, reply, made, torn, raced>>

\* The published port is looked up, the instance is recorded and the result
\* returned.
Record(c) ==
    /\ at[c] = "record"
    /\ known' = known \cup {on[c]}
    /\ Replies(c, "ok")
    /\ UNCHANGED <<cached, daemon, made, torn, raced, hurt>>

\* The except branch: remove the container, then its network, then raise.
UndoContainer(c) ==
    /\ at[c] = "undoBox"
    /\ \/ boxes' = boxes \ {on[c]} /\ Does(c)
       \/ UNCHANGED boxes /\ Slips(c)
    /\ reply' = [reply EXCEPT ![on[c]] = "failed"]
    /\ Step(c, "undoNet")
    /\ UNCHANGED <<known, cached, nets, joined, made, torn, raced>>

\* `network rm`, unchecked, refuses a network something is still attached to.
WithoutNetwork(i) == IF i \in boxes \cup joined THEN nets ELSE nets \ {i}

\* Mutant: the undone launch is tried once more behind the caller's back.
UndoNetwork_Retry(c) ==
    /\ at[c] = "undoNet"
    /\ \/ nets' = WithoutNetwork(on[c]) /\ Does(c)
       \/ UNCHANGED nets /\ Slips(c)
    /\ Step(c, "create")
    /\ UNCHANGED <<known, cached, boxes, joined, reply, made, torn, raced>>

UndoNetwork(c) ==
    /\ at[c] = "undoNet"
    /\ \/ nets' = WithoutNetwork(on[c]) /\ Does(c)
       \/ UNCHANGED nets /\ Slips(c)
    /\ Return(c)
    /\ UNCHANGED <<known, cached, boxes, joined, reply, made, torn, raced>>

-----------------------------------------------------------------------------
(***************************************************************************)
(* destroy.                                                                *)
(***************************************************************************)

\* DELETE /destroy/{id}: the map entry goes first; it names the gateway.
DestroyBegin(c, i) ==
    /\ Begin(c, i, IF i \in known THEN "disconnect" ELSE "find", i \in known)
    /\ known' = known \ {i}
    /\ raced' = IF \E d \in Calls : LaunchingBy(d, i) THEN raced \cup {i}
                ELSE IF Quiet(i) THEN raced \ {i} ELSE raced
    /\ hurt' = IF Quiet(i) THEN hurt \ {i} ELSE hurt
    /\ UNCHANGED <<cached, daemon, reply, made, torn>>

\* Mutant: only instances the map knows are disconnected from the gateway.
FindGateway_Skip(c) ==
    /\ at[c] = "find"
    /\ Step(c, "disconnect")
    /\ UNCHANGED <<known, cached, daemon, hist>>

\* Unknown to this agent: names are derived and the gateway is looked up; its
\* absence is ignored.
FindGateway(c) ==
    /\ at[c] = "find"
    /\ \/ cached' = TRUE /\ gw' = [gw EXCEPT ![c] = TRUE] /\ UNCHANGED hurt
       \/ /\ ~ cached /\ "gateway" \in Faults
          /\ hurt' = hurt \cup {on[c]}
          /\ UNCHANGED <<cached, gw>>
    /\ Goto(c, "disconnect")
    /\ UNCHANGED <<known, daemon, on, reply, made, torn, raced>>

\* `network disconnect`, when the gateway is known.
Disconnect(c) ==
    /\ at[c] = "disconnect"
    /\ \/ gw[c] /\ joined' = joined \ {on[c]} /\ Does(c)
       \/ ~ gw[c] /\ UNCHANGED joined /\ Does(c)
       \/ gw[c] /\ UNCHANGED joined /\ Slips(c)
    /\ Step(c, "remove")
    /\ UNCHANGED <<known, cached, boxes, nets, reply, made, torn, raced>>

RemoveContainer(c) ==
    /\ at[c] = "remove"
    /\ \/ boxes' = boxes \ {on[c]} /\ Does(c)
       \/ UNCHANGED boxes /\ Slips(c)
    /\ Step(c, "removeNet")
    /\ UNCHANGED <<known, cached, nets, joined, reply, made, torn, raced>>

\* Mutant: the network is left behind.
RemoveNetwork_Keep(c) ==
    /\ at[c] = "removeNet"
    /\ torn' = torn \cup {on[c]}
    /\ Return(c)
    /\ UNCHANGED <<known, cached, daemon, reply, made, raced, hurt>>

RemoveNetwork(c) ==
    /\ at[c] = "removeNet"
    /\ \/ nets' = WithoutNetwork(on[c]) /\ Does(c)
       \/ UNCHANGED nets /\ Slips(c)
    /\ torn' = torn \cup {on[c]}
    /\ Return(c)
    /\ UNCHANGED <<known, cached, boxes, joined, reply, made, raced>>

-----------------------------------------------------------------------------
\* The agent process dies and starts again: calls and the map are gone, what
\* the daemon has stays.
Restart ==
    /\ "restart" \in Faults
    /\ known' = {} /\ cached' = FALSE
    /\ at' = [c \in Calls |-> "idle"]
    /\ on' = [c \in Calls |-> Null]
    /\ gw' = [c \in Calls |-> FALSE]
    /\ hurt' = hurt \cup {i \in Ids : ~ Quiet(i)}
    /\ UNCHANGED <<daemon, reply, made, torn, raced>>

LaunchStep(c) ==
    \/ NetworkCreate(c) \/ RunContainer(c) \/ RunFails(c) \/ ResolveGateway(c)
    \/ Connect(c) \/ Record(c) \/ UndoContainer(c) \/ UndoNetwork(c)

DestroyStep(c) ==
    FindGateway(c) \/ Disconnect(c) \/ RemoveContainer(c) \/ RemoveNetwork(c)

Next ==
    \/ \E c \in Calls : \E i \in Ids : LaunchBegin(c, i) \/ DestroyBegin(c, i)
    \/ \E c \in Calls : LaunchStep(c) \/ DestroyStep(c)
    \/ Restart

Spec == Init /\ [][Next]_vars

-----------------------------------------------------------------------------
(***************************************************************************)
(* Properties.  An id is settled when no call on it is in progress, no     *)
(* launch and destroy of it have overlapped and no fault has interrupted   *)
(* one since the last destroy that ran alone.                              *)
(***************************************************************************)

\* Every variable stays within its type; a call is about an instance exactly
\* while it is in progress.
TypeOK ==
    /\ known \subseteq Ids /\ cached \in BOOLEAN
    /\ boxes \subseteq Ids /\ nets \subseteq Ids /\ joined \subseteq Ids
    /\ at \in [Calls -> {"idle"} \cup LaunchPCs \cup DestroyPCs]
    /\ on \in [Calls -> Ids \cup {Null}]
    /\ \A c \in Calls : at[c] # "idle" <=> on[c] \in Ids
    /\ gw \in [Calls -> BOOLEAN]
    /\ reply \in [Ids -> {"none", "open", "ok", "failed"}]
    /\ made \subseteq Ids /\ torn \subseteq Ids
    /\ raced \subseteq Ids /\ hurt \subseteq Ids

Settled(i) == Quiet(i) /\ i \notin raced \cup hurt

\* A settled instance has everything or nothing: container, network and the
\* gateway's connection to it come and go together over every launch, failed
\* launch, destroy and restart, and the agent only remembers whole instances.
AllOrNothing ==
    \A i \in Ids : Settled(i) =>
        /\ i \in boxes <=> i \in nets
        /\ i \in nets <=> i \in joined
        /\ i \in known => i \in boxes

\* A destroy that no launch overlaps and no fault hits leaves nothing behind,
\* whatever races, failed commands or restarts of the agent came before it.
DestroyTearsDown ==
    \A i \in torn : Settled(i) => i \notin boxes \cup nets \cup joined \cup known

(***************************************************************************)
(* The inductive invariant: what each call may rely on when its step comes *)
(* up, part by part.                                                       *)
(***************************************************************************)

\* An instance is launched by one call at most, open until its container is
\* undone, which has made a container once it is past that step.
LaunchedOnce == \A i \in Ids : \A c \in Calls : LaunchingBy(c, i) =>
    /\ reply[i] = IF at[c] = "undoNet" THEN "failed" ELSE "open"
    /\ \A d \in Calls : LaunchingBy(d, i) => d = c
    /\ at[c] = "create" => i \notin nets
    /\ at[c] \in {"create", "run"} => i \notin made
    /\ at[c] \in {"resolve", "connect", "record"} => i \in made

\* Whatever the daemon or the map holds was made by a launch, and the daemon
\* keeps a network as long as the gateway is on it.
OnlyMade == \A i \in Ids :
    /\ i \in boxes => i \in made
    /\ i \in made \cup nets => reply[i] # "none"
    /\ i \in joined => i \in nets
    /\ i \in known => reply[i] = "ok"

\* A launch that no destroy overlaps is the only call on its instance, which
\* no destroy has torn down since it began.
LaunchesAlone == \A i \in Ids \ raced : \A c \in Calls : LaunchingBy(c, i) =>
    /\ \A d \in Calls : on[d] = i => d = c
    /\ i \notin torn

\* Where nothing overlaps or fails, each step finds what the one before left:
\* a launch has built so much and no more, a destroy has taken away so much.
StepsBuildUp == \A i \in Ids \ (raced \cup hurt) : \A c \in Calls : on[c] = i =>
    /\ at[c] \in {"run", "resolve", "connect", "undoBox"} => i \in nets \ joined
    /\ at[c] \in {"resolve", "connect"} => i \in boxes
    /\ at[c] = "record" => i \in boxes \cap nets \cap joined
    /\ at[c] = "undoNet" => i \notin boxes \cup joined
    /\ at[c] = "disconnect" => gw[c]
    /\ at[c] \in DestroyPCs => i \notin known
    /\ at[c] \in {"remove", "removeNet"} => i \notin joined
    /\ at[c] = "removeNet" => i \notin boxes

IInv ==
    /\ TypeOK
    /\ LaunchedOnce /\ OnlyMade /\ LaunchesAlone /\ StepsBuildUp
    /\ AllOrNothing /\ DestroyTearsDown

\* The view of one launch per instance that the orchestrator relies on.
callView == [i \in Ids |->
    IF reply[i] # "open" THEN reply[i]
    ELSE IF i \in made THEN "created" ELSE "starting"]

Contract == INSTANCE AdapterContract WITH
    call <- callView, boxes <- boxes, Leftover <- ("docker" \in Faults)

\* The Docker adapter keeps the contract of AdapterContract: a container only
\* under an open launch, and behind a launch that raised only if a docker
\* command slipped.
KeepsContract == Contract!Spec

=============================================================================
