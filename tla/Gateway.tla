------------------------------- MODULE Gateway -------------------------------
(***************************************************************************)
(* Traefik, the configuration it polls from the orchestrator, the wait of  *)
(* a launch for its own route, and the forward-auth check of the CTFd      *)
(* plugin, composed with the instance lifecycle.                           *)
(*                                                                         *)
(* A poll is two steps: the orchestrator reads the rows, Traefik applies   *)
(* the answer.  Rows change in between, so the configuration in force is   *)
(* as old as the read behind it.  A refused or failed poll leaves Traefik  *)
(* with the configuration it has.                                          *)
(***************************************************************************)
EXTENDS Lifecycle

CONSTANTS
    Teams,
    Owner,      \* the team each instance belongs to
    Admin,      \* a visitor who is an administrator of CTFd
    Tcp         \* the instances of tcp challenges

ASSUME OwnerAssumption == Owner \in [Ids -> Teams]
ASSUME TcpAssumption   == Tcp \subseteq Ids

Visitors == Teams \cup {Admin}

\* localhost without TLS; a domain without TLS; a domain with TLS.
Modes == {"local", "http", "tls"}

VARIABLES
    mode,       \* how the deployment is configured
    keyed,      \* whether Traefik's polls carry the orchestrator's key
    polled,     \* whether an answer is under way to Traefik
    answer,     \* the ids it has a router for
    routes,     \* the ids with a router in the configuration in force
    loaded,     \* whether Traefik has a configuration since it started
    wait,       \* how the launch's wait for its route ended
    ended,      \* history: ids that were ever ended or failed
    leftSince,  \* history: ... since the rows of the answer were read
    leftBefore  \* history: ... since those of the configuration were read

deployment == <<mode, keyed>>
traefik    == <<polled, answer, routes, loaded>>
history    == <<ended, leftSince, leftBefore>>
vars == <<status, backend, launch, mode, keyed, polled, answer, routes, loaded,
          wait, ended, leftSince, leftBefore>>

GatewayInit ==
    /\ Init
    /\ mode \in Modes
    /\ keyed \in BOOLEAN
    /\ polled = FALSE
    /\ answer = {}
    /\ routes = {}
    /\ loaded = FALSE
    /\ wait = [i \in Ids |-> "no"]
    /\ ended = {}
    /\ leftSince = {}
    /\ leftBefore = {}

-----------------------------------------------------------------------------
(***************************************************************************)
(* GET /traefik/config.                                                    *)
(***************************************************************************)

\* Mutant: the key is asked for in every deployment.
Accepted_KeyOnly == keyed

\* The key is asked for unless the deployment is local; a refused poll is a 403
\* and changes nothing.
Accepted == mode = "local" \/ keyed

\* Mutant: ended rows with a target keep their router.
Routable_Any == backend

\* The rows that get a router.
Routable == {i \in backend : IsActive(i)}

\* traefik_config builds the answer from one query.
PollRead ==
    /\ Accepted
    /\ ~ polled
    /\ polled' = TRUE
    /\ answer' = Routable
    /\ leftSince' = {}
    /\ UNCHANGED <<lifecycleVars, deployment, routes, loaded, wait, ended, leftBefore>>

\* Traefik replaces its configuration by the answer.
PollApply ==
    /\ polled
    /\ polled' = FALSE
    /\ routes' = answer
    /\ loaded' = TRUE
    /\ leftBefore' = leftSince
    /\ UNCHANGED <<lifecycleVars, deployment, answer, wait, ended, leftSince>>

\* The answer does not arrive within pollTimeout.
PollFails ==
    /\ polled
    /\ polled' = FALSE
    /\ UNCHANGED <<lifecycleVars, deployment, answer, routes, loaded, wait, history>>

\* A restarted Traefik has no dynamic configuration until its first poll.
TraefikRestarts ==
    /\ polled' = FALSE
    /\ routes' = {}
    /\ loaded' = FALSE
    /\ UNCHANGED <<lifecycleVars, deployment, answer, wait, history>>

-----------------------------------------------------------------------------
(***************************************************************************)
(* The lifecycle, with the wait for the route in the launch of an http     *)
(* challenge.                                                              *)
(***************************************************************************)

others == <<deployment, traefik, wait>>

Inserted(i) == Insert(i) /\ UNCHANGED <<others, history>>
Recorded(i) == Record(i) /\ UNCHANGED <<others, history>>

Waiting(i) == Launching(i) /\ i \in backend \ Tcp /\ wait[i] = "no"

WaitEnds(i, how) ==
    /\ Waiting(i)
    /\ wait' = [wait EXCEPT ![i] = how]
    /\ UNCHANGED <<lifecycleVars, deployment, traefik, history>>

\* Mutant: any answer of Traefik counts.
RouteFound_Any(i) == WaitEnds(i, "found")

\* Mutant: a route counts when the orchestrator has served it.
RouteFound_Served(i) == i \in answer /\ mode # "tls" /\ WaitEnds(i, "found")

\* The probe goes to port 80: an answer other than 404 needs a router there, and
\* with TLS the routers are on the other entry point.
RouteFound(i) == i \in routes /\ mode # "tls" /\ WaitEnds(i, "found")

\* Mutant: the wait goes on while the orchestrator believes there is a route.
RouteTimeout_Never(i) == WaitEnds(i, "gaveUp") /\ i \in routes

\* After 10 s the launch goes on; a challenge that itself answers / with 404 gets
\* here with its route in place.
RouteTimeout(i) == WaitEnds(i, "gaveUp")

CameUp(i) ==
    /\ i \in Tcp \/ wait[i] # "no"
    /\ ComeUp(i)
    /\ UNCHANGED <<others, history>>

Left(gone) ==
    /\ ended' = ended \cup gone
    /\ leftSince' = leftSince \cup gone
    /\ leftBefore' = leftBefore \cup gone

\* The wait swallows every exception: a launch fails before it or after it.
Failed(i) == ~ Waiting(i) /\ Fail(i) /\ Left({i}) /\ UNCHANGED others
Ended(i)  == End(i) /\ Left({i}) /\ UNCHANGED others
Abandoned(gone) == Abandon(gone) /\ UNCHANGED <<others, history>>

-----------------------------------------------------------------------------
(***************************************************************************)
(* A visitor's request to the host of an instance.                         *)
(***************************************************************************)

\* Mutant: the status of the instance is not looked at.
Authorized_AnyStatus(v, i) == v = Admin \/ v = Owner[i]

\* /isolatex/authz: an administrator or a member of the owning team, while the
\* orchestrator reports the instance as active.
Authorized(v, i) == (v = Admin \/ v = Owner[i]) /\ IsActive(i)

\* Traefik has a router; the local deployment attaches no forward-auth to it.
CanReach(v, i) == i \in routes /\ (mode = "local" \/ Authorized(v, i))

-----------------------------------------------------------------------------
LaunchStep(i) == Recorded(i) \/ RouteFound(i) \/ RouteTimeout(i) \/ CameUp(i) \/ Failed(i)

GatewayNext ==
    \/ \E i \in Ids : Inserted(i) \/ LaunchStep(i) \/ Ended(i)
    \/ \E gone \in SUBSET Ids : Abandoned(gone)
    \/ PollRead \/ PollApply \/ PollFails
    \/ TraefikRestarts

GatewaySpec == GatewayInit /\ [][GatewayNext]_vars

\* A launch goes on, Traefik polls every 5 s, and of its polls some get through;
\* no request or restart is fair.  LaunchesEnd of Lifecycle holds under it: the
\* wait for the route never holds a launch up for good, also where no poll is
\* ever accepted.
GatewayFairness ==
    /\ \A i \in Ids : WF_vars(LaunchStep(i))
    /\ WF_vars(PollRead)
    /\ SF_vars(PollApply)

FairGatewaySpec == GatewaySpec /\ GatewayFairness

-----------------------------------------------------------------------------
TypeOK ==
    /\ status \in [Ids -> Statuses]
    /\ backend \subseteq Ids
    /\ launch \in [Ids -> {"none", "open", "over"}]
    /\ mode \in Modes
    /\ keyed \in BOOLEAN
    /\ polled \in BOOLEAN
    /\ answer \subseteq Ids
    /\ routes \subseteq Ids
    /\ loaded \in BOOLEAN
    /\ wait \in [Ids -> {"no", "found", "gaveUp"}]
    /\ ended \subseteq Ids
    /\ leftSince \subseteq Ids
    /\ leftBefore \subseteq Ids

\* A router outlives its instance by one poll at most: every router in force is
\* that of an active instance or of one that ended after the rows were read.
RoutesAreRecent ==
    \A i \in routes : IsActive(i) \/ i \in leftBefore

\* Nobody reaches an instance that is over, except in a local deployment until
\* the next poll: the stale router is covered by the forward-auth check.
EndedIsClosed ==
    \A v \in Visitors : \A i \in Ids :
        CanReach(v, i) => IsActive(i) \/ (mode = "local" /\ i \in leftBefore)

\* No 404 right after the status flips to running: an instance whose launch saw
\* its route can be reached by its team while it runs, whichever polls fail.  A
\* launch that outlived a stop is no such instance, its route went in between.
RunningIsReached ==
    \A i \in Ids \ ended :
        status[i] = "running" /\ wait[i] = "found" /\ loaded => CanReach(Owner[i], i)

\* The configuration an answer or Traefik holds is the rows as they were read.
Snapshots ==
    /\ routes \subseteq backend
    /\ polled => \A i \in answer : i \in backend /\ (IsActive(i) \/ i \in leftSince)
    /\ leftSince \cup leftBefore \subseteq ended

\* A route once seen is in every configuration read later, while the instance
\* lives: an answer under way never lacks a live route that is in force.
RouteStays ==
    /\ \A i \in routes \ ended : polled => i \in answer
    /\ \A i \in Ids \ ended : wait[i] = "found" =>
         /\ i \in backend /\ IsActive(i)
         /\ polled => i \in answer
         /\ loaded => i \in routes

\* The inductive invariant behind the three properties.
GatewayInv == TypeOK /\ RoutesAreRecent /\ Snapshots /\ RouteStays

\* The route of an instance that is over is withdrawn, with polls that fail and
\* Traefik restarting in between.
EndedLosesRoute ==
    \A i \in Ids : (i \in routes /\ ~ IsActive(i)) ~> (i \notin routes \/ IsActive(i))

\* A running instance gets its route where polls are accepted, also when its
\* launch gave up waiting for it.
RunningGetsRoute ==
    \A i \in Ids :
        ((mode = "local" \/ keyed) /\ status[i] = "running") ~> (i \in routes \/ ~ IsActive(i))

=============================================================================
