---------------------------- MODULE GatewayProofs ----------------------------
(***************************************************************************)
(* Proofs about Gateway, for any instances, teams and deployments, any     *)
(* order of polls, restarts of Traefik, launches and stops.                *)
(***************************************************************************)
EXTENDS Gateway, TLAPS

\* The initial state satisfies the invariant.
LEMMA GatewayInitOK == GatewayInit => GatewayInv
  BY DEF GatewayInit, Init, GatewayInv, TypeOK, RoutesAreRecent, Snapshots,
     RouteStays, Statuses

\* A poll, a failed poll and a restart of Traefik preserve it: what is read is
\* current, and what is applied was read after what was in force (<1>2).
LEMMA TraefikStep ==
    ASSUME GatewayInv, PollRead \/ PollApply \/ PollFails \/ TraefikRestarts
    PROVE  GatewayInv'
<1> USE DEF GatewayInv, TypeOK, RoutesAreRecent, Snapshots, RouteStays, IsActive,
            lifecycleVars, deployment, history
<1>1. CASE PollRead
  BY <1>1 DEF PollRead, Routable
<1>2. CASE PollApply
  BY <1>2 DEF PollApply
<1>3. CASE PollFails
  BY <1>3 DEF PollFails
<1>4. CASE TraefikRestarts
  BY <1>4 DEF TraefikRestarts
<1> QED
  BY <1>1, <1>2, <1>3, <1>4

\* A step of a launch preserves it: it leaves an active row active, or its id is
\* noted as having left.
LEMMA LaunchStepOK ==
    ASSUME GatewayInv, NEW i \in Ids, LaunchStep(i)
    PROVE  GatewayInv'
<1> USE DEF GatewayInv, TypeOK, RoutesAreRecent, Snapshots, RouteStays, IsActive,
            Statuses, Active, lifecycleVars, deployment, traefik, history, others
<1>1. CASE Recorded(i)
  BY <1>1 DEF Recorded, Record
<1>2. CASE RouteFound(i)
  BY <1>2 DEF RouteFound, WaitEnds, Waiting
<1>3. CASE RouteTimeout(i)
  BY <1>3 DEF RouteTimeout, WaitEnds
<1>4. CASE CameUp(i)
  BY <1>4 DEF CameUp, ComeUp, Finish
<1>5. CASE Failed(i)
  BY <1>5 DEF Failed, Fail, Finish, Left
<1> QED
  BY <1>1, <1>2, <1>3, <1>4, <1>5 DEF LaunchStep

\* Requests, the reaper and faults preserve it.
LEMMA RowStepOK ==
    ASSUME GatewayInv,
           \/ \E i \in Ids : Inserted(i) \/ Ended(i)
           \/ \E gone \in SUBSET Ids : Abandoned(gone)
           \/ UNCHANGED vars
    PROVE  GatewayInv'
<1> USE DEF GatewayInv, TypeOK, RoutesAreRecent, Snapshots, RouteStays, IsActive,
            Statuses, Active, deployment, traefik, history, others
<1>1. ASSUME NEW i \in Ids, Inserted(i) PROVE GatewayInv'
  BY <1>1 DEF Inserted, Insert
<1>2. ASSUME NEW i \in Ids, Ended(i) PROVE GatewayInv'
  BY <1>2 DEF Ended, End, Left
<1>3. ASSUME NEW gone \in SUBSET Ids, Abandoned(gone) PROVE GatewayInv'
  BY <1>3 DEF Abandoned, Abandon
<1>4. CASE UNCHANGED vars
  BY <1>4 DEF vars
<1> QED
  BY <1>1, <1>2, <1>3, <1>4

\* The invariant of the polled configuration: what Traefik holds and what is under
\* way to it are the rows as they were read, and nothing seen is lost again.
THEOREM GatewayInductive == GatewaySpec => []GatewayInv
<1>1. GatewayInit => GatewayInv
  BY GatewayInitOK
<1>2. GatewayInv /\ [GatewayNext]_vars => GatewayInv'
  BY TraefikStep, LaunchStepOK, RowStepOK DEF GatewayNext
<1> QED
  BY <1>1, <1>2, PTL DEF GatewaySpec

\* A router in force belongs to an active instance or to one that left after the
\* rows behind the configuration were read.
THEOREM NoOldRoutes == GatewaySpec => []RoutesAreRecent
<1>1. GatewayInv => RoutesAreRecent
  BY DEF GatewayInv
<1> QED
  BY <1>1, GatewayInductive, PTL

\* With forward-auth nobody reaches an instance that is over, not even through a
\* stale router; without it, only until the next poll.
THEOREM EndedStaysClosed == GatewaySpec => []EndedIsClosed
<1>1. GatewayInv => EndedIsClosed
  BY DEF GatewayInv, RoutesAreRecent, EndedIsClosed, CanReach, Authorized
<1> QED
  BY <1>1, GatewayInductive, PTL

\* An instance whose launch saw its route is reachable for its team while it runs,
\* through failed polls and changes of any other rows.
THEOREM RunningStaysReached == GatewaySpec => []RunningIsReached
<1>1. GatewayInv => RunningIsReached
  BY DEF GatewayInv, RouteStays, RunningIsReached, CanReach, Authorized, IsActive
<1> QED
  BY <1>1, GatewayInductive, PTL

=============================================================================
