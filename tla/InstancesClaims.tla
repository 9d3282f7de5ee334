--------------------------- MODULE InstancesClaims ---------------------------
(***************************************************************************)
(* "1 team = 1 instance", stated over the model of the lifecycle's code:   *)
(* the claim as the documentation makes it, and what the duplicate check   *)
(* really gives.  A history variable names the teams that one of the two   *)
(* causes of a second instance has hit.  Neither needs a fault; the second *)
(* needs only one client that waits for each answer, because a launch goes *)
(* on after the answer of the request that began it.                       *)
(***************************************************************************)
EXTENDS Instances

VARIABLE excused    \* history: the teams and challenges hit so far

claimVars == <<vars, excused>>

\* A request that may insert a row and is not answered yet.
Inserting(p) == pc[p] \in {"pick", "insert", "repick", "free", "reinsert"}

\* First cause: two such requests of one team are served at the same time.
Overlapping ==
    {reqKey[p] : p \in {p \in Procs : Inserting(p) /\ \E q \in Procs \ {p} :
                                        Inserting(q) /\ reqKey[q] = reqKey[p]}}

\* Second cause: this step brings back an instance of the team that was stopped,
\* the end of a launch that outlived the stop.
BroughtBack ==
    {owner[i] : i \in {i \in Ids : status[i] = "destroyed" /\ status'[i] = "running"}}

ClaimsInit == Init /\ excused = {}

ClaimsNext == Next /\ excused' = excused \cup Overlapping' \cup BroughtBack

ClaimsSpec == ClaimsInit /\ [][ClaimsNext]_claimVars

-----------------------------------------------------------------------------
\* "1 team = 1 instance": never two active rows for one team and challenge.
OneActivePerTeam ==
    \A i, j \in Ids :
        IsActive(i) /\ IsActive(j) /\ owner[i] = owner[j] => i = j

\* A team gets two active rows only by one of the two causes: the duplicate check
\* of create and the replacement in restart are enough against everything else,
\* that is earlier launches, stops, destructions and reaper rounds still running
\* in the background, requests of other teams, failed statements and crashes.
DuplicateHasCause ==
    \A i, j \in Ids :
        IsActive(i) /\ IsActive(j) /\ owner[i] = owner[j] =>
            i = j \/ owner[i] \in excused

-----------------------------------------------------------------------------
(***************************************************************************)
(* The inductive strengthening of DuplicateHasCause next to IInv.          *)
(***************************************************************************)

\* A team that is not excused has one request at most that may insert a row.
OneInserting ==
    \A p, q \in Procs :
        Inserting(p) /\ Inserting(q) /\ reqKey[p] = reqKey[q] =>
            p = q \/ reqKey[p] \in excused

\* What the duplicate check saw holds up to the insert, and a restart replaces the
\* only active row of its team.
TeamIsFree ==
    \A p \in Procs : \A i \in Ids :
        Inserting(p) /\ IsActive(i) /\ owner[i] = reqKey[p] =>
            \/ pc[p] \in {"repick", "free"} /\ i = oldId[p]
            \/ owner[i] \in excused

ClaimsInv ==
    /\ DuplicateHasCause
    /\ OneInserting
    /\ TeamIsFree

=============================================================================
