----------------------------- MODULE PlayerPanel -----------------------------
(***************************************************************************)
(* The panel a player has open for one challenge (assets/isolatex.js), the *)
(* player endpoints of the CTFd plugin behind it, and the instances of the *)
(* team for that challenge as Lifecycle lets them change: team mates, the  *)
(* reaper and the launches act on them at any time.                        *)
(*                                                                         *)
(* The page handles one event at a time, but every await lets others in: a *)
(* call may be overtaken by the calls of later events, and what arrives    *)
(* last is shown.  The challenge stays registered while the panel is open. *)
(***************************************************************************)
EXTENDS Lifecycle, Naturals, FiniteSets

CONSTANTS
    Calls,      \* requests of the page that can be open at the same time
    MaxPolls,   \* due refreshes told apart; this many stands for more as well
    Null

ASSUME MaxPollsAssumption == MaxPolls \in Nat \ {0}
ASSUME NullAssumption == Null \notin Ids

VARIABLES
    shown,      \* what the status line says
    shownId,    \* the instance it says it of
    visible,    \* the buttons that are displayed
    enabled,    \* whether the buttons can be clicked
    timer,      \* whether the countdown runs
    polls,      \* refreshes a timeout will start
    call,       \* what each request is for
    at,         \* where it is
    seen        \* the status and the id the plugin's look-up found for it

page     == <<shown, shownId, visible, enabled, timer, polls>>
requests == <<call, at, seen>>
panelVars == <<status, backend, launch, shown, shownId, visible, enabled, timer,
               polls, call, at, seen>>

Buttons == {"launch", "restart", "renew", "stop"}
Nothing == <<"none", Null>>

\* A page just opened: initPanel's refresh is about to start.
PanelInit ==
    /\ Init
    /\ shown = "checking"
    /\ shownId = Null
    /\ visible = {}
    /\ enabled = TRUE
    /\ timer = FALSE
    /\ polls = 1
    /\ call = [k \in Calls |-> "refresh"]
    /\ at = [k \in Calls |-> "idle"]
    /\ seen = [k \in Calls |-> Nothing]

-----------------------------------------------------------------------------
(***************************************************************************)
(* Requests and the plugin's side of them.                                 *)
(***************************************************************************)

Sends(k, c) ==
    /\ at[k] = "idle"
    /\ call' = [call EXCEPT ![k] = c]
    /\ at' = [at EXCEPT ![k] = "lookup"]
    /\ seen' = seen

Goes(k, l, s) ==
    /\ at' = [at EXCEPT ![k] = l]
    /\ seen' = [seen EXCEPT ![k] = s]
    /\ call' = call

Returns(k) ==
    /\ call' = [call EXCEPT ![k] = "refresh"]
    /\ at' = [at EXCEPT ![k] = "idle"]
    /\ seen' = [seen EXCEPT ![k] = Nothing]

ActiveIds == {i \in Ids : IsActive(i)}

\* _get_active_instance, with which every endpoint but launch begins.  With two
\* active rows it is a 500, as a query for one or none is; without one there is
\* nothing to stop, restart or renew.
Lookup(k) ==
    /\ at[k] = "lookup" /\ call[k] # "launch"
    /\ Cardinality(ActiveIds) < 2
    /\ IF ActiveIds = {} THEN Goes(k, "answer", Nothing)
       ELSE \E i \in ActiveIds :
              Goes(k, IF call[k] = "refresh" THEN "answer" ELSE "act", <<status[i], i>>)
    /\ UNCHANGED <<lifecycleVars, page>>

\* launch_instance: the orchestrator inserts a row, or answers 409 to a team that
\* has one, which counts as a launch.
LaunchServed(k) ==
    /\ at[k] = "lookup" /\ call[k] = "launch"
    /\ \/ \E i \in Ids : Insert(i)
       \/ Cardinality(ActiveIds) = 1 /\ UNCHANGED lifecycleVars
    /\ Goes(k, "answer", Nothing)
    /\ UNCHANGED page

\* stop_instance and the first half of restart_instance write the row that was
\* looked up, whoever has ended it or started another one since.
EndServed(k) ==
    /\ at[k] = "act" /\ call[k] \in {"stop", "restart"}
    /\ End(seen[k][2])
    /\ Goes(k, IF call[k] = "stop" THEN "answer" ELSE "insert", Nothing)
    /\ UNCHANGED page

\* The second half of a restart is a statement of its own.
RestartServed(k) ==
    /\ at[k] = "insert"
    /\ \E i \in Ids : Insert(i)
    /\ Goes(k, "answer", Nothing)
    /\ UNCHANGED page

\* renew_instance changes the expiry only.
RenewServed(k) ==
    /\ at[k] = "act" /\ call[k] = "renew"
    /\ Goes(k, "answer", Nothing)
    /\ UNCHANGED <<lifecycleVars, page>>

-----------------------------------------------------------------------------
(***************************************************************************)
(* The page.                                                               *)
(***************************************************************************)

\* One more refresh is due.
OneMore == IF polls = MaxPolls THEN MaxPolls ELSE polls + 1

RenderNone ==
    /\ shown' = "none"
    /\ shownId' = Null
    /\ visible' = {"launch"}
    /\ enabled' = TRUE
    /\ timer' = FALSE
    /\ polls' = polls

\* Every render of a pending instance starts one more poll.
RenderPending(i) ==
    /\ shown' = "pending"
    /\ shownId' = i
    /\ visible' = {"launch"}
    /\ enabled' = FALSE
    /\ timer' = FALSE
    /\ polls' = OneMore

\* Mutant: no countdown is started.
RenderRunning_NoTimer(i) ==
    /\ shown' = "running"
    /\ shownId' = i
    /\ visible' = {"restart", "renew", "stop"}
    /\ enabled' = TRUE
    /\ timer' = FALSE
    /\ polls' = polls

\* startTimer ticks once before it starts the interval, so an instance that has
\* expired by the clock of the browser schedules a refresh at once and another
\* one at the first tick of the interval.
RenderRunning(i) ==
    /\ shown' = "running"
    /\ shownId' = i
    /\ visible' = {"restart", "renew", "stop"}
    /\ enabled' = TRUE
    /\ timer' = TRUE
    /\ polls' \in {polls, OneMore}

\* An answer to a refresh is rendered, however old it is.
Render(k) ==
    /\ at[k] = "answer" /\ call[k] = "refresh"
    /\ \/ seen[k] = Nothing /\ RenderNone
       \/ seen[k][1] = "pending" /\ RenderPending(seen[k][2])
       \/ seen[k][1] = "running" /\ RenderRunning(seen[k][2])
    /\ Returns(k)
    /\ UNCHANGED lifecycleVars

\* Any call may fail, before or after it was served.
Failing(k) == at[k] # "idle"

\* A refresh that fails changes the status line and nothing else.
RefreshFails(k) ==
    /\ Failing(k) /\ call[k] = "refresh"
    /\ shown' = "unreachable"
    /\ Returns(k)
    /\ UNCHANGED <<lifecycleVars, shownId, visible, enabled, timer, polls>>

\* A launch that fails offers the launch again, without a look at what there is.
LaunchFails(k) ==
    /\ Failing(k) /\ call[k] = "launch"
    /\ shown' = "none"
    /\ visible' = visible \cup {"launch"}
    /\ enabled' = TRUE
    /\ Returns(k)
    /\ UNCHANGED <<lifecycleVars, shownId, timer, polls>>

\* The refresh that follows an action.
Refreshes(k) ==
    /\ call' = [call EXCEPT ![k] = "refresh"]
    /\ at' = [at EXCEPT ![k] = "lookup"]
    /\ seen' = [seen EXCEPT ![k] = Nothing]

\* Mutant: an action that fails is reported and that is all.
ActionEnds_NoRefresh(k) ==
    /\ call[k] # "refresh"
    /\ \/ at[k] = "answer" /\ Refreshes(k)
       \/ call[k] # "launch" /\ Failing(k) /\ Returns(k)
    /\ UNCHANGED <<lifecycleVars, page>>

\* A launch that was answered, and any other action whatever came of it, goes on
\* as a refresh.
ActionEnds(k) ==
    /\ call[k] # "refresh"
    /\ at[k] = "answer" \/ (call[k] # "launch" /\ Failing(k))
    /\ Refreshes(k)
    /\ UNCHANGED <<lifecycleVars, page>>

\* A click; all buttons are disabled until something enables them again.
Click(k, b) ==
    /\ b \in visible /\ enabled
    /\ shown' = "busy"
    /\ enabled' = FALSE
    /\ Sends(k, b)
    /\ UNCHANGED <<lifecycleVars, shownId, visible, timer, polls>>

\* Mutant: no refresh is started while the buttons are disabled.
PollFires_WhenEnabled(k) ==
    /\ polls > 0 /\ enabled
    /\ Sends(k, "refresh")
    /\ polls' \in {polls - 1} \cup {n \in {polls} : n = MaxPolls}
    /\ UNCHANGED <<lifecycleVars, shown, shownId, visible, enabled, timer>>

\* A timeout starts the refresh it was set for.
PollFires(k) ==
    /\ polls > 0
    /\ Sends(k, "refresh")
    /\ polls' \in {polls - 1} \cup {n \in {polls} : n = MaxPolls}
    /\ UNCHANGED <<lifecycleVars, shown, shownId, visible, enabled, timer>>

\* The countdown is at zero.
TimerRings ==
    /\ timer
    /\ timer' = FALSE
    /\ polls' = OneMore
    /\ UNCHANGED <<lifecycleVars, requests, shown, shownId, visible, enabled>>

\* The player reloads the page; requests it has sent are served or not.
Reload ==
    /\ shown' = "checking"
    /\ shownId' = Null
    /\ visible' = {}
    /\ enabled' = TRUE
    /\ timer' = FALSE
    /\ polls' = 1
    /\ call' = [k \in Calls |-> "refresh"]
    /\ at' = [k \in Calls |-> "idle"]
    /\ seen' = [k \in Calls |-> Nothing]
    /\ UNCHANGED lifecycleVars

-----------------------------------------------------------------------------
Served(k) ==
    \/ Lookup(k) \/ LaunchServed(k) \/ EndServed(k) \/ RestartServed(k) \/ RenewServed(k)

Ended(k) == Render(k) \/ RefreshFails(k) \/ LaunchFails(k) \/ ActionEnds(k)

\* Team mates, the reaper and the launches.
Others == Next /\ UNCHANGED <<page, requests>>

PanelNext ==
    \/ Others \/ TimerRings \/ Reload
    \/ \E k \in Calls :
         \/ Served(k) \/ Ended(k) \/ PollFires(k)
         \/ \E b \in Buttons : Click(k, b)

PanelSpec == PanelInit /\ [][PanelNext]_panelVars

LaunchStep(i) == (Record(i) \/ ComeUp(i) \/ Fail(i)) /\ UNCHANGED <<page, requests>>

\* The browser runs its timeouts and a call ends, with an answer or without; a
\* launch ends.  Nobody has to click, and nothing has to succeed.
PanelFairness ==
    /\ WF_panelVars(TimerRings)
    /\ WF_panelVars(\E k \in Calls : PollFires(k))
    /\ \A k \in Calls : WF_panelVars(Served(k) \/ Ended(k))
    /\ \A i \in Ids : WF_panelVars(LaunchStep(i))

FairPanelSpec == PanelSpec /\ PanelFairness

-----------------------------------------------------------------------------
PageOK ==
    /\ shown \in {"checking", "none", "pending", "running", "busy", "unreachable"}
    /\ shownId \in Ids \cup {Null}
    /\ visible \subseteq Buttons
    /\ enabled \in BOOLEAN
    /\ timer \in BOOLEAN
    /\ polls \in 0..MaxPolls

RequestsOK ==
    /\ call \in [Calls -> Buttons \cup {"refresh"}]
    /\ at \in [Calls -> {"idle", "lookup", "act", "insert", "answer"}]
    /\ seen \in [Calls -> {"none", "pending", "running"} \X (Ids \cup {Null})]

TypeOK == PageOK /\ RequestsOK

\* Something will still happen by itself.
Alive == polls > 0 \/ timer \/ \E k \in Calls : at[k] # "idle"

\* The player is never left with nothing to click and nothing to wait for, except
\* under the message that says to reload the page: overlapping answers disable,
\* enable and hide the buttons in any order.
NoDeadPanel ==
    (enabled /\ visible # {}) \/ Alive \/ shown = "unreachable"

\* An instance that is over is not shown as running for good, although nobody
\* tells the page that a team mate or the reaper has ended it.
StaleHeals ==
    \A i \in Ids :
        (shown = "running" /\ shownId = i /\ ~ IsActive(i))
            ~> (shown # "running" \/ shownId # i \/ IsActive(i))

\* "Starting..." does not last: it ends with the launch, whatever polls overlap.
PanelSettles == shown = "pending" ~> shown # "pending"

=============================================================================
