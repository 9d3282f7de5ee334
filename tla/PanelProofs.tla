----------------------------- MODULE PanelProofs -----------------------------
(***************************************************************************)
(* Theorems about PlayerPanel, for any number of instances, of requests    *)
(* open at the same time and of refreshes that are due.                    *)
(***************************************************************************)
EXTENDS PlayerPanel, TLAPS

\* A request that is sent keeps the type of the requests, and is open.
LEMMA SendsOK ==
  ASSUME RequestsOK, NEW k \in Calls, NEW c \in Buttons \cup {"refresh"}, Sends(k, c)
  PROVE  RequestsOK' /\ at'[k] # "idle"
  BY DEF RequestsOK, Sends

\* So is one that goes on as a refresh.
LEMMA RefreshesOK ==
  ASSUME RequestsOK, NEW k \in Calls, Refreshes(k)
  PROVE  RequestsOK' /\ at'[k] # "idle"
<1>1. Nothing \in {"none", "pending", "running"} \X (Ids \cup {Null})
  BY DEF Nothing
<1> QED
  BY <1>1 DEF RequestsOK, Refreshes

\* So is one that was served a step further.
LEMMA GoesOK ==
  ASSUME RequestsOK, NEW k \in Calls, NEW l \in {"act", "insert", "answer"},
         NEW s \in {"none", "pending", "running"} \X (Ids \cup {Null}), Goes(k, l, s)
  PROVE  RequestsOK' /\ at'[k] # "idle"
  BY DEF RequestsOK, Goes

\* A request that returns keeps the type.
LEMMA ReturnsOK ==
  ASSUME RequestsOK, NEW k \in Calls, Returns(k)
  PROVE  RequestsOK'
<1>1. Nothing \in {"none", "pending", "running"} \X (Ids \cup {Null})
  BY DEF Nothing
<1> QED
  BY <1>1 DEF RequestsOK, Returns

\* What the orchestrator serves leaves the page alone and the request open.
LEMMA ServedOK ==
  ASSUME TypeOK, NEW k \in Calls, Served(k)
  PROVE  RequestsOK' /\ UNCHANGED page /\ at'[k] # "idle"
<1>1. Nothing \in {"none", "pending", "running"} \X (Ids \cup {Null})
  BY DEF Nothing
<1>2. CASE Lookup(k)
  <2>1. PICK l \in {"act", "answer"}, s \in {"none", "pending", "running"} \X (Ids \cup {Null}) :
          Goes(k, l, s)
    <3>1. CASE ActiveIds = {}
      BY <1>1, <1>2, <3>1 DEF Lookup
    <3>2. CASE ActiveIds # {}
      <4>1. PICK i \in ActiveIds :
              Goes(k, IF call[k] = "refresh" THEN "answer" ELSE "act", <<status[i], i>>)
        BY <1>2, <3>2 DEF Lookup
      <4>2. <<status[i], i>> \in {"none", "pending", "running"} \X (Ids \cup {Null})
        BY DEF ActiveIds, IsActive, Active
      <4> QED
        BY <4>1, <4>2
    <3> QED
      BY <3>1, <3>2
  <2> QED
    BY <1>2, <2>1, GoesOK DEF TypeOK, Lookup
<1>3. CASE LaunchServed(k)
  BY <1>1, <1>3, GoesOK DEF TypeOK, LaunchServed
<1>4. CASE EndServed(k)
  BY <1>1, <1>4, GoesOK DEF TypeOK, EndServed
<1>5. CASE RestartServed(k)
  BY <1>1, <1>5, GoesOK DEF TypeOK, RestartServed
<1>6. CASE RenewServed(k)
  BY <1>1, <1>6, GoesOK DEF TypeOK, RenewServed
<1> QED
  BY <1>2, <1>3, <1>4, <1>5, <1>6 DEF Served

\* One more refresh is due, and it fits the bound.
LEMMA OneMoreOK == polls \in 0..MaxPolls => OneMore \in 0..MaxPolls /\ OneMore > 0
  BY MaxPollsAssumption DEF OneMore

\* A rendered page has a button to click or a refresh that is due.
LEMMA RenderOK ==
  ASSUME TypeOK, NEW k \in Calls, Render(k)
  PROVE  TypeOK' /\ NoDeadPanel'
<1> USE DEF PageOK, NoDeadPanel, Alive
<1>1. RequestsOK'
  BY ReturnsOK DEF TypeOK, Render
<1>2. seen[k][1] \in {"none", "pending", "running"} /\ seen[k][2] \in Ids \cup {Null}
  BY DEF TypeOK, RequestsOK
<1>3. CASE RenderNone
  BY <1>1, <1>3 DEF TypeOK, RenderNone, Buttons
<1>4. CASE RenderPending(seen[k][2])
  <2>1. polls' \in 0..MaxPolls /\ polls' > 0
    BY <1>4, OneMoreOK DEF TypeOK, RenderPending
  <2> QED
    BY <1>1, <1>2, <1>4, <2>1 DEF TypeOK, RenderPending, Buttons
<1>5. CASE RenderRunning(seen[k][2])
  <2>1. polls' \in 0..MaxPolls
    BY <1>5, OneMoreOK DEF TypeOK, RenderRunning
  <2> QED
    BY <1>1, <1>2, <1>5, <2>1 DEF TypeOK, RenderRunning, Buttons
<1> QED
  BY <1>3, <1>4, <1>5 DEF Render

\* The end of a request, with an answer or without one.
LEMMA EndedOK ==
  ASSUME TypeOK, NoDeadPanel, NEW k \in Calls, Ended(k)
  PROVE  TypeOK' /\ NoDeadPanel'
<1> USE DEF PageOK, NoDeadPanel, Alive
<1>1. CASE Render(k)
  BY <1>1, RenderOK
<1>2. CASE RefreshFails(k)
  BY <1>2, ReturnsOK DEF TypeOK, RefreshFails
<1>3. CASE LaunchFails(k)
  BY <1>3, ReturnsOK DEF TypeOK, LaunchFails, Buttons
<1>4. CASE ActionEnds(k)
  BY <1>4, RefreshesOK DEF TypeOK, ActionEnds, page
<1> QED
  BY <1>1, <1>2, <1>3, <1>4 DEF Ended

\* Every other step.
LEMMA StepOK ==
  ASSUME TypeOK, NoDeadPanel, [PanelNext]_panelVars
  PROVE  TypeOK' /\ NoDeadPanel'
<1> USE DEF PageOK, NoDeadPanel, Alive
<1>1. CASE Others \/ UNCHANGED panelVars
  BY <1>1 DEF TypeOK, RequestsOK, Others, page, requests, panelVars
<1>2. CASE TimerRings
  <2>1. polls' \in 0..MaxPolls /\ polls' > 0
    BY <1>2, OneMoreOK DEF TypeOK, TimerRings
  <2>2. RequestsOK'
    BY <1>2 DEF TypeOK, RequestsOK, TimerRings, requests
  <2> QED
    BY <1>2, <2>1, <2>2 DEF TypeOK, TimerRings
<1>3. CASE Reload
  <2>1. polls' \in 0..MaxPolls /\ polls' > 0
    BY <1>3, MaxPollsAssumption DEF Reload
  <2>2. Nothing \in {"none", "pending", "running"} \X (Ids \cup {Null})
    BY DEF Nothing
  <2>3. RequestsOK'
    BY <1>3, <2>2 DEF RequestsOK, Reload
  <2> QED
    BY <1>3, <2>1, <2>3 DEF TypeOK, Reload, Buttons
<1>4. ASSUME NEW k \in Calls, Served(k) PROVE TypeOK' /\ NoDeadPanel'
  BY <1>4, ServedOK DEF TypeOK, page
<1>5. ASSUME NEW k \in Calls, Ended(k) PROVE TypeOK' /\ NoDeadPanel'
  BY <1>5, EndedOK
<1>6. ASSUME NEW k \in Calls, PollFires(k) PROVE TypeOK' /\ NoDeadPanel'
  <2>1. polls' \in 0..MaxPolls
    BY <1>6, MaxPollsAssumption DEF TypeOK, PollFires
  <2>2. RequestsOK' /\ at'[k] # "idle"
    BY <1>6, SendsOK DEF TypeOK, PollFires
  <2> QED
    BY <1>6, <2>1, <2>2 DEF TypeOK, PollFires
<1>7. ASSUME NEW k \in Calls, NEW b \in Buttons, Click(k, b) PROVE TypeOK' /\ NoDeadPanel'
  BY <1>7, SendsOK DEF TypeOK, Click
<1> QED
  BY <1>1, <1>2, <1>3, <1>4, <1>5, <1>6, <1>7 DEF PanelNext

\* A page just opened has a refresh due.
LEMMA PanelInitOK == PanelInit => TypeOK /\ NoDeadPanel
<1>1. Nothing \in {"none", "pending", "running"} \X (Ids \cup {Null})
  BY DEF Nothing
<1>2. PanelInit => polls \in 0..MaxPolls /\ polls > 0
  BY MaxPollsAssumption DEF PanelInit
<1> QED
  BY <1>1, <1>2 DEF PanelInit, TypeOK, PageOK, RequestsOK, NoDeadPanel, Alive, Buttons

\* However answers of overlapping requests arrive, whichever fail, and whatever
\* team mates and the reaper do: the player has a button to click, something to
\* wait for, or the message that says to reload.
THEOREM NeverDead == PanelSpec => [](TypeOK /\ NoDeadPanel)
  BY PanelInitOK, StepOK, PTL DEF PanelSpec
=============================================================================
