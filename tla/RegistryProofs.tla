--------------------------- MODULE RegistryProofs ---------------------------
(***************************************************************************)
(* Proofs about WorkerRegistry, for any number of requests in flight, any  *)
(* time limits and any number of losses: types, and that a worker which    *)
(* believes itself registered is eligible as long as commits are prompt.   *)
(***************************************************************************)
EXTENDS WorkerRegistry, TLAPS

-----------------------------------------------------------------------------
\* The points of the agent that ask for something, and what for.
LEMMA AsksFacts ==
    /\ DOMAIN Asks = {"boot", "register", "beat", "leave"}
    /\ Asks["boot"] = "register" /\ Asks["register"] = "register"
    /\ Asks["beat"] = "heartbeat" /\ Asks["leave"] = "deregister"
  BY DEF Asks

\* The bounds are natural numbers.
LEMMA BoundFacts ==
    /\ Timeout \in Nat /\ Interval \in Nat /\ RegisterLimit \in Nat
    /\ CallLimit \in Nat /\ CommitLimit \in Nat /\ MaxLosses \in Nat
  BY TimeAssumption

\* The time limits are natural numbers within the bound of TypeOK.
LEMMA LimitFacts ==
    \A l : Limit(l) \in Nat /\ Limit(l) <= RegisterLimit + CallLimit + Interval
  BY BoundFacts DEF Limit

\* Where the agent goes when its wait for a request ends, and when the flag
\* outlives that.
LEMMA AfterWait ==
    ASSUME TypeOK, Receive \/ GiveUp \/ Lose
    PROVE  /\ mine \in Calls /\ mine' = Null /\ wait' = 0
           /\ registered' \in BOOLEAN
           /\ \/ agent = "boot" /\ agent' = "register" /\ ~ registered'
              \/ /\ agent = "register" /\ agent' = "beat"
                 /\ registered' => phase[mine] = "done"
              \/ /\ agent = "beat" /\ agent' = "sleep"
                 /\ registered' => registered /\ phase[mine] = "done"
              \/ agent = "leave" /\ agent' = "down" /\ ~ registered'
<1>1. mine \in Calls /\ agent \in {"boot", "register", "beat", "leave"}
  BY AsksFacts DEF TypeOK, Receive, GiveUp, Lose
<1>2. \/ Continue(TRUE) /\ phase[mine] = "done"
      \/ Continue(FALSE)
  <2>1. CASE Receive /\ phase[mine] = "done"
    BY <2>1 DEF Receive
  <2>2. CASE Receive /\ phase[mine] # "done"
    BY <2>2 DEF Receive
  <2>3. CASE GiveUp \/ Lose
    BY <2>3 DEF GiveUp, Lose
  <2> QED
    BY <2>1, <2>2, <2>3
<1>3. CASE agent = "boot"
  BY <1>1, <1>2, <1>3 DEF Continue, Goto
<1>4. CASE agent = "register"
  BY <1>1, <1>2, <1>4 DEF Continue, Goto
<1>5. CASE agent = "beat"
  BY <1>1, <1>2, <1>5 DEF Continue, Goto
<1>6. CASE agent = "leave"
  BY <1>1, <1>2, <1>6 DEF Continue, Goto
<1> QED
  BY <1>1, <1>3, <1>4, <1>5, <1>6

-----------------------------------------------------------------------------
\* The initial state satisfies the invariant.
LEMMA InitOK == Init => IInv
<1> SUFFICES ASSUME Init PROVE IInv
  OBVIOUS
<1>1. TypeOK
  <2>1. age \in 0..(Timeout + 1) /\ losses \in 0..MaxLosses
    BY BoundFacts DEF Init
  <2>2. wait \in 0..(RegisterLimit + CallLimit + Interval)
    BY BoundFacts DEF Init
  <2>3. stamp \in [Calls -> 0..CommitLimit]
    BY BoundFacts DEF Init
  <2> QED
    BY <2>1, <2>2, <2>3 DEF Init, TypeOK, Kinds
<1>2. InTime /\ LoopHoldsFlag /\ NoLateDeregister /\ TakenStaysActive /\ SeenLately
  BY DEF Init, InTime, LoopHoldsFlag, NoLateDeregister, TakenStaysActive, SeenLately
<1> QED
  BY <1>1, <1>2 DEF IInv

\* Every step keeps the types.
LEMMA TypesOK ==
    ASSUME TypeOK, Next
    PROVE  TypeOK'
<1> USE NullAssumption, BoundFacts, AsksFacts
    DEF TypeOK, Up, Loop, Kinds, dbVars, agentVars, callVars
<1>1. CASE Start
  BY <1>1 DEF Start, Goto
<1>2. CASE Send
  BY <1>2 DEF Send
<1>3. CASE Receive \/ GiveUp \/ Lose
  <2>1. wait' = 0 /\ mine' = Null /\ registered' \in BOOLEAN
    BY <1>3, AfterWait
  <2>2. agent' \in {"down", "leave"} \cup Up
    BY <1>3, AfterWait
  <2>3. phase' \in [Calls -> {"free", "sent", "read", "done", "error"}]
    <3>1. CASE Abandon
      BY <3>1 DEF Abandon
    <3>2. CASE phase' = phase \/ phase' = [phase EXCEPT ![mine] = "free"]
      BY <3>2
    <3> QED
      BY <1>3, <3>1, <3>2 DEF Receive, GiveUp, Lose
  <2>4. losses' = losses \/ (losses < MaxLosses /\ losses' = losses + 1)
    BY <1>3 DEF Receive, GiveUp, Lose
  <2>5. losses' \in 0..MaxLosses
    BY <2>4
  <2>6. UNCHANGED <<row, age, kind, saw, stamp>>
    BY <1>3 DEF Receive, GiveUp, Lose
  <2> QED
    BY <2>1, <2>2, <2>3, <2>5, <2>6
<1>4. CASE Wake
  BY <1>4 DEF Wake, Goto
<1>5. CASE Shutdown \/ Crash
  <2>1. mine' = Null /\ wait' = 0 /\ registered' \in BOOLEAN
    BY <1>5 DEF Shutdown, Crash, Goto
  <2>2. agent' \in {"down", "leave"} \cup Up
    BY <1>5 DEF Shutdown, Crash, Goto
  <2>3. phase' \in [Calls -> {"free", "sent", "read", "done", "error"}]
    BY <1>5 DEF Shutdown, Crash, Abandon
  <2>4. UNCHANGED <<row, age, kind, saw, stamp, losses>>
    BY <1>5 DEF Shutdown, Crash
  <2> QED
    BY <2>1, <2>2, <2>3, <2>4
<1>6. ASSUME NEW c \in Calls, Serve(c) PROVE TypeOK'
  <2>1. CASE Handle(c)
    BY <2>1 DEF Handle
  <2>2. CASE Register(c) \/ Heartbeat(c)
    <3>1. \/ age' = Capped(stamp[c])
          \/ UNCHANGED age
      BY <2>2 DEF Register, Heartbeat, Seen
    <3>2. age' \in 0..(Timeout + 1)
      BY <3>1 DEF Capped
    <3>3. row' \in {"none", "active", "inactive"}
      BY <2>2 DEF Register, Heartbeat
    <3>4. UNCHANGED <<agentVars, kind, losses>>
      BY <2>2 DEF Register, Heartbeat, Answer
    <3>5. phase' \in [Calls -> {"free", "sent", "read", "done", "error"}]
      BY <2>2 DEF Register, Heartbeat, Answer
    <3>6. /\ saw' \in [Calls -> {"none", "active", "inactive"}]
          /\ stamp' \in [Calls -> 0..CommitLimit]
      BY <2>2 DEF Register, Heartbeat, Answer
    <3> QED
      BY <3>2, <3>3, <3>4, <3>5, <3>6
  <2>3. CASE Deregister(c)
    <3>1. stamp' \in [Calls -> 0..CommitLimit]
      BY <2>3 DEF Deregister, Answer
    <3> QED
      BY <2>3, <3>1 DEF Deregister, Answer
  <2> QED
    BY <1>6, <2>1, <2>2, <2>3 DEF Serve
<1>7. CASE Forget
  BY <1>7 DEF Forget
<1>8. CASE Tick
  <2>1. wait' \in 0..(RegisterLimit + CallLimit + Interval)
    BY <1>8, LimitFacts DEF Tick
  <2>2. stamp' \in [Calls -> 0..CommitLimit]
    BY <1>8 DEF Tick
  <2>3. age' \in 0..(Timeout + 1)
    BY <1>8 DEF Tick, Capped
  <2> QED
    BY <1>8, <2>1, <2>2, <2>3 DEF Tick
<1> QED
  BY <1>1, <1>2, <1>3, <1>4, <1>5, <1>6, <1>7, <1>8 DEF Next, Proceed

\* Every variable keeps its type, whatever the faults.
THEOREM TypesHold == Spec => []TypeOK
<1>1. Init => TypeOK
  BY InitOK DEF IInv
<1>2. TypeOK /\ UNCHANGED vars => TypeOK'
  BY DEF TypeOK, vars
<1> QED
  BY <1>1, <1>2, TypesOK, PTL DEF Spec

-----------------------------------------------------------------------------
\* No step overstays a limit.
LEMMA InTimeOK ==
    ASSUME IInv, Next
    PROVE  InTime'
<1> USE DEF IInv, InTime
<1>1. CASE wait' = 0
  BY <1>1, LimitFacts
<1>2. CASE UNCHANGED <<agent, wait>>
  BY <1>2
<1>3. CASE Tick
  BY <1>3, LimitFacts DEF Tick, TypeOK
<1>4. CASE Receive \/ GiveUp \/ Lose
  BY <1>1, <1>4, AfterWait
<1> QED
  BY <1>1, <1>2, <1>3, <1>4 DEF Next, Proceed, Serve, Start, Send, Wake, Shutdown, Crash,
     Handle, Register, Heartbeat, Deregister, Answer, Forget, Goto, agentVars

\* The flag is set on leaving "register" and dropped on leaving the loop.
LEMMA LoopHoldsFlagOK ==
    ASSUME IInv, Next
    PROVE  LoopHoldsFlag'
<1> USE DEF IInv, LoopHoldsFlag
<1>1. CASE UNCHANGED <<agent, registered>>
  BY <1>1
<1>2. CASE Start \/ Wake \/ Shutdown \/ Crash
  BY <1>2 DEF Start, Wake, Shutdown, Crash, Goto
<1>3. CASE Receive \/ GiveUp \/ Lose
  BY <1>3, AfterWait
<1> QED
  BY <1>1, <1>2, <1>3 DEF Next, Proceed, Serve, Send, Handle, Register, Heartbeat,
     Deregister, Answer, Forget, Tick, agentVars

\* An agent starts after its predecessor's deregistration has ended, and sends
\* none while it is up.
LEMMA NoLateDeregisterOK ==
    ASSUME IInv, Next, "late" \notin Faults
    PROVE  NoLateDeregister'
<1> USE DEF IInv, NoLateDeregister, TypeOK, Up, Loop
<1>1. CASE Start
  BY <1>1 DEF Start, callVars
<1>2. CASE Send
  BY <1>2, AsksFacts DEF Send
<1>3. CASE Receive \/ GiveUp \/ Lose
  <2>1. agent' \in Up => agent \in Up
    BY <1>3, AfterWait
  <2>2. kind' = kind /\ \A c \in Calls : phase[c] = "free" => phase'[c] = "free"
    BY <1>3 DEF Receive, GiveUp, Lose, Abandon, callVars
  <2> QED
    BY <2>1, <2>2
<1>4. CASE Wake
  BY <1>4 DEF Wake, callVars
<1>5. CASE Shutdown \/ Crash
  BY <1>5 DEF Shutdown, Crash, Goto
<1>6. ASSUME NEW c \in Calls, Serve(c) PROVE NoLateDeregister'
  BY <1>6 DEF Serve, Handle, Register, Heartbeat, Deregister, Answer, agentVars
<1>7. CASE Forget \/ Tick
  BY <1>7 DEF Forget, Tick, agentVars, callVars
<1> QED
  BY <1>1, <1>2, <1>3, <1>4, <1>5, <1>6, <1>7 DEF Next, Proceed

-----------------------------------------------------------------------------
\* While the registration holds no handler can make the row inactive: a
\* deregistration that could is not open, and a registration leaves it active.
LEMMA TakenStaysActiveOK ==
    ASSUME IInv, Next
    PROVE  TakenStaysActive'
<1> USE DEF IInv, TakenStaysActive, RowTaken, TypeOK
<1>1. CASE Start
  BY <1>1 DEF Start, Goto, dbVars
<1>2. CASE Send
  BY <1>2 DEF Send, dbVars
<1>3. CASE Receive \/ GiveUp \/ Lose
  <2>1. registered' => registered \/ RowTaken
    BY <1>3, AfterWait, NullAssumption
  <2>2. mine' = Null /\ row' = row
    BY <1>3, AfterWait DEF Receive, GiveUp, Lose, dbVars
  <2> QED
    BY <2>1, <2>2
<1>4. CASE Wake \/ Shutdown \/ Crash
  BY <1>4 DEF Wake, Shutdown, Crash, Goto, dbVars
<1>5. ASSUME NEW c \in Calls, Handle(c) PROVE TakenStaysActive'
  BY <1>5 DEF Handle, dbVars, agentVars
<1>6. ASSUME NEW c \in Calls, Register(c) PROVE TakenStaysActive'
  <2>1. CASE row' = "active"
    BY <2>1
  <2>2. CASE saw[c] = "active" /\ row' = row
    BY <1>6, <2>2 DEF Register, Answer, agentVars
  <2>3. CASE row' = row /\ Answer(c, "error")
    BY <2>3 DEF Answer, agentVars
  <2> QED
    BY <1>6, <2>2, <2>3 DEF Register, dbVars
<1>7. ASSUME NEW c \in Calls, Heartbeat(c) PROVE TakenStaysActive'
  <2>1. RowTaken' => RowTaken
    BY <1>7, AsksFacts DEF Heartbeat, Answer, agentVars
  <2>2. row' = row /\ registered' = registered
    BY <1>7 DEF Heartbeat, Answer, dbVars, agentVars
  <2> HIDE DEF RowTaken
  <2> QED
    BY <2>1, <2>2
<1>8. ASSUME NEW c \in Calls, Deregister(c) PROVE TakenStaysActive'
  BY <1>8 DEF Deregister, Answer, agentVars, NoLateDeregister, LoopHoldsFlag
<1>9. CASE Forget
  BY <1>9 DEF Forget
<1>10. CASE Tick
  BY <1>10 DEF Tick, callVars
<1> QED
  BY <1>1, <1>2, <1>3, <1>4, <1>5, <1>6, <1>7, <1>8, <1>9, <1>10
     DEF Next, Proceed, Serve

\* The age of the row follows the wait of the loop.
LEMMA SeenLatelyOK ==
    ASSUME IInv, Next
    PROVE  SeenLately'
<1> USE BoundFacts DEF IInv, SeenLately, TypeOK
<1>1. CASE Start
  BY <1>1 DEF Start, Goto
<1>2. CASE Send
  BY <1>2 DEF Send, dbVars
<1>3. CASE Receive \/ GiveUp \/ Lose
  <2>1. mine # Null /\ mine' = Null /\ wait' = 0 /\ UNCHANGED <<row, age>>
    BY <1>3, AfterWait DEF Receive, GiveUp, Lose, dbVars
  <2>2. registered' /\ agent' = "beat" => agent = "register" /\ phase[mine] = "done"
    BY <1>3, AfterWait
  <2>3. registered' /\ agent' = "sleep" => agent = "beat" /\ phase[mine] = "done"
    BY <1>3, AfterWait
  <2>4. /\ agent = "register" => wait <= RegisterLimit
        /\ agent = "beat" => wait <= CallLimit
    BY DEF InTime, Limit
  <2> QED
    BY <2>1, <2>2, <2>3, <2>4
<1>4. CASE Wake
  BY <1>4 DEF Wake, Goto, dbVars
<1>5. CASE Shutdown \/ Crash
  BY <1>5 DEF Shutdown, Crash, Goto
<1>6. ASSUME NEW c \in Calls, Handle(c) PROVE SeenLately'
  BY <1>6 DEF Handle, dbVars, agentVars
<1>7. ASSUME NEW c \in Calls, Register(c) \/ Heartbeat(c) PROVE SeenLately'
  <2>1. CASE Seen(c)
    <3>1. age' \in 0..CommitLimit
      BY <2>1 DEF Seen, Capped
    <3>2. wait \in Nat /\ UNCHANGED <<wait, agent, registered, mine>>
      BY <1>7 DEF Register, Heartbeat, Answer, agentVars
    <3> QED
      BY <3>1, <3>2
  <2>2. CASE UNCHANGED dbVars /\ Answer(c, "error")
    BY <2>2 DEF dbVars, Answer, agentVars
  <2> QED
    BY <1>7, <2>1, <2>2 DEF Register, Heartbeat
<1>8. ASSUME NEW c \in Calls, Deregister(c) PROVE SeenLately'
  <2>1. c = mine => agent \notin {"register", "beat"}
    BY <1>8, AsksFacts, NullAssumption DEF Deregister
  <2>2. phase' = [phase EXCEPT ![c] = phase'[c]] /\ UNCHANGED <<age, agent, wait, registered, mine>>
    BY <1>8 DEF Deregister, Answer, dbVars, agentVars
  <2>3. row' # "none" => row # "none"
    BY <1>8 DEF Deregister, dbVars
  <2> QED
    BY <2>1, <2>2, <2>3
<1>9. CASE Forget
  BY <1>9 DEF Forget
<1>10. CASE Tick
  <2>2. agent # "down" => wait' = wait + 1
    BY <1>10 DEF Tick
  <2>3. age' \in Int /\ age' <= age + 1 /\ UNCHANGED <<row, agent, registered, mine, phase>>
    BY <1>10 DEF Tick, Capped
  <2> QED
    BY <2>2, <2>3 DEF LoopHoldsFlag
<1> QED
  BY <1>1, <1>2, <1>3, <1>4, <1>5, <1>6, <1>7, <1>8, <1>9, <1>10
     DEF Next, Proceed, Serve

-----------------------------------------------------------------------------
\* IInv is inductive when no agent starts over its predecessor's deregistration.
THEOREM Inductive ==
    ASSUME "late" \notin Faults
    PROVE  Spec => []IInv
<1>1. IInv /\ UNCHANGED vars => IInv'
  BY DEF IInv, TypeOK, InTime, LoopHoldsFlag, NoLateDeregister, TakenStaysActive,
     RowTaken, SeenLately, vars
<1>2. IInv /\ [Next]_vars => IInv'
  BY <1>1, TypesOK, InTimeOK, LoopHoldsFlagOK, NoLateDeregisterOK, TakenStaysActiveOK, SeenLatelyOK
  DEF IInv
<1> QED
  BY InitOK, <1>2, PTL DEF Spec

\* A worker whose loop believes it registered is one that pick_worker considers,
\* for any number of late requests, lost calls and old times written over newer
\* ones, if an agent waits for its predecessor's deregistration and a commit is as
\* prompt as the cutoff, the interval and the limits of the calls require.
THEOREM RegisteredWorkersAreEligible ==
    ASSUME "late" \notin Faults, PromptCommits
    PROVE  Spec => []RegisteredIsEligible
<1>1. IInv => RegisteredIsEligible
  <2> SUFFICES ASSUME IInv, registered, row # "none" PROVE Eligible
    BY DEF RegisteredIsEligible
  <2>1. row = "active"
    BY DEF IInv, TypeOK, TakenStaysActive
  <2>2. agent \in {"beat", "sleep"}
    BY DEF IInv, LoopHoldsFlag
  <2>3. wait <= IF agent = "sleep" THEN Interval ELSE CallLimit
    BY <2>2 DEF IInv, InTime, Limit
  <2>4. age <= Timeout
    BY <2>2, <2>3, BoundFacts DEF PromptCommits, IInv, TypeOK, SeenLately
  <2> QED
    BY <2>1, <2>4 DEF Eligible
<1> QED
  BY <1>1, Inductive, PTL

=============================================================================
