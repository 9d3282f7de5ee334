---------------------------- MODULE WorkerRegistry ----------------------------
(***************************************************************************)
(* The registration of a worker: the agent's boot, heartbeat loop and      *)
(* shutdown (worker/main.py), the orchestrator's handlers that serve them  *)
(* (orchestrator/api/workers.py), each a read and a later write of the     *)
(* worker's row, and what pick_worker makes of the row.  No handler looks  *)
(* at another worker's row, so one worker is modelled.                     *)
(*                                                                         *)
(* One tick is 5 seconds.  A request outlives the agent's interest in it:  *)
(* after a timeout, a cancellation or a crash its handler goes on.  It     *)
(* takes the time when it has read the row and commits it later, so that   *)
(* last_seen is as old as the commit was slow, and a slow one writes an    *)
(* old time over a newer one.                                              *)
(***************************************************************************)
EXTENDS Integers, FiniteSets

CONSTANTS
    Calls,          \* requests the orchestrator has open at the same time
    Timeout,        \* worker_heartbeat_timeout_seconds
    Interval,       \* heartbeat_interval_seconds
    RegisterLimit,  \* the longest _register waits (connect and read, 10 s each)
    CallLimit,      \* the longest a heartbeat or _deregister waits (5 s each)
    CommitLimit,    \* the longest from a handler's clock reading to its commit
    MaxLosses,      \* bound on the requests and answers that get lost
    Faults,         \* which faults may happen, a subset of FaultKinds
    Null

\* A request or its answer gets lost; the database forgets the row; the agent
\* is started again while its predecessor's deregistration is still open.
FaultKinds == {"loss", "forget", "late"}

ASSUME NullAssumption  == Null \notin Calls
ASSUME TimeAssumption  == /\ {Timeout, Interval} \subseteq Nat
                          /\ {RegisterLimit, CallLimit, CommitLimit} \subseteq Nat
                          /\ MaxLosses \in Nat
ASSUME FaultAssumption == Faults \subseteq FaultKinds

\* What no limit in the code sees to: a commit that is slow enough makes last_seen
\* too old before anybody can hear of it.  By default, with 60 s for the cutoff,
\* 15 s between heartbeats, and 20 s and 10 s of patience, 25 s are left.
PromptCommits ==
    /\ CommitLimit + RegisterLimit + CallLimit <= Timeout
    /\ CommitLimit + CallLimit + Interval + CallLimit <= Timeout

VARIABLES
    row,        \* the worker's row: none, active or inactive
    age,        \* ticks since last_seen, counted up to the first past the cutoff
    agent,      \* where the agent process is
    wait,       \* ticks it has spent there
    registered, \* the heartbeat loop's flag
    mine,       \* the request the agent waits for
    kind,       \* per request: its endpoint
    phase,      \* per request: free, sent, read, done or error
    saw,        \* per request: the row as its handler read it
    stamp,      \* per request: ticks since its handler took the time
    losses      \* requests and answers lost so far

dbVars    == <<row, age>>
agentVars == <<agent, wait, registered, mine>>
callVars  == <<kind, phase, saw, stamp>>
vars      == <<row, age, agent, wait, registered, mine, kind, phase, saw,
               stamp, losses>>

Kinds == {"register", "heartbeat", "deregister"}
Loop  == {"register", "beat", "sleep"}
Up    == Loop \cup {"boot"}

\* What each point of the agent asks for.
Asks == [boot |-> "register", register |-> "register", beat |-> "heartbeat",
         leave |-> "deregister"]

Limit(l) == CASE l = "sleep" -> Interval
              [] l \in {"boot", "register"} -> RegisterLimit
              [] OTHER -> CallLimit

Init ==
    /\ row = "none" /\ age = Timeout + 1
    /\ agent = "down" /\ wait = 0 /\ registered = FALSE /\ mine = Null
    /\ kind = [c \in Calls |-> "register"]
    /\ phase = [c \in Calls |-> "free"]
    /\ saw = [c \in Calls |-> "none"]
    /\ stamp = [c \in Calls |-> 0]
    /\ losses = 0

\* Ticks are counted until they are past the cutoff.
Capped(t) == IF t > Timeout THEN Timeout + 1 ELSE t

\* pick_worker considers the worker: it is active and was seen lately.
Eligible == row = "active" /\ age <= Timeout

-----------------------------------------------------------------------------
(***************************************************************************)
(* The agent.                                                              *)
(***************************************************************************)

Goto(l) == agent' = l /\ wait' = 0 /\ mine' = Null

\* The container is started: lifespan registers before anything else.
Start ==
    /\ agent = "down"
    /\ "late" \in Faults
         \/ \A c \in Calls : phase[c] # "free" => kind[c] # "deregister"
    /\ Goto("boot")
    /\ UNCHANGED <<dbVars, registered, callVars, losses>>

Send ==
    /\ agent \in DOMAIN Asks
    /\ mine = Null
    /\ \E c \in Calls :
         /\ phase[c] = "free"
         /\ mine' = c
         /\ kind' = [kind EXCEPT ![c] = Asks[agent]]
         /\ phase' = [phase EXCEPT ![c] = "sent"]
    /\ UNCHANGED <<dbVars, agent, wait, registered, saw, stamp, losses>>

\* Mutant: a rejected heartbeat does not clear the flag.
Continue_KeepFlag(ok) ==
    /\ Goto([boot |-> "register", register |-> "beat", beat |-> "sleep",
             leave |-> "down"][agent])
    /\ registered' = IF agent = "register" THEN ok ELSE registered

\* Mutant: the loop takes the registration for granted.
Continue_Assume(ok) ==
    /\ Goto([boot |-> "register", register |-> "beat", beat |-> "sleep",
             leave |-> "down"][agent])
    /\ registered' = CASE agent = "register" -> TRUE
                       [] agent = "beat"     -> registered /\ ok
                       [] OTHER              -> FALSE

\* What follows an answer or a failure.  Booting ignores it; the loop sets its
\* flag, and goes to the heartbeat and to sleep in any case.
Continue(ok) ==
    /\ Goto([boot |-> "register", register |-> "beat", beat |-> "sleep",
             leave |-> "down"][agent])
    /\ registered' = CASE agent = "register" -> ok
                       [] agent = "beat"     -> registered /\ ok
                       [] OTHER              -> FALSE

\* The answer arrives in time.
Receive ==
    /\ mine # Null
    /\ phase[mine] \in {"done", "error"}
    /\ Continue(phase[mine] = "done")
    /\ phase' = [phase EXCEPT ![mine] = "free"]
    /\ UNCHANGED <<dbVars, kind, saw, stamp, losses>>

\* A request nobody waits for any more is served all the same; an answer
\* nobody waits for any more is dropped.
Abandoned(c) == c # mine

Abandon ==
    phase' = [c \in Calls |->
                IF phase[c] \in {"done", "error"} THEN "free" ELSE phase[c]]

\* The client times out; the request goes on, unless its answer is on the way.
GiveUp ==
    /\ mine # Null
    /\ wait = Limit(agent)
    /\ Continue(FALSE)
    /\ Abandon
    /\ UNCHANGED <<dbVars, kind, saw, stamp, losses>>

\* The request never arrives, or its answer gets lost.
Lose ==
    /\ "loss" \in Faults
    /\ losses < MaxLosses
    /\ losses' = losses + 1
    /\ mine # Null
    /\ phase' = IF phase[mine] = "read" THEN phase
                ELSE [phase EXCEPT ![mine] = "free"]
    /\ Continue(FALSE)
    /\ UNCHANGED <<dbVars, kind, saw, stamp>>

\* The heartbeat loop's next round: register first unless it is registered.
Wake ==
    /\ agent = "sleep"
    /\ wait = Interval
    /\ Goto(IF registered THEN "beat" ELSE "register")
    /\ UNCHANGED <<dbVars, registered, callVars, losses>>

\* lifespan after its yield: the loop is cancelled and the agent deregisters.
Shutdown ==
    /\ agent \in Loop
    /\ Goto("leave")
    /\ registered' = FALSE
    /\ Abandon
    /\ UNCHANGED <<dbVars, kind, saw, stamp, losses>>

Crash ==
    /\ agent # "down"
    /\ Goto("down")
    /\ registered' = FALSE
    /\ Abandon
    /\ UNCHANGED <<dbVars, kind, saw, stamp, losses>>

-----------------------------------------------------------------------------
(***************************************************************************)
(* The orchestrator's handlers: select the row, then write and commit.     *)
(***************************************************************************)

\* The row is read, and the time is taken before anything else is awaited.
Handle(c) ==
    /\ phase[c] = "sent"
    /\ phase' = [phase EXCEPT ![c] = "read"]
    /\ saw' = [saw EXCEPT ![c] = row]
    /\ stamp' = [stamp EXCEPT ![c] = 0]
    /\ UNCHANGED <<dbVars, agentVars, kind, losses>>

\* The handler ends; the answer of an abandoned request goes nowhere.
Answer(c, r) ==
    /\ phase' = [phase EXCEPT ![c] = IF Abandoned(c) THEN "free" ELSE r]
    /\ saw' = [saw EXCEPT ![c] = "none"]
    /\ stamp' = [stamp EXCEPT ![c] = 0]
    /\ UNCHANGED <<agentVars, kind, losses>>

\* last_seen becomes the time the handler took, whatever it has been set to since.
Seen(c) == age' = Capped(stamp[c])

\* register_worker.  The update writes the attributes that changed: `active`
\* only if it was read as false.  An insert beside another one and an update
\* of a row that is gone fail.
Register(c) ==
    /\ phase[c] = "read" /\ kind[c] = "register"
    /\ \/ /\ saw[c] = "none" /\ row = "none"
          /\ row' = "active" /\ Seen(c)
          /\ Answer(c, "done")
       \/ /\ saw[c] # "none" /\ row # "none"
          /\ row' = IF saw[c] = "inactive" THEN "active" ELSE row
          /\ Seen(c)
          /\ Answer(c, "done")
       \/ /\ (saw[c] = "none") # (row = "none")
          /\ Answer(c, "error") /\ UNCHANGED dbVars

\* Mutant: an unknown worker's heartbeat is accepted.
Heartbeat_AnyWorker(c) ==
    /\ phase[c] = "read" /\ kind[c] = "heartbeat"
    /\ age' = (IF row = "none" THEN age ELSE Capped(stamp[c])) /\ UNCHANGED row
    /\ Answer(c, "done")

\* heartbeat: last_seen is all it writes; 404 for an unknown worker.
Heartbeat(c) ==
    /\ phase[c] = "read" /\ kind[c] = "heartbeat"
    /\ IF saw[c] # "none" /\ row # "none"
       THEN Seen(c) /\ UNCHANGED row /\ Answer(c, "done")
       ELSE UNCHANGED dbVars /\ Answer(c, "error")

\* deregister_worker: clears `active` if it was read as true.
Deregister(c) ==
    /\ phase[c] = "read" /\ kind[c] = "deregister"
    /\ IF saw[c] = "active" /\ row # "none"
       THEN row' = "inactive" /\ UNCHANGED age
       ELSE UNCHANGED dbVars
    /\ Answer(c, IF saw[c] = "inactive" \/ (saw[c] = "active" /\ row # "none")
                 THEN "done" ELSE "error")

\* The database is lost or reset.
Forget ==
    /\ "forget" \in Faults
    /\ row # "none"
    /\ row' = "none" /\ age' = Timeout + 1
    /\ UNCHANGED <<agentVars, callVars, losses>>

\* The handlers that have a time to write.
Stamped(c) == phase[c] = "read" /\ kind[c] # "deregister"

\* Time passes, in a call's every phase; the agent sends at once.
Tick ==
    /\ agent = "down" \/ wait < Limit(agent)
    /\ agent \in DOMAIN Asks => mine # Null
    /\ \A c \in Calls : Stamped(c) => stamp[c] < CommitLimit
    /\ wait' = IF agent = "down" THEN 0 ELSE wait + 1
    /\ age' = Capped(age + 1)
    /\ stamp' = [c \in Calls |-> IF Stamped(c) THEN stamp[c] + 1 ELSE stamp[c]]
    /\ UNCHANGED <<row, agent, registered, mine, kind, phase, saw, losses>>

Proceed  == Send \/ Receive \/ GiveUp \/ Wake
Serve(c) == Handle(c) \/ Register(c) \/ Heartbeat(c) \/ Deregister(c)

Next ==
    \/ Start \/ Proceed \/ Lose \/ Shutdown \/ Crash
    \/ \E c \in Calls : Serve(c)
    \/ Forget
    \/ Tick

Spec == Init /\ [][Next]_vars

\* The agent and the orchestrator go on with what they have begun and time
\* passes; nobody has to start or stop an agent.
Fairness ==
    /\ WF_vars(Proceed) /\ WF_vars(Tick)
    /\ \A c \in Calls : WF_vars(Serve(c))

FairSpec == Spec /\ Fairness

-----------------------------------------------------------------------------
\* Every variable stays within its type, and the agent waits only for a
\* request of the kind it asks for there.
TypeOK ==
    /\ row \in {"none", "active", "inactive"}
    /\ age \in 0..(Timeout + 1)
    /\ agent \in {"down", "leave"} \cup Up
    /\ wait \in 0..(RegisterLimit + CallLimit + Interval)
    /\ registered \in BOOLEAN
    /\ mine \in Calls \cup {Null}
    /\ kind \in [Calls -> Kinds]
    /\ phase \in [Calls -> {"free", "sent", "read", "done", "error"}]
    /\ saw \in [Calls -> {"none", "active", "inactive"}]
    /\ stamp \in [Calls -> 0..CommitLimit]
    /\ losses \in 0..MaxLosses
    /\ mine # Null => agent \in DOMAIN Asks /\ kind[mine] = Asks[agent]

\* While the heartbeat loop believes the worker to be registered, pick_worker
\* does consider it, unless the database has lost its row: no slow or lost call,
\* no request of an earlier life of the agent, no old time written over a newer one
\* and no restart makes it inactive or lets last_seen run out unnoticed.
RegisteredIsEligible == registered /\ row # "none" => Eligible

(***************************************************************************)
(* The inductive invariant behind it, which needs an agent that is started *)
(* only after its predecessor's deregistration has ended.  PromptCommits   *)
(* is needed for what follows from it only.                                *)
(***************************************************************************)

\* The agent stays nowhere longer than its time limit there.
InTime == agent # "down" => wait <= Limit(agent)

\* Only the heartbeat loop holds the flag, and never while it registers anew.
LoopHoldsFlag == registered => agent \in {"beat", "sleep"}

\* An agent that is up has no deregistration of an earlier life to fear.
NoLateDeregister ==
    agent \in Up => \A c \in Calls : kind[c] = "deregister" => phase[c] = "free"

\* The agent's registration has gone through, or found the row active and has
\* nothing to change.
RowTaken ==
    /\ mine # Null /\ agent \in {"boot", "register"}
    /\ phase[mine] = "done" \/ (phase[mine] = "read" /\ saw[mine] = "active")

TakenStaysActive == registered \/ RowTaken => row # "inactive"

\* How long ago the worker was seen is told by where its loop stands, up to the time
\* a commit takes, of the worker's own request or of any it has given up.
SeenLately == row # "none" =>
    /\ registered /\ agent = "sleep" => age <= CommitLimit + CallLimit + wait
    /\ registered /\ agent = "beat" =>
         \/ age <= CommitLimit + RegisterLimit + wait
         \/ age <= CommitLimit + CallLimit + Interval + wait
    /\ mine # Null /\ phase[mine] = "done" /\ agent \in {"register", "beat"} =>
         age <= CommitLimit + wait

IInv ==
    /\ TypeOK
    /\ InTime /\ LoopHoldsFlag /\ NoLateDeregister
    /\ TakenStaysActive /\ SeenLately

\* A worker that stays up is considered in the end, however slowly its calls
\* are served, as long as no commit takes longer than the cutoff, and even if its
\* row is forgotten.
UpBecomesEligible == (agent \in Up) ~> (Eligible \/ agent \notin Up)

=============================================================================
