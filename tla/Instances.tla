------------------------------ MODULE Instances ------------------------------
(***************************************************************************)
(* The instance lifecycle of the IsolateX orchestrator: the rows of the    *)
(* `instances` table, the request tasks that serve create, stop, restart   *)
(* and renew together with the background work each carries (launching on  *)
(* a worker, destroying on a worker), the TTL reaper, and the containers   *)
(* on the workers as the orchestrator's calls leave them.                  *)
(*                                                                         *)
(* The grain is one database transaction or one worker call per step: a    *)
(* task gives up control at every `await`, and between two of its          *)
(* statements any other task of the process may run.  Every write is an    *)
(* UPDATE by primary key with no condition on the old status, so a step    *)
(* that writes does not look again at what an earlier step read.           *)
(***************************************************************************)
EXTENDS Integers, FiniteSets

CONSTANTS
    Ids,        \* instance ids; uuid4 never repeats, so each is used once
    Keys,       \* (team_id, challenge_id) pairs
    Workers,    \* worker ids
    Capacity,   \* max_instances of each worker
    Procs,      \* request tasks the orchestrator serves at the same time
    TTLs,       \* lifetimes an administrator may configure
    Horizon,    \* bound on the clock, for model checking
    Faults,     \* which faults may happen, a subset of FaultKinds
    Null

\* The orchestrator dies; a worker call does not get through; a launch call
\* outruns its timeout; a database statement fails; a launch that raises on the
\* worker leaves its container (the pod of kctf and kata).
FaultKinds == {"crash", "worker", "timeout", "db", "leftover"}

ASSUME NullAssumption     == Null \notin Ids \cup Keys \cup Workers
ASSUME CapacityAssumption == Capacity \in [Workers -> Nat]
ASSUME TTLAssumption      == TTLs \subseteq Nat /\ TTLs # {}
ASSUME HorizonAssumption  == Horizon \in Nat
ASSUME FaultAssumption    == Faults \subseteq FaultKinds

VARIABLES
    clock,      \* wall-clock time
    ttl,        \* what _effective_ttl returns now
    status,     \* Instance.status, "absent" before the row is inserted
    owner,      \* Instance.(team_id, challenge_id)
    host,       \* Instance.worker_id
    expires,    \* Instance.expires_at
    backend,    \* ids whose row has backend_host and backend_port
    call,       \* the worker's view of the /launch request for each id
    boxes,      \* ids that have a container on their worker
    pc,         \* where each request task is
    reqKey,     \* the team and challenge it serves
    oldId,      \* the existing row it works on
    newId,      \* the row it inserted and launches
    picked,     \* the worker pick_worker gave it
    seen,       \* the expiry renew read at its fetch
    reapList,   \* the rows the reaper has yet to destroy
    reapId,     \* the row it has destroyed and has yet to mark
    lost        \* history: ids whose background work a fault cut short

dbVars     == <<status, owner, host, expires, backend>>
workerVars == <<call, boxes>>
locals     == <<reqKey, oldId, newId, picked, seen>>
taskVars   == <<pc, reqKey, oldId, newId, picked, seen>>
reapVars   == <<reapList, reapId>>
vars == <<clock, ttl, status, owner, host, expires, backend, call, boxes,
          pc, reqKey, oldId, newId, picked, seen, reapList, reapId, lost>>

-----------------------------------------------------------------------------
(***************************************************************************)
(* Rows, tasks and the two kinds of responsibility a task can carry.       *)
(***************************************************************************)

Statuses == {"absent", "pending", "running", "destroyed", "error"}
Active   == {"pending", "running"}

\* No row is ever `expired`: the enum has the value and no code assigns it.
IsActive(i) == status[i] \in Active

\* A worker's load counts in-flight and running rows (scheduler_worker.py).
Load(w) == Cardinality({i \in Ids : IsActive(i) /\ host[i] = w})

Spare(w) == Capacity[w] - Load(w)

PCs == {"idle", "pick", "insert",              \* create
        "stop", "destroy",                     \* stop
        "repick", "free", "reinsert", "destroyOld",  \* restart
        "renew",                               \* renew
        "post", "await", "ready"}              \* _launch_on_worker

\* A task at these points is launching the row newId[p], or is at work on
\* the existing row oldId[p].
LaunchPCs == {"destroyOld", "post", "await", "ready"}
OldPCs    == {"stop", "destroy", "repick", "free", "reinsert", "destroyOld",
              "renew"}

\* Task p has committed the row of i and still owes it a launch result.
Launching(p, i) ==
    newId[p] = i /\ pc[p] \in LaunchPCs

\* Task p has committed i as destroyed and still owes its worker a call.
Destroying(p, i) ==
    oldId[p] = i /\ pc[p] \in {"reinsert", "destroyOld", "destroy"}

\* What a task that dies now leaves undone.
Owed(p) == {i \in Ids : Launching(p, i) \/ Destroying(p, i)}

\* Bound: a request that may insert a row starts only while an id is left.
IdLeft ==
    Cardinality({q \in Procs :
                   pc[q] \in {"pick", "insert", "repick", "free", "reinsert"}})
      < Cardinality({i \in Ids : status[i] = "absent"})

Goto(p, l) == pc' = [pc EXCEPT ![p] = l]

Begin(p, l, k, i, e) ==
    /\ Goto(p, l)
    /\ reqKey' = [reqKey EXCEPT ![p] = k]
    /\ oldId' = [oldId EXCEPT ![p] = i]
    /\ newId' = [newId EXCEPT ![p] = Null]
    /\ picked' = [picked EXCEPT ![p] = Null]
    /\ seen' = [seen EXCEPT ![p] = e]

TaskTo(p, l) == Goto(p, l) /\ UNCHANGED locals
TaskEnds(p)  == Begin(p, "idle", Null, Null, 0)

-----------------------------------------------------------------------------
Init ==
    /\ clock = 0
    /\ ttl \in TTLs
    /\ status = [i \in Ids |-> "absent"]
    /\ owner = [i \in Ids |-> Null]
    /\ host = [i \in Ids |-> Null]
    /\ expires = [i \in Ids |-> 0]
    /\ backend = {}
    /\ call = [i \in Ids |-> "none"]
    /\ boxes = {}
    /\ pc = [p \in Procs |-> "idle"]
    /\ reqKey = [p \in Procs |-> Null]
    /\ oldId = [p \in Procs |-> Null]
    /\ newId = [p \in Procs |-> Null]
    /\ picked = [p \in Procs |-> Null]
    /\ seen = [p \in Procs |-> 0]
    /\ reapList = {}
    /\ reapId = Null
    /\ lost = {}

-----------------------------------------------------------------------------
(***************************************************************************)
(* POST /instances.  The duplicate check, the choice of a worker and the   *)
(* insert are three statements; nothing in the schema backs the check up.  *)
(***************************************************************************)

\* Mutant: only running rows count as active.
CreateCheck_RunningOnly(p, k) ==
    /\ pc[p] = "idle"
    /\ IdLeft
    /\ ~ \E i \in Ids : status[i] = "running" /\ owner[i] = k
    /\ Begin(p, "pick", k, Null, 0)
    /\ UNCHANGED <<clock, ttl, dbVars, workerVars, reapVars, lost>>

\* A request that finds an active row is answered 409 and changes nothing.
CreateCheck(p, k) ==
    /\ pc[p] = "idle"
    /\ IdLeft
    /\ ~ \E i \in Ids : IsActive(i) /\ owner[i] = k
    /\ Begin(p, "pick", k, Null, 0)
    /\ UNCHANGED <<clock, ttl, dbVars, workerVars, reapVars, lost>>

\* Mutant: a full worker is not refused.
PickWorker_Full(p) ==
    /\ pc[p] \in {"pick", "repick"}
    /\ \E w \in Workers : picked' = [picked EXCEPT ![p] = w]
    /\ Goto(p, IF pc[p] = "pick" THEN "insert" ELSE "free")
    /\ UNCHANGED <<clock, ttl, dbVars, workerVars, reqKey, oldId, newId, seen,
                   reapVars, lost>>

\* pick_worker: among the workers registered, live and of the right runtime
\* (any subset here), one with the most spare capacity, if it has any.
PickWorker(p) ==
    /\ pc[p] \in {"pick", "repick"}
    /\ \E eligible \in SUBSET Workers : \E w \in eligible :
         /\ \A v \in eligible : Spare(v) <= Spare(w)
         /\ Load(w) < Capacity[w]
         /\ picked' = [picked EXCEPT ![p] = w]
    /\ Goto(p, IF pc[p] = "pick" THEN "insert" ELSE "free")
    /\ UNCHANGED <<clock, ttl, dbVars, workerVars, reqKey, oldId, newId, seen,
                   reapVars, lost>>

\* 404 for an unknown challenge, 503 when no worker can take the instance.
PickRefused(p) ==
    /\ pc[p] \in {"pick", "repick"}
    /\ TaskEnds(p)
    /\ UNCHANGED <<clock, ttl, dbVars, workerVars, reapVars, lost>>

\* The per-challenge lifetime, else the database setting, else the default:
\* whichever it is, an administrator may change it at any time.
EffectiveTTL == ttl

\* The new row i, whose launch will know it as id.
InsertRowAs(p, i, id) ==
    /\ status' = [status EXCEPT ![i] = "pending"]
    /\ owner' = [owner EXCEPT ![i] = reqKey[p]]
    /\ host' = [host EXCEPT ![i] = picked[p]]
    /\ expires' = [expires EXCEPT ![i] = clock + EffectiveTTL]
    /\ newId' = [newId EXCEPT ![p] = id]
    /\ Goto(p, IF pc[p] = "insert" THEN "post" ELSE "destroyOld")
    /\ UNCHANGED <<clock, ttl, backend, workerVars, reqKey, oldId, picked, seen,
                   reapVars, lost>>

\* Mutant: a restart may reuse the row it has just destroyed.
InsertRow_Reuse(p) ==
    /\ pc[p] \in {"insert", "reinsert"}
    /\ \E i \in Ids : (status[i] = "absent" \/ i = oldId[p]) /\ InsertRowAs(p, i, i)

\* _create_instance_record: a fresh pending row; the launch is attached to
\* the response, in a restart behind the destruction of the old instance.
InsertRow(p) ==
    /\ pc[p] \in {"insert", "reinsert"}
    /\ \E i \in Ids : status[i] = "absent" /\ InsertRowAs(p, i, i)

-----------------------------------------------------------------------------
(***************************************************************************)
(* DELETE /instances/{id} and POST /instances/{id}/restart.  The status    *)
(* is checked when the row is fetched; the later write is unconditional.   *)
(***************************************************************************)

StopFetch(p, i) ==
    /\ pc[p] = "idle"
    /\ IsActive(i)
    /\ Begin(p, "stop", Null, i, 0)
    /\ UNCHANGED <<clock, ttl, dbVars, workerVars, reapVars, lost>>

RestartFetch(p, i) ==
    /\ pc[p] = "idle"
    /\ IdLeft
    /\ IsActive(i)
    /\ Begin(p, "repick", owner[i], i, 0)
    /\ UNCHANGED <<clock, ttl, dbVars, workerVars, reapVars, lost>>

\* Mutant: a stop schedules no destruction.
WriteDestroyed_Forget(p) ==
    /\ pc[p] \in {"stop", "free"}
    /\ status' = [status EXCEPT ![oldId[p]] = "destroyed"]
    /\ IF pc[p] = "stop" THEN TaskEnds(p) ELSE TaskTo(p, "reinsert")
    /\ UNCHANGED <<clock, ttl, owner, host, expires, backend, workerVars,
                   reapVars, lost>>

\* Stop and restart commit the old row as destroyed before anything else.
WriteDestroyed(p) ==
    /\ pc[p] \in {"stop", "free"}
    /\ status' = [status EXCEPT ![oldId[p]] = "destroyed"]
    /\ TaskTo(p, IF pc[p] = "stop" THEN "destroy" ELSE "reinsert")
    /\ UNCHANGED <<clock, ttl, owner, host, expires, backend, workerVars,
                   reapVars, lost>>

\* The worker is asked to destroy i.  The call may fail to get through; the
\* callers log that and go on.
WorkerDestroys(i) ==
    \/ boxes' = boxes \ {i} /\ lost' = lost
    \/ "worker" \in Faults /\ boxes' = boxes /\ lost' = lost \cup {i}

\* Mutant: a restart loses its launch behind the destruction.
DestroyOnWorker_Only(p) ==
    /\ pc[p] \in {"destroy", "destroyOld"}
    /\ WorkerDestroys(oldId[p])
    /\ TaskEnds(p)
    /\ UNCHANGED <<clock, ttl, dbVars, call, reapVars>>

\* _destroy_on_worker as a background task; in a restart the launch of the
\* new instance waits behind it.
DestroyOnWorker(p) ==
    /\ pc[p] \in {"destroy", "destroyOld"}
    /\ WorkerDestroys(oldId[p])
    /\ IF pc[p] = "destroy" THEN TaskEnds(p) ELSE TaskTo(p, "post")
    /\ UNCHANGED <<clock, ttl, dbVars, call, reapVars>>

-----------------------------------------------------------------------------
(***************************************************************************)
(* POST /instances/{id}/renew.  The expiry compared with is the one read   *)
(* at the fetch.                                                           *)
(***************************************************************************)

RenewFetch(p, i) ==
    /\ pc[p] = "idle"
    /\ status[i] = "running"
    /\ Begin(p, "renew", Null, i, expires[i])
    /\ UNCHANGED <<clock, ttl, dbVars, workerVars, reapVars, lost>>

\* Success: only the expiry column is written.
RenewWrite(p) ==
    /\ pc[p] = "renew"
    /\ clock + EffectiveTTL > seen[p]
    /\ expires' = [expires EXCEPT ![oldId[p]] = clock + EffectiveTTL]
    /\ TaskEnds(p)
    /\ UNCHANGED <<clock, ttl, status, owner, host, backend, workerVars,
                   reapVars, lost>>

\* 409: the countdown would not move forward.
RenewRefused(p) ==
    /\ pc[p] = "renew"
    /\ clock + EffectiveTTL <= seen[p]
    /\ TaskEnds(p)
    /\ UNCHANGED <<clock, ttl, dbVars, workerVars, reapVars, lost>>

-----------------------------------------------------------------------------
(***************************************************************************)
(* _launch_on_worker, after the response has been sent.                    *)
(***************************************************************************)

\* Mutant: a launch without an answer is posted once more.
PostLaunch_Retry(p) ==
    /\ pc[p] \in {"post", "await"}
    /\ call' = [call EXCEPT ![newId[p]] = "starting"]
    /\ TaskTo(p, "await")
    /\ UNCHANGED <<clock, ttl, dbVars, boxes, reapVars, lost>>

\* The worker is asked to launch the new row, once, with a 60 s timeout.
PostLaunch(p) ==
    /\ pc[p] = "post"
    /\ call' = [call EXCEPT ![newId[p]] = "starting"]
    /\ TaskTo(p, "await")
    /\ UNCHANGED <<clock, ttl, dbVars, boxes, reapVars, lost>>

\* Mutant: an error answer passes for a result.
RecordBackend_AnyAnswer(p) ==
    /\ pc[p] = "await"
    /\ call[newId[p]] \in {"ok", "failed"}
    /\ backend' = backend \cup {newId[p]}
    /\ TaskTo(p, "ready")
    /\ UNCHANGED <<clock, ttl, status, owner, host, expires, workerVars,
                   reapVars, lost>>

\* Mutant: the target is recorded only with the result.
RecordBackend_Late(p) ==
    /\ pc[p] = "await"
    /\ call[newId[p]] = "ok"
    /\ TaskTo(p, "ready")
    /\ UNCHANGED <<clock, ttl, dbVars, workerVars, reapVars, lost>>

\* The worker answered: record the backend while the row is still pending.
RecordBackend(p) ==
    /\ pc[p] = "await"
    /\ call[newId[p]] = "ok"
    /\ backend' = backend \cup {newId[p]}
    /\ TaskTo(p, "ready")
    /\ UNCHANGED <<clock, ttl, status, owner, host, expires, workerVars,
                   reapVars, lost>>

\* Both polls, of the worker's /ready and of the gateway route, end: the
\* instance answered or 30 s and 10 s went by, which is not told apart.
ReadyOrTimedOut(p) == pc[p] = "ready"

\* The row becomes running whatever its status is by then.
MarkRunning(p) ==
    /\ ReadyOrTimedOut(p)
    /\ status' = [status EXCEPT ![newId[p]] = "running"]
    /\ backend' = backend \cup {newId[p]}
    /\ TaskEnds(p)
    /\ UNCHANGED <<clock, ttl, owner, host, expires, workerVars, reapVars, lost>>

\* Mutant: a refusal is neither a result nor an exception.
LaunchRaises_Unread(p) ==
    \/ pc[p] = "post" /\ "worker" \in Faults
    \/ pc[p] = "await" /\ "timeout" \in Faults /\ call[newId[p]] # "failed"

\* What takes a launch to its except branch: the worker refused, the call did not
\* get through or outran the 60 s timeout, or the answer was not recorded.
LaunchRaises(p) ==
    \/ pc[p] = "await" /\ call[newId[p]] = "failed"
    \/ pc[p] = "post" /\ "worker" \in Faults
    \/ pc[p] = "await" /\ "timeout" \in Faults
    \/ pc[p] \in {"await", "ready"} /\ "db" \in Faults /\ call[newId[p]] = "ok"

\* The except branch.  A launch the worker refused or never got has left nothing
\* behind; one that was given up may have, and nobody is told.
MarkError(p) ==
    /\ LaunchRaises(p)
    /\ lost' = IF pc[p] = "post" \/ call[newId[p]] = "failed"
               THEN lost ELSE lost \cup {newId[p]}
    /\ status' = [status EXCEPT ![newId[p]] = "error"]
    /\ TaskEnds(p)
    /\ UNCHANGED <<clock, ttl, owner, host, expires, backend, workerVars, reapVars>>

\* The worker's side of /launch.  It runs on when the caller has gone.
WorkerCreates(i) ==
    /\ call[i] = "starting"
    /\ call' = [call EXCEPT ![i] = "created"]
    /\ boxes' = boxes \cup {i}
    /\ UNCHANGED <<clock, ttl, dbVars, taskVars, reapVars, lost>>

WorkerAnswers(i) ==
    /\ call[i] = "created"
    /\ call' = [call EXCEPT ![i] = "ok"]
    /\ UNCHANGED <<clock, ttl, dbVars, boxes, taskVars, reapVars, lost>>

\* The Docker adapter cleans up behind a launch that raises, the Kubernetes
\* adapters do not.
WorkerRaises(i) ==
    /\ call[i] \in {"starting", "created"}
    /\ call' = [call EXCEPT ![i] = "failed"]
    /\ \/ boxes' = boxes \ {i} /\ lost' = lost
       \/ "leftover" \in Faults /\ boxes' = boxes /\ lost' = lost \cup {i}
    /\ UNCHANGED <<clock, ttl, dbVars, taskVars, reapVars>>

-----------------------------------------------------------------------------
(***************************************************************************)
(* The TTL reaper: one query, then the rows it returned one after another, *)
(* each with a worker call of up to 15 s before the write.                 *)
(***************************************************************************)

\* The reaper, when it has nothing left to do, fetches the rows that are due.
ReaperScanFor(due) ==
    /\ reapList = {} /\ reapId = Null
    /\ reapList' = due
    /\ UNCHANGED <<clock, ttl, dbVars, workerVars, taskVars, reapId, lost>>

\* Mutant: an instance is due only after its expiry.
ReaperScan_Late ==
    ReaperScanFor({i \in Ids : status[i] = "running" /\ expires[i] < clock})

\* reap_expired: running rows whose expires_at has passed.
ReaperScan ==
    ReaperScanFor({i \in Ids : status[i] = "running" /\ expires[i] <= clock})

ReaperDestroys(i) ==
    /\ reapId = Null
    /\ i \in reapList
    /\ reapList' = reapList \ {i}
    /\ reapId' = i
    /\ WorkerDestroys(i)
    /\ UNCHANGED <<clock, ttl, dbVars, call, taskVars>>

\* Whatever the worker said, and whatever the row holds by now.
ReaperMarks(i) ==
    /\ reapId = i
    /\ status' = [status EXCEPT ![i] = "destroyed"]
    /\ reapId' = Null
    /\ reapList' = reapList
    /\ UNCHANGED <<clock, ttl, owner, host, expires, backend, workerVars, taskVars,
                   lost>>

-----------------------------------------------------------------------------
(***************************************************************************)
(* Time, the administrator and faults.                                     *)
(***************************************************************************)

Tick ==
    /\ clock < Horizon
    /\ clock' = clock + 1
    /\ UNCHANGED <<ttl, dbVars, workerVars, taskVars, reapVars, lost>>

\* PATCH /settings or PATCH /challenges: the lifetime in force changes.
UpdateSettings(t) ==
    /\ ttl' = t
    /\ UNCHANGED <<clock, dbVars, workerVars, taskVars, reapVars, lost>>

\* The orchestrator process dies and starts again: rows and containers stay,
\* every request, background task and the reaper's list is gone.
Crash ==
    /\ "crash" \in Faults
    /\ pc' = [p \in Procs |-> "idle"]
    /\ reqKey' = [p \in Procs |-> Null]
    /\ oldId' = [p \in Procs |-> Null]
    /\ newId' = [p \in Procs |-> Null]
    /\ picked' = [p \in Procs |-> Null]
    /\ seen' = [p \in Procs |-> 0]
    /\ reapList' = {}
    /\ reapId' = Null
    /\ lost' = lost \cup UNION {Owed(p) : p \in Procs}
    /\ UNCHANGED <<clock, ttl, dbVars, workerVars>>

\* A statement fails outside every try: a restart whose insert fails after
\* the old row was committed never attaches its background tasks, and a
\* background destroy whose query fails takes the launch behind it along.  The
\* write of the except branch fails as well: the row stays pending for good.
DatabaseFails(p) ==
    /\ "db" \in Faults
    /\ pc[p] \in {"pick", "insert"} \cup OldPCs \/ LaunchRaises(p)
    /\ lost' = lost \cup Owed(p)
    /\ TaskEnds(p)
    /\ UNCHANGED <<clock, ttl, dbVars, workerVars, reapVars>>

\* run_reaper catches the exception and starts over at the next interval.
ReaperFails ==
    /\ "db" \in Faults
    /\ ~ (reapList = {} /\ reapId = Null)
    /\ reapList' = {}
    /\ reapId' = Null
    /\ UNCHANGED <<clock, ttl, dbVars, workerVars, taskVars, lost>>

-----------------------------------------------------------------------------
Request(p) ==
    \/ \E k \in Keys : CreateCheck(p, k)
    \/ \E i \in Ids : StopFetch(p, i) \/ RestartFetch(p, i) \/ RenewFetch(p, i)

Proceed(p) ==
    \/ PickWorker(p) \/ PickRefused(p) \/ InsertRow(p)
    \/ WriteDestroyed(p) \/ DestroyOnWorker(p)
    \/ RenewWrite(p) \/ RenewRefused(p)
    \/ PostLaunch(p) \/ RecordBackend(p) \/ MarkRunning(p) \/ MarkError(p)

WorkerStep(i) == WorkerCreates(i) \/ WorkerAnswers(i) \/ WorkerRaises(i)

Reap == ReaperScan \/ \E i \in Ids : ReaperDestroys(i) \/ ReaperMarks(i)

Fault == Crash \/ ReaperFails \/ \E p \in Procs : DatabaseFails(p)

Next ==
    \/ \E p \in Procs : Request(p) \/ Proceed(p)
    \/ \E i \in Ids : WorkerStep(i)
    \/ Reap
    \/ Tick
    \/ \E t \in TTLs : UpdateSettings(t)
    \/ Fault

Spec == Init /\ [][Next]_vars

\* A task that has begun goes on, a worker answers or the call times out, the
\* reaper loops for ever and time passes; nobody has to send a request.
Fairness ==
    /\ \A p \in Procs : WF_vars(Proceed(p))
    /\ \A i \in Ids : WF_vars(WorkerStep(i))
    /\ WF_vars(Reap)
    /\ WF_vars(Tick)

FairSpec == Spec /\ Fairness

-----------------------------------------------------------------------------
(***************************************************************************)
(* Safety.                                                                 *)
(***************************************************************************)

\* Every variable stays within its type.
TypeOK ==
    /\ clock \in Nat
    /\ ttl \in TTLs
    /\ status \in [Ids -> Statuses]
    /\ owner \in [Ids -> Keys \cup {Null}]
    /\ host \in [Ids -> Workers \cup {Null}]
    /\ expires \in [Ids -> Nat]
    /\ backend \subseteq Ids
    /\ call \in [Ids -> {"none", "starting", "created", "ok", "failed"}]
    /\ boxes \subseteq Ids
    /\ pc \in [Procs -> PCs]
    /\ reqKey \in [Procs -> Keys \cup {Null}]
    /\ oldId \in [Procs -> Ids \cup {Null}]
    /\ newId \in [Procs -> Ids \cup {Null}]
    /\ picked \in [Procs -> Workers \cup {Null}]
    /\ seen \in [Procs -> Nat]
    /\ \A p \in Procs : pc[p] \in LaunchPCs => newId[p] \in Ids
    /\ \A p \in Procs : pc[p] \in OldPCs => oldId[p] \in Ids
    /\ reapList \subseteq Ids
    /\ reapId \in Ids \cup {Null}
    /\ lost \subseteq Ids

\* A container whose instance no fault has touched is accounted for: its row
\* is active, so a stop or the reaper will find it, or a task is still to
\* finish its launch or to have it destroyed.  The fetch-then-write handlers,
\* the reaper's stale list and a destroy that overtakes a launch all leave
\* room for a container nobody remembers.
NoOrphan ==
    \A i \in boxes \ lost :
        IsActive(i) \/ \E p \in Procs : Launching(p, i) \/ Destroying(p, i)

\* A row is pending only while a task is still working on its launch: the
\* reaper never looks at pending rows and a team with one cannot create
\* another, so a pending row nobody works on locks the team out.
PendingHasLauncher ==
    \A i \in Ids \ lost :
        status[i] = "pending" => \E p \in Procs : Launching(p, i)

\* Load is read at the choice and the row inserted later, and a stopped row
\* can come back as running, so a worker can be given more than max_instances;
\* but never more than one instance too many per other concurrent task.
OvercommitBounded ==
    \A w \in Workers :
        Load(w) <= Capacity[w] + Cardinality(Procs) - 1

\* The steps a row's status may take, over all the blind writes of handlers,
\* launches and the reaper.  destroyed -> running and destroyed -> error are
\* launches that outlived a stop; a row that failed never comes back, one that
\* runs never fails, and none is pending twice.
StatusStep ==
    {<<"absent", "pending">>,
     <<"pending", "running">>, <<"pending", "error">>, <<"pending", "destroyed">>,
     <<"running", "destroyed">>, <<"error", "destroyed">>,
     <<"destroyed", "running">>, <<"destroyed", "error">>}

StatusSteps ==
    [][\A i \in Ids : status'[i] # status[i] =>
                         <<status[i], status'[i]>> \in StatusStep]_vars

\* The orchestrator's use of the workers and what the model lets them do stay
\* within the contract the adapters are shown to keep: one launch per instance,
\* a container only under an open launch call, a destroy at any time.
Contract == INSTANCE AdapterContract WITH Leftover <- ("leftover" \in Faults)

UsesContract == Contract!Spec

\* What the gateway, the panel and everything else outside the orchestrator see of
\* the rows, whatever tasks, workers and faults do: a launch brings its row up or
\* fails it at most once and only after the target was recorded, and an ended row
\* whose launch is over stays ended.
LaunchOf(i) ==
    IF status[i] = "absent" THEN "none"
    ELSE IF \E p \in Procs : Launching(p, i) THEN "open" ELSE "over"

Lifecycle == INSTANCE Lifecycle WITH
    launch <- [i \in Ids |-> LaunchOf(i)],
    Lossy  <- Faults \cap {"crash", "db"} # {}

ImplementsLifecycle == Lifecycle!Spec

-----------------------------------------------------------------------------
(***************************************************************************)
(* Liveness, under Fairness and for faults that do not lose tasks.         *)
(***************************************************************************)

\* Every launch comes to an end, however stops, restarts and the reaper interleave
\* with it and whether or not the worker answers: the row of an instance nobody
\* is launching any more is what PendingHasLauncher speaks of.
LaunchesEnd == Lifecycle!LaunchesEnd

\* An active instance past its expiry is ended (or renewed), even when it only
\* becomes running after its expiry.
ExpiredIsEnded ==
    \A i \in Ids : (IsActive(i) /\ expires[i] <= clock)
                      ~> ~(IsActive(i) /\ expires[i] <= clock)

\* The container of an ended instance is removed in the end, unless the
\* instance comes back as running or a fault hit its clean-up.
ContainersCollected ==
    \A i \in Ids : (status[i] \in {"destroyed", "error"} /\ i \in boxes)
                      ~> (i \notin boxes \/ status[i] = "running" \/ i \in lost)

-----------------------------------------------------------------------------
(***************************************************************************)
(* The inductive invariant: what the safety properties rest on.            *)
(***************************************************************************)

\* Two tasks never launch the same row, and a row being launched is pending or
\* was stopped meanwhile: no launch result can hit a running or failed row.
OneLauncher ==
    /\ \A p, q \in Procs : \A i \in Ids :
         Launching(p, i) /\ Launching(q, i) => p = q
    /\ \A p \in Procs : \A i \in Ids :
         Launching(p, i) => status[i] \in {"pending", "destroyed"}

\* The worker has an open /launch only for an id some task is waiting on.
OpenCallHasCaller ==
    \A i \in Ids \ lost :
        call[i] \in {"starting", "created"} =>
            \E p \in Procs : newId[p] = i /\ pc[p] = "await"

\* A launch that failed left no container, save by a fault, and one that has
\* not begun has none.
NoBoxWithoutLaunch ==
    \A i \in boxes : call[i] \in {"created", "ok"} \/ (call[i] = "failed" /\ i \in lost)

\* Rows that reached `running` have an answered launch call behind them, as
\* do the rows the reaper works on.
RunningWasLaunched ==
    /\ \A i \in Ids : status[i] = "running" => call[i] = "ok" /\ i \in backend
    /\ \A p \in Procs : pc[p] = "ready" =>
         call[newId[p]] = "ok" /\ newId[p] \in backend
    /\ \A i \in reapList : call[i] = "ok"
    /\ reapId # Null => call[reapId] = "ok"

\* The instance the reaper is about to mark has no container left.
ReapedHasNoBox ==
    reapId # Null => reapId \notin boxes \ lost

\* An id no row uses yet has left no trace anywhere.
AbsentIsFresh ==
    \A i \in Ids : status[i] = "absent" =>
        /\ call[i] = "none" /\ i \notin boxes /\ i \notin reapList
        /\ reapId # i
        /\ \A p \in Procs : ~ Launching(p, i) /\ oldId[p] # i

\* Tasks work on rows that exist, and a launch not yet posted is unknown to
\* the worker.
TaskLocals ==
    \A p \in Procs :
        /\ pc[p] \in LaunchPCs => status[newId[p]] # "absent"
        /\ pc[p] \in OldPCs => status[oldId[p]] # "absent"
        /\ pc[p] \in {"post", "destroyOld"} => call[newId[p]] = "none"

\* The inductive strengthening of NoOrphan and PendingHasLauncher.
IInv ==
    /\ TypeOK
    /\ NoOrphan
    /\ PendingHasLauncher
    /\ OneLauncher
    /\ OpenCallHasCaller
    /\ NoBoxWithoutLaunch
    /\ RunningWasLaunched
    /\ ReapedHasNoBox
    /\ AbsentIsFresh
    /\ TaskLocals

-----------------------------------------------------------------------------
(***************************************************************************)
(* The strengthening of OvercommitBounded, inductive next to IInv.         *)
(***************************************************************************)

\* Task p is about to insert a row on worker w, or its launch may bring back
\* the row of w that was ended meanwhile.
OwesSlot(p, w) ==
    \/ pc[p] \in {"insert", "free", "reinsert"} /\ picked[p] = w
    \/ \E i \in Ids : Launching(p, i) /\ status[i] = "destroyed" /\ host[i] = w

\* With these counted, only the choice of a worker adds to a worker's load.
SlotsBounded ==
    \A w \in Workers :
        Load(w) + Cardinality({p \in Procs : OwesSlot(p, w)})
          <= Capacity[w] + Cardinality(Procs) - 1

=============================================================================
