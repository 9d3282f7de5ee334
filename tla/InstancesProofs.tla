--------------------------- MODULE InstancesProofs ---------------------------
(***************************************************************************)
(* Proofs about Instances, for any numbers of ids, teams, workers and      *)
(* concurrent tasks, any capacities, any lifetimes and any set of faults.  *)
(***************************************************************************)
EXTENDS Instances, TLAPS

\* The initial state is well-typed.
LEMMA InitType == Init => TypeOK
  BY TTLAssumption DEF Init, TypeOK, Statuses, PCs, LaunchPCs, OldPCs

\* A step of a request task keeps every variable within its type.
LEMMA TaskStepType ==
    ASSUME TypeOK, NEW p \in Procs, Request(p) \/ Proceed(p)
    PROVE  TypeOK'
<1> USE TTLAssumption, NullAssumption
    DEF TypeOK, Statuses, PCs, LaunchPCs, OldPCs, dbVars, workerVars, reapVars,
        Goto, Begin, TaskTo, TaskEnds, locals
<1>1. ASSUME NEW k \in Keys, CreateCheck(p, k) PROVE TypeOK'
  BY <1>1 DEF CreateCheck
<1>2. ASSUME NEW i \in Ids, StopFetch(p, i) PROVE TypeOK'
  BY <1>2 DEF StopFetch
<1>3. ASSUME NEW i \in Ids, RestartFetch(p, i) PROVE TypeOK'
  BY <1>3 DEF RestartFetch
<1>4. ASSUME NEW i \in Ids, RenewFetch(p, i) PROVE TypeOK'
  BY <1>4 DEF RenewFetch
<1>5. CASE PickWorker(p)
  BY <1>5 DEF PickWorker
<1>6. CASE PickRefused(p)
  BY <1>6 DEF PickRefused
<1>7. CASE InsertRow(p)
  BY <1>7 DEF InsertRow, InsertRowAs, EffectiveTTL
<1>8. CASE WriteDestroyed(p)
  BY <1>8 DEF WriteDestroyed
<1>9. CASE DestroyOnWorker(p)
  BY <1>9 DEF DestroyOnWorker, WorkerDestroys
<1>10. CASE RenewWrite(p)
  BY <1>10 DEF RenewWrite, EffectiveTTL
<1>11. CASE RenewRefused(p)
  BY <1>11 DEF RenewRefused
<1>12. CASE PostLaunch(p)
  BY <1>12 DEF PostLaunch
<1>13. CASE RecordBackend(p)
  BY <1>13 DEF RecordBackend
<1>14. CASE MarkRunning(p)
  BY <1>14 DEF MarkRunning, ReadyOrTimedOut
<1>15. CASE MarkError(p)
  BY <1>15 DEF MarkError, LaunchRaises
<1> QED
  BY <1>1, <1>2, <1>3, <1>4, <1>5, <1>6, <1>7, <1>8, <1>9, <1>10, <1>11, <1>12,
     <1>13, <1>14, <1>15 DEF Request, Proceed
\* A worker's step and the reaper's keep every variable within its type.
LEMMA WorkerStepType ==
    ASSUME TypeOK, \/ \E i \in Ids : WorkerStep(i)
                   \/ Reap
    PROVE  TypeOK'
<1> USE NullAssumption
    DEF TypeOK, Statuses, dbVars, workerVars, reapVars, taskVars, LaunchPCs, OldPCs
<1>1. ASSUME NEW i \in Ids, WorkerCreates(i) PROVE TypeOK'
  BY <1>1 DEF WorkerCreates
<1>2. ASSUME NEW i \in Ids, WorkerAnswers(i) PROVE TypeOK'
  BY <1>2 DEF WorkerAnswers
<1>3. ASSUME NEW i \in Ids, WorkerRaises(i) PROVE TypeOK'
  BY <1>3 DEF WorkerRaises
<1>4. ASSUME ReaperScan PROVE TypeOK'
  BY <1>4 DEF ReaperScan, ReaperScanFor
<1>5. ASSUME NEW i \in Ids, ReaperDestroys(i) PROVE TypeOK'
  BY <1>5 DEF ReaperDestroys, WorkerDestroys
<1>6. ASSUME NEW i \in Ids, ReaperMarks(i) PROVE TypeOK'
  BY <1>6 DEF ReaperMarks
<1> QED
  BY <1>1, <1>2, <1>3, <1>4, <1>5, <1>6 DEF WorkerStep, Reap

\* Time, the administrator and every fault keep the types too.
LEMMA OtherStepType ==
    ASSUME TypeOK, \/ Tick
                   \/ \E t \in TTLs : UpdateSettings(t)
                   \/ Fault
    PROVE  TypeOK'
<1> USE TTLAssumption, NullAssumption
    DEF TypeOK, PCs, LaunchPCs, OldPCs, dbVars, workerVars, reapVars, taskVars
<1>1. ASSUME Tick PROVE TypeOK'
  BY <1>1 DEF Tick
<1>2. ASSUME NEW t \in TTLs, UpdateSettings(t) PROVE TypeOK'
  BY <1>2 DEF UpdateSettings
<1>3. ASSUME Crash PROVE TypeOK'
  BY <1>3 DEF Crash, Owed
<1>4. ASSUME NEW p \in Procs, DatabaseFails(p) PROVE TypeOK'
  BY <1>4 DEF DatabaseFails, LaunchRaises, Owed, TaskEnds, Begin, Goto
<1>5. ASSUME ReaperFails PROVE TypeOK'
  BY <1>5 DEF ReaperFails
<1> QED
  BY <1>1, <1>2, <1>3, <1>4, <1>5 DEF Fault

\* Every step keeps the types.
LEMMA NextType == TypeOK /\ [Next]_vars => TypeOK'
<1> SUFFICES ASSUME TypeOK, [Next]_vars PROVE TypeOK'
  OBVIOUS
<1>1. CASE Next
  BY <1>1, TaskStepType, WorkerStepType, OtherStepType DEF Next
<1>2. CASE UNCHANGED vars
  BY <1>2 DEF vars, TypeOK
<1> QED
  BY <1>1, <1>2

\* The variables of the orchestrator, the workers and the history never leave
\* their types, whatever requests, worker answers and faults come in whatever
\* order.
THEOREM TypeCorrect == Spec => []TypeOK
<1>1. Init => TypeOK
  BY InitType
<1>2. TypeOK /\ [Next]_vars => TypeOK'
  BY NextType
<1> QED
  BY <1>1, <1>2, PTL DEF Spec

-----------------------------------------------------------------------------
(***************************************************************************)
(* The inductive invariant, one action at a time.  Most conjuncts speak of *)
(* variables a given action leaves alone or moves in the harmless          *)
(* direction; a step of its own names the conjunct that needs another one. *)
(***************************************************************************)

\* Before the first row nothing is owed to anyone.
LEMMA InitIInv == Init => IInv
  BY InitType, NullAssumption DEF Init, IInv, NoOrphan, PendingHasLauncher,
     OneLauncher, OpenCallHasCaller, NoBoxWithoutLaunch, RunningWasLaunched,
     ReapedHasNoBox, AbsentIsFresh, TaskLocals, Launching, LaunchPCs, OldPCs

\* A request that starts only reads rows.
LEMMA RequestIInv ==
    ASSUME IInv, TypeOK', NEW p \in Procs, Request(p)
    PROVE  IInv'
<1> USE NullAssumption, TTLAssumption
    DEF IInv, TypeOK, LaunchPCs, OldPCs, Launching, Destroying, IsActive,
        Active, dbVars, workerVars, reapVars, Begin, Goto, NoOrphan,
        PendingHasLauncher, OneLauncher, OpenCallHasCaller,
        NoBoxWithoutLaunch, RunningWasLaunched, ReapedHasNoBox,
        AbsentIsFresh, TaskLocals
<1>1. ASSUME NEW k \in Keys, CreateCheck(p, k) PROVE IInv'
  BY <1>1 DEF CreateCheck
<1>2. ASSUME NEW i \in Ids, StopFetch(p, i) PROVE IInv'
  BY <1>2 DEF StopFetch
<1>3. ASSUME NEW i \in Ids, RestartFetch(p, i) PROVE IInv'
  BY <1>3 DEF RestartFetch
<1>4. ASSUME NEW i \in Ids, RenewFetch(p, i) PROVE IInv'
  BY <1>4 DEF RenewFetch
<1> QED
  BY <1>1, <1>2, <1>3, <1>4 DEF Request

\* What a task does after its request was accepted.  A fresh row has no trace,
\* so its launch is unknown to the worker (<1>3); a stop owes the worker a call
\* until it was made (<1>4, <1>5); a failed launch left no container (<1>12).
LEMMA TaskIInv ==
    ASSUME IInv, TypeOK', NEW p \in Procs, Proceed(p)
    PROVE  IInv'
<1> USE NullAssumption, TTLAssumption
    DEF IInv, TypeOK, LaunchPCs, OldPCs, Launching, Destroying, IsActive,
        Active, dbVars, workerVars, reapVars, locals,
        Begin, Goto,
        TaskTo, TaskEnds, NoOrphan, PendingHasLauncher, OneLauncher,
        OpenCallHasCaller, NoBoxWithoutLaunch, RunningWasLaunched,
        ReapedHasNoBox, AbsentIsFresh, TaskLocals
<1>1. CASE PickWorker(p)
  BY <1>1 DEF PickWorker
<1>2. CASE PickRefused(p)
  BY <1>2 DEF PickRefused
<1>3. CASE InsertRow(p)
  BY <1>3 DEF InsertRow, InsertRowAs, EffectiveTTL
<1>4. CASE WriteDestroyed(p)
  BY <1>4 DEF WriteDestroyed
<1>5. CASE DestroyOnWorker(p) /\ pc[p] = "destroy"
  <2>1. NoOrphan' /\ PendingHasLauncher'
    BY <1>5 DEF DestroyOnWorker, WorkerDestroys
  <2>2. OneLauncher' /\ OpenCallHasCaller' /\ NoBoxWithoutLaunch'
    BY <1>5 DEF DestroyOnWorker, WorkerDestroys
  <2>3. RunningWasLaunched' /\ ReapedHasNoBox' /\ AbsentIsFresh' /\ TaskLocals'
    BY <1>5 DEF DestroyOnWorker, WorkerDestroys
  <2> QED
    BY <2>1, <2>2, <2>3
<1>6. CASE DestroyOnWorker(p) /\ pc[p] = "destroyOld"
  BY <1>6 DEF DestroyOnWorker, WorkerDestroys
<1>7. CASE RenewWrite(p)
  BY <1>7 DEF RenewWrite, EffectiveTTL
<1>8. CASE RenewRefused(p)
  BY <1>8 DEF RenewRefused
<1>9. CASE PostLaunch(p)
  BY <1>9 DEF PostLaunch
<1>10. CASE RecordBackend(p)
  BY <1>10 DEF RecordBackend
<1>11. CASE MarkRunning(p)
  BY <1>11 DEF MarkRunning, ReadyOrTimedOut
<1>12. CASE MarkError(p)
  <2>1. \A i \in boxes \ lost : call[i] # "failed"
    OBVIOUS
  <2>2. call[newId[p]] # "failed" =>
          newId[p] \in lost' \/ newId[p] \notin boxes
    BY <1>12 DEF MarkError, LaunchRaises
  <2> QED
    BY <1>12, <2>1, <2>2 DEF MarkError, LaunchRaises
<1> QED
  BY <1>1, <1>2, <1>3, <1>4, <1>5, <1>6, <1>7, <1>8, <1>9, <1>10, <1>11,
     <1>12 DEF Proceed, DestroyOnWorker

\* A container appears only under a launch some task waits on.
LEMMA WorkerIInv ==
    ASSUME IInv, TypeOK', NEW i \in Ids, WorkerStep(i)
    PROVE  IInv'
<1> USE NullAssumption, TTLAssumption
    DEF IInv, TypeOK, LaunchPCs, OldPCs, Launching, Destroying, IsActive,
        Active, dbVars, workerVars, reapVars, taskVars, NoOrphan,
        PendingHasLauncher, OneLauncher, OpenCallHasCaller,
        NoBoxWithoutLaunch, RunningWasLaunched, ReapedHasNoBox,
        AbsentIsFresh, TaskLocals
<1>1. CASE WorkerCreates(i)
  <2>1. i \notin lost => \E p \in Procs : Launching(p, i)
    BY <1>1 DEF WorkerCreates
  <2>2. i # reapId
    BY <1>1 DEF WorkerCreates
  <2> QED
    BY <1>1, <2>1, <2>2 DEF WorkerCreates
<1>2. CASE WorkerAnswers(i)
  BY <1>2 DEF WorkerAnswers
<1>3. CASE WorkerRaises(i)
  BY <1>3 DEF WorkerRaises
<1> QED
  BY <1>1, <1>2, <1>3 DEF WorkerStep

\* The reaper marks a row only after its container is gone or its call is lost.
LEMMA ReapIInv ==
    ASSUME IInv, TypeOK', Reap
    PROVE  IInv'
<1> USE NullAssumption, TTLAssumption
    DEF IInv, TypeOK, LaunchPCs, OldPCs, Launching, Destroying, IsActive,
        Active, dbVars, workerVars, reapVars, taskVars, NoOrphan,
        PendingHasLauncher, OneLauncher, OpenCallHasCaller,
        NoBoxWithoutLaunch, RunningWasLaunched, ReapedHasNoBox,
        AbsentIsFresh, TaskLocals
<1>1. ASSUME ReaperScan PROVE IInv'
  BY <1>1 DEF ReaperScan, ReaperScanFor
<1>2. ASSUME NEW i \in Ids, ReaperDestroys(i) PROVE IInv'
  BY <1>2 DEF ReaperDestroys, WorkerDestroys
<1>3. ASSUME NEW i \in Ids, ReaperMarks(i) PROVE IInv'
  <2>1. i \notin boxes \ lost
    BY <1>3 DEF ReaperMarks
  <2> QED
    BY <1>3, <2>1 DEF ReaperMarks
<1> QED
  BY <1>1, <1>2, <1>3 DEF Reap

\* Time and settings touch no row; a fault marks as lost what it leaves undone.
LEMMA OtherIInv ==
    ASSUME IInv, TypeOK', \/ Tick
                          \/ \E t \in TTLs : UpdateSettings(t)
                          \/ Fault
                          \/ UNCHANGED vars
    PROVE  IInv'
<1> USE NullAssumption, TTLAssumption
    DEF IInv, TypeOK, LaunchPCs, OldPCs, Launching, Destroying, IsActive,
        Active, dbVars, workerVars, reapVars, taskVars, Owed, NoOrphan,
        PendingHasLauncher, OneLauncher, OpenCallHasCaller,
        NoBoxWithoutLaunch, RunningWasLaunched, ReapedHasNoBox,
        AbsentIsFresh, TaskLocals
<1>1. ASSUME Tick PROVE IInv'
  BY <1>1 DEF Tick
<1>2. ASSUME NEW t \in TTLs, UpdateSettings(t) PROVE IInv'
  BY <1>2 DEF UpdateSettings
<1>3. ASSUME Crash PROVE IInv'
  BY <1>3 DEF Crash
<1>4. ASSUME NEW p \in Procs, DatabaseFails(p) PROVE IInv'
  BY <1>4 DEF DatabaseFails, LaunchRaises, TaskEnds, Begin, Goto
<1>5. ASSUME ReaperFails PROVE IInv'
  BY <1>5 DEF ReaperFails
<1>6. ASSUME UNCHANGED vars PROVE IInv'
  BY <1>6 DEF vars
<1> QED
  BY <1>1, <1>2, <1>3, <1>4, <1>5, <1>6 DEF Fault

\* Every step preserves the invariant.
LEMMA NextIInv == IInv /\ [Next]_vars => IInv'
<1> SUFFICES ASSUME IInv, [Next]_vars PROVE IInv'
  OBVIOUS
<1>1. TypeOK'
  BY NextType DEF IInv
<1> QED
  BY <1>1, RequestIInv, TaskIInv, WorkerIInv, ReapIInv, OtherIInv DEF Next

\* The inductive invariant holds in every reachable state.
THEOREM Inductive == Spec => []IInv
<1>1. Init => IInv
  BY InitIInv
<1>2. IInv /\ [Next]_vars => IInv'
  BY NextIInv
<1> QED
  BY <1>1, <1>2, PTL DEF Spec

\* No container is forgotten: unless a fault cut its clean-up or its launch
\* short, a container belongs to an active row or to a task that still has to
\* finish its launch or its destruction, for any number of concurrent stops,
\* restarts, renewals and reaper rounds.
THEOREM NoOrphans == Spec => []NoOrphan
<1>1. IInv => NoOrphan
  BY DEF IInv
<1> QED
  BY <1>1, Inductive, PTL

\* No team is locked out by a pending row without a launch behind it, unless a
\* fault took the launch away.
THEOREM NoAbandonedPending == Spec => []PendingHasLauncher
<1>1. IInv => PendingHasLauncher
  BY DEF IInv
<1> QED
  BY <1>1, Inductive, PTL

-----------------------------------------------------------------------------
\* Under the invariant each write of a status is one of the listed steps.
LEMMA StatusStepOK ==
    ASSUME IInv, Next
    PROVE  \A i \in Ids : status'[i] # status[i] =>
                             <<status[i], status'[i]>> \in StatusStep
<1> USE DEF dbVars, workerVars, StatusStep, IInv, TypeOK, LaunchPCs, OldPCs,
            Statuses
<1>1. ASSUME NEW p \in Procs, Request(p), NEW i \in Ids
      PROVE  status'[i] = status[i]
  BY <1>1 DEF Request, CreateCheck, StopFetch, RestartFetch, RenewFetch
<1>2. ASSUME NEW p \in Procs, Proceed(p), NEW i \in Ids, status'[i] # status[i]
      PROVE  <<status[i], status'[i]>> \in StatusStep
  <2>1. CASE InsertRow(p)
    BY <1>2, <2>1 DEF InsertRow, InsertRowAs, EffectiveTTL
  <2>2. CASE WriteDestroyed(p)
    <3>1. status[oldId[p]] # "absent"
      BY <2>2 DEF WriteDestroyed, TaskLocals
    <3> QED
      BY <1>2, <2>2, <3>1 DEF WriteDestroyed
  <2>3. CASE MarkRunning(p) \/ MarkError(p)
    <3>1. i = newId[p] /\ pc[p] \in LaunchPCs
      BY <1>2, <2>3 DEF MarkRunning, ReadyOrTimedOut, MarkError, LaunchRaises
    <3>2. status[i] \in {"pending", "destroyed"}
      BY <3>1 DEF OneLauncher, Launching
    <3> QED
      BY <1>2, <2>3, <3>1, <3>2 DEF MarkRunning, ReadyOrTimedOut, MarkError, LaunchRaises
  <2>4. CASE ~ (InsertRow(p) \/ WriteDestroyed(p) \/ MarkRunning(p) \/ MarkError(p))
    BY <1>2, <2>4 DEF Proceed, PickWorker, PickRefused, DestroyOnWorker, RenewWrite,
       RenewRefused, PostLaunch, RecordBackend
  <2> QED
    BY <2>1, <2>2, <2>3, <2>4
<1>3. ASSUME NEW j \in Ids, ReaperMarks(j), NEW i \in Ids, status'[i] # status[i]
      PROVE  <<status[i], status'[i]>> \in StatusStep
  <2>1. status[j] # "absent"
    BY <1>3 DEF ReaperMarks, AbsentIsFresh
  <2> QED
    BY <1>3, <2>1 DEF ReaperMarks
<1>4. ASSUME \/ \E i \in Ids : WorkerStep(i)
             \/ ReaperScan \/ \E i \in Ids : ReaperDestroys(i)
             \/ Tick \/ \E t \in TTLs : UpdateSettings(t) \/ Fault
      PROVE  status' = status
  BY <1>4 DEF WorkerStep, WorkerCreates, WorkerAnswers, WorkerRaises, ReaperScan, ReaperScanFor,
     ReaperDestroys, Tick, UpdateSettings, Fault, Crash, DatabaseFails, ReaperFails
<1> QED
  BY <1>1, <1>2, <1>3, <1>4 DEF Next, Reap

\* A row's status only ever takes the steps of StatusStep: whatever the blind
\* writes race with, no failed row runs again and no running row fails.
THEOREM LegalStatusSteps == Spec => StatusSteps
<1>1. IInv /\ [Next]_vars =>
        [\A i \in Ids : status'[i] # status[i] =>
            <<status[i], status'[i]>> \in StatusStep]_vars
  BY StatusStepOK
<1> QED
  BY <1>1, Inductive, PTL DEF Spec, StatusSteps

-----------------------------------------------------------------------------
\* A step of Instances is a step of the contract or leaves call and boxes alone.
LEMMA ContractStep ==
    ASSUME IInv, Next
    PROVE  Contract!Next \/ UNCHANGED <<call, boxes>>
<1> USE DEF dbVars, workerVars, IInv, TypeOK, LaunchPCs, OldPCs, Contract!Next
<1>1. ASSUME NEW p \in Procs, Request(p) PROVE UNCHANGED <<call, boxes>>
  BY <1>1 DEF Request, CreateCheck, StopFetch, RestartFetch, RenewFetch
<1>2. ASSUME NEW p \in Procs, PostLaunch(p) PROVE Contract!Asked(newId[p])
  BY <1>2 DEF PostLaunch, TaskLocals, Contract!Asked
<1>3. ASSUME NEW i \in Ids, WorkerDestroys(i), call' = call
      PROVE  Contract!Removes(i) \/ UNCHANGED <<call, boxes>>
  BY <1>3 DEF WorkerDestroys, Contract!Removes
<1>4. ASSUME NEW p \in Procs, Proceed(p)
      PROVE  Contract!Next \/ UNCHANGED <<call, boxes>>
  <2>1. CASE PostLaunch(p)
    BY <1>2, <2>1 DEF PostLaunch
  <2>2. CASE DestroyOnWorker(p)
    BY <1>3, <2>2 DEF DestroyOnWorker
  <2>3. CASE ~ (PostLaunch(p) \/ DestroyOnWorker(p))
    BY <1>4, <2>3 DEF Proceed, PickWorker, PickRefused, InsertRow, InsertRowAs,
       WriteDestroyed, RenewWrite, RenewRefused, RecordBackend, MarkRunning,
       MarkError, LaunchRaises
  <2> QED
    BY <2>1, <2>2, <2>3
<1>5. ASSUME NEW i \in Ids, WorkerStep(i) PROVE Contract!Next
  BY <1>5 DEF WorkerStep, WorkerCreates, WorkerAnswers, WorkerRaises,
     Contract!Creates, Contract!Answers, Contract!Raises
<1>6. ASSUME Reap PROVE Contract!Next \/ UNCHANGED <<call, boxes>>
  BY <1>3, <1>6 DEF Reap, ReaperScan, ReaperScanFor, ReaperDestroys, ReaperMarks
<1>7. ASSUME Tick \/ (\E t \in TTLs : UpdateSettings(t)) \/ Fault
      PROVE  UNCHANGED <<call, boxes>>
  BY <1>7 DEF Tick, UpdateSettings, Fault, Crash, DatabaseFails, ReaperFails
<1> QED
  BY <1>1, <1>4, <1>5, <1>6, <1>7 DEF Next

\* The instance lifecycle implements the adapter contract: for any number of
\* tasks and any faults it asks for at most one launch per instance, and the
\* workers it is modelled with do no more than the contract allows.
THEOREM ImplementsContract == Spec => UsesContract
<1>1. Init => Contract!Init
  BY DEF Init, Contract!Init
<1>2. IInv /\ [Next]_vars => [Contract!Next]_(Contract!contractVars)
  BY ContractStep DEF vars, Contract!contractVars
<1> QED
  BY <1>1, <1>2, Inductive, PTL DEF Spec, UsesContract, Contract!Spec

-----------------------------------------------------------------------------
\* A step that leaves statuses and backends alone and neither begins nor ends a
\* launch is no step of the abstract lifecycle.
LEMMA LifecycleStutters ==
    ASSUME status' = status, backend' = backend,
           \A p \in Procs : \A i \in Ids : Launching(p, i)' <=> Launching(p, i)
    PROVE  UNCHANGED Lifecycle!lifecycleVars
  BY DEF Lifecycle!lifecycleVars, LaunchOf

\* A step of a request task: it inserts a row together with its launch (<1>2), it
\* records a target (<1>3), it ends a launch (<1>4) or a row (<1>5), or it is none
\* of the abstract lifecycle's business.
LEMMA LifecycleTaskStep ==
    ASSUME IInv, NEW p \in Procs, Request(p) \/ Proceed(p)
    PROVE  Lifecycle!Next \/ UNCHANGED Lifecycle!lifecycleVars
<1> USE NullAssumption
    DEF IInv, TypeOK, LaunchPCs, OldPCs, Launching, dbVars, workerVars, reapVars,
        locals, Goto, Begin, TaskTo, TaskEnds
<1>1. CASE Request(p)
  <2>1. \A q \in Procs : \A i \in Ids : Launching(q, i)' <=> Launching(q, i)
    BY <1>1 DEF Request, CreateCheck, StopFetch, RestartFetch, RenewFetch
  <2>2. status' = status /\ backend' = backend
    BY <1>1 DEF Request, CreateCheck, StopFetch, RestartFetch, RenewFetch
  <2> QED
    BY <2>1, <2>2, LifecycleStutters
<1>2. CASE InsertRow(p)
  <2>1. PICK i \in Ids : status[i] = "absent" /\ InsertRowAs(p, i, i)
    BY <1>2 DEF InsertRow
  <2>2. \A j \in Ids : LaunchOf(j)' = IF j = i THEN "open" ELSE LaunchOf(j)
    BY <1>2, <2>1 DEF InsertRow, InsertRowAs, LaunchOf, AbsentIsFresh
  <2>3. Lifecycle!Insert(i)
    BY <2>1, <2>2 DEF InsertRowAs, Lifecycle!Insert
  <2> QED
    BY <2>3 DEF Lifecycle!Next
<1>3. CASE RecordBackend(p)
  <2>1. newId[p] \in Ids /\ LaunchOf(newId[p]) = "open"
    BY <1>3 DEF RecordBackend, LaunchOf, TaskLocals
  <2>2. \A j \in Ids : LaunchOf(j)' = LaunchOf(j)
    BY <1>3 DEF RecordBackend, LaunchOf
  <2>3. Lifecycle!Record(newId[p])
    BY <1>3, <2>1, <2>2 DEF RecordBackend, Lifecycle!Record, Lifecycle!Launching
  <2> QED
    BY <2>1, <2>3 DEF Lifecycle!Next
<1>4. CASE MarkRunning(p) \/ MarkError(p)
  <2>1. newId[p] \in Ids /\ pc[p] \in LaunchPCs /\ LaunchOf(newId[p]) = "open"
    BY <1>4 DEF MarkRunning, ReadyOrTimedOut, MarkError, LaunchRaises, LaunchOf, TaskLocals
  <2>2. \A q \in Procs : Launching(q, newId[p]) => q = p
    BY <2>1 DEF OneLauncher
  <2>3. \A j \in Ids : LaunchOf(j)' = IF j = newId[p] THEN "over" ELSE LaunchOf(j)
    BY <1>4, <2>1, <2>2 DEF MarkRunning, MarkError, LaunchOf
  <2>4. CASE MarkRunning(p)
    <3>1. newId[p] \in backend /\ backend' = backend
      BY <2>4 DEF MarkRunning, ReadyOrTimedOut, RunningWasLaunched
    <3>2. Lifecycle!ComeUp(newId[p])
      BY <2>1, <2>3, <2>4, <3>1 DEF MarkRunning, Lifecycle!ComeUp, Lifecycle!Finish,
         Lifecycle!Launching
    <3> QED
      BY <2>1, <3>2 DEF Lifecycle!Next
  <2>5. CASE MarkError(p)
    <3>1. Lifecycle!Fail(newId[p])
      BY <2>1, <2>3, <2>5 DEF MarkError, Lifecycle!Fail, Lifecycle!Finish,
         Lifecycle!Launching
    <3> QED
      BY <2>1, <3>1 DEF Lifecycle!Next
  <2> QED
    BY <1>4, <2>4, <2>5
<1>5. CASE WriteDestroyed(p)
  <2>1. oldId[p] \in Ids /\ status[oldId[p]] # "absent"
    BY <1>5 DEF WriteDestroyed, TaskLocals
  <2>2. \A j \in Ids : LaunchOf(j)' = LaunchOf(j)
    BY <1>5, <2>1 DEF WriteDestroyed, LaunchOf
  <2>3. Lifecycle!End(oldId[p])
    BY <1>5, <2>1, <2>2 DEF WriteDestroyed, Lifecycle!End
  <2> QED
    BY <2>1, <2>3 DEF Lifecycle!Next
<1>6. CASE PickWorker(p) \/ PickRefused(p) \/ DestroyOnWorker(p) \/ RenewWrite(p)
             \/ RenewRefused(p) \/ PostLaunch(p)
  <2>1. status' = status /\ backend' = backend
    BY <1>6 DEF PickWorker, PickRefused, DestroyOnWorker, RenewWrite, RenewRefused, PostLaunch
  <2>2. \A q \in Procs : \A i \in Ids : Launching(q, i)' <=> Launching(q, i)
    BY <1>6 DEF PickWorker, PickRefused, DestroyOnWorker, RenewWrite, RenewRefused, PostLaunch
  <2> QED
    BY <2>1, <2>2, LifecycleStutters
<1> QED
  BY <1>1, <1>2, <1>3, <1>4, <1>5, <1>6 DEF Proceed

\* Of the other steps the reaper's write ends a row, and a fault drops launches.
LEMMA LifecycleOtherStep ==
    ASSUME IInv,
           \/ \E i \in Ids : WorkerStep(i)
           \/ Reap \/ Tick \/ Fault
           \/ \E t \in TTLs : UpdateSettings(t)
    PROVE  Lifecycle!Next \/ UNCHANGED Lifecycle!lifecycleVars
<1> USE NullAssumption
    DEF IInv, TypeOK, LaunchPCs, OldPCs, Launching, dbVars, workerVars, reapVars,
        taskVars
<1>1. ASSUME \/ \E i \in Ids : WorkerStep(i)
             \/ ReaperScan \/ \E i \in Ids : ReaperDestroys(i)
             \/ Tick \/ \E t \in TTLs : UpdateSettings(t) \/ ReaperFails
      PROVE  UNCHANGED Lifecycle!lifecycleVars
  <2>1. status' = status /\ backend' = backend /\ pc' = pc /\ newId' = newId
    BY <1>1 DEF WorkerStep, WorkerCreates, WorkerAnswers, WorkerRaises, ReaperScan,
       ReaperScanFor, ReaperDestroys, Tick, UpdateSettings, ReaperFails
  <2> QED
    BY <2>1, LifecycleStutters
<1>2. ASSUME NEW i \in Ids, ReaperMarks(i) PROVE Lifecycle!Next
  <2>1. status[i] # "absent"
    BY <1>2 DEF ReaperMarks, AbsentIsFresh
  <2>2. \A j \in Ids : LaunchOf(j)' = LaunchOf(j)
    BY <1>2, <2>1 DEF ReaperMarks, LaunchOf
  <2>3. Lifecycle!End(i)
    BY <1>2, <2>1, <2>2 DEF ReaperMarks, Lifecycle!End
  <2> QED
    BY <2>3 DEF Lifecycle!Next
<1>3. CASE Crash
  <2> DEFINE gone == {i \in Ids : LaunchOf(i) = "open"}
  <2>1. \A j \in Ids : LaunchOf(j)' = IF j \in gone THEN "over" ELSE LaunchOf(j)
    BY <1>3 DEF Crash, LaunchOf
  <2>2. Lifecycle!Abandon(gone)
    BY <1>3, <2>1 DEF Crash, Lifecycle!Abandon, Lifecycle!Launching
  <2> QED
    BY <2>2 DEF Lifecycle!Next
<1>4. ASSUME NEW p \in Procs, DatabaseFails(p) PROVE Lifecycle!Next
  <2> DEFINE gone == {i \in Ids : Launching(p, i)}
  <2>1. \A i \in gone : LaunchOf(i) = "open"
    BY DEF LaunchOf, AbsentIsFresh
  <2>2. \A q \in Procs : \A i \in gone : Launching(q, i) => q = p
    BY DEF OneLauncher
  <2>3. \A j \in Ids : LaunchOf(j)' = IF j \in gone THEN "over" ELSE LaunchOf(j)
    BY <1>4, <2>1, <2>2 DEF DatabaseFails, LaunchOf, TaskEnds, Begin, Goto
  <2>4. Lifecycle!Abandon(gone)
    BY <1>4, <2>1, <2>3 DEF DatabaseFails, Lifecycle!Abandon, Lifecycle!Launching
  <2> QED
    BY <2>4 DEF Lifecycle!Next
<1> QED
  BY <1>1, <1>2, <1>3, <1>4 DEF Reap, Fault

\* The tasks, the workers, the reaper and every fault together do no more to a row
\* than the abstract lifecycle allows: the gateway and the panel are modelled over
\* that specification.
THEOREM ImplementsAbstractLifecycle == Spec => ImplementsLifecycle
<1>1. Init => Lifecycle!Init
  BY DEF Init, Lifecycle!Init, LaunchOf
<1>2. IInv /\ [Next]_vars => [Lifecycle!Next]_(Lifecycle!lifecycleVars)
  <2> SUFFICES ASSUME IInv, [Next]_vars
               PROVE  [Lifecycle!Next]_(Lifecycle!lifecycleVars)
    OBVIOUS
  <2>1. CASE Next
    BY <2>1, LifecycleTaskStep, LifecycleOtherStep DEF Next
  <2>2. CASE UNCHANGED vars
    BY <2>2 DEF vars, Lifecycle!lifecycleVars, LaunchOf, Launching
  <2> QED
    BY <2>1, <2>2
<1> QED
  BY <1>1, <1>2, Inductive, PTL DEF Spec, ImplementsLifecycle, Lifecycle!Spec

=============================================================================
