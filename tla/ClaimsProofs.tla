---------------------------- MODULE ClaimsProofs ----------------------------
(***************************************************************************)
(* Proofs about InstancesClaims and the capacity of the workers: how far   *)
(* any number of concurrent tasks can exceed max_instances, and what gives *)
(* a team a second instance, whatever the reaper, the workers and faults   *)
(* do meanwhile.                                                           *)
(***************************************************************************)
EXTENDS InstancesClaims, InstancesProofs, FiniteSetTheorems

ActiveOn(w) == {i \in Ids : IsActive(i) /\ host[i] = w}
Owing(w)    == {p \in Procs : OwesSlot(p, w)}

-----------------------------------------------------------------------------
\* How the two counts of SlotsBounded may move: both shrink, a task gives its
\* slot to a row, a row leaves its slot to a task.
LEMMA BothShrink ==
    ASSUME NEW A, NEW T, NEW A2, NEW T2, NEW N \in Int, IsFiniteSet(A), IsFiniteSet(T),
           A2 \subseteq A, T2 \subseteq T, Cardinality(A) + Cardinality(T) <= N
    PROVE  Cardinality(A2) + Cardinality(T2) <= N
<1>1. Cardinality(A2) <= Cardinality(A) /\ Cardinality(T2) <= Cardinality(T)
  BY FS_Subset
<1>2. IsFiniteSet(A2) /\ IsFiniteSet(T2)
  BY FS_Subset
<1> QED
  BY <1>1, <1>2, FS_CardinalityType

LEMMA TaskToRow ==
    ASSUME NEW A, NEW T, NEW A2, NEW T2, NEW N \in Int, IsFiniteSet(A), IsFiniteSet(T),
           NEW i, A2 \subseteq A \cup {i}, NEW p \in T, T2 \subseteq T \ {p},
           Cardinality(A) + Cardinality(T) <= N
    PROVE  Cardinality(A2) + Cardinality(T2) <= N
<1>1. /\ IsFiniteSet(A \cup {i}) /\ IsFiniteSet(T \ {p})
      /\ Cardinality(A \cup {i}) <= Cardinality(A) + 1
      /\ Cardinality(T \ {p}) = Cardinality(T) - 1
  <2>1. IsFiniteSet(A \cup {i}) /\ Cardinality(A \cup {i}) <= Cardinality(A) + 1
    <3>1. Cardinality(A \cup {i}) \in {Cardinality(A), Cardinality(A) + 1}
      BY FS_AddElement
    <3> QED
      BY <3>1, FS_AddElement, FS_CardinalityType
  <2>2. IsFiniteSet(T \ {p}) /\ Cardinality(T \ {p}) = Cardinality(T) - 1
    BY FS_RemoveElement
  <2> QED
    BY <2>1, <2>2
<1>2. Cardinality(A \cup {i}) + Cardinality(T \ {p}) <= N
  BY <1>1, FS_CardinalityType
<1> QED
  BY <1>1, <1>2, BothShrink

LEMMA RowToTask ==
    ASSUME NEW A, NEW T, NEW A2, NEW T2, NEW N \in Int, IsFiniteSet(A), IsFiniteSet(T),
           NEW i \in A, A2 \subseteq A \ {i}, NEW p, T2 \subseteq T \cup {p},
           Cardinality(A) + Cardinality(T) <= N
    PROVE  Cardinality(A2) + Cardinality(T2) <= N
<1>1. Cardinality(T) + Cardinality(A) <= N
  BY FS_CardinalityType
<1>2. Cardinality(T2) + Cardinality(A2) <= N
  BY <1>1, TaskToRow
<1>3. IsFiniteSet(T2) /\ IsFiniteSet(A2)
  BY FS_AddElement, FS_Subset
<1> QED
  BY <1>2, <1>3, FS_CardinalityType

-----------------------------------------------------------------------------
\* A step moves the two sets of a worker in one of these ways, or chooses the
\* worker while it has room.
SlotMove(w) ==
    \/ ActiveOn(w)' \subseteq ActiveOn(w) /\ Owing(w)' \subseteq Owing(w)
    \/ \E p \in Owing(w), i \in Ids :
         ActiveOn(w)' \subseteq ActiveOn(w) \cup {i} /\ Owing(w)' \subseteq Owing(w) \ {p}
    \/ \E i \in ActiveOn(w), p \in Procs :
         ActiveOn(w)' \subseteq ActiveOn(w) \ {i} /\ Owing(w)' \subseteq Owing(w) \cup {p}
    \/ ActiveOn(w)' \subseteq ActiveOn(w) /\ Load(w) < Capacity[w]

\* The write of `destroyed`, by a handler or the reaper, hands the slot of an
\* active row to the one task that launches it.
LEMMA EndedRowMoves ==
    ASSUME IInv, NEW w \in Workers, NEW i \in Ids, Procs # {},
           status' = [status EXCEPT ![i] = "destroyed"], host' = host,
           newId' = newId, picked' = picked,
           \A p \in Procs : pc'[p] \in LaunchPCs => pc[p] = pc'[p],
           \A p \in Procs : pc'[p] \in {"insert", "free", "reinsert"} =>
                              pc[p] \in {"insert", "free", "reinsert"}
    PROVE  SlotMove(w)
<1> USE DEF ActiveOn, Owing, IsActive, Active, OwesSlot, Launching, IInv, TypeOK
<1>1. CASE i \notin ActiveOn(w)
  <2>1. ActiveOn(w)' \subseteq ActiveOn(w)
    OBVIOUS
  <2>2. Owing(w)' \subseteq Owing(w)
    BY <1>1 DEF OneLauncher
  <2> QED
    BY <2>1, <2>2 DEF SlotMove
<1>2. CASE i \in ActiveOn(w) /\ \E q \in Procs : Launching(q, i)
  <2>1. PICK q \in Procs : Launching(q, i)
    BY <1>2
  <2>2. ActiveOn(w)' \subseteq ActiveOn(w) \ {i}
    OBVIOUS
  <2>3. Owing(w)' \subseteq Owing(w) \cup {q}
    BY <2>1 DEF OneLauncher
  <2> QED
    BY <1>2, <2>2, <2>3 DEF SlotMove
<1>3. CASE i \in ActiveOn(w) /\ ~ \E q \in Procs : Launching(q, i)
  <2>1. PICK q \in Procs : TRUE
    OBVIOUS
  <2>2. ActiveOn(w)' \subseteq ActiveOn(w) \ {i}
    OBVIOUS
  <2>3. Owing(w)' \subseteq Owing(w) \cup {q}
    BY <1>3
  <2> QED
    BY <1>3, <2>1, <2>2, <2>3 DEF SlotMove
<1> QED
  BY <1>1, <1>2, <1>3

\* Whatever leaves rows and hosts alone and gives no task a slot only shrinks.
LEMMA QuietStepMoves ==
    ASSUME NEW w \in Workers, UNCHANGED <<status, host>>,
           \A p \in Procs : OwesSlot(p, w)' => OwesSlot(p, w)
    PROVE  SlotMove(w)
  BY DEF SlotMove, ActiveOn, Owing, IsActive

\* A step of a request task.
LEMMA TaskSlots ==
    ASSUME IInv, NEW w \in Workers, NEW p \in Procs, Request(p) \/ Proceed(p)
    PROVE  SlotMove(w)
<1> USE DEF IInv, TypeOK, LaunchPCs, OldPCs, PCs, Goto, Begin, TaskTo, TaskEnds, locals,
            dbVars, reapVars, workerVars
<1>1. CASE Request(p)
  <2>1. UNCHANGED <<status, host>>
    BY <1>1 DEF Request, CreateCheck, StopFetch, RestartFetch, RenewFetch
  <2>2. \A q \in Procs : OwesSlot(q, w)' => OwesSlot(q, w)
    BY <1>1 DEF Request, CreateCheck, StopFetch, RestartFetch, RenewFetch, OwesSlot,
       Launching
  <2> QED
    BY <2>1, <2>2, QuietStepMoves
<1>2. CASE PickWorker(p)
  <2>1. CASE picked'[p] = w
    BY <1>2, <2>1 DEF PickWorker, SlotMove, ActiveOn, IsActive
  <2>2. CASE picked'[p] # w
    <3>1. \A q \in Procs : OwesSlot(q, w)' => OwesSlot(q, w)
      BY <1>2, <2>2 DEF PickWorker, OwesSlot, Launching
    <3> QED
      BY <1>2, <3>1, QuietStepMoves DEF PickWorker
  <2> QED
    BY <2>1, <2>2
<1>3. CASE InsertRow(p)
  <2>1. PICK i \in Ids : status[i] = "absent" /\ InsertRowAs(p, i, i)
    BY <1>3 DEF InsertRow
  <2>2. \A q \in Procs \ {p} : OwesSlot(q, w)' => OwesSlot(q, w)
    BY <2>1 DEF InsertRowAs, OwesSlot, Launching
  <2>3. ~ OwesSlot(p, w)'
    BY <2>1 DEF InsertRowAs, OwesSlot, Launching
  <2>4. ActiveOn(w)' \subseteq ActiveOn(w) \cup {i}
    BY <2>1 DEF InsertRowAs, ActiveOn, IsActive
  <2>5. CASE picked[p] = w
    <3>1. OwesSlot(p, w)
      BY <1>3, <2>5 DEF InsertRow, OwesSlot
    <3> QED
      BY <2>2, <2>3, <2>4, <3>1 DEF SlotMove, Owing
  <2>6. CASE picked[p] # w
    <3>1. ActiveOn(w)' \subseteq ActiveOn(w)
      BY <2>1, <2>6 DEF InsertRowAs, ActiveOn, IsActive
    <3> QED
      BY <2>2, <2>3, <3>1 DEF SlotMove, Owing
  <2> QED
    BY <2>5, <2>6
<1>4. CASE WriteDestroyed(p)
  <2>1. oldId[p] \in Ids
    BY <1>4 DEF WriteDestroyed
  <2>2. status' = [status EXCEPT ![oldId[p]] = "destroyed"] /\ UNCHANGED <<host, newId, picked>>
    BY <1>4 DEF WriteDestroyed
  <2>3. /\ \A q \in Procs : pc'[q] \in LaunchPCs => pc[q] = pc'[q]
        /\ \A q \in Procs : pc'[q] \in {"insert", "free", "reinsert"} =>
                              pc[q] \in {"insert", "free", "reinsert"}
    BY <1>4 DEF WriteDestroyed
  <2> QED
    BY <2>1, <2>2, <2>3, EndedRowMoves
<1>5. CASE PickRefused(p) \/ DestroyOnWorker(p) \/ RenewWrite(p) \/ RenewRefused(p)
             \/ PostLaunch(p) \/ RecordBackend(p)
  <2>1. UNCHANGED <<status, host>>
    BY <1>5 DEF PickRefused, DestroyOnWorker, RenewWrite, RenewRefused, PostLaunch,
       RecordBackend
  <2>2. \A q \in Procs : OwesSlot(q, w)' => OwesSlot(q, w)
    BY <1>5 DEF PickRefused, DestroyOnWorker, RenewWrite, RenewRefused, PostLaunch,
       RecordBackend, OwesSlot, Launching
  <2> QED
    BY <2>1, <2>2, QuietStepMoves
<1>6. CASE MarkRunning(p) \/ MarkError(p)
  <2>1. Launching(p, newId[p]) /\ newId[p] \in Ids
    BY <1>6 DEF MarkRunning, ReadyOrTimedOut, MarkError, LaunchRaises, Launching
  <2>2. PICK s \in {"running", "error"} : status' = [status EXCEPT ![newId[p]] = s]
    BY <1>6 DEF MarkRunning, MarkError
  <2>3. ~ OwesSlot(p, w)' /\ host' = host
    BY <1>6 DEF MarkRunning, MarkError, OwesSlot, Launching
  <2>4. \A q \in Procs \ {p} : OwesSlot(q, w)' => OwesSlot(q, w)
    BY <1>6 DEF MarkRunning, MarkError, OwesSlot, Launching
  <2>5. ActiveOn(w)' \subseteq ActiveOn(w) \cup {newId[p]}
    BY <2>2, <2>3 DEF ActiveOn, IsActive
  <2>6. CASE status[newId[p]] = "destroyed" /\ host[newId[p]] = w
    <3>1. OwesSlot(p, w)
      BY <2>1, <2>6 DEF OwesSlot
    <3> QED
      BY <2>1, <2>3, <2>4, <2>5, <3>1 DEF SlotMove, Owing
  <2>7. CASE status[newId[p]] = "pending" \/ host[newId[p]] # w
    <3>1. ActiveOn(w)' \subseteq ActiveOn(w)
      BY <2>2, <2>3, <2>7 DEF ActiveOn, IsActive, Active
    <3> QED
      BY <2>3, <2>4, <3>1 DEF SlotMove, Owing
  <2> QED
    BY <2>1, <2>6, <2>7 DEF OneLauncher
<1> QED
  BY <1>1, <1>2, <1>3, <1>4, <1>5, <1>6 DEF Proceed

\* Any other step.
LEMMA OtherSlots ==
    ASSUME IInv, NEW w \in Workers, Procs # {},
           \/ \E i \in Ids : WorkerStep(i)
           \/ Reap \/ Tick \/ Fault
           \/ \E t \in TTLs : UpdateSettings(t)
           \/ UNCHANGED vars
    PROVE  SlotMove(w)
<1> USE DEF IInv, TypeOK, dbVars, reapVars, workerVars, taskVars, locals
<1>1. ASSUME NEW i \in Ids, ReaperMarks(i) PROVE SlotMove(w)
  BY <1>1, EndedRowMoves DEF ReaperMarks
<1>2. CASE Crash
  <2>1. \A q \in Procs : ~ OwesSlot(q, w)'
    BY <1>2 DEF Crash, OwesSlot, Launching, LaunchPCs
  <2> QED
    BY <1>2, <2>1, QuietStepMoves DEF Crash
<1>3. ASSUME NEW p \in Procs, DatabaseFails(p) PROVE SlotMove(w)
  <2>1. \A q \in Procs : OwesSlot(q, w)' => OwesSlot(q, w)
    BY <1>3 DEF DatabaseFails, TaskEnds, Begin, Goto, OwesSlot, Launching, LaunchPCs
  <2> QED
    BY <1>3, <2>1, QuietStepMoves DEF DatabaseFails
<1>4. CASE UNCHANGED <<status, host, pc, newId, picked>>
  <2>1. \A q \in Procs : OwesSlot(q, w)' => OwesSlot(q, w)
    BY <1>4 DEF OwesSlot, Launching
  <2> QED
    BY <1>4, <2>1, QuietStepMoves
<1> QED
  BY <1>1, <1>2, <1>3, <1>4 DEF WorkerStep, WorkerCreates, WorkerAnswers,
     WorkerRaises, Reap, ReaperScan, ReaperScanFor, ReaperDestroys, Tick,
     UpdateSettings, Fault, ReaperFails, vars

-----------------------------------------------------------------------------
\* The bound with the slots still owed is inductive next to IInv.
LEMMA SlotsStep ==
    ASSUME IsFiniteSet(Ids), IsFiniteSet(Procs), Procs # {},
           IInv, SlotsBounded, [Next]_vars
    PROVE  SlotsBounded'
<1> SUFFICES ASSUME NEW w \in Workers
             PROVE  Cardinality(ActiveOn(w)') + Cardinality(Owing(w)')
                      <= Capacity[w] + Cardinality(Procs) - 1
  BY DEF SlotsBounded, Load, ActiveOn, Owing
<1> DEFINE N == Capacity[w] + Cardinality(Procs) - 1
<1>1. /\ IsFiniteSet(ActiveOn(w)) /\ IsFiniteSet(Owing(w))
      /\ IsFiniteSet(Owing(w)') /\ Cardinality(Owing(w)') <= Cardinality(Procs)
  BY FS_Subset DEF ActiveOn, Owing
<1>2. Capacity[w] \in Nat /\ Cardinality(Procs) \in Nat /\ N \in Int
  BY CapacityAssumption, FS_CardinalityType
<1>3. Cardinality(ActiveOn(w)) + Cardinality(Owing(w)) <= N
  BY DEF SlotsBounded, Load, ActiveOn, Owing
<1>4. SlotMove(w)
  BY TaskSlots, OtherSlots DEF Next
<1> HIDE DEF N
<1>5. CASE ActiveOn(w)' \subseteq ActiveOn(w) /\ Owing(w)' \subseteq Owing(w)
  BY <1>1, <1>2, <1>3, <1>5, BothShrink DEF N
<1>6. CASE \E p \in Owing(w), i \in Ids :
         ActiveOn(w)' \subseteq ActiveOn(w) \cup {i} /\ Owing(w)' \subseteq Owing(w) \ {p}
  BY <1>1, <1>2, <1>3, <1>6, TaskToRow DEF N
<1>7. CASE \E i \in ActiveOn(w), p \in Procs :
         ActiveOn(w)' \subseteq ActiveOn(w) \ {i} /\ Owing(w)' \subseteq Owing(w) \cup {p}
  BY <1>1, <1>2, <1>3, <1>7, RowToTask DEF N
<1>8. CASE ActiveOn(w)' \subseteq ActiveOn(w) /\ Load(w) < Capacity[w]
  <2>1. Cardinality(ActiveOn(w)') <= Load(w) /\ IsFiniteSet(ActiveOn(w)')
    <3>1. Load(w) = Cardinality(ActiveOn(w))
      BY DEF Load, ActiveOn
    <3> QED
      BY <1>1, <1>8, <3>1, FS_Subset
  <2>2. Cardinality(ActiveOn(w)') \in Nat /\ Cardinality(Owing(w)') \in Nat /\ Load(w) \in Nat
    BY <1>1, <2>1, FS_CardinalityType DEF Load, ActiveOn
  <2> QED
    BY <1>1, <1>2, <1>8, <2>1, <2>2
<1> QED
  BY <1>4, <1>5, <1>6, <1>7, <1>8 DEF SlotMove

\* However many tasks choose workers at the same time, insert later and bring
\* ended rows back, and whatever faults hit them, a worker is never given more
\* than one instance too many per other task.
THEOREM OvercommitIsBounded ==
    ASSUME IsFiniteSet(Ids), IsFiniteSet(Procs), Procs # {}
    PROVE  Spec => []OvercommitBounded
<1>1. Cardinality(Procs) \in Nat \ {0}
  BY FS_CardinalityType, FS_EmptySet
<1>2. Init => SlotsBounded
  <2> SUFFICES ASSUME Init, NEW w \in Workers
               PROVE  Cardinality(ActiveOn(w)) + Cardinality(Owing(w))
                        <= Capacity[w] + Cardinality(Procs) - 1
    BY DEF SlotsBounded, Load, ActiveOn, Owing
  <2>1. ActiveOn(w) = {} /\ Owing(w) = {}
    BY DEF Init, ActiveOn, Owing, IsActive, Active, OwesSlot
  <2> QED
    BY <1>1, <2>1, FS_EmptySet, CapacityAssumption
<1>3. IInv /\ SlotsBounded /\ [Next]_vars => SlotsBounded'
  BY SlotsStep
<1>4. SlotsBounded => OvercommitBounded
  <2> SUFFICES ASSUME SlotsBounded, NEW w \in Workers
               PROVE  Load(w) <= Capacity[w] + Cardinality(Procs) - 1
    BY DEF OvercommitBounded
  <2>1. Load(w) \in Nat /\ Cardinality(Owing(w)) \in Nat
    BY FS_Subset, FS_CardinalityType DEF Load, Owing
  <2> QED
    BY <1>1, <2>1, CapacityAssumption DEF SlotsBounded, Owing
<1> QED
  BY <1>2, <1>3, <1>4, Inductive, PTL DEF Spec

-----------------------------------------------------------------------------
\* A step of a request task keeps ClaimsInv: only the check of a create, the fetch
\* of a restart and the insert touch what it says of a team that is not excused,
\* and the step that brings a row back excuses its team.
LEMMA ClaimsTask ==
    ASSUME IInv, ClaimsInv, NEW p \in Procs, Request(p) \/ Proceed(p),
           excused' = excused \cup Overlapping' \cup BroughtBack
    PROVE  ClaimsInv'
<1> USE NullAssumption
    DEF ClaimsInv, DuplicateHasCause, OneInserting, TeamIsFree, Inserting, IsActive, Active,
        IInv, TypeOK, Goto, Begin, TaskTo, TaskEnds, locals, dbVars, reapVars, workerVars
<1>0. OneInserting'
  BY DEF Overlapping
<1>1. CASE \E k \in Keys : CreateCheck(p, k)
  BY <1>0, <1>1 DEF CreateCheck
<1>2. CASE \E i \in Ids : StopFetch(p, i)
  BY <1>0, <1>2 DEF StopFetch
<1>3. CASE \E i \in Ids : RestartFetch(p, i)
  BY <1>0, <1>3 DEF RestartFetch
<1>4. CASE \E i \in Ids : RenewFetch(p, i)
  BY <1>0, <1>4 DEF RenewFetch
<1>5. CASE PickWorker(p) \/ PickRefused(p)
  BY <1>0, <1>5 DEF PickWorker, PickRefused
<1>6. CASE InsertRow(p)
  BY <1>0, <1>6 DEF InsertRow, InsertRowAs
<1>7. CASE WriteDestroyed(p)
  BY <1>0, <1>7 DEF WriteDestroyed
<1>8. CASE DestroyOnWorker(p) \/ RenewWrite(p) \/ RenewRefused(p)
             \/ PostLaunch(p) \/ RecordBackend(p) \/ MarkError(p)
  BY <1>0, <1>8 DEF DestroyOnWorker, RenewWrite, RenewRefused, PostLaunch, RecordBackend,
     MarkError
<1>9. CASE MarkRunning(p)
  BY <1>0, <1>9 DEF MarkRunning, ReadyOrTimedOut, BroughtBack, OneLauncher, Launching,
     LaunchPCs
<1> QED
  BY <1>1, <1>2, <1>3, <1>4, <1>5, <1>6, <1>7, <1>8, <1>9 DEF Request, Proceed

\* Nor does the reaper, a worker, a fault or the clock break it: they end rows and
\* tasks, and begin none.
LEMMA ClaimsOther ==
    ASSUME IInv, ClaimsInv,
           \/ \E i \in Ids : WorkerStep(i)
           \/ Reap \/ Tick \/ Fault
           \/ \E t \in TTLs : UpdateSettings(t)
           \/ UNCHANGED vars,
           excused \subseteq excused'
    PROVE  ClaimsInv'
<1> USE NullAssumption
    DEF ClaimsInv, DuplicateHasCause, OneInserting, TeamIsFree, Inserting, IsActive, Active,
        IInv, TypeOK, dbVars, reapVars, workerVars, taskVars, locals
<1>1. ASSUME NEW i \in Ids, ReaperMarks(i) PROVE ClaimsInv'
  BY <1>1 DEF ReaperMarks
<1>2. CASE Crash
  BY <1>2 DEF Crash
<1>3. ASSUME NEW p \in Procs, DatabaseFails(p) PROVE ClaimsInv'
  BY <1>3 DEF DatabaseFails, TaskEnds, Begin, Goto
<1>4. CASE UNCHANGED <<status, owner, taskVars>>
  BY <1>4
<1> QED
  BY <1>1, <1>2, <1>3, <1>4 DEF WorkerStep, WorkerCreates, WorkerAnswers, WorkerRaises,
     Reap, ReaperScan, ReaperScanFor, ReaperDestroys, Tick, UpdateSettings, Fault,
     ReaperFails, vars

\* Every behaviour with the history is one of the lifecycle, so IInv is at hand,
\* and ClaimsInv is inductive next to it.
THEOREM ClaimsInductive == ClaimsSpec => []ClaimsInv
<1>1. ClaimsSpec => []IInv
  <2>1. ClaimsInit => Init
    BY DEF ClaimsInit
  <2>2. [ClaimsNext]_claimVars => [Next]_vars
    BY DEF ClaimsNext, claimVars
  <2> QED
    BY <2>1, <2>2, Inductive, PTL DEF ClaimsSpec, Spec
<1>2. ClaimsInit => ClaimsInv
  BY DEF ClaimsInit, Init, ClaimsInv, DuplicateHasCause, OneInserting, TeamIsFree,
     Inserting, IsActive, Active
<1>3. IInv /\ ClaimsInv /\ [ClaimsNext]_claimVars => ClaimsInv'
  <2> SUFFICES ASSUME IInv, ClaimsInv, [ClaimsNext]_claimVars PROVE ClaimsInv'
    OBVIOUS
  <2>1. CASE ClaimsNext
    BY <2>1, ClaimsTask, ClaimsOther DEF ClaimsNext, Next
  <2>2. CASE UNCHANGED claimVars
    BY <2>2, ClaimsOther DEF claimVars
  <2> QED
    BY <2>1, <2>2
<1> QED
  BY <1>1, <1>2, <1>3, PTL DEF ClaimsSpec

\* Whatever faults, teams and tasks there are, a team gets a second active row
\* only after two of its creates or restarts were served at the same time, or
\* after a launch brought back one of its stopped instances.
THEOREM DuplicatesHaveCauses == ClaimsSpec => []DuplicateHasCause
<1>1. ClaimsInv => DuplicateHasCause
  BY DEF ClaimsInv
<1> QED
  BY <1>1, ClaimsInductive, PTL

=============================================================================
