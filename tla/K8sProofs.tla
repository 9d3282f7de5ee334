------------------------------ MODULE K8sProofs ------------------------------
(***************************************************************************)
(* Proofs about K8sAdapter, for every set of instances, of calls and of    *)
(* faults: the inductive invariant, the two safety invariants it contains, *)
(* and that the adapter implements AdapterContract.                        *)
(***************************************************************************)
EXTENDS K8sAdapter, TLAPS

-----------------------------------------------------------------------------
\* The initial state satisfies the invariant.
LEMMA InitOK == Init => IInv
  BY NullAssumption DEF Init, IInv, TypeOK, LaunchedOnce, OnlyMade, LaunchesAlone,
     StepsBuildUp, PodWithService, DestroyTearsDown, LaunchingBy

\* Every step keeps the types.
LEMMA TypesOK ==
    ASSUME TypeOK, Next
    PROVE  TypeOK'
<1> USE NullAssumption DEF TypeOK, LaunchPCs, DestroyPCs, Goto, Step, Return, cluster
<1>1. ASSUME NEW c \in Calls, NEW i \in Ids, Launch(c, i) PROVE TypeOK'
  BY <1>1 DEF Launch, Begin
<1>2. ASSUME NEW c \in Calls, NEW i \in Ids, Destroy(c, i) PROVE TypeOK'
  BY <1>2 DEF Destroy, Begin
<1>3. ASSUME NEW c \in Calls, CreatePod(c) PROVE TypeOK'
  BY <1>3 DEF CreatePod
<1>4. ASSUME NEW c \in Calls, CreateService(c) PROVE TypeOK'
  BY <1>4 DEF CreateService
<1>5. ASSUME NEW c \in Calls, Record(c) PROVE TypeOK'
  BY <1>5 DEF Record
<1>6. ASSUME NEW c \in Calls, Raise(c) PROVE TypeOK'
  BY <1>6 DEF Raise
<1>7. ASSUME NEW c \in Calls, DeletePod(c) PROVE TypeOK'
  BY <1>7 DEF DeletePod
<1>8. ASSUME NEW c \in Calls, DeleteService(c) PROVE TypeOK'
  BY <1>8 DEF DeleteService
<1>9. ASSUME Restart PROVE TypeOK'
  BY <1>9 DEF Restart
<1> QED
  BY <1>1, <1>2, <1>3, <1>4, <1>5, <1>6, <1>7, <1>8, <1>9
     DEF Next, LaunchStep, DestroyStep

-----------------------------------------------------------------------------
\* A launch begins: the first on its instance, beside destroys at most.
LEMMA LaunchOK ==
    ASSUME IInv, NEW c \in Calls, NEW i \in Ids, Launch(c, i)
    PROVE  IInv'
<1> USE DEF IInv, TypeOK, LaunchingBy, LaunchPCs, DestroyPCs, Quiet, Settled,
            Launch, Begin, Goto, cluster
<1>1. TypeOK'
  BY TypesOK DEF Next, LaunchStep, DestroyStep
<1>2. LaunchedOnce' /\ OnlyMade'
  BY DEF LaunchedOnce, OnlyMade
<1>3. LaunchesAlone'
  BY DEF LaunchesAlone
<1>4. StepsBuildUp'
  BY DEF StepsBuildUp
<1>5. PodWithService' /\ DestroyTearsDown'
  BY DEF PodWithService, DestroyTearsDown
<1> QED
  BY <1>1, <1>2, <1>3, <1>4, <1>5

\* A destroy begins: one that finds no other call on its instance starts afresh.
LEMMA DestroyOK ==
    ASSUME IInv, NEW c \in Calls, NEW i \in Ids, Destroy(c, i)
    PROVE  IInv'
<1> USE DEF IInv, TypeOK, LaunchingBy, LaunchPCs, DestroyPCs, Quiet, Settled,
            Destroy, Begin, Goto, cluster
<1>1. TypeOK'
  BY TypesOK DEF Next, LaunchStep, DestroyStep
<1>2. LaunchedOnce' /\ OnlyMade'
  BY DEF LaunchedOnce, OnlyMade
<1>3. LaunchesAlone'
  BY DEF LaunchesAlone
<1>4. StepsBuildUp'
  BY DEF StepsBuildUp
<1>5. PodWithService' /\ DestroyTearsDown'
  BY DEF PodWithService, DestroyTearsDown
<1> QED
  BY <1>1, <1>2, <1>3, <1>4, <1>5

\* A launch makes its pod.
LEMMA CreatePodOK ==
    ASSUME IInv, NEW c \in Calls, CreatePod(c)
    PROVE  IInv'
<1> USE DEF IInv, TypeOK, LaunchingBy, LaunchPCs, DestroyPCs, Quiet, Settled,
            CreatePod, Step, Goto
<1>1. TypeOK'
  BY TypesOK DEF Next, LaunchStep, DestroyStep
<1>2. LaunchedOnce' /\ OnlyMade'
  BY DEF LaunchedOnce, OnlyMade
<1>3. LaunchesAlone'
  BY DEF LaunchesAlone
<1>4. StepsBuildUp'
  BY DEF StepsBuildUp, LaunchesAlone
<1>5. PodWithService' /\ DestroyTearsDown'
  BY DEF PodWithService, DestroyTearsDown
<1> QED
  BY <1>1, <1>2, <1>3, <1>4, <1>5

\* A launch makes its service, next to its pod if nothing overlapped.
LEMMA CreateServiceOK ==
    ASSUME IInv, NEW c \in Calls, CreateService(c)
    PROVE  IInv'
<1> USE DEF IInv, TypeOK, LaunchingBy, LaunchPCs, DestroyPCs, Quiet, Settled,
            CreateService, Step, Goto
<1>1. TypeOK'
  BY TypesOK DEF Next, LaunchStep, DestroyStep
<1>2. LaunchedOnce' /\ OnlyMade'
  BY DEF LaunchedOnce, OnlyMade
<1>3. LaunchesAlone'
  BY DEF LaunchesAlone
<1>4. StepsBuildUp'
  BY DEF StepsBuildUp
<1>5. PodWithService' /\ DestroyTearsDown'
  BY DEF PodWithService, DestroyTearsDown
<1> QED
  BY <1>1, <1>2, <1>3, <1>4, <1>5

\* A launch is recorded and answered; alone, it leaves a pod with a service.
LEMMA RecordOK ==
    ASSUME IInv, NEW c \in Calls, Record(c)
    PROVE  IInv'
<1> USE DEF IInv, TypeOK, LaunchingBy, LaunchPCs, DestroyPCs, Quiet, Settled,
            Record, Return, Goto, cluster
<1>1. TypeOK'
  BY TypesOK DEF Next, LaunchStep, DestroyStep
<1>2. LaunchedOnce' /\ OnlyMade'
  BY DEF LaunchedOnce, OnlyMade
<1>3. LaunchesAlone'
  BY NullAssumption DEF LaunchesAlone
<1>4. StepsBuildUp'
  BY DEF StepsBuildUp, LaunchesAlone
<1>5. PodWithService' /\ DestroyTearsDown'
  BY DEF PodWithService, DestroyTearsDown, StepsBuildUp, LaunchesAlone
<1> QED
  BY <1>1, <1>2, <1>3, <1>4, <1>5

\* A launch that raises has made nothing or hurts its instance.
LEMMA RaiseOK ==
    ASSUME IInv, NEW c \in Calls, Raise(c)
    PROVE  IInv'
<1> USE DEF IInv, TypeOK, LaunchingBy, LaunchPCs, DestroyPCs, Quiet, Settled,
            Raise, Return, Goto, cluster
<1>1. TypeOK'
  BY TypesOK DEF Next, LaunchStep, DestroyStep
<1>2. LaunchedOnce' /\ OnlyMade'
  BY DEF LaunchedOnce, OnlyMade
<1>3. LaunchesAlone'
  BY NullAssumption DEF LaunchesAlone
<1>4. StepsBuildUp'
  BY DEF StepsBuildUp
<1>5. PodWithService' /\ DestroyTearsDown'
  BY DEF PodWithService, DestroyTearsDown, OnlyMade
<1> QED
  BY <1>1, <1>2, <1>3, <1>4, <1>5

\* A destroy deletes the pod.
LEMMA DeletePodOK ==
    ASSUME IInv, NEW c \in Calls, DeletePod(c)
    PROVE  IInv'
<1> USE DEF IInv, TypeOK, LaunchingBy, LaunchPCs, DestroyPCs, Quiet, Settled,
            DeletePod, Step, Return, Goto
<1>1. TypeOK'
  BY TypesOK DEF Next, LaunchStep, DestroyStep
<1>2. LaunchedOnce' /\ OnlyMade'
  BY DEF LaunchedOnce, OnlyMade
<1>3. LaunchesAlone'
  BY NullAssumption DEF LaunchesAlone
<1>4. StepsBuildUp'
  BY DEF StepsBuildUp, LaunchesAlone
<1>5. PodWithService' /\ DestroyTearsDown'
  BY DEF PodWithService, DestroyTearsDown
<1> QED
  BY <1>1, <1>2, <1>3, <1>4, <1>5

\* A destroy deletes the service; alone, it was the last thing left.
LEMMA DeleteServiceOK ==
    ASSUME IInv, NEW c \in Calls, DeleteService(c)
    PROVE  IInv'
<1> USE DEF IInv, TypeOK, LaunchingBy, LaunchPCs, DestroyPCs, Quiet, Settled,
            DeleteService, Return, Goto
<1>1. TypeOK'
  BY TypesOK DEF Next, LaunchStep, DestroyStep
<1>2. LaunchedOnce' /\ OnlyMade'
  BY DEF LaunchedOnce, OnlyMade
<1>3. LaunchesAlone'
  BY NullAssumption DEF LaunchesAlone
<1>4. StepsBuildUp'
  BY DEF StepsBuildUp
<1>5. PodWithService' /\ DestroyTearsDown'
  BY DEF PodWithService, DestroyTearsDown, StepsBuildUp
<1> QED
  BY <1>1, <1>2, <1>3, <1>4, <1>5

\* A restart hurts every instance with a call in progress, and the others lose
\* their map entry only.
LEMMA RestartOK ==
    ASSUME IInv, Restart
    PROVE  IInv'
<1> USE DEF IInv, TypeOK, LaunchingBy, LaunchPCs, DestroyPCs, Quiet, Settled,
            Restart, cluster
<1>1. TypeOK'
  BY TypesOK DEF Next, LaunchStep, DestroyStep
<1>2. LaunchedOnce' /\ OnlyMade'
  BY DEF LaunchedOnce, OnlyMade
<1>3. LaunchesAlone'
  BY DEF LaunchesAlone
<1>4. StepsBuildUp'
  BY DEF StepsBuildUp
<1>5. PodWithService' /\ DestroyTearsDown'
  BY DEF PodWithService, DestroyTearsDown
<1> QED
  BY <1>1, <1>2, <1>3, <1>4, <1>5

-----------------------------------------------------------------------------
\* IInv is an inductive invariant of the adapter.
THEOREM Inductive == Spec => []IInv
<1>1. IInv /\ UNCHANGED vars => IInv'
  BY DEF IInv, TypeOK, LaunchedOnce, OnlyMade, LaunchesAlone, StepsBuildUp,
     PodWithService, DestroyTearsDown, LaunchingBy, Settled, Quiet, vars
<1>2. IInv /\ [Next]_vars => IInv'
  BY <1>1, LaunchOK, DestroyOK, CreatePodOK, CreateServiceOK, RecordOK, RaiseOK,
     DeletePodOK, DeleteServiceOK, RestartOK DEF Next, LaunchStep, DestroyStep
<1> QED
  BY InitOK, <1>2, PTL DEF Spec

\* A settled instance has both its pod and its service or neither, for any
\* number of calls interleaved at every request to the API server.
THEOREM PodsHaveServices == Spec => []PodWithService
<1>1. IInv => PodWithService
  BY DEF IInv
<1> QED
  BY <1>1, Inductive, PTL

\* A destroy that ran alone leaves nothing, whatever came before it.
THEOREM DestroysTearDown == Spec => []DestroyTearsDown
<1>1. IInv => DestroyTearsDown
  BY DEF IInv
<1> QED
  BY <1>1, Inductive, PTL

-----------------------------------------------------------------------------
\* A step of the adapter is a step of the contract or leaves the view of the
\* launches and the pods alone.
LEMMA ContractStep ==
    ASSUME IInv, Next
    PROVE  Contract!Next \/ UNCHANGED <<callView, pods>>
<1> USE DEF IInv, TypeOK, LaunchedOnce, LaunchingBy, LaunchPCs, Goto, Step, Return,
            cluster
<1>1. ASSUME NEW c \in Calls, NEW i \in Ids, Launch(c, i) PROVE Contract!Next
  <2>1. Contract!Asked(i)
    BY <1>1 DEF Launch, OnlyMade, callView, Contract!Asked
  <2> QED
    BY <2>1 DEF Contract!Next
<1>2. ASSUME NEW c \in Calls, CreatePod(c)
      PROVE  Contract!Next \/ UNCHANGED <<callView, pods>>
  <2>1. on[c] \in Ids
    BY <1>2 DEF CreatePod
  <2>2. Contract!Creates(on[c]) \/ UNCHANGED <<callView, pods>>
    BY <1>2, <2>1 DEF CreatePod, callView, Contract!Creates
  <2> QED
    BY <2>1, <2>2 DEF Contract!Next
<1>3. ASSUME NEW c \in Calls, Record(c)
      PROVE  Contract!Next
  <2>1. on[c] \in Ids
    BY <1>3 DEF Record
  <2>2. Contract!Answers(on[c])
    BY <1>3, <2>1 DEF Record, callView, Contract!Answers
  <2> QED
    BY <2>1, <2>2 DEF Contract!Next
<1>4. ASSUME NEW c \in Calls, Raise(c)
      PROVE  Contract!Next
  <2>1. on[c] \in Ids
    BY <1>4 DEF Raise
  <2>2. Contract!Raises(on[c])
    BY <1>4, <2>1 DEF Raise, callView, Contract!Raises
  <2> QED
    BY <2>1, <2>2 DEF Contract!Next
<1>5. ASSUME NEW c \in Calls, DeletePod(c)
      PROVE  Contract!Next \/ UNCHANGED <<callView, pods>>
  <2>1. on[c] \in Ids
    BY <1>5 DEF DeletePod
  <2>2. Contract!Removes(on[c]) \/ UNCHANGED <<callView, pods>>
    BY <1>5, <2>1 DEF DeletePod, callView, Contract!Removes
  <2> QED
    BY <2>1, <2>2 DEF Contract!Next
<1>6. ASSUME \/ \E c \in Calls : CreateService(c) \/ DeleteService(c)
             \/ \E c \in Calls, i \in Ids : Destroy(c, i)
             \/ Restart
      PROVE  UNCHANGED <<callView, pods>>
  BY <1>6 DEF CreateService, DeleteService, Destroy, Restart, callView
<1> QED
  BY <1>1, <1>2, <1>3, <1>4, <1>5, <1>6 DEF Next, LaunchStep, DestroyStep

\* The Kubernetes adapters implement the adapter contract, with pods for
\* containers: one pod per launch at most, made while the launch is open.
THEOREM ImplementsContract == Spec => KeepsContract
<1>1. Init => Contract!Init
  BY DEF Init, callView, Contract!Init
<1>2. IInv /\ UNCHANGED vars => UNCHANGED <<callView, pods>>
  BY DEF vars, callView
<1>3. IInv /\ [Next]_vars => [Contract!Next]_(Contract!contractVars)
  BY <1>2, ContractStep DEF Contract!contractVars
<1> QED
  BY <1>1, <1>3, Inductive, PTL DEF Spec, KeepsContract, Contract!Spec

==============================================================================
