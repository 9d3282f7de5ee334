---------------------------- MODULE DockerProofs ----------------------------
(***************************************************************************)
(* Proofs about DockerAdapter, for every set of instances, of calls and of *)
(* faults: the inductive invariant, the two safety invariants it contains, *)
(* and that the adapter implements AdapterContract.                        *)
(***************************************************************************)
EXTENDS DockerAdapter, TLAPS

-----------------------------------------------------------------------------
\* The initial state satisfies the invariant.
LEMMA InitOK == Init => IInv
  BY NullAssumption DEF Init, IInv, TypeOK, LaunchedOnce, OnlyMade, LaunchesAlone,
     StepsBuildUp, AllOrNothing, DestroyTearsDown, LaunchingBy, LaunchPCs

\* Every step keeps the types.
LEMMA TypesOK ==
    ASSUME TypeOK, Next
    PROVE  TypeOK'
<1> USE NullAssumption DEF TypeOK, LaunchPCs, DestroyPCs, Goto, Step, Return, Replies,
            Does, Slips, daemon, hist
<1>1. ASSUME NEW c \in Calls, NEW i \in Ids, LaunchBegin(c, i) PROVE TypeOK'
  BY <1>1 DEF LaunchBegin, Begin
<1>2. ASSUME NEW c \in Calls, NEW i \in Ids, DestroyBegin(c, i) PROVE TypeOK'
  BY <1>2 DEF DestroyBegin, Begin
<1>3. ASSUME NEW c \in Calls, NetworkCreate(c) PROVE TypeOK'
  <2>1. CASE Replies(c, "failed") /\ UNCHANGED nets
    BY <1>3, <2>1 DEF NetworkCreate
  <2>2. CASE nets' = nets \cup {on[c]} /\ Step(c, "run") /\ UNCHANGED reply
    BY <1>3, <2>2 DEF NetworkCreate
  <2> QED
    BY <1>3, <2>1, <2>2 DEF NetworkCreate
<1>4. ASSUME NEW c \in Calls, RunContainer(c) PROVE TypeOK'
  BY <1>4 DEF RunContainer
<1>5. ASSUME NEW c \in Calls, RunFails(c) PROVE TypeOK'
  BY <1>5 DEF RunFails
<1>6. ASSUME NEW c \in Calls, ResolveGateway(c) PROVE TypeOK'
  BY <1>6 DEF ResolveGateway
<1>7. ASSUME NEW c \in Calls, Connect(c) PROVE TypeOK'
  BY <1>7 DEF Connect
<1>8. ASSUME NEW c \in Calls, Record(c) PROVE TypeOK'
  BY <1>8 DEF Record
<1>9. ASSUME NEW c \in Calls, UndoContainer(c) PROVE TypeOK'
  BY <1>9 DEF UndoContainer
<1>10. ASSUME NEW c \in Calls, UndoNetwork(c) PROVE TypeOK'
  BY <1>10 DEF UndoNetwork, WithoutNetwork
<1>11. ASSUME NEW c \in Calls, FindGateway(c) PROVE TypeOK'
  BY <1>11 DEF FindGateway
<1>12. ASSUME NEW c \in Calls, Disconnect(c) PROVE TypeOK'
  BY <1>12 DEF Disconnect
<1>13. ASSUME NEW c \in Calls, RemoveContainer(c) PROVE TypeOK'
  BY <1>13 DEF RemoveContainer
<1>14. ASSUME NEW c \in Calls, RemoveNetwork(c) PROVE TypeOK'
  BY <1>14 DEF RemoveNetwork, WithoutNetwork
<1>15. ASSUME Restart PROVE TypeOK'
  BY <1>15 DEF Restart
<1> QED
  BY <1>1, <1>2, <1>3, <1>4, <1>5, <1>6, <1>7, <1>8, <1>9, <1>10, <1>11, <1>12,
     <1>13, <1>14, <1>15 DEF Next, LaunchStep, DestroyStep

-----------------------------------------------------------------------------
\* A launch begins: the first on its instance, beside destroys at most.
LEMMA LaunchBeginOK ==
    ASSUME IInv, NEW c \in Calls, NEW i \in Ids, LaunchBegin(c, i)
    PROVE  IInv'
<1> USE DEF IInv, TypeOK, LaunchingBy, LaunchPCs, DestroyPCs, Quiet, Settled,
            LaunchBegin, Begin, Goto, daemon
<1>1. TypeOK'
  BY TypesOK DEF Next, LaunchStep, DestroyStep
<1>2. LaunchedOnce' /\ OnlyMade'
  BY DEF LaunchedOnce, OnlyMade
<1>3. LaunchesAlone'
  BY DEF LaunchesAlone
<1>4. StepsBuildUp'
  BY DEF StepsBuildUp
<1>5. AllOrNothing' /\ DestroyTearsDown'
  BY DEF AllOrNothing, DestroyTearsDown
<1> QED
  BY <1>1, <1>2, <1>3, <1>4, <1>5

\* A destroy begins: one that finds no other call on its instance starts afresh.
LEMMA DestroyBeginOK ==
    ASSUME IInv, NEW c \in Calls, NEW i \in Ids, DestroyBegin(c, i)
    PROVE  IInv'
<1> USE DEF IInv, TypeOK, LaunchingBy, LaunchPCs, DestroyPCs, Quiet, Settled,
            DestroyBegin, Begin, Goto, daemon
<1>1. TypeOK'
  BY TypesOK DEF Next, LaunchStep, DestroyStep
<1>2. LaunchedOnce' /\ OnlyMade'
  BY DEF LaunchedOnce, OnlyMade
<1>3. LaunchesAlone'
  BY DEF LaunchesAlone
<1>4. StepsBuildUp'
  <2>1. CASE i \in known
    <3>1. at' = [at EXCEPT ![c] = "disconnect"] /\ gw'[c] /\ on'[c] = i
      BY <2>1
    <3>2. \A d \in Calls \ {c} : gw'[d] = gw[d] /\ at'[d] = at[d] /\ on'[d] = on[d]
      BY <2>1
    <3> HIDE DEF Begin, Goto
    <3> QED
      BY <1>1, <2>1, <3>1, <3>2, NullAssumption
      DEF StepsBuildUp, LaunchesAlone, OnlyMade, AllOrNothing
  <2>2. CASE i \notin known
    BY <1>1, <2>2, NullAssumption DEF StepsBuildUp, LaunchesAlone, OnlyMade, AllOrNothing
  <2> QED
    BY <2>1, <2>2
<1>5. AllOrNothing' /\ DestroyTearsDown'
  BY DEF AllOrNothing, DestroyTearsDown
<1> QED
  BY <1>1, <1>2, <1>3, <1>4, <1>5

\* A launch makes its network, or fails having made nothing.
LEMMA NetworkCreateOK ==
    ASSUME IInv, NEW c \in Calls, NetworkCreate(c)
    PROVE  IInv'
<1> USE DEF IInv, TypeOK, LaunchingBy, LaunchPCs, DestroyPCs, Quiet, Settled,
            NetworkCreate, Replies, Return, Step, Goto
<1>1. TypeOK'
  BY TypesOK DEF Next, LaunchStep, DestroyStep
<1>2. LaunchedOnce' /\ OnlyMade'
  BY DEF LaunchedOnce, OnlyMade
<1>3. LaunchesAlone'
  BY NullAssumption DEF LaunchesAlone
<1>4. StepsBuildUp'
  BY DEF StepsBuildUp, OnlyMade
<1>5. AllOrNothing' /\ DestroyTearsDown'
  BY DEF AllOrNothing, DestroyTearsDown, LaunchedOnce, OnlyMade
<1> QED
  BY <1>1, <1>2, <1>3, <1>4, <1>5

\* A launch makes its container.
LEMMA RunContainerOK ==
    ASSUME IInv, NEW c \in Calls, RunContainer(c)
    PROVE  IInv'
<1> USE DEF IInv, TypeOK, LaunchingBy, LaunchPCs, DestroyPCs, Quiet, Settled,
            RunContainer, Step, Goto
<1>1. TypeOK'
  BY TypesOK DEF Next, LaunchStep, DestroyStep
<1>2. LaunchedOnce' /\ OnlyMade'
  BY DEF LaunchedOnce, OnlyMade
<1>3. LaunchesAlone'
  BY DEF LaunchesAlone
<1>4. StepsBuildUp'
  BY DEF StepsBuildUp, LaunchesAlone
<1>5. AllOrNothing' /\ DestroyTearsDown'
  BY DEF AllOrNothing, DestroyTearsDown
<1> QED
  BY <1>1, <1>2, <1>3, <1>4, <1>5

\* docker run fails, with or without a container to undo.
LEMMA RunFailsOK ==
    ASSUME IInv, NEW c \in Calls, RunFails(c)
    PROVE  IInv'
<1> USE DEF IInv, TypeOK, LaunchingBy, LaunchPCs, DestroyPCs, Quiet, Settled,
            RunFails, Step, Goto
<1>1. TypeOK'
  BY TypesOK DEF Next, LaunchStep, DestroyStep
<1>2. LaunchedOnce' /\ OnlyMade'
  BY DEF LaunchedOnce, OnlyMade
<1>3. LaunchesAlone'
  BY DEF LaunchesAlone
<1>4. StepsBuildUp'
  BY DEF StepsBuildUp, LaunchesAlone
<1>5. AllOrNothing' /\ DestroyTearsDown'
  BY DEF AllOrNothing, DestroyTearsDown
<1> QED
  BY <1>1, <1>2, <1>3, <1>4, <1>5

\* A launch finds the gateway or turns to undoing.
LEMMA ResolveGatewayOK ==
    ASSUME IInv, NEW c \in Calls, ResolveGateway(c)
    PROVE  IInv'
<1> USE DEF IInv, TypeOK, LaunchingBy, LaunchPCs, DestroyPCs, Quiet, Settled,
            ResolveGateway, Step, Goto, daemon, hist
<1>1. TypeOK'
  BY TypesOK DEF Next, LaunchStep, DestroyStep
<1>2. LaunchedOnce' /\ OnlyMade'
  BY DEF LaunchedOnce, OnlyMade
<1>3. LaunchesAlone'
  BY DEF LaunchesAlone
<1>4. StepsBuildUp'
  BY DEF StepsBuildUp
<1>5. AllOrNothing' /\ DestroyTearsDown'
  BY DEF AllOrNothing, DestroyTearsDown
<1> QED
  BY <1>1, <1>2, <1>3, <1>4, <1>5

\* A launch connects the gateway; a slip hurts its instance.
LEMMA ConnectOK ==
    ASSUME IInv, NEW c \in Calls, Connect(c)
    PROVE  IInv'
<1> USE DEF IInv, TypeOK, LaunchingBy, LaunchPCs, DestroyPCs, Quiet, Settled,
            Connect, Step, Goto, Does, Slips
<1>1. TypeOK'
  BY TypesOK DEF Next, LaunchStep, DestroyStep
<1>2. LaunchedOnce' /\ OnlyMade'
  BY DEF LaunchedOnce, OnlyMade
<1>3. LaunchesAlone'
  BY DEF LaunchesAlone
<1>4. StepsBuildUp'
  BY DEF StepsBuildUp, LaunchesAlone
<1>5. AllOrNothing' /\ DestroyTearsDown'
  BY DEF AllOrNothing, DestroyTearsDown
<1> QED
  BY <1>1, <1>2, <1>3, <1>4, <1>5

\* A launch is recorded and answered; alone, it leaves everything in place.
LEMMA RecordOK ==
    ASSUME IInv, NEW c \in Calls, Record(c)
    PROVE  IInv'
<1> USE DEF IInv, TypeOK, LaunchingBy, LaunchPCs, DestroyPCs, Quiet, Settled,
            Record, Replies, Return, Goto, daemon
<1>1. TypeOK'
  BY TypesOK DEF Next, LaunchStep, DestroyStep
<1>2. LaunchedOnce' /\ OnlyMade'
  BY DEF LaunchedOnce, OnlyMade
<1>3. LaunchesAlone'
  BY NullAssumption DEF LaunchesAlone
<1>4. StepsBuildUp'
  BY DEF StepsBuildUp, LaunchesAlone
<1>5. AllOrNothing' /\ DestroyTearsDown'
  BY DEF AllOrNothing, DestroyTearsDown, StepsBuildUp, LaunchesAlone
<1> QED
  BY <1>1, <1>2, <1>3, <1>4, <1>5

\* A failed launch removes its container.
LEMMA UndoContainerOK ==
    ASSUME IInv, NEW c \in Calls, UndoContainer(c)
    PROVE  IInv'
<1> USE DEF IInv, TypeOK, LaunchingBy, LaunchPCs, DestroyPCs, Quiet, Settled,
            UndoContainer, Step, Goto, Does, Slips
<1>1. TypeOK'
  BY TypesOK DEF Next, LaunchStep, DestroyStep
<1>2. LaunchedOnce' /\ OnlyMade'
  BY DEF LaunchedOnce, OnlyMade
<1>3. LaunchesAlone'
  BY DEF LaunchesAlone
<1>4. StepsBuildUp'
  BY DEF StepsBuildUp, LaunchedOnce
<1>5. AllOrNothing' /\ DestroyTearsDown'
  BY DEF AllOrNothing, DestroyTearsDown
<1> QED
  BY <1>1, <1>2, <1>3, <1>4, <1>5

\* A failed launch removes its network, which nothing is attached to if it was
\* alone.
LEMMA UndoNetworkOK ==
    ASSUME IInv, NEW c \in Calls, UndoNetwork(c)
    PROVE  IInv'
<1> USE DEF IInv, TypeOK, LaunchingBy, LaunchPCs, DestroyPCs, Quiet, Settled,
            UndoNetwork, Return, Goto, Does, Slips, WithoutNetwork
<1>1. TypeOK'
  BY TypesOK DEF Next, LaunchStep, DestroyStep
<1>2. LaunchedOnce' /\ OnlyMade'
  BY DEF LaunchedOnce, OnlyMade
<1>3. LaunchesAlone'
  BY NullAssumption DEF LaunchesAlone
<1>4. StepsBuildUp'
  BY DEF StepsBuildUp, LaunchedOnce
<1>5. AllOrNothing' /\ DestroyTearsDown'
  BY DEF AllOrNothing, DestroyTearsDown, StepsBuildUp, LaunchedOnce, OnlyMade
<1> QED
  BY <1>1, <1>2, <1>3, <1>4, <1>5

\* A destroy finds the gateway, or hurts its instance.
LEMMA FindGatewayOK ==
    ASSUME IInv, NEW c \in Calls, FindGateway(c)
    PROVE  IInv'
<1> USE DEF IInv, TypeOK, LaunchingBy, LaunchPCs, DestroyPCs, Quiet, Settled,
            FindGateway, Goto, daemon
<1>1. TypeOK'
  BY TypesOK DEF Next, LaunchStep, DestroyStep
<1>2. LaunchedOnce' /\ OnlyMade'
  BY DEF LaunchedOnce, OnlyMade
<1>3. LaunchesAlone'
  BY DEF LaunchesAlone
<1>4. StepsBuildUp'
  BY DEF StepsBuildUp
<1>5. AllOrNothing' /\ DestroyTearsDown'
  BY DEF AllOrNothing, DestroyTearsDown
<1> QED
  BY <1>1, <1>2, <1>3, <1>4, <1>5

\* A destroy disconnects the gateway.
LEMMA DisconnectOK ==
    ASSUME IInv, NEW c \in Calls, Disconnect(c)
    PROVE  IInv'
<1> USE DEF IInv, TypeOK, LaunchingBy, LaunchPCs, DestroyPCs, Quiet, Settled,
            Disconnect, Step, Goto, Does, Slips
<1>1. TypeOK'
  BY TypesOK DEF Next, LaunchStep, DestroyStep
<1>2. LaunchedOnce' /\ OnlyMade'
  BY DEF LaunchedOnce, OnlyMade
<1>3. LaunchesAlone'
  BY DEF LaunchesAlone
<1>4. StepsBuildUp'
  BY DEF StepsBuildUp, LaunchesAlone
<1>5. AllOrNothing' /\ DestroyTearsDown'
  BY DEF AllOrNothing, DestroyTearsDown
<1> QED
  BY <1>1, <1>2, <1>3, <1>4, <1>5

\* A destroy removes the container.
LEMMA RemoveContainerOK ==
    ASSUME IInv, NEW c \in Calls, RemoveContainer(c)
    PROVE  IInv'
<1> USE DEF IInv, TypeOK, LaunchingBy, LaunchPCs, DestroyPCs, Quiet, Settled,
            RemoveContainer, Step, Goto, Does, Slips
<1>1. TypeOK'
  BY TypesOK DEF Next, LaunchStep, DestroyStep
<1>2. LaunchedOnce' /\ OnlyMade'
  BY DEF LaunchedOnce, OnlyMade
<1>3. LaunchesAlone'
  BY DEF LaunchesAlone
<1>4. StepsBuildUp'
  BY DEF StepsBuildUp, LaunchesAlone
<1>5. AllOrNothing' /\ DestroyTearsDown'
  BY DEF AllOrNothing, DestroyTearsDown
<1> QED
  BY <1>1, <1>2, <1>3, <1>4, <1>5

\* A destroy removes the network; alone, it was the last thing left.
LEMMA RemoveNetworkOK ==
    ASSUME IInv, NEW c \in Calls, RemoveNetwork(c)
    PROVE  IInv'
<1> USE DEF IInv, TypeOK, LaunchingBy, LaunchPCs, DestroyPCs, Quiet, Settled,
            RemoveNetwork, Return, Goto, Does, Slips, WithoutNetwork
<1>1. TypeOK'
  BY TypesOK DEF Next, LaunchStep, DestroyStep
<1>2. LaunchedOnce' /\ OnlyMade'
  BY DEF LaunchedOnce, OnlyMade
<1>3. LaunchesAlone'
  BY NullAssumption DEF LaunchesAlone
<1>4. StepsBuildUp'
  BY DEF StepsBuildUp, LaunchesAlone
<1>5. AllOrNothing' /\ DestroyTearsDown'
  BY DEF AllOrNothing, DestroyTearsDown, StepsBuildUp
<1> QED
  BY <1>1, <1>2, <1>3, <1>4, <1>5

\* A restart hurts every instance with a call in progress, and the others lose
\* their map entry only.
LEMMA RestartOK ==
    ASSUME IInv, Restart
    PROVE  IInv'
<1> USE DEF IInv, TypeOK, LaunchingBy, LaunchPCs, DestroyPCs, Quiet, Settled,
            Restart, daemon
<1>1. TypeOK'
  BY TypesOK DEF Next, LaunchStep, DestroyStep
<1>2. LaunchedOnce' /\ OnlyMade'
  BY DEF LaunchedOnce, OnlyMade
<1>3. LaunchesAlone'
  BY DEF LaunchesAlone
<1>4. StepsBuildUp'
  BY DEF StepsBuildUp
<1>5. AllOrNothing' /\ DestroyTearsDown'
  BY DEF AllOrNothing, DestroyTearsDown
<1> QED
  BY <1>1, <1>2, <1>3, <1>4, <1>5

-----------------------------------------------------------------------------
\* IInv is an inductive invariant of the adapter.
THEOREM Inductive == Spec => []IInv
<1>1. IInv /\ UNCHANGED vars => IInv'
  BY DEF IInv, TypeOK, LaunchedOnce, OnlyMade, LaunchesAlone, StepsBuildUp,
     AllOrNothing, DestroyTearsDown, LaunchingBy, Settled, Quiet, vars
<1>2. IInv /\ [Next]_vars => IInv'
  BY <1>1, LaunchBeginOK, DestroyBeginOK, NetworkCreateOK, RunContainerOK,
     RunFailsOK, ResolveGatewayOK, ConnectOK, RecordOK, UndoContainerOK,
     UndoNetworkOK, FindGatewayOK, DisconnectOK, RemoveContainerOK, RemoveNetworkOK,
     RestartOK DEF Next, LaunchStep, DestroyStep
<1> QED
  BY InitOK, <1>2, PTL DEF Spec

\* A settled instance has its container, its network and the gateway's connection
\* or none of them, for any number of calls interleaved at every docker command.
THEOREM WholeOrGone == Spec => []AllOrNothing
<1>1. IInv => AllOrNothing
  BY DEF IInv
<1> QED
  BY <1>1, Inductive, PTL

\* A destroy that ran alone leaves nothing, whatever came before it.
THEOREM DestroysTearDown == Spec => []DestroyTearsDown
<1>1. IInv => DestroyTearsDown
  BY DEF IInv
<1> QED
  BY <1>1, Inductive, PTL

-----------------------------------------------------------------------------
\* A step of the adapter is a step of the contract or leaves the view of the
\* launches and the containers alone.
LEMMA ContractStep ==
    ASSUME IInv, Next
    PROVE  Contract!Next \/ UNCHANGED <<callView, boxes>>
<1> USE DEF IInv, TypeOK, LaunchedOnce, OnlyMade, LaunchingBy, LaunchPCs, Goto, Step,
            Return, Replies, Does, Slips, daemon, hist
<1>1. ASSUME NEW c \in Calls, NEW i \in Ids, LaunchBegin(c, i) PROVE Contract!Next
  <2>1. Contract!Asked(i)
    BY <1>1 DEF LaunchBegin, callView, Contract!Asked
  <2> QED
    BY <2>1 DEF Contract!Next
<1>2. ASSUME NEW c \in Calls, NetworkCreate(c)
      PROVE  Contract!Next \/ UNCHANGED <<callView, boxes>>
  <2>1. on[c] \in Ids
    BY <1>2 DEF NetworkCreate
  <2>2. CASE Replies(c, "failed")
    <3>1. reply[on[c]] = "open" /\ on[c] \notin made \cup boxes
      BY <1>2, <2>1 DEF NetworkCreate
    <3>2. callView' = [callView EXCEPT ![on[c]] = "failed"]
      BY <1>2, <2>1, <2>2 DEF NetworkCreate, callView
    <3>3. Contract!Raises(on[c])
      BY <1>2, <2>1, <3>1, <3>2 DEF NetworkCreate, callView, Contract!Raises
    <3> QED
      BY <2>1, <3>3 DEF Contract!Next
  <2>3. CASE UNCHANGED reply
    BY <1>2, <2>3 DEF NetworkCreate, callView
  <2> QED
    BY <1>2, <2>2, <2>3 DEF NetworkCreate
<1>3. ASSUME NEW c \in Calls, RunContainer(c)
      PROVE  Contract!Next
  <2>1. on[c] \in Ids
    BY <1>3 DEF RunContainer
  <2>2. Contract!Creates(on[c])
    BY <1>3, <2>1 DEF RunContainer, callView, Contract!Creates
  <2> QED
    BY <2>1, <2>2 DEF Contract!Next
<1>4. ASSUME NEW c \in Calls, RunFails(c)
      PROVE  Contract!Next \/ UNCHANGED <<callView, boxes>>
  <2>1. on[c] \in Ids
    BY <1>4 DEF RunFails
  <2>2. Contract!Creates(on[c]) \/ UNCHANGED <<callView, boxes>>
    BY <1>4, <2>1 DEF RunFails, callView, Contract!Creates
  <2> QED
    BY <2>1, <2>2 DEF Contract!Next
<1>5. ASSUME NEW c \in Calls, Record(c)
      PROVE  Contract!Next
  <2>1. on[c] \in Ids
    BY <1>5 DEF Record
  <2>2. Contract!Answers(on[c])
    BY <1>5, <2>1 DEF Record, callView, Contract!Answers
  <2> QED
    BY <2>1, <2>2 DEF Contract!Next
<1>6. ASSUME NEW c \in Calls, UndoContainer(c)
      PROVE  Contract!Next
  <2>1. on[c] \in Ids
    BY <1>6 DEF UndoContainer
  <2>2. Contract!Raises(on[c])
    BY <1>6, <2>1 DEF UndoContainer, callView, Contract!Raises
  <2> QED
    BY <2>1, <2>2 DEF Contract!Next
<1>7. ASSUME NEW c \in Calls, RemoveContainer(c)
      PROVE  Contract!Next \/ UNCHANGED <<callView, boxes>>
  <2>1. on[c] \in Ids
    BY <1>7 DEF RemoveContainer
  <2>2. Contract!Removes(on[c]) \/ UNCHANGED <<callView, boxes>>
    BY <1>7, <2>1 DEF RemoveContainer, callView, Contract!Removes
  <2> QED
    BY <2>1, <2>2 DEF Contract!Next
<1>8. ASSUME \/ \E c \in Calls : ResolveGateway(c) \/ Connect(c) \/ UndoNetwork(c)
             \/ \E c \in Calls : FindGateway(c) \/ Disconnect(c) \/ RemoveNetwork(c)
             \/ \E c \in Calls, i \in Ids : DestroyBegin(c, i)
             \/ Restart
      PROVE  UNCHANGED <<callView, boxes>>
  BY <1>8 DEF ResolveGateway, Connect, UndoNetwork, FindGateway, Disconnect,
     RemoveNetwork, DestroyBegin, Restart, callView
<1> QED
  BY <1>1, <1>2, <1>3, <1>4, <1>5, <1>6, <1>7, <1>8 DEF Next, LaunchStep, DestroyStep

\* The Docker adapter implements the adapter contract: a container only under an
\* open launch, and behind one that raised only if a docker command slipped.
THEOREM ImplementsContract == Spec => KeepsContract
<1>1. Init => Contract!Init
  BY DEF Init, callView, Contract!Init
<1>2. IInv /\ UNCHANGED vars => UNCHANGED <<callView, boxes>>
  BY DEF vars, callView
<1>3. IInv /\ [Next]_vars => [Contract!Next]_(Contract!contractVars)
  BY <1>2, ContractStep DEF Contract!contractVars
<1> QED
  BY <1>1, <1>3, Inductive, PTL DEF Spec, KeepsContract, Contract!Spec

=============================================================================
