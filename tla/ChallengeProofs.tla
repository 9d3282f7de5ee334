--------------------------- MODULE ChallengeProofs ---------------------------
(***************************************************************************)
(* Proofs about the challenge registry and the import, for any attributes  *)
(* and any number of callers: no instance loses its challenge, whoever is  *)
(* told ok has been obeyed in each attribute, nobody's update is undone by *)
(* one of other attributes, and an import keeps what is registered,        *)
(* doubles nothing and reports what it leaves out.  RegistryInv and        *)
(* ImportInv are the inductive invariants.                                 *)
(***************************************************************************)
EXTENDS ChallengeImport, TLAPS

-----------------------------------------------------------------------------
(***************************************************************************)
(* The registry.                                                           *)
(***************************************************************************)

LEMMA EmptyIsBody == Empty \in Bodies
BY DEF Empty, Bodies

\* What a body is written into stays a row.
LEMMA MergedIsRow ==
    /\ \A o \in Rows, n \in Bodies : Merged(o, n) \in Rows
    /\ \A p \in Clients : RegistryTypeOK /\ base[p] \in Rows => Changes(p) \in Bodies
BY DEF Merged, Changes, Rows, Bodies, RegistryTypeOK

LEMMA RegistryInitOK == RegistryInit => RegistryInv
BY DefaultAssumption, EmptyIsBody
   DEF RegistryInit, RegistryInv, RegistryTypeOK, InstanceHasChallenge, OkMeansApplied,
       CallInOrder, Tolerates, PCs, Registered

\* The history keeps what it has while a call goes on, and takes up its effect.
LEMMA WatchKeeps ==
    ASSUME RegistryInv, Watch
    PROVE  /\ met' \in [Clients -> SUBSET Attrs]
           /\ \A p \in Clients : pc[p] # "idle" /\ pc'[p] # "idle" =>
                met[p] \cup Effect(op[p], job[p], want[p], row') \subseteq met'[p]
BY DEF Watch, RegistryInv, RegistryTypeOK, Effect

\* What a call has told its caller and where it stands.
CallFits(p) == CallInOrder(p) /\ (answer[p] = "ok" => met[p] = Attrs)

SameCall(p) ==
    /\ pc'[p] = pc[p] /\ op'[p] = op[p] /\ job'[p] = job[p]
    /\ want'[p] = want[p] /\ base'[p] = base[p] /\ answer'[p] = answer[p]

\* A call nobody touches stays as it fits.
LEMMA SameCallFits ==
    ASSUME RegistryInv, Watch, NEW p \in Clients, SameCall(p)
    PROVE  CallFits(p)'
<1>1. met'[p] \subseteq Attrs /\ (pc[p] # "idle" => met[p] \subseteq met'[p])
  BY WatchKeeps DEF SameCall
<1>2. Changes(p)' = Changes(p)
  BY DEF SameCall, Changes
<1> QED
  BY <1>1, <1>2 DEF SameCall, CallFits, CallInOrder, RegistryInv, OkMeansApplied

\* The invariant is the calls' parts of it and that of the rows.
LEMMA RegistryInvParts ==
    ASSUME RegistryTypeOK', InstanceHasChallenge', \A p \in Clients : CallFits(p)'
    PROVE  RegistryInv'
BY DEF RegistryInv, OkMeansApplied, CallFits

LEMMA HandlerTyped ==
    ASSUME RegistryInv, Watch, NEW p \in Clients, Handler(p)
    PROVE  RegistryTypeOK' /\ \A q \in Clients \ {p} : SameCall(q)
<1> USE DefaultAssumption
        DEF RegistryInv, RegistryTypeOK, CallInOrder, SameCall, Registered, Tolerates, PCs,
            rows, calls, Goto, Holds, CallTo, Answered, Refused
<1>1. met' \in [Clients -> SUBSET Attrs]
  BY WatchKeeps
<1> USE EmptyIsBody
<1>2. CASE PostSelect(p)
  BY <1>1, <1>2 DEF PostSelect, FallsBack
<1>3. CASE PostInsert(p)
  <2>1. Merged(Default, want[p]) \in Rows
    BY MergedIsRow
  <2> QED
    BY <1>1, <1>3, <2>1 DEF PostInsert
<1>4. CASE PatchSelect(p)
  BY <1>1, <1>4 DEF PatchSelect
<1>5. CASE PatchUpdate(p)
  <2>1. row[job[p]] \in Rows => Merged(row[job[p]], Changes(p)) \in Rows
    BY <1>5, MergedIsRow DEF PatchUpdate
  <2>2. row' \in [Cids -> Rows \cup {Null}]
    BY <1>5, <2>1 DEF PatchUpdate
  <2> QED
    BY <1>1, <1>5, <2>2 DEF PatchUpdate
<1>6. CASE Refresh(p)
  BY <1>1, <1>6 DEF Refresh
<1>7. CASE DeleteSelect(p)
  BY <1>1, <1>7 DEF DeleteSelect
<1>8. CASE DeleteRemove(p)
  BY <1>1, <1>8 DEF DeleteRemove
<1>9. CASE CallFails(p)
  BY <1>1, <1>9 DEF CallFails
<1> QED
  BY <1>2, <1>3, <1>4, <1>5, <1>6, <1>7, <1>8, <1>9 DEF Handler

LEMMA HandlerFits ==
    ASSUME RegistryInv, Watch, NEW p \in Clients, Handler(p)
    PROVE  CallFits(p)' /\ InstanceHasChallenge'
<1> USE DefaultAssumption
        DEF RegistryInv, RegistryTypeOK, InstanceHasChallenge, CallInOrder, CallFits,
            Registered, Tolerates, rows, calls, Goto, Holds, CallTo, Answered, Refused
<1> DEFINE Now == Effect(op[p], job[p], want[p], row')
<1>1. /\ met'[p] \subseteq Attrs
      /\ \/ pc[p] = "idle" \/ pc'[p] = "idle"
         \/ met[p] \cup Now \subseteq met'[p]
  BY WatchKeeps
<1>2. CASE PostSelect(p)
  <2>1. op[p] = "import" /\ Registered(job[p]) => Now = Attrs
    BY <1>2 DEF PostSelect, Effect
  <2>2. op[p] = "import" /\ Registered(job[p]) => met'[p] = Attrs
    <3>1. pc[p] # "idle" /\ pc'[p] # "idle"
      BY <1>2 DEF PostSelect
    <3> HIDE DEF Now
    <3> QED
      BY <1>1, <2>1, <3>1
  <2> QED
    BY <1>2, <2>2 DEF PostSelect, FallsBack
<1>3. CASE PostInsert(p)
  <2>1. ~ Registered(job[p]) => Now = Attrs
    <3> SUFFICES ASSUME ~ Registered(job[p]), NEW a \in Attrs PROVE a \in Now
      BY DEF Effect
    <3>1. row'[job[p]] = Merged(Default, want[p])
      BY <1>3 DEF PostInsert
    <3>2. row'[job[p]] # Null /\ want[p][a] \in {Null, row'[job[p]][a]}
      BY <3>1 DEF Merged, Rows, Bodies
    <3> QED
      BY <1>3, <3>2 DEF PostInsert, Effect
  <2>2. ~ Registered(job[p]) => met'[p] = Attrs
    BY <1>1, <1>3, <2>1 DEF PostInsert
  <2>3. \A c \in Cids : row[c] # Null => row'[c] # Null
    BY <1>3 DEF PostInsert
  <2> QED
    BY <1>3, <2>2, <2>3 DEF PostInsert
<1>4. CASE PatchSelect(p)
  <2>1. CASE Registered(job[p])
    <3>1. base'[p] = row[job[p]] /\ base'[p] \in Rows /\ want' = want
      BY <1>4, <2>1 DEF PatchSelect
    <3>2. \A a \in Attrs : Changes(p)'[a] = Null => a \in Now
      BY <1>4, <2>1, <3>1 DEF PatchSelect, Changes, Effect
    <3> HIDE DEF Now
    <3> QED
      BY <1>1, <1>4, <2>1, <3>1, <3>2 DEF PatchSelect
  <2>2. CASE ~ Registered(job[p])
    BY <1>4, <2>2 DEF PatchSelect
  <2> QED
    BY <2>1, <2>2
<1>5. CASE PatchUpdate(p)
  <2>1. CASE Answered(p, FALSE) /\ row' = row
    BY <1>5, <2>1 DEF PatchUpdate
  <2>2. CASE CallTo(p, "refresh")
    <3>0. Changes(p) \in Bodies
      BY <1>5, MergedIsRow DEF PatchUpdate
    <3>1. met'[p] = Attrs
      <4> SUFFICES ASSUME NEW a \in Attrs PROVE a \in met[p] \cup Now
        BY <1>1, <1>5, <2>2 DEF PatchUpdate
      <4>1. CASE Changes(p)[a] = Null
        BY <1>5, <4>1 DEF PatchUpdate
      <4>2. CASE Changes(p)[a] # Null
        <5>1. Changes(p)[a] = want[p][a]
          BY <4>2 DEF Changes
        <5>2. Changes(p) # Empty
          BY <4>2 DEF Empty
        <5>3. Registered(job[p]) /\ row'[job[p]] = Merged(row[job[p]], Changes(p))
          BY <1>5, <2>2, <5>2 DEF PatchUpdate
        <5>4. row'[job[p]] # Null
          <6>1. row[job[p]] \in Rows
            BY <1>5, <5>3 DEF PatchUpdate
          <6> QED
            BY <3>0, <5>3, <6>1, MergedIsRow
        <5>5. row'[job[p]][a] = want[p][a]
          BY <4>2, <5>1, <5>3 DEF Merged
        <5> QED
          BY <1>5, <5>4, <5>5 DEF PatchUpdate, Effect
      <4> QED
        BY <4>1, <4>2
    <3>2. \A c \in Cids : row[c] # Null => row'[c] # Null
      <4>1. \A c \in Cids : row[c] # Null => Merged(row[c], Changes(p)) # Null
        BY <3>0, MergedIsRow
      <4> QED
        BY <1>5, <4>1 DEF PatchUpdate
    <3> QED
      BY <1>5, <2>2, <3>1, <3>2 DEF PatchUpdate
  <2> QED
    BY <1>5, <2>1, <2>2 DEF PatchUpdate
<1>6. CASE Refresh(p)
  BY <1>1, <1>6 DEF Refresh
<1>7. CASE DeleteSelect(p)
  BY <1>1, <1>7 DEF DeleteSelect, Effect
<1>8. CASE DeleteRemove(p)
  <2>1. job[p] \notin refs => Now = Attrs
    BY <1>8 DEF DeleteRemove, Effect
  <2>2. job[p] \notin refs => met'[p] = Attrs
    BY <1>1, <1>8, <2>1 DEF DeleteRemove
  <2> QED
    BY <1>8, <2>2 DEF DeleteRemove
<1>9. CASE CallFails(p)
  BY <1>1, <1>9 DEF CallFails
<1> QED
  BY <1>2, <1>3, <1>4, <1>5, <1>6, <1>7, <1>8, <1>9 DEF Handler

\* A call that begins, or whose answer has been read.
LEMMA CallerFits ==
    ASSUME RegistryInv, Watch, NEW p \in Clients, UNCHANGED rows,
           \/ pc[p] = "done" /\ Leave(p)
           \/ \E c \in Cids, w \in Bodies :
                \/ Begin(p, "post", "register", c, w)
                \/ Begin(p, "post", "import", c, w)
                \/ Begin(p, "patch", "update", c, w)
                \/ Begin(p, "delete", "disable", c, Empty)
    PROVE  RegistryInv'
<1> USE DEF RegistryInv, RegistryTypeOK, InstanceHasChallenge, CallInOrder, Registered,
            Tolerates, PCs, rows, Goto, Holds, Begin, Leave
<1>1. RegistryTypeOK' /\ InstanceHasChallenge'
  BY WatchKeeps, EmptyIsBody
<1>2. CallFits(p)'
  BY DEF CallFits
<1>3. \A q \in Clients \ {p} : SameCall(q)
  BY DEF SameCall
<1> QED
  BY <1>1, <1>2, <1>3, SameCallFits, RegistryInvParts

LEMMA AdminOK ==
    ASSUME RegistryInv, Watch, NEW p \in Clients, AdminStep(p)
    PROVE  RegistryInv'
<1>1. ASSUME NEW c \in Cids, AdminRegisters(p, c) PROVE RegistryInv'
  <2>1. Rows \subseteq Bodies
    BY DEF Rows, Bodies
  <2> QED
    BY <1>1, <2>1, CallerFits DEF AdminRegisters
<1>2. ASSUME NEW c \in Cids, AdminDisables(p, c) PROVE RegistryInv'
  BY <1>2, EmptyIsBody, CallerFits DEF AdminDisables
<1>3. ASSUME NEW c \in Cids, NEW w \in Bodies, AdminUpdates(p, c, w) PROVE RegistryInv'
  BY <1>3, CallerFits DEF AdminUpdates
<1>4. CASE AdminSeesAnswer(p)
  BY <1>4, CallerFits DEF AdminSeesAnswer
<1> QED
  BY <1>1, <1>2, <1>3, <1>4 DEF AdminStep

\* Steps that touch no call.
LEMMA NoCallOK ==
    ASSUME RegistryInv, Watch, UNCHANGED calls, InstanceStep \/ UNCHANGED rows
    PROVE  RegistryInv'
<1>1. RegistryTypeOK' /\ InstanceHasChallenge'
  BY WatchKeeps
     DEF RegistryInv, RegistryTypeOK, InstanceHasChallenge, Registered, InstanceStep,
         InstanceFetch, InstanceInsert, rows, calls
<1>2. \A q \in Clients : SameCall(q)
  BY DEF SameCall, calls
<1> QED
  BY <1>1, <1>2, SameCallFits, RegistryInvParts

LEMMA HandlerOK ==
    ASSUME RegistryInv, Watch, NEW p \in Clients, Handler(p)
    PROVE  RegistryInv'
BY HandlerTyped, HandlerFits, SameCallFits, RegistryInvParts

LEMMA RegistryStutters ==
    ASSUME RegistryInv, UNCHANGED registryVars
    PROVE  RegistryInv'
BY DEF RegistryInv, RegistryTypeOK, InstanceHasChallenge, OkMeansApplied, CallInOrder,
       Changes, Registered, registryVars

LEMMA RegistryNextOK ==
    ASSUME RegistryInv, RegistryNext
    PROVE  RegistryInv'
<1>1. CASE InstanceStep
  BY <1>1, NoCallOK DEF RegistryNext, InstanceStep, InstanceFetch, InstanceInsert
<1>2. ASSUME NEW p \in Clients, Handler(p) \/ AdminStep(p) PROVE RegistryInv'
  BY <1>2, HandlerOK, AdminOK DEF RegistryNext
<1> QED
  BY <1>1, <1>2 DEF RegistryNext

\* The invariant of the registry under the handlers, the administrators and the
\* instances; with an importer beside them it is part of ImportInductive.
THEOREM RegistryInductive == RegistrySpec => []RegistryInv
<1>1. RegistryInv /\ [RegistryNext]_registryVars => RegistryInv'
  BY RegistryStutters, RegistryNextOK
<1> QED
  BY <1>1, RegistryInitOK, PTL DEF RegistrySpec

\* No instance row refers to a challenge that is gone: the foreign key holds over
\* every interleaving of deletions with reads and inserts.
THEOREM InstancesKeepChallenges == RegistrySpec => []InstanceHasChallenge
BY RegistryInductive, PTL DEF RegistryInv

\* Whoever is told ok has had every attribute asked for in force at some moment of the
\* call, if not all at the same, however the two calls of a registration and the
\* handlers of others interleave.
THEOREM OkIsHonest == RegistrySpec => []OkMeansApplied
BY RegistryInductive, PTL DEF RegistryInv

\* An update changes no attribute that it was not given, whatever it has read.
LEMMA UpdateWritesBody ==
    ASSUME RegistryInv, NEW p \in Clients, Handler(p) \/ AdminStep(p),
           NEW c \in Cids, NEW a \in Attrs,
           Registered(c), Registered(c)', row'[c][a] # row[c][a]
    PROVE  pc[p] = "update" /\ job[p] = c /\ want[p][a] = row'[c][a]
<1> USE DEF RegistryInv, RegistryTypeOK, CallInOrder, Registered
<1>1. row' # row /\ row'[c] # row[c]
  OBVIOUS
<1>2. PostInsert(p) \/ PatchUpdate(p) \/ DeleteRemove(p)
  BY <1>1 DEF Handler, AdminStep, AdminRegisters, AdminUpdates, AdminDisables,
              AdminSeesAnswer, PostSelect, PatchSelect, Refresh, DeleteSelect, CallFails, rows
<1>3. ~ PostInsert(p)
  BY <1>1 DEF PostInsert
<1>4. ~ DeleteRemove(p)
  BY <1>1 DEF DeleteRemove
<1>5. /\ pc[p] = "update" /\ job[p] = c
      /\ row'[c] = Merged(row[c], Changes(p))
  <2>1. /\ pc[p] = "update" /\ job[p] \in Cids
        /\ row' = row \/ row' = [row EXCEPT ![job[p]] = Merged(row[job[p]], Changes(p))]
    BY <1>2, <1>3, <1>4 DEF PatchUpdate
  <2> QED
    BY <1>1, <2>1
<1>6. Changes(p)[a] = row'[c][a]
  BY <1>5 DEF Merged
<1> QED
  BY <1>5, <1>6 DEF Merged, Changes

\* No update is undone by one of other attributes.
THEOREM UpdatesAreKept == RegistrySpec => OnlyProvidedChange
<1>1. RegistryInv /\ [RegistryNext]_registryVars =>
        [\A c \in Cids, a \in Attrs :
           Registered(c) /\ Registered(c)' /\ row'[c][a] # row[c][a] =>
              \E p \in Clients :
                 pc[p] = "update" /\ job[p] = c /\ want[p][a] = row'[c][a]]_registryVars
  <2> SUFFICES ASSUME RegistryInv, RegistryNext, NEW c \in Cids, NEW a \in Attrs,
                      Registered(c), Registered(c)', row'[c][a] # row[c][a]
               PROVE  \E p \in Clients :
                        pc[p] = "update" /\ job[p] = c /\ want[p][a] = row'[c][a]
    OBVIOUS
  <2>1. ~ InstanceStep
    BY DEF InstanceStep, InstanceFetch, InstanceInsert
  <2> QED
    BY <2>1, UpdateWritesBody DEF RegistryNext
<1> QED
  BY <1>1, RegistryInductive, PTL DEF RegistrySpec, OnlyProvidedChange

-----------------------------------------------------------------------------
(***************************************************************************)
(* The registry beside the import.                                         *)
(***************************************************************************)

\* All the importer does to the registry is to ask for a challenge to be created
\* and to read the answer.
LEMMA ImporterCalls ==
    ASSUME RegistryInv, Watch, ImporterStep \/ ImportBegins
    PROVE  RegistryInv'
<1>1. ASSUME NEW c \in Cids, ImportOne(c) PROVE RegistryInv'
  BY <1>1, DefaultAssumption, ImporterAssumption, CallerFits, NoCallOK DEF ImportOne
<1>2. CASE ImporterSeesAnswer
  BY <1>2, ImporterAssumption, CallerFits DEF ImporterSeesAnswer
<1>3. CASE ListIds \/ ImporterDies \/ SyncBegins \/ SyncEnds \/ ImportBegins
  BY <1>3, NoCallOK DEF ListIds, ImporterDies, SyncBegins, SyncEnds, ImportBegins
<1>4. ASSUME NEW c \in Cids, CreateIsLost(c) PROVE RegistryInv'
  BY <1>4, NoCallOK DEF CreateIsLost
<1>5. ASSUME NEW f \in Files,
             SkipFile(f) \/ UploadFile(f) \/ WriteContent(f) \/ InsertFileRow(f)
               \/ UploadFails(f)
      PROVE  RegistryInv'
  BY <1>5, NoCallOK DEF SkipFile, UploadFile, WriteContent, InsertFileRow, UploadFails
<1> QED
  BY <1>1, <1>2, <1>3, <1>4, <1>5 DEF ImporterStep

-----------------------------------------------------------------------------
(***************************************************************************)
(* The import.                                                             *)
(***************************************************************************)

LEMMA OthersKeepCall ==
    ASSUME RegistryInv, Watch, InstanceStep \/ \E p \in Admins : Handler(p) \/ AdminStep(p)
    PROVE  SameCall(Importer)
<1>1. ASSUME NEW p \in Admins, Handler(p) PROVE SameCall(Importer)
  BY <1>1, HandlerTyped, ImporterAssumption DEF Admins
<1>2. ASSUME NEW p \in Admins, AdminStep(p) PROVE SameCall(Importer)
  BY <1>2, ImporterAssumption
     DEF Admins, AdminStep, AdminRegisters, AdminUpdates, AdminDisables, AdminSeesAnswer,
         Begin, Leave, Holds, Goto, SameCall, RegistryInv, RegistryTypeOK
<1>3. CASE InstanceStep
  BY <1>3 DEF InstanceStep, InstanceFetch, InstanceInsert, calls, SameCall
<1> QED
  BY <1>1, <1>2, <1>3

\* What a request of the importer can do: it stays a request to create, it ends
\* only with the challenge registered or with an error, and it changes no row.
LEMMA ImporterHandler ==
    ASSUME RegistryInv, Watch, OnlyImports, Handler(Importer)
    PROVE  /\ OnlyImports'
           /\ \A c \in Cids : Registered(c) => row'[c] = row[c]
           /\ \/ job'[Importer] = job[Importer]
              \/ row'[job[Importer]] # Null
              \/ pc'[Importer] = "done" /\ answer'[Importer] # "ok"
           /\ pc[Importer] # "done"
<1> USE DefaultAssumption, ImporterAssumption
        DEF RegistryInv, RegistryTypeOK, CallInOrder, OnlyImports, Registered, Tolerates,
            rows, calls, Goto, Holds, CallTo, Answered, Refused
<1>1. pc[Importer] \in {"idle", "post", "insert", "refresh", "done"}
  BY DEF PCs
<1>2. CASE PostSelect(Importer)
  BY <1>2 DEF PostSelect, FallsBack
<1>3. CASE PostInsert(Importer)
  BY <1>3 DEF PostInsert
<1>4. CASE Refresh(Importer)
  BY <1>4 DEF Refresh
<1>5. CASE CallFails(Importer)
  BY <1>5 DEF CallFails
<1> QED
  BY <1>1, <1>2, <1>3, <1>4, <1>5
     DEF Handler, PatchSelect, PatchUpdate, DeleteSelect, DeleteRemove

\* The challenges disabled since the import began.
Drops == dropped' = dropped \cup {c \in Cids : Registered(c) /\ ~ Registered(c)'}

LEMMA AccountedStays ==
    ASSUME Drops, NEW c \in Cids, Accounted(c)
    PROVE  Accounted(c)'
BY DEF Drops, Accounted

\* A step of the registry leaves the importer's progress alone.
LEMMA RegistryStepKeepsImport ==
    ASSUME ImportInv, Watch, Drops, RegistryStep
    PROVE  ImportInv'
<1> USE DEF ImportInv
<1>1. RegistryInv'
  <2>1. ASSUME NEW p \in Clients, Handler(p) \/ AdminStep(p) PROVE RegistryInv'
    BY <2>1, HandlerOK, AdminOK
  <2>2. CASE InstanceStep
    BY <2>2, NoCallOK DEF InstanceStep, InstanceFetch, InstanceInsert
  <2> QED
    BY <2>1, <2>2, ImporterAssumption DEF RegistryStep, Admins
<1>2. SameCall(Importer) \/ Handler(Importer)
  BY OthersKeepCall DEF RegistryStep
<1>3. UNCHANGED <<ctfd, progress, blind>>
  BY DEF RegistryStep
<1>4. TypeOK' /\ OnlyImports'
  BY <1>1, <1>2, <1>3, ImporterHandler
     DEF TypeOK, RegistryInv, OnlyImports, SameCall, Drops, ctfd, progress
<1>5. AttachedIsStored' /\ ImportedOnce' /\ SeesChallenges' /\ SeesFiles'
  BY <1>3 DEF AttachedIsStored, ImportedOnce, SeesChallenges, SeesFiles, ctfd, progress
<1>6. CleanImportIsComplete'
  BY <1>3, AccountedStays DEF CleanImportIsComplete, Accounted, ctfd, progress
<1>7. HandledIsThere'
  <2>1. ASSUME NEW c \in Cids,
               \/ Accounted(c)
               \/ job[Importer] = c
               \/ pc[Importer] = "done" /\ answer[Importer] # "ok"
        PROVE  \/ Accounted(c)'
               \/ job'[Importer] = c
               \/ pc'[Importer] = "done" /\ answer'[Importer] # "ok"
    BY <1>2, <2>1, AccountedStays, ImporterHandler DEF SameCall, Accounted, Registered
  <2> QED
    BY <1>3, <2>1, AccountedStays DEF HandledIsThere, TypeOK, ctfd, progress
<1> QED
  BY <1>1, <1>4, <1>5, <1>6, <1>7

\* What the importer's own steps preserve, the registry aside.
ImportPart ==
    /\ TypeOK /\ OnlyImports
    /\ AttachedIsStored /\ ImportedOnce /\ SeesChallenges /\ SeesFiles
    /\ HandledIsThere /\ CleanImportIsComplete

\* Challenges: what is about to be created is not there yet.
LEMMA ChallengeSteps ==
    ASSUME ImportInv, RegistryInv', Drops,
           \/ ListIds \/ ImporterSeesAnswer \/ \E c \in Cids : ImportOne(c) \/ CreateIsLost(c)
    PROVE  ImportPart'
<1> USE FilesAssumption, ImporterAssumption, DefaultAssumption
        DEF ImportInv, ImportPart, TypeOK, OnlyImports, AttachedIsStored, ImportedOnce,
            SeesChallenges, SeesFiles, HandledIsThere, CleanImportIsComplete, Accounted,
            Registered, Drops, RegistryInv, CallInOrder, rows, calls, ctfd, progress
<1>1. CASE ListIds
  BY <1>1 DEF ListIds, ExistingIds
<1>2. CASE ImporterSeesAnswer
  <2>1. TypeOK' /\ OnlyImports'
    BY <1>2 DEF ImporterSeesAnswer, Leave, Holds, Goto, RegistryTypeOK
  <2>2. AttachedIsStored' /\ ImportedOnce' /\ SeesChallenges' /\ SeesFiles'
    BY <1>2 DEF ImporterSeesAnswer, Leave, Holds, Goto, RegistryTypeOK
  <2>3. HandledIsThere'
    <3>1. clean' => clean /\ answer[Importer] = "ok"
      BY <1>2, Zenon DEF ImporterSeesAnswer
    <3>2. job[Importer] = Null
      BY <1>2 DEF ImporterSeesAnswer
    <3>3. /\ row' = row /\ dropped \subseteq dropped' /\ chals' = chals /\ copies' = copies
          /\ step' = step /\ todo' = todo /\ known' = known /\ writing' = writing
      BY <1>2 DEF ImporterSeesAnswer
    <3> QED
      BY <3>1, <3>2, <3>3
  <2>4. CleanImportIsComplete'
    BY <1>2 DEF ImporterSeesAnswer, Leave, Holds, Goto, RegistryTypeOK
  <2> QED
    BY <2>1, <2>2, <2>3, <2>4
<1>3. ASSUME NEW c \in Cids, ImportOne(c) PROVE ImportPart'
  <2>0. \/ c \in named /\ chals' = chals /\ clean' = clean
        \/ chals' = [chals EXCEPT ![c] = @ + 1] /\ clean' = clean
        \/ chals' = chals /\ clean' = FALSE
    BY <1>3 DEF ImportOne, Creates
  <2>1. TypeOK' /\ OnlyImports'
    <3>1. chals' \in [Cids -> Nat]
      BY <2>0
    <3>2. clean' \in BOOLEAN
      BY <2>0, Zenon
    <3>3. OnlyImports'
      BY <1>3 DEF ImportOne, Creates, Begin, Holds, Goto, RegistryTypeOK
    <3> QED
      BY <3>1, <3>2, <3>3, <1>3 DEF ImportOne, Creates, Begin, Holds, Goto, RegistryTypeOK
  <2>2. AttachedIsStored' /\ ImportedOnce' /\ SeesChallenges' /\ SeesFiles'
    BY <1>3 DEF ImportOne, Creates, Begin, Holds, Goto, RegistryTypeOK
  <2>3. HandledIsThere'
    <3>1. /\ job[Importer] = Null /\ pc[Importer] = "idle"
          /\ step = "challenges" /\ step' = step
          /\ todo' = todo \ {c} /\ known' = known
          /\ row' = row /\ dropped \subseteq dropped'
      BY <1>3 DEF ImportOne
    <3>2. \A d \in Cids : chals[d] > 0 => chals'[d] > 0
      BY <2>0
    <3>3. clean' => clean
      BY <2>0, Zenon
    <3>4. \/ c \in named /\ chals' = chals
          \/ chals' = [chals EXCEPT ![c] = @ + 1]
          \/ ~ clean'
      BY <2>0, Zenon
    <3>5. c \in named => chals[c] > 0
      BY <3>1
    <3>6. chals' = [chals EXCEPT ![c] = @ + 1] => chals'[c] > 0
      OBVIOUS
    <3>7. c \in known \/ job'[Importer] = c
      BY <1>3 DEF ImportOne, Begin, Holds, RegistryTypeOK
    <3>8. \A d \in known : Accounted(d)'
      BY <3>1
    <3>9. clean => \A d \in Cids \ todo : chals[d] > 0 /\ Accounted(d)
      BY <3>1
    <3> QED
      BY <3>1, <3>2, <3>3, <3>4, <3>5, <3>6, <3>7, <3>8, <3>9
  <2>4. CleanImportIsComplete'
    BY <1>3 DEF ImportOne, Creates, Begin, Holds, Goto, RegistryTypeOK
  <2> QED
    BY <2>1, <2>2, <2>3, <2>4
<1>4. ASSUME NEW c \in Cids, CreateIsLost(c) PROVE ImportPart'
  <2>1. TypeOK' /\ OnlyImports'
    <3>1. chals' \in [Cids -> Nat]
      BY <1>4 DEF CreateIsLost, Creates, Ends
    <3>2. OnlyImports'
      BY <1>4 DEF CreateIsLost, Creates, Ends
    <3> QED
      BY <3>1, <3>2, <1>4 DEF CreateIsLost, Creates, Ends
  <2>2. AttachedIsStored' /\ ImportedOnce' /\ SeesChallenges' /\ SeesFiles'
    BY <1>4 DEF CreateIsLost, Creates, Ends
  <2>3. HandledIsThere'
    BY <1>4 DEF CreateIsLost, Creates, Ends
  <2>4. CleanImportIsComplete'
    BY <1>4 DEF CreateIsLost, Creates, Ends
  <2> QED
    BY <2>1, <2>2, <2>3, <2>4
<1> QED
  BY <1>1, <1>2, <1>3, <1>4

\* Files: what is about to be attached is stored, and not found where it was looked
\* for.
LEMMA FileSteps ==
    ASSUME ImportInv, RegistryInv', Drops, NEW f \in Files,
           SkipFile(f) \/ UploadFile(f) \/ WriteContent(f) \/ InsertFileRow(f) \/ UploadFails(f)
    PROVE  ImportPart'
<1> USE FilesAssumption
        DEF ImportInv, ImportPart, TypeOK, OnlyImports, AttachedIsStored, ImportedOnce,
            SeesChallenges, SeesFiles, HandledIsThere, CleanImportIsComplete, Accounted,
            Registered, Drops, RegistryInv, CallInOrder, rows, calls, ctfd, progress, Attached, Attach,
            Uploads
<1>1. CASE SkipFile(f)
  BY <1>1 DEF SkipFile
<1>2. CASE UploadFile(f)
  BY <1>2 DEF UploadFile
<1>3. CASE WriteContent(f)
  BY <1>3 DEF WriteContent
<1>4. CASE InsertFileRow(f)
  BY <1>4 DEF InsertFileRow
<1>5. CASE UploadFails(f)
  <2>1. TypeOK' /\ OnlyImports'
    <3>1. copies' \in [Files -> Nat] /\ stored' \subseteq Files /\ blind' \subseteq Files
      BY <1>5 DEF UploadFails, Ends
    <3>2. OnlyImports'
      BY <1>5 DEF UploadFails, Ends
    <3> QED
      BY <3>1, <3>2, <1>5 DEF UploadFails, Ends
  <2>2. AttachedIsStored' /\ ImportedOnce' /\ SeesChallenges' /\ SeesFiles'
    BY <1>5 DEF UploadFails, Ends
  <2>3. HandledIsThere'
    BY <1>5 DEF UploadFails, Ends
  <2>4. CleanImportIsComplete'
    BY <1>5 DEF UploadFails, Ends
  <2> QED
    BY <2>1, <2>2, <2>3, <2>4
<1> QED
  BY <1>1, <1>2, <1>3, <1>4, <1>5

\* The script begins, goes over from one part to the next, and ends.
LEMMA ScriptSteps ==
    ASSUME ImportInv, RegistryInv',
           \/ ImportBegins /\ dropped' = {}
           \/ Drops /\ (ImporterDies \/ SyncBegins \/ SyncEnds)
    PROVE  ImportPart'
<1> USE FilesAssumption
        DEF ImportInv, ImportPart, TypeOK, OnlyImports, AttachedIsStored, ImportedOnce,
            SeesChallenges, SeesFiles, HandledIsThere, CleanImportIsComplete, Accounted,
            Registered, Drops, RegistryInv, CallInOrder, rows, calls, ctfd, progress, Ends
<1>1. CASE ImportBegins /\ dropped' = {}
  <2>1. TypeOK' /\ OnlyImports'
    BY <1>1 DEF ImportBegins, ExistingNames
  <2>2. AttachedIsStored' /\ ImportedOnce' /\ SeesChallenges' /\ SeesFiles'
    BY <1>1 DEF ImportBegins, ExistingNames
  <2>3. HandledIsThere'
    BY <1>1 DEF ImportBegins, ExistingNames
  <2>4. CleanImportIsComplete'
    BY <1>1 DEF ImportBegins, ExistingNames
  <2> QED
    BY <2>1, <2>2, <2>3, <2>4
<1>2. CASE ImporterDies /\ Drops
  BY <1>2 DEF ImporterDies
<1>3. CASE SyncBegins /\ Drops
  <2>1. TypeOK' /\ OnlyImports'
    BY <1>3, DefaultAssumption DEF SyncBegins, LogsIn, FilesOfListed, CallInOrder
  <2>2. AttachedIsStored' /\ ImportedOnce' /\ SeesChallenges' /\ SeesFiles'
    BY <1>3, DefaultAssumption DEF SyncBegins, LogsIn, FilesOfListed, CallInOrder
  <2>3. HandledIsThere'
    <3>1. pc[Importer] = "idle" /\ job[Importer] = Null /\ todo = {} /\ step = "challenges"
      BY <1>3, ImporterAssumption DEF SyncBegins, LogsIn, FilesOfListed
    <3>2. clean => \A c \in Cids : chals[c] > 0 /\ Accounted(c)
      BY <3>1, DefaultAssumption
    <3>3. todo' = {f \in Files : chals[ChalOf[f]] > 0} /\ step' = "files" /\ known' = {}
      BY <1>3 DEF SyncBegins, LogsIn, FilesOfListed
    <3>4. clean => todo' = Files
      BY <3>2, <3>3
    <3>5. clean' = clean /\ chals' = chals /\ row' = row /\ dropped \subseteq dropped'
      BY <1>3 DEF SyncBegins, LogsIn, FilesOfListed
    <3> QED
      BY <3>2, <3>3, <3>4, <3>5
  <2>4. CleanImportIsComplete'
    BY <1>3, DefaultAssumption DEF SyncBegins, LogsIn, FilesOfListed, CallInOrder
  <2> QED
    BY <2>1, <2>2, <2>3, <2>4
<1>4. CASE SyncEnds /\ Drops
  BY <1>4 DEF SyncEnds
<1> QED
  BY <1>1, <1>2, <1>3, <1>4

\* The invariant of the import.
THEOREM ImportInductive == ImportSpec => []ImportInv
<1>1. ImportInit => ImportInv
  <2> SUFFICES ASSUME ImportInit PROVE ImportInv
    OBVIOUS
  <2>1. RegistryInv /\ OnlyImports
    BY RegistryInitOK, ImporterAssumption DEF ImportInit, RegistryInit, OnlyImports
  <2>2. TypeOK
    BY <2>1 DEF ImportInit, RegistryInv, TypeOK
  <2>3. HandledIsThere /\ CleanImportIsComplete
    BY DEF ImportInit, HandledIsThere, CleanImportIsComplete
  <2>4. AttachedIsStored /\ ImportedOnce /\ SeesChallenges /\ SeesFiles
    BY FilesAssumption
       DEF ImportInit, AttachedIsStored, ImportedOnce, SeesChallenges, SeesFiles
  <2> QED
    BY <2>1, <2>2, <2>3, <2>4 DEF ImportInv
<1>2. ImportInv /\ [ImportNext]_importVars => ImportInv'
  <2> SUFFICES ASSUME ImportInv, [ImportNext]_importVars PROVE ImportInv'
    OBVIOUS
  <2>1. CASE UNCHANGED importVars
    <3>1. RegistryInv'
      BY <2>1, RegistryStutters DEF ImportInv, importVars, registryVars
    <3> QED
      BY <2>1, <3>1
         DEF importVars, RegistryInv, ImportInv, TypeOK, OnlyImports, AttachedIsStored,
             ImportedOnce, SeesChallenges, SeesFiles, HandledIsThere,
             CleanImportIsComplete, Accounted, Registered
  <2>2. CASE RegistryStep /\ Watch /\ Drops
    BY <2>2, RegistryStepKeepsImport
  <2>3. CASE ImporterStep /\ Watch /\ Drops
    BY <2>3, ImporterCalls, ChallengeSteps, FileSteps, ScriptSteps
       DEF ImporterStep, ImportInv, ImportPart
  <2>4. CASE ImportBegins /\ dropped' = {} /\ Watch
    BY <2>4, ImporterCalls, ScriptSteps DEF ImportInv, ImportPart
  <2> QED
    BY <2>1, <2>2, <2>3, <2>4 DEF ImportNext, Drops
<1> QED
  BY <1>1, <1>2, PTL DEF ImportSpec

\* A file that is listed can be downloaded, wherever an import died.
THEOREM AttachedFilesExist == ImportSpec => []AttachedIsStored
BY ImportInductive, PTL DEF ImportInv

\* Importing again, after any crash, doubles no challenge and no file it could see.
THEOREM NothingTwice == ImportSpec => []ImportedOnce
BY ImportInductive, PTL DEF ImportInv

\* A clean report means that nothing was left out.
THEOREM CleanReportsAreComplete == ImportSpec => []CleanImportIsComplete
BY ImportInductive, PTL DEF ImportInv

\* A request of the importer changes no row that is there.
THEOREM RowsAreKept == ImportSpec => ImportKeepsRows
<1>1. ImportInv /\ [ImportNext]_importVars
        => [\A c \in Cids : Handler(Importer) /\ Registered(c) => row'[c] = row[c]]_importVars
  BY ImporterHandler DEF ImportInv, ImportNext
<1> QED
  BY <1>1, ImportInductive, PTL DEF ImportSpec, ImportKeepsRows

=============================================================================
