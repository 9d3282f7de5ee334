-------------------------- MODULE ChallengeRegistry --------------------------
(***************************************************************************)
(* The challenges table of the orchestrator, the handlers that write it,   *)
(* the administration calls of the CTFd plugin that go through them, and   *)
(* the creation of instances, whose rows refer to a challenge for good.    *)
(*                                                                         *)
(* A handler selects in one step and commits in a later one.  A row has    *)
(* many attributes, a body names some of them, and an update writes those  *)
(* of them that differ from what its select read.  The plugin keeps no     *)
(* state of its own between two calls, so an answer and what the plugin    *)
(* does on it are one step.                                                *)
(***************************************************************************)
EXTENDS FiniteSets

CONSTANTS
    Cids,       \* challenge ids
    Clients,    \* calls served at the same time
    Attrs,      \* the attributes of a challenge, "protocol" among them
    Values,     \* what an attribute may be, the same set for all
    Default,    \* the attributes of a row nobody gave any
    Proto,      \* the protocol each challenge's image really speaks
    Null

Rows   == [Attrs -> Values]
Bodies == [Attrs -> Values \cup {Null}]    \* Null: not set in the body
Empty  == [a \in Attrs |-> Null]

ASSUME DefaultAssumption == /\ Default \in Rows /\ "protocol" \in Attrs
                            /\ Null \notin Values \cup Cids \cup Rows
ASSUME ProtoAssumption   == Proto \in [Cids -> Values]

VARIABLES
    row,        \* the attributes of each challenge, Null where there is no row
    refs,       \* challenges some instance row refers to, ended ones included
    creating,   \* challenges a create_instance has read and not yet used
    pc,         \* where each call is
    op,         \* what it is for
    job,        \* the challenge it is about
    want,       \* its body
    base,       \* the row as the handler's select read it
    answer,     \* what it was told
    met         \* history: the attributes for which its effect has held so far

rows  == <<row, refs, creating>>
calls == <<pc, op, job, want, base, answer>>
registryVars == <<row, refs, creating, pc, op, job, want, base, answer, met>>

\* The refusals each caller takes for success: a challenge to disable that is
\* missing, one to import that exists.
Tolerates == [register |-> {}, update |-> {},
              disable |-> {"missing"}, import |-> {"conflict"}]

PCs == {"idle", "post", "insert", "patch", "update", "refresh", "delete", "remove",
        "done"}

Registered(c) == row[c] # Null

\* The attributes for which the rows r are as success of an operation says: they have
\* what the body asks for, or it does not ask; the challenge is gone; it is there.
Effect(o, c, w, r) ==
    {a \in Attrs :
       \/ o \in {"register", "update"} /\ r[c] # Null /\ w[a] \in {Null, r[c][a]}
       \/ o = "disable" /\ r[c] = Null
       \/ o = "import" /\ r[c] # Null}

RegistryInit ==
    /\ row = [c \in Cids |-> Null]
    /\ refs = {}
    /\ creating = {}
    /\ pc = [p \in Clients |-> "idle"]
    /\ op = [p \in Clients |-> "none"]
    /\ job = [p \in Clients |-> Null]
    /\ want = [p \in Clients |-> Empty]
    /\ base = [p \in Clients |-> Null]
    /\ answer = [p \in Clients |-> "none"]
    /\ met = [p \in Clients |-> {}]

Goto(p, l) == pc' = [pc EXCEPT ![p] = l]

\* A call that begins, or that has ended with an answer or without one.
Holds(p, l, o, c, w, a) ==
    /\ Goto(p, l)
    /\ op' = [op EXCEPT ![p] = o]
    /\ job' = [job EXCEPT ![p] = c]
    /\ want' = [want EXCEPT ![p] = w]
    /\ base' = [base EXCEPT ![p] = Null]
    /\ answer' = [answer EXCEPT ![p] = a]

Begin(p, l, o, c, w) == pc[p] = "idle" /\ Holds(p, l, o, c, w, "none")
Answered(p, ok) == Holds(p, "done", "none", Null, Empty, IF ok THEN "ok" ELSE "error")
Refused(p, code) == Answered(p, code \in Tolerates[op[p]])
Leave(p) == Holds(p, "idle", "none", Null, Empty, "none")

CallTo(p, l) == Goto(p, l) /\ UNCHANGED <<op, job, want, base, answer>>

-----------------------------------------------------------------------------
(***************************************************************************)
(* The administration calls of the plugin.                                 *)
(***************************************************************************)

\* _detect_protocol: the image is inspected on a worker; without one, on any error
\* and on a timeout the answer is http, as if it had been found.
Detected(c) == {Proto[c], Default["protocol"]}

\* admin_register_challenge: what the Save button of the page sends has everything
\* but the protocol, so every save asks for it anew.
AdminRegisters(p, c) ==
    /\ \E w \in Rows : w["protocol"] \in Detected(c) /\ Begin(p, "post", "register", c, w)
    /\ UNCHANGED rows

\* admin_update_challenge with any attributes of the administrator's choice, but some.
AdminUpdates(p, c, w) ==
    /\ Begin(p, "patch", "update", c, w)
    /\ UNCHANGED rows

\* admin_disable_challenge.
AdminDisables(p, c) ==
    /\ Begin(p, "delete", "disable", c, Empty)
    /\ UNCHANGED rows

\* The orchestrator cannot be reached, or its answer gets lost.
CallFails(p) ==
    /\ pc[p] \in {"post", "patch", "delete", "refresh"}
    /\ Answered(p, FALSE)
    /\ UNCHANGED rows

AdminSeesAnswer(p) == pc[p] = "done" /\ Leave(p) /\ UNCHANGED rows

-----------------------------------------------------------------------------
(***************************************************************************)
(* The handlers of /challenges.                                            *)
(***************************************************************************)

\* Mutant: the importer falls back to an update as well.
FallsBack_Import(p) == op[p] \in {"register", "import"}

\* Registering what exists goes on as an update of it, in a call of its own.
FallsBack(p) == op[p] = "register"

\* create_challenge looks for the id ...
PostSelect(p) ==
    /\ pc[p] = "post"
    /\ IF ~ Registered(job[p]) THEN CallTo(p, "insert")
       ELSE IF FallsBack(p) THEN Holds(p, "patch", "update", job[p], want[p], "none")
       ELSE Refused(p, "conflict")
    /\ UNCHANGED rows

\* The attributes o, with those that the attributes n set over them.
Merged(o, n) == [a \in Attrs |-> IF n[a] = Null THEN o[a] ELSE n[a]]

\* ... and inserts; a row that came in between violates the primary key.
PostInsert(p) ==
    /\ pc[p] = "insert"
    /\ IF Registered(job[p])
       THEN Answered(p, FALSE) /\ row' = row
       ELSE /\ CallTo(p, "refresh")
            /\ row' = [row EXCEPT ![job[p]] = Merged(Default, want[p])]
    /\ UNCHANGED <<refs, creating>>

\* update_challenge loads the row ...
PatchSelect(p) ==
    /\ pc[p] = "patch"
    /\ IF Registered(job[p])
       THEN /\ Goto(p, "update")
            /\ base' = [base EXCEPT ![p] = row[job[p]]]
            /\ UNCHANGED <<op, job, want, answer>>
       ELSE Refused(p, "missing")
    /\ UNCHANGED rows

\* What an update writes: the attributes it sets to something else than it read.
Changes(p) == [a \in Attrs |-> IF want[p][a] = base[p][a] THEN Null ELSE want[p][a]]

\* Mutant: the row is not looked at again after the update.
PatchUpdate_Unseen(p) ==
    /\ pc[p] = "update"
    /\ row' = IF Registered(job[p])
              THEN [row EXCEPT ![job[p]] = Merged(@, Changes(p))] ELSE row
    /\ Answered(p, TRUE)
    /\ UNCHANGED <<refs, creating>>

\* Mutant: the whole row is written back as it was read, with the body over it.
PatchUpdate_WholeRow(p) ==
    /\ pc[p] = "update"
    /\ IF ~ Registered(job[p])
       THEN Answered(p, FALSE) /\ row' = row
       ELSE /\ CallTo(p, "refresh")
            /\ row' = [row EXCEPT ![job[p]] = Merged(base[p], want[p])]
    /\ UNCHANGED <<refs, creating>>

\* ... and writes its changes into whatever the row holds by then.  Without any there
\* is no statement that could fail.
PatchUpdate(p) ==
    /\ pc[p] = "update"
    /\ IF Changes(p) # Empty /\ ~ Registered(job[p])
       THEN Answered(p, FALSE) /\ row' = row
       ELSE /\ CallTo(p, "refresh")
            /\ row' = IF Changes(p) = Empty THEN row
                      ELSE [row EXCEPT ![job[p]] = Merged(@, Changes(p))]
    /\ UNCHANGED <<refs, creating>>

\* Both read the row back before they answer.
Refresh(p) ==
    /\ pc[p] = "refresh"
    /\ Answered(p, Registered(job[p]))
    /\ UNCHANGED rows

DeleteSelect(p) ==
    /\ pc[p] = "delete"
    /\ IF Registered(job[p])
       THEN CallTo(p, "remove")
       ELSE Refused(p, "missing")
    /\ UNCHANGED rows

\* Mutant: the instances are not asked.
DeleteRemove_Any(p) ==
    /\ pc[p] = "remove"
    /\ row' = [row EXCEPT ![job[p]] = Null]
    /\ Answered(p, TRUE)
    /\ UNCHANGED <<refs, creating>>

\* The foreign key of any instance row, also of a destroyed one, refuses the
\* deletion: a 500 for the caller.
DeleteRemove(p) ==
    /\ pc[p] = "remove"
    /\ IF job[p] \in refs
       THEN Answered(p, FALSE) /\ row' = row
       ELSE row' = [row EXCEPT ![job[p]] = Null] /\ Answered(p, TRUE)
    /\ UNCHANGED <<refs, creating>>

-----------------------------------------------------------------------------
(***************************************************************************)
(* create_instance reads the challenge, and later inserts a row for it.    *)
(***************************************************************************)

InstanceFetch(c) ==
    /\ Registered(c)
    /\ c \notin refs \cup creating
    /\ creating' = creating \cup {c}
    /\ UNCHANGED <<row, refs, calls>>

\* The insert fails when the challenge has gone in between.
InstanceInsert(c) ==
    /\ c \in creating
    /\ creating' = creating \ {c}
    /\ refs' = IF Registered(c) THEN refs \cup {c} ELSE refs
    /\ UNCHANGED <<row, calls>>

-----------------------------------------------------------------------------
Handler(p) ==
    \/ PostSelect(p) \/ PostInsert(p) \/ PatchSelect(p) \/ PatchUpdate(p)
    \/ Refresh(p) \/ DeleteSelect(p) \/ DeleteRemove(p) \/ CallFails(p)

AdminStep(p) ==
    \/ \E c \in Cids :
         \/ AdminRegisters(p, c) \/ AdminDisables(p, c)
         \/ \E w \in Bodies \ {Empty} : AdminUpdates(p, c, w)
    \/ AdminSeesAnswer(p)

InstanceStep == \E c \in Cids : InstanceFetch(c) \/ InstanceInsert(c)

\* The history of every call, after a step of anybody.
Watch ==
    met' = [p \in Clients |->
              IF pc[p] = "idle" \/ pc'[p] = "idle"
              THEN Effect(op[p], job[p], want[p], row)'
              ELSE met[p] \cup Effect(op[p], job[p], want[p], row')]

RegistryNext ==
    /\ InstanceStep \/ \E p \in Clients : Handler(p) \/ AdminStep(p)
    /\ Watch

\* Administrators and players, without an import.
RegistrySpec == RegistryInit /\ [][RegistryNext]_registryVars

-----------------------------------------------------------------------------
RegistryTypeOK ==
    /\ row \in [Cids -> Rows \cup {Null}]
    /\ refs \subseteq Cids
    /\ creating \subseteq Cids
    /\ pc \in [Clients -> PCs]
    /\ op \in [Clients -> DOMAIN Tolerates \cup {"none"}]
    /\ job \in [Clients -> Cids \cup {Null}]
    /\ want \in [Clients -> Bodies]
    /\ base \in [Clients -> Rows \cup {Null}]
    /\ answer \in [Clients -> {"none", "ok", "error"}]
    /\ met \in [Clients -> SUBSET Attrs]

\* No instance refers to a challenge that is gone, although create_instance reads
\* the challenge long before it inserts and a delete selects before it removes.
InstanceHasChallenge == \A c \in refs : Registered(c)

\* An administrator, or the importer, who is told ok has been obeyed attribute by
\* attribute: each that was asked for was in force at some moment of the call, although
\* the handlers read and write in separate statements, an attribute that was read as
\* asked for is not written at all, and a register is two calls with anything in
\* between.  The moments may differ: two callers who are both told ok can leave a
\* mixture that neither has asked for, and the row need never have held a whole body.
OkMeansApplied ==
    \A p \in Clients : answer[p] = "ok" => met[p] = Attrs

\* "Only the provided fields are updated": an attribute of a row changes only to what a
\* call under way asks for it, so that nobody's update is undone by one of other
\* attributes that read the row before it.
OnlyProvidedChange ==
    [][\A c \in Cids, a \in Attrs :
          Registered(c) /\ Registered(c)' /\ row'[c][a] # row[c][a] =>
             \E p \in Clients :
                pc[p] = "update" /\ job[p] = c /\ want[p][a] = row'[c][a]]_registryVars

\* What a call under way has: a challenge, an operation that fits its place, and
\* where it no longer looks, its effect behind it.
CallInOrder(p) ==
    /\ pc[p] \in {"idle", "done"} => op[p] = "none" /\ job[p] = Null
    /\ pc[p] \notin {"idle", "done"} => job[p] \in Cids /\ answer[p] = "none"
    /\ pc[p] = "idle" => answer[p] = "none"
    /\ pc[p] \in {"post", "insert"} => op[p] \in {"register", "import"}
    /\ pc[p] \in {"patch", "update"} => op[p] = "update"
    /\ pc[p] = "refresh" => op[p] \in {"register", "import", "update"} /\ met[p] = Attrs
    /\ pc[p] \in {"delete", "remove"} => op[p] = "disable"
    /\ pc[p] = "update" =>
         base[p] \in Rows /\ \A a \in Attrs : Changes(p)[a] = Null => a \in met[p]

\* The inductive invariant of the registry.
RegistryInv ==
    RegistryTypeOK /\ InstanceHasChallenge /\ OkMeansApplied
      /\ \A p \in Clients : CallInOrder(p)

=============================================================================
