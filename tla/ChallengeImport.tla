--------------------------- MODULE ChallengeImport ---------------------------
(***************************************************************************)
(* The import of a directory of challenges: scripts/import-challenges.py   *)
(* creates each challenge in CTFd and registers it with the orchestrator,  *)
(* and scripts/upload-challenge-files.py attaches its files.  Both look at *)
(* what exists once, skip that, and may die and be run again at any point. *)
(***************************************************************************)
EXTENDS ChallengeRegistry, Naturals

CONSTANTS
    Importer,   \* the importer's calls to the orchestrator
    Files,      \* the files of the challenges
    ChalOf,     \* the challenge each belongs to
    Plain,      \* files whose stored name is their own
    MaxCopies   \* bound on the copies of one thing, for model checking

ASSUME FilesAssumption == ChalOf \in [Files -> Cids] /\ Plain \subseteq Files
ASSUME ImporterAssumption == Importer \in Clients

VARIABLES
    public,     \* whether anybody may read CTFd's challenges
    chals,      \* how many challenges of each name CTFd has
    copies,     \* how many attachments of each file CTFd has
    stored,     \* files with their content in CTFd's upload folder
    step,       \* where the importer is
    compose,    \* whether it writes into CTFd's containers directly
    todo,       \* the challenges, then the files, it has yet to handle
    named,      \* the names CTFd had when it looked
    known,      \* the ids the orchestrator had when it looked
    writing,    \* the file whose content it has written and whose row is due
    clean,      \* whether it has no failure to report
    blind,      \* history: files uploaded without a list of what is there
    dropped     \* history: challenges disabled since the import began

ctfd     == <<public, chals, copies, stored>>
progress == <<step, compose, todo, named, known, writing, clean>>
importVars == <<row, refs, creating, pc, op, job, want, base, answer, met,
                public, chals, copies, stored, step, compose, todo, named, known,
                writing, clean, blind, dropped>>

Admins == Clients \ {Importer}

ImportInit ==
    /\ RegistryInit
    /\ public \in BOOLEAN
    /\ chals = [c \in Cids |-> 0]
    /\ copies = [f \in Files |-> 0]
    /\ stored = {}
    /\ step = "off"
    /\ compose = FALSE
    /\ todo = {}
    /\ named = {}
    /\ known = {}
    /\ writing = Null
    /\ clean = FALSE
    /\ blind = {}
    /\ dropped = {}

\* The importer's variables are forgotten when it ends; what it reported is not.
Ends(last, ok) ==
    /\ step' = last
    /\ clean' = ok
    /\ compose' = FALSE
    /\ todo' = {}
    /\ named' = {}
    /\ known' = {}
    /\ writing' = Null

-----------------------------------------------------------------------------
(***************************************************************************)
(* scripts/import-challenges.py.                                           *)
(***************************************************************************)

ExistingNames == {c \in Cids : chals[c] > 0}
ExistingIds   == {c \in Cids : Registered(c)}

\* The operator runs it: it logs in and lists the names CTFd has.  A failure of
\* either ends it before it has done anything.
ImportBegins ==
    /\ step \in {"off", "finished"}
    /\ pc[Importer] = "idle"
    /\ step' = "listed"
    /\ clean' = TRUE
    /\ todo' = Cids
    /\ named' = ExistingNames
    /\ UNCHANGED <<rows, calls, ctfd, compose, known, writing, blind>>

\* The ids the orchestrator has; a failed call counts as none.
ListIds ==
    /\ step = "listed"
    /\ step' = "challenges"
    /\ known' \in {ExistingIds, {}}
    /\ UNCHANGED <<rows, calls, ctfd, compose, todo, named, writing, clean, blind>>

\* Mutant: what CTFd has is not skipped.
Creates_Always(c) == TRUE

\* A challenge whose name CTFd had when it looked is skipped.
Creates(c) == c \notin named

\* One challenge: into CTFd, where a refusal is counted and passed over, and then
\* to the orchestrator, unless the id was there when it looked.  Its payload has
\* no protocol.
ImportOne(c) ==
    /\ step = "challenges" /\ c \in todo
    /\ pc[Importer] = "idle"
    /\ todo' = todo \ {c}
    /\ \/ ~ Creates(c) /\ UNCHANGED <<chals, clean>>
       \/ /\ Creates(c) /\ chals[c] < MaxCopies
          /\ chals' = [chals EXCEPT ![c] = @ + 1]
          /\ clean' = clean
       \/ Creates(c) /\ chals' = chals /\ clean' = FALSE
    /\ \/ c \in known /\ UNCHANGED calls
       \/ /\ c \notin known
          /\ \E w \in Bodies : w["protocol"] = Null /\ Begin(Importer, "post", "import", c, w)
    /\ UNCHANGED <<rows, public, copies, stored, step, compose, named, known, writing, blind>>

\* The POST to CTFd times out when the challenge has been created: the script dies.
CreateIsLost(c) ==
    /\ step = "challenges" /\ c \in todo
    /\ pc[Importer] = "idle"
    /\ Creates(c) /\ chals[c] < MaxCopies
    /\ chals' = [chals EXCEPT ![c] = @ + 1]
    /\ Ends("off", FALSE)
    /\ UNCHANGED <<rows, calls, public, copies, stored, blind>>

\* Mutant: a registration that failed is passed over in silence.
ImporterSeesAnswer_Silent ==
    /\ pc[Importer] = "done"
    /\ Leave(Importer)
    /\ UNCHANGED <<rows, ctfd, progress, blind>>

\* A registration that failed is a warning, and no failure of the import.
ImporterSeesAnswer ==
    /\ pc[Importer] = "done"
    /\ clean' = (clean /\ answer[Importer] = "ok")
    /\ Leave(Importer)
    /\ UNCHANGED <<rows, ctfd, step, compose, todo, named, known, writing, blind>>

\* The script is killed, or an exception nobody catches ends it, at any point; a
\* request it has sent is served.
ImporterDies ==
    /\ step \notin {"off", "finished"}
    /\ Ends("off", FALSE)
    /\ UNCHANGED <<rows, calls, ctfd, blind>>

-----------------------------------------------------------------------------
(***************************************************************************)
(* scripts/upload-challenge-files.py, which the import runs at its end.    *)
(***************************************************************************)

\* With a login the files go through CTFd's API, without one into its containers.
\* The challenges themselves are listed as whoever it is.
LogsIn == compose' = FALSE \/ (compose' = TRUE /\ public)

FilesOfListed == {f \in Files : chals[ChalOf[f]] > 0}

\* Mutant: the files come first.
SyncBegins_Early ==
    /\ step = "challenges"
    /\ pc[Importer] = "idle"
    /\ LogsIn
    /\ step' = "files"
    /\ todo' = FilesOfListed
    /\ named' = {} /\ known' = {}
    /\ UNCHANGED <<rows, calls, ctfd, writing, clean, blind>>

\* The import hands over to the upload when it has been through its challenges.
SyncBegins ==
    /\ step = "challenges" /\ todo = {}
    /\ pc[Importer] = "idle"
    /\ LogsIn
    /\ step' = "files"
    /\ todo' = FilesOfListed
    /\ named' = {} /\ known' = {}
    /\ UNCHANGED <<rows, calls, ctfd, writing, clean, blind>>

\* The names CTFd lists are those of the stored copies: a name that was changed on
\* the way in is not found again.
Attached(f) == copies[f] > 0 /\ f \in Plain

SkipFile(f) ==
    /\ step = "files" /\ f \in todo
    /\ public /\ Attached(f)
    /\ todo' = todo \ {f}
    /\ UNCHANGED <<rows, calls, ctfd, step, compose, named, known, writing, clean, blind>>

\* The files of a challenge are listed without the login.  An answer that is not
\* ok counts as an empty list.
Uploads(f) ==
    /\ f \in todo
    /\ copies[f] < MaxCopies
    /\ \/ public /\ ~ Attached(f) /\ blind' = blind
       \/ blind' = blind \cup {f}

Attach(f) == copies' = [copies EXCEPT ![f] = @ + 1]

UploadFile(f) ==
    /\ step = "files" /\ ~ compose
    /\ Uploads(f)
    /\ todo' = todo \ {f}
    /\ Attach(f)
    /\ stored' = stored \cup {f}
    /\ UNCHANGED <<rows, calls, public, chals, step, compose, named, known, writing, clean>>

\* Mutant: the row comes before the content.
WriteContent_RowFirst(f) ==
    /\ step = "files" /\ compose
    /\ Uploads(f)
    /\ step' = "row"
    /\ writing' = f
    /\ todo' = todo \ {f}
    /\ Attach(f)
    /\ UNCHANGED <<rows, calls, public, chals, stored, compose, named, known, clean>>

\* sync_file_via_compose: the content, under a directory of its own ...
WriteContent(f) ==
    /\ step = "files" /\ compose
    /\ Uploads(f)
    /\ step' = "row"
    /\ writing' = f
    /\ todo' = todo \ {f}
    /\ stored' = stored \cup {f}
    /\ UNCHANGED <<rows, calls, public, chals, copies, compose, named, known, clean>>

\* ... then the row in CTFd's database.
InsertFileRow(f) ==
    /\ step = "row" /\ f = writing
    /\ step' = "files"
    /\ writing' = Null
    /\ Attach(f)
    /\ UNCHANGED <<rows, calls, public, chals, stored, compose, todo, named, known,
                   clean, blind>>

\* An upload that fails ends the script with an exception, of which the import
\* makes a warning; the file may have arrived.
UploadFails(f) ==
    /\ step \in {"files", "row"}
    /\ \/ UNCHANGED <<copies, stored, blind>>
       \/ ~ compose /\ Uploads(f) /\ Attach(f) /\ stored' = stored \cup {f}
    /\ Ends("finished", FALSE)
    /\ UNCHANGED <<rows, calls, public, chals>>

SyncEnds ==
    /\ step = "files" /\ todo = {}
    /\ Ends("finished", clean)
    /\ UNCHANGED <<rows, calls, ctfd, blind>>

-----------------------------------------------------------------------------
ImporterStep ==
    \/ ListIds \/ ImporterSeesAnswer \/ ImporterDies \/ SyncBegins \/ SyncEnds
    \/ \E c \in Cids : ImportOne(c) \/ CreateIsLost(c)
    \/ \E f \in Files :
         SkipFile(f) \/ UploadFile(f) \/ WriteContent(f) \/ InsertFileRow(f)
           \/ UploadFails(f)

RegistryStep ==
    /\ InstanceStep \/ Handler(Importer) \/ \E p \in Admins : Handler(p) \/ AdminStep(p)
    /\ UNCHANGED <<ctfd, progress, blind>>

ImportNext ==
    /\ \/ ImportBegins /\ dropped' = {}
       \/ /\ RegistryStep \/ ImporterStep
          /\ dropped' = dropped \cup {c \in Cids : Registered(c) /\ ~ Registered(c)'}
    /\ Watch

ImportSpec == ImportInit /\ [][ImportNext]_importVars

-----------------------------------------------------------------------------
TypeOK ==
    /\ RegistryTypeOK
    /\ public \in BOOLEAN
    /\ chals \in [Cids -> Nat]
    /\ copies \in [Files -> Nat]
    /\ stored \subseteq Files
    /\ step \in {"off", "listed", "challenges", "files", "row", "finished"}
    /\ compose \in BOOLEAN
    /\ todo \subseteq Cids \cup Files
    /\ named \subseteq Cids
    /\ known \subseteq Cids
    /\ writing \in Files \cup {Null}
    /\ clean \in BOOLEAN
    /\ blind \subseteq Files
    /\ dropped \subseteq Cids

\* What is attached can be downloaded: no row of a file without its content, also
\* when the script dies between the two.
AttachedIsStored == \A f \in Files : copies[f] > 0 => f \in stored

\* However often the import is run, and wherever it died before: a challenge is in
\* CTFd once, and so is a file that keeps its name, unless the list of what is
\* there was refused.
ImportedOnce ==
    /\ \A c \in Cids : chals[c] <= 1
    /\ \A f \in Plain : copies[f] > 1 => f \in blind

\* An import without a failure or a warning has left nothing out: every challenge
\* is in CTFd with its files, and registered unless it was disabled meanwhile.
CleanImportIsComplete ==
    step = "finished" /\ clean =>
        /\ \A c \in Cids : chals[c] > 0 /\ (Registered(c) \/ c \in dropped)
        /\ \A f \in Files : copies[f] > 0

\* Existing registrations are not overwritten: a request of the importer never
\* changes a row, whoever else writes it at the same time.
ImportKeepsRows ==
    [][\A c \in Cids : Handler(Importer) /\ Registered(c) => row'[c] = row[c]]_importVars

\* What the importer knows of CTFd is still so: it has seen every challenge it is
\* about to skip, and every one it has yet to handle that is there.
SeesChallenges ==
    step \in {"listed", "challenges"} =>
        \A c \in Cids :
            /\ c \in named => chals[c] > 0
            /\ c \in todo /\ chals[c] > 0 => c \in named

\* The content it has written is there, and a name that is found again is looked
\* for before.
SeesFiles ==
    step = "row" =>
        /\ writing \in stored
        /\ writing \in Plain \ blind => copies[writing] = 0

\* The importer only asks the orchestrator to create.
OnlyImports == op[Importer] \in {"none", "import"}

Accounted(c) == Registered(c) \/ c \in dropped

\* What it has handled without a failure is there, or its registration is still
\* under way, or the failure of that has yet to be read.
HandledIsThere ==
    /\ step = "listed" => todo = Cids
    /\ step \in {"off", "finished", "listed"} => known = {}
    /\ \A c \in known : Accounted(c)
    /\ clean /\ step = "challenges" =>
         \A c \in Cids \ todo :
             /\ chals[c] > 0
             /\ Accounted(c) \/ job[Importer] = c
                  \/ (pc[Importer] = "done" /\ answer[Importer] # "ok")
    /\ clean /\ step \in {"files", "row"} =>
         /\ \A c \in Cids : chals[c] > 0 /\ Accounted(c)
         /\ \A f \in Files : f \in todo \/ copies[f] > 0 \/ (step = "row" /\ writing = f)

\* The inductive invariant of the import.
ImportInv ==
    /\ TypeOK /\ RegistryInv /\ OnlyImports
    /\ AttachedIsStored /\ ImportedOnce /\ SeesChallenges /\ SeesFiles
    /\ HandledIsThere /\ CleanImportIsComplete

=============================================================================
