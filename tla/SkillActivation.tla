--------------------------- MODULE SkillActivation ---------------------------
(***************************************************************************)
(* Activation of skill packages in the runtime directory (skill_state.py), *)
(* as imports, session boundaries, library updates, restores and recoveries*)
(* ask for it (skill_sync.py, skill_cli.py).  A directory is replaced by   *)
(* two renames between two SQLite transactions: the journal entry and the  *)
(* commit.  A command may die between any two steps.  Hermes and editors   *)
(* change the directories at any time; only the companion takes the locks. *)
(***************************************************************************)
EXTENDS Naturals

CONSTANTS
    Skills,         \* skill directories: a scope and a logical skill ID
    Personal,       \* those of the personal scope
    Trees,          \* contents of a directory
    Unpackable,     \* those that no package can hold: unsafe, or malformed
    Versions,       \* version labels that the owner chooses
    Absent,         \* there is no directory
    Partial,        \* a directory that was not written to the end
    NoPackage,      \* the skill has no package
    Unmanaged,      \* the skill was never installed
    MaxEdits,       \* bound: edits by Hermes and editors, changes of connections
    MaxFaults,      \* bound: commands that die
    MaxCommands     \* bound: imports, deletions, restores, library updates

Packages == [tree : Trees \ Unpackable, version : Versions]
Optional == Packages \cup {NoPackage}

ASSUME SkillAssumption == Personal \subseteq Skills /\ Unpackable \subseteq Trees
ASSUME AbsentAssumption == Absent \notin Trees /\ Partial \notin Trees \cup {Absent}
ASSUME PackageAssumption == NoPackage \notin Packages /\ Unmanaged \notin Optional

VARIABLES
    tree,           \* tree[s]: the runtime directory
    kept,           \* kept[s]: directories moved out of the way by finished operations
    installed,      \* metadata 'installed:': the package that was activated
    working,        \* metadata 'working:' or 'company:': the package wanted
    deferred,       \* metadata 'deferred:'
    missing,        \* metadata 'missing:': whether requirements were missing
    journal,        \* metadata 'journal': empty, or one pending operation
    staged,         \* its staging directory
    backup,         \* its backup directory
    lacking,        \* whether the connections a skill requires are missing
    session,        \* a managed session holds the session lock
    call,           \* the running command
    touched,        \* history: edited since the companion saw or put the directory
    edits, faults, commands     \* how much of each bound is used

library == <<installed, working, deferred, missing>>
disk == <<tree, kept, staged, backup, touched>>
bounds == <<edits, faults, commands>>
vars == <<disk, library, journal, lacking, session, call, bounds>>

Deferral == {"none", "install", "adopt"}
Values == [working : Optional, deferred : Deferral, missing : BOOLEAN]
Journal == [skill : Skills, expected : Optional, target : Optional, values : Values]
Request == [skill : Skills, package : Optional, working : Optional, adopt : BOOLEAN,
            defer : BOOLEAN, then : {"idle", "inspected"}]
Place == {"idle", "inspected", "packed", "recovering", "removing", "staging", "committing",
          "preserving", "restaging"}
Idle == [at |-> "idle", request |-> {}]
Call == [at : Place, request : SUBSET Request]

Metadata(s) == IF installed[s] = Unmanaged THEN NoPackage ELSE installed[s]
TreeOf(p) == IF p = NoPackage THEN Absent ELSE p.tree

\* runtime_package: what the directory of s holds, described as the package p.
Readable(s, p) == tree[s] = Absent \/ (p # NoPackage /\ tree[s] \in Trees \ Unpackable)
Observed(s, p) == IF tree[s] = Absent THEN NoPackage ELSE [p EXCEPT !.tree = tree[s]]

Unmodified(s) == tree[s] = TreeOf(Metadata(s))

Init ==
    /\ tree = [s \in Skills |-> Absent]
    /\ kept = [s \in Skills |-> {}]
    /\ installed = [s \in Skills |-> Unmanaged]
    /\ working = [s \in Skills |-> NoPackage]
    /\ deferred = [s \in Skills |-> "none"]
    /\ missing = [s \in Skills |-> FALSE]
    /\ journal = {}
    /\ staged = Absent /\ backup = Absent
    /\ lacking = [s \in Skills |-> FALSE]
    /\ session = FALSE
    /\ call = Idle
    /\ touched = [s \in Skills |-> FALSE]
    /\ edits = 0 /\ faults = 0 /\ commands = 0

----------------------------------------------------------------------------
(***************************************************************************)
(* The world around the companion.                                         *)
(***************************************************************************)
Edit(s, t) ==
    /\ edits < MaxEdits /\ tree[s] # t
    /\ tree' = [tree EXCEPT ![s] = t]
    /\ touched' = [touched EXCEPT ![s] = TRUE]
    /\ edits' = edits + 1
    /\ UNCHANGED <<kept, staged, backup, library, journal, lacking, session, call, faults,
                   commands>>

ConnectionsChange(s) ==
    /\ edits < MaxEdits
    /\ lacking' = [lacking EXCEPT ![s] = ~@]
    /\ edits' = edits + 1
    /\ UNCHANGED <<disk, library, journal, session, call, faults, commands>>

EndSession ==
    /\ session
    /\ session' = FALSE
    /\ UNCHANGED <<disk, library, journal, lacking, call, bounds>>

Die ==
    /\ faults < MaxFaults /\ call # Idle
    /\ faults' = faults + 1
    /\ call' = Idle
    /\ staged' \in IF call.at = "restaging" THEN {staged, Absent, Partial} ELSE {staged}
    /\ UNCHANGED <<tree, kept, backup, touched, library, journal, lacking, session, edits,
                   commands>>

----------------------------------------------------------------------------
(***************************************************************************)
(* Commands.  They exclude each other by skills.lock; those that activate  *)
(* also take the session lock, and during a session an import or deletion  *)
(* is recorded and its activation deferred.  The session lock may also be  *)
(* held shortly before and after a session, by the command that runs it.   *)
(* Each command first recovers, so it goes on only without a journal.      *)
(***************************************************************************)
Commanding == commands < MaxCommands /\ commands' = commands + 1

\* Fault: the session lock is not asked for.
NeverDeferring == FALSE

Deferring == session

Pack(s, package, adopt) ==
    /\ Commanding /\ call = Idle /\ journal = {}
    /\ \E defer \in {Deferring, TRUE} :
        call' = [at |-> "packed",
                 request |-> {[skill |-> s, package |-> package, working |-> package,
                               adopt |-> adopt, defer |-> defer, then |-> "idle"]}]
    /\ UNCHANGED <<disk, library, journal, lacking, session, edits, faults>>

\* skills import: of any source directory, or of the runtime directory itself.
Import(s, package) == Pack(s, package, FALSE)

ImportProjected(s, version) ==
    /\ tree[s] \in Trees \ Unpackable
    /\ Pack(s, [tree |-> tree[s], version |-> version], TRUE)

Delete(s) == Pack(s, NoPackage, FALSE)

\* _apply during a session.
Defer(s, request) ==
    /\ request.defer
    /\ working' = [working EXCEPT ![s] = request.working]
    /\ deferred' = [deferred EXCEPT ![s] = IF request.adopt THEN "adopt" ELSE "install"]
    /\ missing' = [missing EXCEPT ![s] = request.package # NoPackage /\ lacking[s]]
    /\ call' = Idle
    /\ UNCHANGED <<disk, installed, journal>>

\* Fault: the deferral is not dropped with the activation.
ValuesKept(s, request) ==
    [working |-> request.working, deferred |-> deferred[s],
     missing |-> request.package # NoPackage /\ lacking[s]]

\* What an activation writes next to 'installed:'.  Only personal skills are deferred.
ValuesOf(s, request) ==
    [working |-> request.working,
     deferred |-> IF s \in Personal THEN "none" ELSE deferred[s],
     missing |-> request.package # NoPackage /\ lacking[s]]

Written(s, values) ==
    /\ working' = [working EXCEPT ![s] = values.working]
    /\ deferred' = [deferred EXCEPT ![s] = values.deferred]
    /\ missing' = [missing EXCEPT ![s] = values.missing]

\* A package whose requirements are missing is wanted, but not activated.
Activated(s, package) == IF lacking[s] THEN NoPackage ELSE package

Refused(s, request) ==
    \/ ~Readable(s, Metadata(s))
    \/ ~request.adopt /\ ~Unmodified(s)

ApplyRefused(s, request) ==
    /\ ~request.defer /\ Refused(s, request)
    /\ call' = Idle
    /\ UNCHANGED <<disk, library, journal>>

\* The directory already is the package: one transaction, nothing is activated.
ApplyUnchanged(s, request) ==
    /\ ~request.defer /\ ~Refused(s, request)
    /\ Observed(s, Metadata(s)) = Activated(s, request.package)
    /\ Written(s, ValuesOf(s, request))
    /\ call' = [at |-> request.then, request |-> {}]
    /\ UNCHANGED <<disk, installed, journal>>

\* The package is staged, then the operation is journaled.
ApplyJournaled(s, request) ==
    /\ ~request.defer /\ ~Refused(s, request)
    /\ Observed(s, Metadata(s)) # Activated(s, request.package)
    /\ journal' = {[skill |-> s, expected |-> Observed(s, Metadata(s)),
                    target |-> Activated(s, request.package), values |-> ValuesOf(s, request)]}
    /\ staged' = TreeOf(Activated(s, request.package))
    /\ backup' = Absent
    /\ call' = [call EXCEPT !.at = "recovering"]
    /\ UNCHANGED <<tree, kept, touched, library>>

Apply ==
    /\ call.at = "packed"
    /\ \E request \in call.request :
        LET s == request.skill
        IN  \/ Defer(s, request)
            \/ ApplyRefused(s, request)
            \/ ApplyUnchanged(s, request)
            \/ ApplyJournaled(s, request)
    /\ UNCHANGED <<lacking, session, bounds>>

----------------------------------------------------------------------------
(***************************************************************************)
(* State.recover, of an operation of this or of a dead command.            *)
(***************************************************************************)
Recover ==
    /\ call = Idle /\ journal # {} /\ ~session
    /\ call' = [Idle EXCEPT !.at = "recovering"]
    /\ UNCHANGED <<disk, library, journal, lacking, session, bounds>>

Fail == call' = Idle /\ UNCHANGED <<disk, library, journal>>

\* The directory already holds the target, or is gone.
FoundTarget(j) ==
    /\ j.target # NoPackage /\ tree[j.skill] = j.target.tree
    /\ touched' = [touched EXCEPT ![j.skill] = FALSE]
    /\ call' = [call EXCEPT !.at = "committing"]
    /\ UNCHANGED <<tree, kept, staged, backup, library, journal>>

FoundNothing(j) ==
    /\ tree[j.skill] = Absent
    /\ IF j.target = NoPackage
       THEN /\ touched' = [touched EXCEPT ![j.skill] = FALSE]
            /\ call' = [call EXCEPT !.at = "committing"]
       ELSE /\ UNCHANGED touched
            /\ call' = [call EXCEPT !.at = "staging"]
    /\ UNCHANGED <<tree, kept, staged, backup, library, journal>>

Expected(j) ==
    /\ tree[j.skill] # TreeOf(j.target)
    /\ j.expected # NoPackage /\ tree[j.skill] = j.expected.tree

FoundExpected(j) ==
    /\ Expected(j) /\ backup = Absent
    /\ call' = [call EXCEPT !.at = "removing"]
    /\ UNCHANGED <<disk, library, journal>>

\* A third state, or a second original: the owner has to decide.
FoundConflict(j) ==
    /\ tree[j.skill] \notin {Absent, TreeOf(j.target)}
    /\ ~Expected(j) \/ backup # Absent
    /\ Fail

Look ==
    /\ call.at = "recovering"
    /\ \E j \in journal : FoundTarget(j) \/ FoundNothing(j) \/ FoundExpected(j) \/ FoundConflict(j)
    /\ UNCHANGED <<lacking, session, bounds>>

\* Fault: the old directory is deleted.
Discarded(s) == tree' = [tree EXCEPT ![s] = Absent] /\ UNCHANGED backup

\* rename(target, backup), of whatever the directory holds by now.
Removed(s) == tree' = [tree EXCEPT ![s] = Absent] /\ backup' = tree[s]

MoveOut ==
    /\ call.at = "removing"
    /\ \E j \in journal :
        LET s == j.skill
        IN  IF tree[s] = Absent THEN Fail
            ELSE /\ Removed(s)
                 /\ touched' = [touched EXCEPT ![s] = @ /\ j.target # NoPackage]
                 /\ call' = [call EXCEPT !.at = IF j.target = NoPackage THEN "committing"
                                                ELSE "staging"]
                 /\ UNCHANGED <<kept, staged, library, journal>>
    /\ UNCHANGED <<lacking, session, bounds>>

\* Fault: whatever the staging directory holds is activated.
StagedAnything(j) == staged # Absent

StagedComplete(j) == staged = j.target.tree

\* rename(staging, target), if the staged package is complete and the place is free.
MoveIn ==
    /\ call.at = "staging"
    /\ \E j \in journal :
        IF tree[j.skill] # Absent \/ ~StagedComplete(j) THEN Fail
        ELSE /\ tree' = [tree EXCEPT ![j.skill] = staged]
             /\ staged' = Absent
             /\ touched' = [touched EXCEPT ![j.skill] = FALSE]
             /\ call' = [call EXCEPT !.at = "committing"]
             /\ UNCHANGED <<kept, backup, library, journal>>
    /\ UNCHANGED <<lacking, session, bounds>>

\* Where a command goes on after its operation.
Return == [at |-> IF \E request \in call.request : request.then = "inspected"
                  THEN "inspected" ELSE "idle", request |-> {}]

Commit ==
    /\ call.at = "committing"
    /\ \E j \in journal :
        /\ installed' = [installed EXCEPT ![j.skill] = j.target]
        /\ Written(j.skill, j.values)
        /\ kept' = [kept EXCEPT ![j.skill] = @ \cup ({backup} \ {Absent})]
    /\ journal' = {}
    /\ backup' = Absent
    /\ staged' = Absent
    /\ call' = Return
    /\ UNCHANGED <<tree, touched, lacking, session, bounds>>

----------------------------------------------------------------------------
(***************************************************************************)
(* recover_preserving_local: the owner chose the target.  The directory    *)
(* that is there and the staged one are moved out of the way, the target is*)
(* staged anew, and the operation is recovered.                            *)
(***************************************************************************)
RecoverTarget ==
    /\ Commanding /\ call = Idle /\ journal # {} /\ ~session
    /\ call' = [Idle EXCEPT !.at = "preserving"]
    /\ UNCHANGED <<disk, library, journal, lacking, session, edits, faults>>

\* restore_runtime: the recorded package is journaled and chosen at once.
Restore(s) ==
    /\ Commanding /\ call = Idle /\ journal = {} /\ ~session
    /\ installed[s] # Unmanaged
    /\ journal' = {[skill |-> s, expected |-> installed[s], target |-> Activated(s, working[s]),
                    values |-> [working |-> working[s], deferred |-> deferred[s],
                                missing |-> working[s] # NoPackage /\ lacking[s]]]}
    /\ staged' = TreeOf(Activated(s, working[s]))
    /\ backup' = Absent
    /\ call' = [Idle EXCEPT !.at = "preserving"]
    /\ UNCHANGED <<tree, kept, touched, library, lacking, session, edits, faults>>

PreserveRuntime ==
    /\ call.at = "preserving"
    /\ \E j \in journal :
        LET s == j.skill
        IN  IF tree[s] = Absent THEN UNCHANGED <<tree, kept, backup>>
            ELSE /\ tree' = [tree EXCEPT ![s] = Absent]
                 /\ IF backup = Absent
                    THEN backup' = tree[s] /\ UNCHANGED kept
                    ELSE kept' = [kept EXCEPT ![s] = @ \cup {tree[s]}] /\ UNCHANGED backup
    /\ call' = [call EXCEPT !.at = "restaging"]
    /\ UNCHANGED <<staged, touched, library, journal, lacking, session, bounds>>

Restage ==
    /\ call.at = "restaging"
    /\ \E j \in journal : staged' = TreeOf(j.target)
    /\ call' = [call EXCEPT !.at = "recovering"]
    /\ UNCHANGED <<tree, kept, backup, touched, library, journal, lacking, session, bounds>>

----------------------------------------------------------------------------
(***************************************************************************)
(* The boundary of a session, and the sync command: what was deferred is   *)
(* activated, every directory is inspected, then packages are refreshed    *)
(* against the connections there are and updated from the libraries.  The  *)
(* order of these within a pass is left open, and a pass may end or fail   *)
(* after any of them; connections may change in between.                   *)
(***************************************************************************)
ActivateDeferred(s) ==
    /\ call = Idle /\ journal = {} /\ ~session /\ deferred[s] # "none"
    /\ deferred[s] = "adopt" => tree[s] = TreeOf(working[s])
    /\ call' = [at |-> "packed",
                request |-> {[skill |-> s, package |-> working[s], working |-> working[s],
                              adopt |-> deferred[s] = "adopt", defer |-> FALSE,
                              then |-> "idle"]}]
    /\ UNCHANGED <<disk, library, journal, lacking, session, bounds>>

Inspect ==
    /\ call = Idle /\ journal = {} /\ ~session
    /\ \A s \in Skills : /\ deferred[s] = "none"
                         /\ installed[s] # Unmanaged => Unmodified(s)
    /\ call' = [Idle EXCEPT !.at = "inspected"]
    /\ UNCHANGED <<disk, library, journal, lacking, session, bounds>>

Update(s, package, then) ==
    /\ call' = [at |-> "packed",
                request |-> {[skill |-> s, package |-> package, working |-> package,
                              adopt |-> FALSE, defer |-> FALSE, then |-> then]}]
    /\ UNCHANGED <<disk, library, journal, lacking, session>>

Refresh(s) ==
    /\ call.at = "inspected"
    /\ Metadata(s) # Activated(s, working[s])
    /\ Update(s, working[s], "inspected")
    /\ UNCHANGED bounds

FromLibrary(s, package) ==
    /\ call.at = "inspected" /\ Commanding
    /\ Update(s, package, "inspected")
    /\ UNCHANGED <<edits, faults>>

\* A resolution first applies what the portal has decided, before any inspection.
FromPortal(s, package) ==
    /\ call = Idle /\ journal = {} /\ ~session /\ Commanding
    /\ Update(s, package, "idle")
    /\ UNCHANGED <<edits, faults>>

EndPass ==
    /\ call.at = "inspected"
    /\ call' = Idle
    /\ UNCHANGED <<disk, library, journal, lacking, session, bounds>>

StartSession ==
    /\ call.at = "inspected" /\ \A s \in Skills : ~missing[s]
    /\ session' = TRUE
    /\ call' = Idle
    /\ UNCHANGED <<disk, library, journal, lacking, bounds>>

----------------------------------------------------------------------------
Recovery ==
    Recover \/ Look \/ MoveOut \/ MoveIn \/ Commit \/ PreserveRuntime \/ Restage

Boundary ==
    \/ Apply \/ Recovery \/ Inspect
    \/ \E s \in Skills : ActivateDeferred(s) \/ Refresh(s)

Environment ==
    \/ \E s \in Skills : ConnectionsChange(s) \/ \E t \in Trees \cup {Absent} : Edit(s, t)
    \/ EndSession \/ Die

Command ==
    \/ \E s \in Personal :
        \/ \E package \in Packages : Import(s, package)
        \/ \E version \in Versions : ImportProjected(s, version)
        \/ Delete(s)
        \/ \E package \in Optional : FromPortal(s, package)
    \/ \E s \in Skills :
        Restore(s) \/ \E package \in Optional : FromLibrary(s, package)
    \/ RecoverTarget \/ EndPass \/ StartSession

Next == Boundary \/ Environment \/ Command

Spec == Init /\ [][Next]_vars
----------------------------------------------------------------------------
(***************************************************************************)
(* Properties.                                                             *)
(***************************************************************************)
RecoveryPlace == {"recovering", "removing", "staging", "committing", "preserving", "restaging"}

\* Every variable keeps its type; a recovery works on the one journaled operation,
\* and moves a directory out only where no earlier one is.
TypeOK ==
    /\ tree \in [Skills -> Trees \cup {Absent}]
    /\ kept \in [Skills -> SUBSET Trees]
    /\ installed \in [Skills -> Optional \cup {Unmanaged}]
    /\ working \in [Skills -> Optional]
    /\ deferred \in [Skills -> Deferral]
    /\ missing \in [Skills -> BOOLEAN]
    /\ journal = {} \/ \E j \in Journal : journal = {j}
    /\ staged \in Trees \cup {Absent, Partial}
    /\ backup \in Trees \cup {Absent}
    /\ lacking \in [Skills -> BOOLEAN]
    /\ session \in BOOLEAN
    /\ call \in Call
    /\ call.request = {} \/ \E request \in Request : call.request = {request}
    /\ touched \in [Skills -> BOOLEAN]
    /\ edits \in Nat /\ faults \in Nat /\ commands \in Nat
    /\ call.at \in RecoveryPlace => journal # {}
    /\ call.at = "removing" => backup = Absent

\* Between operations every directory is what the library records as installed,
\* unless it was edited since: whatever died, was edited or was recovered
\* between the two renames and the commit.
InstalledMatches ==
    journal = {} => \A s \in Skills : touched[s] \/ Unmodified(s)

\* Where the content of a directory of s is retained once it is moved away.
Retained(s) == kept[s] \cup (IF \E j \in journal : j.skill = s THEN {backup} \ {Absent} ELSE {})

\* The companion never destroys what a directory held: a content disappears
\* only by an edit, or is retained, and what is retained stays retained.
NothingDiscarded ==
    [][\A s \in Skills :
        /\ tree'[s] = tree[s] \/ tree[s] = Absent \/ tree[s] \in Retained(s)' \/ edits' # edits
        /\ Retained(s) \subseteq Retained(s)']_vars

\* While a session runs only edits change the directories it uses.
SessionUndisturbed == [][session => tree' = tree \/ edits' # edits]_vars

\* What the messages "use explicit import" and "import/derive or restore explicitly
\* before sync" promise: once the runtime holds the very package that was imported,
\* the library records it as installed, so that the next sync does not take it
\* for a modified one.
ImportedIsInstalled ==
    journal = {} => \A s \in Skills :
        deferred[s] = "none" /\ ~missing[s] /\ working[s] # NoPackage
        /\ tree[s] = TreeOf(working[s]) => installed[s] = working[s]

(***************************************************************************)
(* Liveness: session boundaries and syncs keep being run.                  *)
(***************************************************************************)
FairSpec == Spec /\ WF_vars(Boundary)

Settled == journal = {} /\ \A s \in Skills : deferred[s] = "none"

AwaitsRecovery ==
    \E j \in journal :
        \/ tree[j.skill] \notin {Absent, TreeOf(j.target)} /\ (~Expected(j) \/ backup # Absent)
        \/ tree[j.skill] # TreeOf(j.target) /\ j.target # NoPackage /\ staged # j.target.tree

AwaitsImport ==
    \E s \in Skills :
        \/ deferred[s] = "adopt" /\ tree[s] # TreeOf(working[s])
        \/ deferred[s] = "install" /\ ~Unmodified(s)
        \/ deferred[s] # "none" /\ ~Readable(s, Metadata(s))

\* Interrupted operations and deferred activations come to their end outside of
\* sessions, unless someone's edit needs the owner: a recovery with a chosen
\* target, or an import of what the directory holds.
Settles == <>[](session \/ Settled \/ AwaitsRecovery \/ AwaitsImport)
=============================================================================
