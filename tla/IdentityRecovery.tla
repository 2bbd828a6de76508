-------------------------- MODULE IdentityRecovery --------------------------
(***************************************************************************)
(* Replacement of an installation's key for the same owner                 *)
(* (identity_recovery.py), against the commands that run under the         *)
(* identity (cli.py).  Ordinary commands share the identity lock, a        *)
(* recovery holds it alone; both lose it when they die.  A recovery writes *)
(* one file at a time and may die between any two writes; the next one     *)
(* goes on from the journal.  Databases that were written under the old    *)
(* identity go to an archive of the operation.                             *)
(***************************************************************************)
EXTENDS Integers, FiniteSets

CONSTANTS
    Commands,       \* processes that run ordinary commands
    Databases,      \* ARCHIVE_FILES: the connection and monitoring databases
    People,         \* those who may approve an enrollment
    Owner,          \* the person the installation belongs to
    Nobody,         \* an enrollment that was not approved
    NoData,         \* a database that does not exist
    MaxOperations,  \* bound: recoveries that are begun
    MaxDeaths       \* bound: processes that die, codes that are lost

ASSUME OwnerAssumption == Owner \in People /\ Nobody \notin People /\ NoData \notin Nat
ASSUME OperationsAssumption == MaxOperations \in Nat

VARIABLES
    config,         \* config.json: the key and the owner of the installation
    marker,         \* .myhermes-installation.json in the Hermes home: the key it is bound to
    journal,        \* identity-recovery.json
    original,       \* original/config.json of the newest operation
    candidate,      \* candidate/config.json of the newest operation, and its one-time code
    database,       \* database[n]: the key under which it was written
    archive,        \* archive[o]: the archive directory of operation o
    sharing,        \* commands that share the identity lock
    command,        \* command[p]: its progress, and the key it read
    recovery,       \* the recovery that holds the lock alone
    operations,     \* operations begun; the operation ID of the newest one
    written,        \* history: the data that commands wrote
    deaths          \* how much of the bound is used

directory == <<config, marker, journal, original, candidate, database, archive>>
vars == <<directory, sharing, command, recovery, operations, written, deaths>>

Operations == 1..MaxOperations
Config == [key : Nat, person : People]
Stage == {"none", "enrolling", "owner_mismatch", "publishing", "completed", "cancelled"}
Journal == [stage : Stage, operation : Nat, old : Nat, person : People, new : Nat,
            archive_files : SUBSET Databases]
Candidate == [key : Nat, person : People \cup {Nobody},
              enrollment : {"none", "valid", "expired"}, code : BOOLEAN]
Step == {"idle", "original", "candidate", "journal", "enroll", "metadata", "complete", "enrolled",
         "owner", "verify", "checkpoint", "archive", "marker", "config", "settle"}

\* The key of the first installation is 0; each operation makes a new one.
Init ==
    /\ config = [key |-> 0, person |-> Owner]
    /\ marker = 0
    /\ journal = [stage |-> "none", operation |-> 0, old |-> 0, person |-> Owner, new |-> 0,
                  archive_files |-> {}]
    /\ original = config
    /\ candidate = [key |-> 0, person |-> Nobody, enrollment |-> "none", code |-> FALSE]
    /\ database = [n \in Databases |-> NoData]
    /\ archive = [o \in Operations |-> [n \in Databases |-> NoData]]
    /\ sharing = {}
    /\ command = [p \in Commands |-> [at |-> "idle", key |-> 0]]
    /\ recovery = [at |-> "idle", person |-> Owner]
    /\ operations = 0
    /\ written = {}
    /\ deaths = 0

-----------------------------------------------------------------------------
(* identity_command *)

Settled == journal.stage \in {"none", "completed", "cancelled"}
Exclusive == recovery.at # "idle"

\* bound_config_read
Bound == marker = config.key

\* Fault: a recovery that was interrupted does not keep commands from running.
AdmittedAnyTime == ~Exclusive /\ Bound

Admitted == ~Exclusive /\ Settled /\ Bound

Begin(p) ==
    /\ command[p].at = "idle"
    /\ Admitted
    /\ sharing' = sharing \cup {p}
    /\ command' = [command EXCEPT ![p] = [at |-> "running", key |-> config.key]]
    /\ UNCHANGED <<directory, recovery, operations, written, deaths>>

\* A database is created when it is first needed.
Write(p, n) ==
    /\ command[p].at \in {"running", "monitoring"}
    /\ database' = [database EXCEPT ![n] = command[p].key]
    /\ written' = written \cup {<<n, command[p].key>>}
    /\ UNCHANGED <<config, marker, journal, original, candidate, archive, sharing, command,
                   recovery, operations, deaths>>

\* Fault: the lock is released before the monitoring of the command is shut down.
Released(p) == sharing \ {p}

\* The lock while the monitoring of a finished command is shut down.
StillShared(p) == sharing

Finish(p) ==
    /\ command[p].at = "running"
    /\ command' = [command EXCEPT ![p].at = "monitoring"]
    /\ sharing' = StillShared(p)
    /\ UNCHANGED <<directory, recovery, operations, written, deaths>>

End(p) ==
    /\ command[p].at = "monitoring"
    /\ command' = [command EXCEPT ![p].at = "idle"]
    /\ sharing' = sharing \ {p}
    /\ UNCHANGED <<directory, recovery, operations, written, deaths>>

-----------------------------------------------------------------------------
(* re_enroll *)

At(step) == recovery.at = step
Go(step) == recovery' = [recovery EXCEPT !.at = step]
Alone == At("idle") /\ sharing = {}
Elsewhere == UNCHANGED <<sharing, command, operations, written, deaths>>

\* _context: what the files of an interrupted operation must agree on.
Context ==
    /\ original.key = journal.old /\ original.person = journal.person
    /\ candidate.key = journal.new /\ candidate.key # original.key
    /\ \/ candidate.person = original.person
       \/ journal.stage \notin {"publishing", "completed"}
    /\ config \in {original, [key |-> candidate.key, person |-> candidate.person]}
    /\ marker \in {original.key, candidate.key}
    /\ \/ config = original /\ marker = original.key
       \/ journal.stage \in {"publishing", "completed"}

\* A first recovery, or a new one that the owner asks for with --new.
StartNew ==
    /\ Alone
    /\ Settled
    /\ Bound
    /\ operations < MaxOperations
    /\ operations' = operations + 1
    /\ Go("original")
    /\ UNCHANGED <<directory, sharing, command, written, deaths>>

WriteOriginal ==
    /\ At("original")
    /\ original' = config
    /\ Go("candidate")
    /\ UNCHANGED <<config, marker, journal, candidate, database, archive>> /\ Elsewhere

WriteCandidate ==
    /\ At("candidate")
    /\ candidate' = [key |-> operations, person |-> Nobody, enrollment |-> "none", code |-> FALSE]
    /\ Go("journal")
    /\ UNCHANGED <<config, marker, journal, original, database, archive>> /\ Elsewhere

WriteJournal ==
    /\ At("journal")
    /\ journal' = [stage |-> "enrolling", operation |-> operations, old |-> config.key,
                   person |-> config.person, new |-> candidate.key, archive_files |-> {}]
    /\ Go("enroll")
    /\ UNCHANGED <<config, marker, original, candidate, database, archive>> /\ Elsewhere

\* Fault: a resumed publication does not go on with the archive.
ResumePastArchive ==
    /\ Alone
    /\ journal.stage \in {"enrolling", "publishing"}
    /\ Context
    /\ Go(IF journal.stage = "enrolling" THEN "enroll" ELSE "marker")
    /\ UNCHANGED directory /\ Elsewhere

\* The owner runs re-enroll again.
Resume ==
    /\ Alone
    /\ journal.stage \in {"enrolling", "publishing"}
    /\ Context
    /\ Go(IF journal.stage = "enrolling" THEN "enroll" ELSE "archive")
    /\ UNCHANGED directory /\ Elsewhere

Cancel ==
    /\ Alone
    /\ journal.stage \in {"enrolling", "owner_mismatch"}
    /\ Context
    /\ journal' = [journal EXCEPT !.stage = "cancelled"]
    /\ UNCHANGED <<config, marker, original, candidate, database, archive, recovery>> /\ Elsewhere

-----------------------------------------------------------------------------
(* enroll, for the candidate *)

Unenrolled == candidate.person = Nobody

AlreadyEnrolled ==
    /\ At("enroll")
    /\ ~Unenrolled
    /\ Go("owner")
    /\ UNCHANGED directory /\ Elsewhere

\* A new challenge: its code goes to the native store before its metadata is saved.
RequestEnrollment ==
    /\ At("enroll")
    /\ Unenrolled
    /\ candidate.enrollment # "valid"
    /\ candidate' = [candidate EXCEPT !.enrollment = "none", !.code = TRUE]
    /\ Go("metadata")
    /\ UNCHANGED <<config, marker, journal, original, database, archive>> /\ Elsewhere

WriteMetadata ==
    /\ At("metadata")
    /\ candidate' = [candidate EXCEPT !.enrollment = "valid"]
    /\ Go("complete")
    /\ UNCHANGED <<config, marker, journal, original, database, archive>> /\ Elsewhere

\* Without the code of a pending challenge the operation can only be cancelled.
UseEnrollment ==
    /\ At("enroll")
    /\ Unenrolled
    /\ candidate.enrollment = "valid"
    /\ Go(IF candidate.code THEN "complete" ELSE "idle")
    /\ UNCHANGED directory /\ Elsewhere

\* The server's answer: not yet approved or rejected, or approved by a person.
Complete ==
    /\ At("complete")
    /\ \/ Go("idle")
       \/ \E person \in People : recovery' = [at |-> "enrolled", person |-> person]
    /\ UNCHANGED directory /\ Elsewhere

Approved(code) ==
    [candidate EXCEPT !.person = recovery.person, !.enrollment = "none", !.code = code]

\* The deletion of the used code may fail.
WriteEnrolled ==
    /\ At("enrolled")
    /\ \E code \in {FALSE, candidate.code} : candidate' = Approved(code)
    /\ Go("owner")
    /\ UNCHANGED <<config, marker, journal, original, database, archive>> /\ Elsewhere

-----------------------------------------------------------------------------
(* Publication of the candidate *)

SameOwner == candidate.person = original.person

CheckOwner ==
    /\ At("owner")
    /\ \/ /\ SameOwner
          /\ Go("verify")
          /\ UNCHANGED journal
       \/ /\ ~SameOwner
          /\ journal' = [journal EXCEPT !.stage = "owner_mismatch"]
          /\ Go("idle")
    /\ UNCHANGED <<config, marker, original, candidate, database, archive>> /\ Elsewhere

\* GET /v1/me under the candidate's key
Verify ==
    /\ At("verify")
    /\ Go("checkpoint") \/ Go("idle")
    /\ UNCHANGED directory /\ Elsewhere

\* Fault: databases are listed that do not exist.
AllDatabases == Databases

Existing == {n \in Databases : database[n] # NoData}

\* _checkpoint, which an older writer may refuse, and the decision to publish.
Checkpoint ==
    /\ At("checkpoint")
    /\ \/ /\ journal' = [journal EXCEPT !.stage = "publishing", !.archive_files = Existing]
          /\ Go("archive")
       \/ /\ Go("idle")
          /\ UNCHANGED journal
    /\ UNCHANGED <<config, marker, original, candidate, database, archive>> /\ Elsewhere

Here(n) == database[n] # NoData
There(n) == archive[journal.operation][n] # NoData

\* _archive refuses a directory it did not leave so.
Archivable ==
    \A n \in Databases : IF n \in journal.archive_files THEN Here(n) # There(n)
                         ELSE ~Here(n) /\ ~There(n)

\* Fault: a database is copied to the archive.
Copied(n) == database

\* It is renamed into the archive.
Moved(n) == [database EXCEPT ![n] = NoData]

Archive(n) ==
    /\ At("archive")
    /\ Archivable
    /\ n \in journal.archive_files /\ Here(n)
    /\ archive' = [archive EXCEPT ![journal.operation][n] = database[n]]
    /\ database' = Moved(n)
    /\ UNCHANGED <<config, marker, journal, original, candidate, recovery>> /\ Elsewhere

Archived ==
    /\ At("archive")
    /\ Archivable
    /\ \A n \in journal.archive_files : ~Here(n)
    /\ Go("marker")
    /\ UNCHANGED directory /\ Elsewhere

WriteMarker ==
    /\ At("marker")
    /\ marker' = candidate.key
    /\ Go("config")
    /\ UNCHANGED <<config, journal, original, candidate, database, archive>> /\ Elsewhere

WriteConfig ==
    /\ At("config")
    /\ config' = [key |-> candidate.key, person |-> candidate.person]
    /\ Go("settle")
    /\ UNCHANGED <<marker, journal, original, candidate, database, archive>> /\ Elsewhere

Settle ==
    /\ At("settle")
    /\ journal' = [journal EXCEPT !.stage = "completed"]
    /\ Go("idle")
    /\ UNCHANGED <<config, marker, original, candidate, database, archive>> /\ Elsewhere

-----------------------------------------------------------------------------
(* Faults *)

Fault == deaths < MaxDeaths /\ deaths' = deaths + 1

CommandDies(p) ==
    /\ command[p].at # "idle"
    /\ Fault
    /\ command' = [command EXCEPT ![p].at = "idle"]
    /\ sharing' = sharing \ {p}
    /\ UNCHANGED <<directory, recovery, operations, written>>

RecoveryDies ==
    /\ Exclusive
    /\ Fault
    /\ Go("idle")
    /\ UNCHANGED <<directory, sharing, command, operations, written>>

\* The challenge expires, or the native store loses its code.
Expire ==
    /\ candidate.enrollment = "valid"
    /\ candidate' = [candidate EXCEPT !.enrollment = "expired"]
    /\ UNCHANGED <<config, marker, journal, original, database, archive, recovery>> /\ Elsewhere

LoseCode ==
    /\ candidate.code
    /\ Fault
    /\ candidate' = [candidate EXCEPT !.code = FALSE]
    /\ UNCHANGED <<config, marker, journal, original, database, archive, sharing, command,
                   recovery, operations, written>>

-----------------------------------------------------------------------------

CommandStep(p) == Finish(p) \/ End(p) \/ \E n \in Databases : Write(p, n)

Prepare == WriteOriginal \/ WriteCandidate \/ WriteJournal

Enroll ==
    \/ AlreadyEnrolled \/ RequestEnrollment \/ WriteMetadata
    \/ UseEnrollment \/ Complete \/ WriteEnrolled

Publish ==
    \/ \E n \in Databases : Archive(n)
    \/ Archived \/ WriteMarker \/ WriteConfig \/ Settle

RecoveryStep == Prepare \/ Enroll \/ CheckOwner \/ Verify \/ Checkpoint \/ Publish

Next ==
    \/ \E p \in Commands : Begin(p) \/ CommandStep(p) \/ CommandDies(p)
    \/ StartNew \/ Resume \/ Cancel
    \/ RecoveryStep
    \/ RecoveryDies \/ Expire \/ LoseCode

Spec == Init /\ [][Next]_vars

\* Commands end, a recovery goes on while it lives, and its owner resumes one
\* that was interrupted.
Fairness ==
    /\ \A p \in Commands : WF_vars(Finish(p) \/ End(p))
    /\ WF_vars(RecoveryStep)
    /\ WF_vars(Resume)
FairSpec == Spec /\ Fairness

-----------------------------------------------------------------------------
(* Properties *)

\* The files have the values their validators accept.
TypeOK ==
    /\ config \in Config /\ original \in Config /\ marker \in Nat
    /\ journal \in Journal /\ candidate \in Candidate
    /\ candidate.person # Nobody => candidate.enrollment = "none"
    /\ journal.stage \notin {"publishing", "completed"} => journal.archive_files = {}
    /\ database \in [Databases -> Nat \cup {NoData}]
    /\ archive \in [Operations -> [Databases -> Nat \cup {NoData}]]
    /\ sharing \subseteq Commands
    /\ command \in [Commands -> [at : {"idle", "running", "monitoring"}, key : Nat]]
    /\ recovery \in [at : Step, person : People]
    /\ operations \in 0..MaxOperations

\* A command runs under the one published identity from its start to the end of
\* its monitoring, and finds no data of another identity.
OneIdentity == \A p \in Commands : command[p].at # "idle" =>
    /\ config.key = command[p].key
    /\ marker = command[p].key
    /\ \A n \in Databases : database[n] \in {NoData, command[p].key}

\* Whenever a recovery is interrupted, the next one accepts what it finds.
Resumable ==
    /\ ~Settled => Context
    /\ journal.stage = "publishing" => Archivable

\* What commands wrote is in place or in an archive, and no data is in both.
NothingLost ==
    /\ \A w \in written : \/ database[w[1]] = w[2]
                          \/ \E o \in Operations : archive[o][w[1]] = w[2]
    /\ \A n \in Databases, o \in Operations : Here(n) => archive[o][n] # database[n]

\* The installation never passes to another person.
SamePerson == config.person = Owner

\* Once the candidate is to be published, it is.
Published == journal.stage = "publishing" ~> journal.stage = "completed"

-----------------------------------------------------------------------------
(* The recovery as one step: until its journal is settled, a publication has *)
(* not happened to anyone.                                                   *)
Undone == journal.stage = "publishing"

KeyInUse == IF Undone THEN journal.old ELSE config.key
OwnerInUse == IF Undone THEN journal.person ELSE config.person
Users == {p \in Commands : command[p].at # "idle"}
DataInUse == [n \in Databases |-> IF Undone /\ There(n) THEN archive[journal.operation][n]
                                  ELSE database[n]]
Retained ==
    LET done == IF Undone THEN Operations \ {journal.operation} ELSE Operations
    IN  {w \in {<<n, archive[o][n]>> : n \in Databases, o \in done} : w[2] # NoData}

Identity == INSTANCE InstallationIdentity
    WITH FirstOwner <- Owner, key <- KeyInUse, owner <- OwnerInUse, users <- Users,
         data <- DataInUse, retained <- Retained

\* A recovery replaces the identity in one step, wherever it dies and however
\* often it is resumed: whatever is on disk in between, to every command the
\* old identity with all its data is there, or the new one with none and the
\* data of the old one archived.
ImplementsIdentity == Identity!Spec
=============================================================================
