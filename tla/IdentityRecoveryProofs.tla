------------------------ MODULE IdentityRecoveryProofs ------------------------
(***************************************************************************)
(* Proofs about IdentityRecovery, for all commands, databases, people and  *)
(* numbers of recoveries and deaths.  The inductive invariant Inv says     *)
(* what the files hold at each step of a recovery; the lock, the identity  *)
(* and the data each have a conjunct of their own.                         *)
(***************************************************************************)
EXTENDS IdentityRecovery, TLAPS

Preparing == recovery.at \in {"original", "candidate", "journal"}
Enrolling == recovery.at \in {"enroll", "metadata", "complete", "enrolled",
                              "owner", "verify", "checkpoint"}
Publishing == recovery.at \in {"archive", "marker", "config", "settle"}

\* Who is in the lock, and under which key a command runs.
LockInv ==
    /\ \A p \in Commands : p \in sharing <=> command[p].at # "idle"
    /\ sharing # {} => Settled /\ ~Exclusive
    /\ \A p \in Commands : command[p].at # "idle" => command[p].key = config.key

\* What the stage of the journal says of the progress of a recovery.
ProgressInv ==
    /\ Preparing => Settled /\ operations \in Operations /\ config.key < operations
    /\ recovery.at \in {"candidate", "journal"} => original = config
    /\ At("journal") => candidate.key = operations /\ candidate.person = Nobody
    /\ Enrolling => journal.stage = "enrolling"
    /\ At("metadata") => candidate.person = Nobody
    /\ At("owner") => candidate.person \in People
    /\ recovery.at \in {"verify", "checkpoint"} => candidate.person = Owner
    /\ Publishing => journal.stage = "publishing"
    /\ recovery.at \in {"marker", "config", "settle"} =>
          \A n \in Databases : database[n] = NoData
    /\ recovery.at \in {"config", "settle"} => marker = candidate.key
    /\ At("settle") => config.key = candidate.key

\* The published identity, and the two of a recovery in progress.
IdentityInv ==
    /\ config.person = Owner
    /\ config.key <= operations
    /\ Settled => marker = config.key
    /\ ~Settled =>
          /\ operations \in Operations
          /\ journal.operation = operations /\ journal.new = operations
          /\ candidate.key = operations
          /\ original.key = journal.old /\ original.person = Owner
          /\ journal.person = Owner
          /\ journal.old < operations
    /\ journal.stage \in {"enrolling", "owner_mismatch"} =>
          config.key = journal.old /\ marker = journal.old
    /\ journal.stage = "publishing" =>
          /\ candidate.person = Owner
          /\ config.key \in {journal.old, operations}
          /\ marker \in {journal.old, operations}
          /\ config.key = operations => marker = operations
          /\ marker = operations => \A n \in Databases : database[n] = NoData

\* The key of the data in place; archives hold older data, and that of the
\* operation in progress what it has moved.
DataKey == IF journal.stage = "publishing" THEN journal.old ELSE config.key

DataInv ==
    /\ \A n \in Databases : database[n] \in {NoData, DataKey}
    /\ \A o \in Operations, n \in Databases :
          \/ archive[o][n] = NoData
          \/ archive[o][n] < DataKey /\ o <= operations
          \/ journal.stage = "publishing" /\ o = operations /\ archive[o][n] = DataKey
    /\ Preparing \/ ~Settled =>
          \A n \in Databases : archive[operations][n] # NoData =>
              journal.stage = "publishing" /\ archive[operations][n] = DataKey
    /\ journal.stage = "publishing" => Archivable

\* What was written is data of a key.
WrittenInv == written \subseteq Databases \X Nat

\* The inductive invariant.
Inv == TypeOK /\ LockInv /\ ProgressInv /\ IdentityInv /\ DataInv /\ WrittenInv /\ NothingLost

\* A configuration is what its fields are.
LEMMA ConfigFields == \A c, d \in Config : c.key = d.key /\ c.person = d.person => c = d
BY DEF Config

-----------------------------------------------------------------------------
(* The commands *)

\* A command is admitted under the published identity.
LEMMA BeginKeeps ==
    ASSUME Inv, NEW p \in Commands, Begin(p)
    PROVE  Inv'
<1> USE DEF Begin, Admitted, Exclusive, Settled, Bound, directory
<1>0. TypeOK /\ LockInv /\ ProgressInv /\ IdentityInv /\ DataInv /\ WrittenInv /\ NothingLost
  BY DEF Inv
<1>1. TypeOK'
  BY <1>0 DEF TypeOK
<1>2. LockInv'
  BY <1>0 DEF TypeOK, LockInv
<1>3. ProgressInv'
  BY <1>0 DEF ProgressInv, Preparing, Enrolling, Publishing, At
<1>4. IdentityInv'
  BY <1>0 DEF IdentityInv
<1>5. DataInv'
  BY <1>0 DEF DataInv, DataKey, Preparing
<1>6. WrittenInv' /\ NothingLost'
  BY <1>0 DEF WrittenInv, NothingLost, Here
<1> QED
  BY <1>1, <1>2, <1>3, <1>4, <1>5, <1>6 DEF Inv

\* A command adds data of its identity.
LEMMA WriteKeeps ==
    ASSUME Inv, NEW p \in Commands, NEW n \in Databases, Write(p, n)
    PROVE  Inv'
<1> USE DEF Write
<1>0. TypeOK /\ LockInv /\ ProgressInv /\ IdentityInv /\ DataInv /\ WrittenInv /\ NothingLost
  BY DEF Inv
<1>1. TypeOK'
  BY <1>0 DEF TypeOK
<1>2. LockInv'
  BY <1>0 DEF LockInv, Settled, Exclusive
<1>3. ProgressInv'
  BY <1>0 DEF LockInv, ProgressInv, Preparing, Enrolling, Publishing, Settled, At
<1>4. IdentityInv'
  BY <1>0 DEF LockInv, IdentityInv, Settled
<1>5. DataInv'
  BY <1>0 DEF LockInv, DataInv, DataKey, Preparing, Settled
<1>6. WrittenInv' /\ NothingLost'
  <2>1. /\ command[p].key = config.key /\ config.key \in Nat
        /\ database[n] \in {NoData, config.key}
        /\ \A o \in Operations : archive[o][n] # config.key
    BY <1>0, OwnerAssumption DEF TypeOK, LockInv, DataInv, DataKey, Settled
  <2>2. WrittenInv'
    BY <1>0, <2>1 DEF WrittenInv
  <2>3. database' = [database EXCEPT ![n] = config.key] /\ archive' = archive
    BY <2>1
  <2>4. \A w \in written' : \/ database'[w[1]] = w[2]
                            \/ \E o \in Operations : archive'[o][w[1]] = w[2]
    <3> SUFFICES ASSUME NEW w \in written'
                 PROVE  database'[w[1]] = w[2] \/ \E o \in Operations : archive'[o][w[1]] = w[2]
      OBVIOUS
    <3>1. CASE w \in written
      <4>1. w[1] \in Databases /\ w[2] \in Nat
        BY <1>0, <3>1 DEF WrittenInv
      <4> QED
        BY <1>0, <2>1, <2>3, <3>1, <4>1, OwnerAssumption DEF NothingLost
    <3>2. CASE w = <<n, config.key>>
      BY <1>0, <2>3, <3>2 DEF TypeOK
    <3> QED
      BY <2>1, <3>1, <3>2
  <2>5. \A m \in Databases, o \in Operations : Here(m)' => archive'[o][m] # database'[m]
    BY <1>0, <2>1, <2>3 DEF NothingLost, Here
  <2> QED
    BY <2>2, <2>4, <2>5 DEF NothingLost
<1> QED
  BY <1>1, <1>2, <1>3, <1>4, <1>5, <1>6 DEF Inv

\* The end of a command's own work leaves it in the lock.
LEMMA FinishKeeps ==
    ASSUME Inv, NEW p \in Commands, Finish(p)
    PROVE  Inv'
<1> USE DEF Finish, StillShared, directory
<1>0. TypeOK /\ LockInv /\ ProgressInv /\ IdentityInv /\ DataInv /\ WrittenInv /\ NothingLost
  BY DEF Inv
<1>1. TypeOK'
  BY <1>0 DEF TypeOK
<1>2. LockInv'
  BY <1>0 DEF LockInv, Settled, Exclusive
<1>3. ProgressInv'
  BY <1>0 DEF ProgressInv, Preparing, Enrolling, Publishing, Settled, At
<1>4. IdentityInv'
  BY <1>0 DEF IdentityInv, Settled
<1>5. DataInv'
  BY <1>0 DEF LockInv, DataInv, DataKey, Preparing, Settled
<1>6. WrittenInv' /\ NothingLost'
  BY <1>0 DEF WrittenInv, NothingLost, Here
<1> QED
  BY <1>1, <1>2, <1>3, <1>4, <1>5, <1>6 DEF Inv

\* A command ends.
LEMMA EndKeeps ==
    ASSUME Inv, NEW p \in Commands, End(p)
    PROVE  Inv'
<1> USE DEF End, directory
<1>0. TypeOK /\ LockInv /\ ProgressInv /\ IdentityInv /\ DataInv /\ WrittenInv /\ NothingLost
  BY DEF Inv
<1>1. TypeOK'
  BY <1>0 DEF TypeOK
<1>2. LockInv'
  BY <1>0 DEF TypeOK, LockInv, Settled, Exclusive
<1>3. ProgressInv'
  BY <1>0 DEF ProgressInv, Preparing, Enrolling, Publishing, Settled, At
<1>4. IdentityInv'
  BY <1>0 DEF IdentityInv, Settled
<1>5. DataInv'
  BY <1>0 DEF LockInv, DataInv, DataKey, Preparing, Settled
<1>6. WrittenInv' /\ NothingLost'
  BY <1>0 DEF WrittenInv, NothingLost, Here
<1> QED
  BY <1>1, <1>2, <1>3, <1>4, <1>5, <1>6 DEF Inv

\* A command dies.
LEMMA CommandDiesKeeps ==
    ASSUME Inv, NEW p \in Commands, CommandDies(p)
    PROVE  Inv'
<1> USE DEF CommandDies, Fault, directory
<1>0. TypeOK /\ LockInv /\ ProgressInv /\ IdentityInv /\ DataInv /\ WrittenInv /\ NothingLost
  BY DEF Inv
<1>1. TypeOK'
  BY <1>0 DEF TypeOK
<1>2. LockInv'
  BY <1>0 DEF TypeOK, LockInv, Settled, Exclusive
<1>3. ProgressInv'
  BY <1>0 DEF ProgressInv, Preparing, Enrolling, Publishing, Settled, At
<1>4. IdentityInv'
  BY <1>0 DEF IdentityInv, Settled
<1>5. DataInv'
  BY <1>0 DEF LockInv, DataInv, DataKey, Preparing, Settled
<1>6. WrittenInv' /\ NothingLost'
  BY <1>0 DEF WrittenInv, NothingLost, Here
<1> QED
  BY <1>1, <1>2, <1>3, <1>4, <1>5, <1>6 DEF Inv

-----------------------------------------------------------------------------
(* The beginning of a recovery *)

\* A new recovery.
LEMMA StartNewKeeps ==
    ASSUME Inv, StartNew
    PROVE  Inv'
<1> USE DEF StartNew, Alone, At, Go, Exclusive, Settled, Bound, directory
<1>0. TypeOK /\ LockInv /\ ProgressInv /\ IdentityInv /\ DataInv /\ WrittenInv /\ NothingLost
  BY DEF Inv
<1>1. TypeOK'
  BY <1>0, OperationsAssumption DEF TypeOK, Step
<1>2. LockInv'
  BY <1>0 DEF LockInv
<1>3. ProgressInv'
  BY <1>0, OperationsAssumption DEF TypeOK, ProgressInv, IdentityInv, Enrolling, Publishing,
     Operations
<1>4. IdentityInv'
  BY <1>0 DEF TypeOK, IdentityInv
<1>5. DataInv'
  BY <1>0, OperationsAssumption DEF TypeOK, DataInv, DataKey, Operations
<1>6. WrittenInv' /\ NothingLost'
  BY <1>0 DEF WrittenInv, NothingLost, Here
<1> QED
  BY <1>1, <1>2, <1>3, <1>4, <1>5, <1>6 DEF Inv

\* The configuration is copied.
LEMMA WriteOriginalKeeps ==
    ASSUME Inv, WriteOriginal
    PROVE  Inv'
<1> USE DEF WriteOriginal, At, Go, Elsewhere, directory
<1>0. TypeOK /\ LockInv /\ ProgressInv /\ IdentityInv /\ DataInv /\ WrittenInv /\ NothingLost
  BY DEF Inv
<1>1. TypeOK'
  BY <1>0 DEF TypeOK, Step
<1>2. LockInv'
  BY <1>0 DEF LockInv, Exclusive
<1>3. ProgressInv'
  BY <1>0 DEF ProgressInv, Preparing, Enrolling, Publishing, Settled
<1>4. IdentityInv'
  BY <1>0 DEF ProgressInv, IdentityInv, Preparing, Settled
<1>5. DataInv'
  BY <1>0 DEF ProgressInv, DataInv, DataKey, Preparing, Settled
<1>6. WrittenInv' /\ NothingLost'
  BY <1>0 DEF WrittenInv, NothingLost, Here
<1> QED
  BY <1>1, <1>2, <1>3, <1>4, <1>5, <1>6 DEF Inv

\* The candidate has a new key.
LEMMA WriteCandidateKeeps ==
    ASSUME Inv, WriteCandidate
    PROVE  Inv'
<1> USE DEF WriteCandidate, At, Go, Elsewhere, directory
<1>0. TypeOK /\ LockInv /\ ProgressInv /\ IdentityInv /\ DataInv /\ WrittenInv /\ NothingLost
  BY DEF Inv
<1>1. TypeOK'
  <2>1. candidate' \in Candidate
    BY <1>0 DEF TypeOK, Candidate
  <2>2. recovery' \in [at : Step, person : People]
    BY <1>0 DEF TypeOK, Step
  <2>3. candidate'.person # Nobody => candidate'.enrollment = "none"
    BY <1>0
  <2> QED
    BY <1>0, <2>1, <2>2, <2>3 DEF TypeOK
<1>2. LockInv'
  BY <1>0 DEF LockInv, Exclusive
<1>3. ProgressInv'
  BY <1>0 DEF ProgressInv, Preparing, Enrolling, Publishing, Settled
<1>4. IdentityInv'
  BY <1>0 DEF ProgressInv, IdentityInv, Preparing, Settled
<1>5. DataInv'
  BY <1>0 DEF ProgressInv, DataInv, DataKey, Preparing, Settled
<1>6. WrittenInv' /\ NothingLost'
  BY <1>0 DEF WrittenInv, NothingLost, Here
<1> QED
  BY <1>1, <1>2, <1>3, <1>4, <1>5, <1>6 DEF Inv

\* The journal begins the recovery.
LEMMA WriteJournalKeeps ==
    ASSUME Inv, WriteJournal
    PROVE  Inv'
<1> USE DEF WriteJournal, At, Go, Elsewhere, directory
<1>0. TypeOK /\ LockInv /\ ProgressInv /\ IdentityInv /\ DataInv /\ WrittenInv /\ NothingLost
  BY DEF Inv
<1>1. TypeOK'
  <2>1. journal' \in Journal
    BY <1>0, OwnerAssumption DEF TypeOK, ProgressInv, IdentityInv, Journal, Stage
  <2>2. recovery' \in [at : Step, person : People]
    BY <1>0 DEF TypeOK, Step
  <2>3. journal'.stage \notin {"publishing", "completed"} => journal'.archive_files = {}
    BY <1>0
  <2> QED
    BY <1>0, <2>1, <2>2, <2>3 DEF TypeOK
<1>2. LockInv'
  BY <1>0 DEF LockInv, Exclusive
<1>3. ProgressInv'
  BY <1>0 DEF ProgressInv, Preparing, Publishing
<1>4. IdentityInv'
  BY <1>0 DEF ProgressInv, IdentityInv, Preparing
<1>5. DataInv'
  BY <1>0, OwnerAssumption DEF ProgressInv, IdentityInv, DataInv, DataKey, Preparing
<1>6. WrittenInv' /\ NothingLost'
  BY <1>0 DEF WrittenInv, NothingLost, Here
<1> QED
  BY <1>1, <1>2, <1>3, <1>4, <1>5, <1>6 DEF Inv

\* A recovery is taken up again.
LEMMA ResumeKeeps ==
    ASSUME Inv, Resume
    PROVE  Inv'
<1> USE DEF Resume, Alone, At, Go, Elsewhere, directory
<1>0. TypeOK /\ LockInv /\ ProgressInv /\ IdentityInv /\ DataInv /\ WrittenInv /\ NothingLost
  BY DEF Inv
<1>1. TypeOK'
  BY <1>0 DEF TypeOK, Step
<1>2. LockInv'
  BY <1>0 DEF LockInv
<1>3. ProgressInv'
  BY <1>0 DEF ProgressInv, Preparing, Enrolling, Publishing
<1>4. IdentityInv'
  BY <1>0 DEF IdentityInv, Settled
<1>5. DataInv'
  BY <1>0 DEF DataInv, DataKey, Settled, Archivable, Here, There
<1>6. WrittenInv' /\ NothingLost'
  BY <1>0 DEF WrittenInv, NothingLost, Here
<1> QED
  BY <1>1, <1>2, <1>3, <1>4, <1>5, <1>6 DEF Inv

\* A recovery is cancelled.
LEMMA CancelKeeps ==
    ASSUME Inv, Cancel
    PROVE  Inv'
<1> USE DEF Cancel, Alone, At, Go, Elsewhere, directory
<1>0. TypeOK /\ LockInv /\ ProgressInv /\ IdentityInv /\ DataInv /\ WrittenInv /\ NothingLost
  BY DEF Inv
<1>1. TypeOK'
  <2>1. journal' \in Journal
    BY <1>0 DEF TypeOK, Journal, Stage
  <2>2. recovery' \in [at : Step, person : People]
    BY <1>0 DEF TypeOK
  <2>3. journal'.stage \notin {"publishing", "completed"} => journal'.archive_files = {}
    BY <1>0 DEF TypeOK
  <2> QED
    BY <1>0, <2>1, <2>2, <2>3 DEF TypeOK
<1>2. LockInv'
  BY <1>0 DEF LockInv
<1>3. ProgressInv'
  BY <1>0 DEF ProgressInv, Preparing, Enrolling, Publishing
<1>4. IdentityInv'
  BY <1>0 DEF IdentityInv, Settled
<1>5. DataInv'
  BY <1>0 DEF DataInv, DataKey, Settled
<1>6. WrittenInv' /\ NothingLost'
  BY <1>0 DEF WrittenInv, NothingLost, Here
<1> QED
  BY <1>1, <1>2, <1>3, <1>4, <1>5, <1>6 DEF Inv

-----------------------------------------------------------------------------
(* Enrollment of the candidate *)

\* The candidate is enrolled already.
LEMMA AlreadyEnrolledKeeps ==
    ASSUME Inv, AlreadyEnrolled
    PROVE  Inv'
<1> USE DEF AlreadyEnrolled, Unenrolled, Approved, At, Go, Elsewhere, directory
<1>0. TypeOK /\ LockInv /\ ProgressInv /\ IdentityInv /\ DataInv /\ WrittenInv /\ NothingLost
  BY DEF Inv
<1>1. TypeOK'
  BY <1>0 DEF TypeOK, Step
<1>2. LockInv'
  BY <1>0 DEF LockInv, Exclusive
<1>3. ProgressInv'
  BY <1>0 DEF TypeOK, ProgressInv, Preparing, Enrolling, Publishing, Candidate
<1>4. IdentityInv'
  BY <1>0 DEF IdentityInv, Settled
<1>5. DataInv'
  BY <1>0 DEF ProgressInv, DataInv, DataKey, Enrolling, Settled
<1>6. WrittenInv' /\ NothingLost'
  BY <1>0 DEF WrittenInv, NothingLost, Here
<1> QED
  BY <1>1, <1>2, <1>3, <1>4, <1>5, <1>6 DEF Inv

\* A new challenge.
LEMMA RequestEnrollmentKeeps ==
    ASSUME Inv, RequestEnrollment
    PROVE  Inv'
<1> USE DEF RequestEnrollment, Unenrolled, Approved, At, Go, Elsewhere, directory
<1>0. TypeOK /\ LockInv /\ ProgressInv /\ IdentityInv /\ DataInv /\ WrittenInv /\ NothingLost
  BY DEF Inv
<1>1. TypeOK'
  <2>1. candidate' \in Candidate
    BY <1>0 DEF TypeOK, Candidate
  <2>2. recovery' \in [at : Step, person : People]
    BY <1>0 DEF TypeOK, Step
  <2>3. candidate'.person # Nobody => candidate'.enrollment = "none"
    BY <1>0
  <2> QED
    BY <1>0, <2>1, <2>2, <2>3 DEF TypeOK
<1>2. LockInv'
  BY <1>0 DEF LockInv, Exclusive
<1>3. ProgressInv'
  BY <1>0 DEF ProgressInv, Preparing, Enrolling, Publishing
<1>4. IdentityInv'
  BY <1>0 DEF IdentityInv, Settled
<1>5. DataInv'
  BY <1>0, OwnerAssumption DEF IdentityInv, DataInv, DataKey, Preparing, Settled
<1>6. WrittenInv' /\ NothingLost'
  BY <1>0 DEF WrittenInv, NothingLost, Here
<1> QED
  BY <1>1, <1>2, <1>3, <1>4, <1>5, <1>6 DEF Inv

\* The challenge is saved.
LEMMA WriteMetadataKeeps ==
    ASSUME Inv, WriteMetadata
    PROVE  Inv'
<1> USE DEF WriteMetadata, Unenrolled, Approved, At, Go, Elsewhere, directory
<1>0. TypeOK /\ LockInv /\ ProgressInv /\ IdentityInv /\ DataInv /\ WrittenInv /\ NothingLost
  BY DEF Inv
<1>1. TypeOK'
  <2>1. candidate' \in Candidate
    BY <1>0 DEF TypeOK, Candidate
  <2>2. recovery' \in [at : Step, person : People]
    BY <1>0 DEF TypeOK, Step
  <2>3. candidate'.person # Nobody => candidate'.enrollment = "none"
    BY <1>0 DEF ProgressInv
  <2> QED
    BY <1>0, <2>1, <2>2, <2>3 DEF TypeOK
<1>2. LockInv'
  BY <1>0 DEF LockInv, Exclusive
<1>3. ProgressInv'
  BY <1>0 DEF ProgressInv, Preparing, Enrolling, Publishing
<1>4. IdentityInv'
  BY <1>0 DEF IdentityInv, Settled
<1>5. DataInv'
  BY <1>0, OwnerAssumption DEF ProgressInv, IdentityInv, DataInv, DataKey, Preparing, Settled
<1>6. WrittenInv' /\ NothingLost'
  BY <1>0 DEF WrittenInv, NothingLost, Here
<1> QED
  BY <1>1, <1>2, <1>3, <1>4, <1>5, <1>6 DEF Inv

\* A challenge is used again.
LEMMA UseEnrollmentKeeps ==
    ASSUME Inv, UseEnrollment
    PROVE  Inv'
<1> USE DEF UseEnrollment, Unenrolled, Approved, At, Go, Elsewhere, directory
<1>0. TypeOK /\ LockInv /\ ProgressInv /\ IdentityInv /\ DataInv /\ WrittenInv /\ NothingLost
  BY DEF Inv
<1>1. TypeOK'
  BY <1>0 DEF TypeOK, Step
<1>2. LockInv'
  BY <1>0 DEF LockInv, Exclusive
<1>3. ProgressInv'
  BY <1>0 DEF ProgressInv, Preparing, Enrolling, Publishing
<1>4. IdentityInv'
  BY <1>0 DEF IdentityInv, Settled
<1>5. DataInv'
  BY <1>0, OwnerAssumption DEF IdentityInv, DataInv, DataKey, Preparing, Settled
<1>6. WrittenInv' /\ NothingLost'
  BY <1>0 DEF WrittenInv, NothingLost, Here
<1> QED
  BY <1>1, <1>2, <1>3, <1>4, <1>5, <1>6 DEF Inv

\* The server answers.
LEMMA CompleteKeeps ==
    ASSUME Inv, Complete
    PROVE  Inv'
<1> USE DEF Complete, Unenrolled, Approved, At, Go, Elsewhere, directory
<1>0. TypeOK /\ LockInv /\ ProgressInv /\ IdentityInv /\ DataInv /\ WrittenInv /\ NothingLost
  BY DEF Inv
<1>1. TypeOK'
  BY <1>0 DEF TypeOK, Step
<1>2. LockInv'
  BY <1>0 DEF LockInv, Exclusive
<1>3. ProgressInv'
  BY <1>0 DEF TypeOK, ProgressInv, Preparing, Enrolling, Publishing
<1>4. IdentityInv'
  BY <1>0 DEF IdentityInv, Settled
<1>5. DataInv'
  BY <1>0 DEF ProgressInv, DataInv, DataKey, Enrolling, Settled
<1>6. WrittenInv' /\ NothingLost'
  BY <1>0 DEF WrittenInv, NothingLost, Here
<1> QED
  BY <1>1, <1>2, <1>3, <1>4, <1>5, <1>6 DEF Inv

\* The candidate is enrolled.
LEMMA WriteEnrolledKeeps ==
    ASSUME Inv, WriteEnrolled
    PROVE  Inv'
<1> USE DEF WriteEnrolled, Unenrolled, Approved, At, Go, Elsewhere, directory
<1>0. TypeOK /\ LockInv /\ ProgressInv /\ IdentityInv /\ DataInv /\ WrittenInv /\ NothingLost
  BY DEF Inv
<1>1. TypeOK'
  <2>1. candidate' \in Candidate
    BY <1>0 DEF TypeOK, Candidate
  <2>2. recovery' \in [at : Step, person : People]
    BY <1>0 DEF TypeOK, Step
  <2>3. candidate'.person # Nobody => candidate'.enrollment = "none"
    BY <1>0
  <2> QED
    BY <1>0, <2>1, <2>2, <2>3 DEF TypeOK
<1>2. LockInv'
  BY <1>0 DEF LockInv, Exclusive
<1>3. ProgressInv'
  BY <1>0 DEF TypeOK, ProgressInv, Preparing, Enrolling, Publishing
<1>4. IdentityInv'
  BY <1>0 DEF ProgressInv, IdentityInv, Enrolling, Settled
<1>5. DataInv'
  BY <1>0 DEF ProgressInv, DataInv, DataKey, Enrolling, Settled
<1>6. WrittenInv' /\ NothingLost'
  BY <1>0 DEF WrittenInv, NothingLost, Here
<1> QED
  BY <1>1, <1>2, <1>3, <1>4, <1>5, <1>6 DEF Inv

-----------------------------------------------------------------------------
(* Publication of the candidate *)

\* Only the owner's candidate goes on.
LEMMA CheckOwnerKeeps ==
    ASSUME Inv, CheckOwner
    PROVE  Inv'
<1> USE DEF CheckOwner, SameOwner, At, Go, Elsewhere, directory
<1>0. TypeOK /\ LockInv /\ ProgressInv /\ IdentityInv /\ DataInv /\ WrittenInv /\ NothingLost
  BY DEF Inv
<1>1. TypeOK'
  <2>1. journal' \in Journal
    <3>1. journal' = journal \/ journal' = [journal EXCEPT !.stage = "owner_mismatch"]
      OBVIOUS
    <3> QED
      BY <1>0, <3>1 DEF TypeOK, Journal, Stage
  <2>2. recovery' \in [at : Step, person : People]
    BY <1>0 DEF TypeOK, Step
  <2>3. journal'.stage \notin {"publishing", "completed"} => journal'.archive_files = {}
    BY <1>0 DEF TypeOK, ProgressInv, Enrolling, Journal
  <2> QED
    BY <1>0, <2>1, <2>2, <2>3 DEF TypeOK
<1>2. LockInv'
  BY <1>0 DEF LockInv, Exclusive
<1>3. ProgressInv'
  BY <1>0 DEF TypeOK, ProgressInv, IdentityInv, Preparing, Enrolling, Publishing, Settled
<1>4. IdentityInv'
  BY <1>0 DEF TypeOK, ProgressInv, IdentityInv, Enrolling, Settled, Journal
<1>5. DataInv'
  BY <1>0 DEF TypeOK, ProgressInv, DataInv, DataKey, Enrolling, Settled, Journal
<1>6. WrittenInv' /\ NothingLost'
  BY <1>0 DEF WrittenInv, NothingLost, Here
<1> QED
  BY <1>1, <1>2, <1>3, <1>4, <1>5, <1>6 DEF Inv

\* The server is asked who it is.
LEMMA VerifyKeeps ==
    ASSUME Inv, Verify
    PROVE  Inv'
<1> USE DEF Verify, At, Go, Elsewhere, directory
<1>0. TypeOK /\ LockInv /\ ProgressInv /\ IdentityInv /\ DataInv /\ WrittenInv /\ NothingLost
  BY DEF Inv
<1>1. TypeOK'
  BY <1>0 DEF TypeOK, Step
<1>2. LockInv'
  BY <1>0 DEF LockInv, Exclusive
<1>3. ProgressInv'
  BY <1>0 DEF TypeOK, ProgressInv, Preparing, Enrolling, Publishing
<1>4. IdentityInv'
  BY <1>0 DEF IdentityInv, Settled
<1>5. DataInv'
  BY <1>0 DEF ProgressInv, DataInv, DataKey, Enrolling, Settled
<1>6. WrittenInv' /\ NothingLost'
  BY <1>0 DEF WrittenInv, NothingLost, Here
<1> QED
  BY <1>1, <1>2, <1>3, <1>4, <1>5, <1>6 DEF Inv

\* The databases that exist are to be archived.
LEMMA CheckpointKeeps ==
    ASSUME Inv, Checkpoint
    PROVE  Inv'
<1> USE DEF Checkpoint, Existing, At, Go, Elsewhere, directory
<1>0. TypeOK /\ LockInv /\ ProgressInv /\ IdentityInv /\ DataInv /\ WrittenInv /\ NothingLost
  BY DEF Inv
<1>a. CASE UNCHANGED journal /\ At("idle")'
  BY <1>0, <1>a DEF Inv, TypeOK, Step, LockInv, Settled, ProgressInv, Preparing, Enrolling,
     Publishing, IdentityInv, DataInv, DataKey, Here, WrittenInv, NothingLost
<1>b. CASE journal' = [journal EXCEPT !.stage = "publishing",
!.archive_files = Existing] /\ At("archive")'
  <2>1. TypeOK'
    <3>1. journal' \in Journal
      <4>1. journal' = journal \/ journal' = [journal EXCEPT !.stage = "publishing",
      !.archive_files = Existing]
        OBVIOUS
      <4> QED
        BY <1>0, <1>b, <4>1 DEF TypeOK, Journal, Stage
    <3>2. recovery' \in [at : Step, person : People]
      BY <1>0, <1>b DEF TypeOK, Step
    <3>3. journal'.stage \notin {"publishing", "completed"} => journal'.archive_files = {}
      BY <1>0, <1>b
    <3> QED
      BY <1>0, <1>b, <3>1, <3>2, <3>3 DEF TypeOK
  <2>2. LockInv'
    BY <1>0, <1>b DEF LockInv, Exclusive
  <2>3. ProgressInv'
    BY <1>0, <1>b DEF ProgressInv, Preparing, Enrolling
  <2>4. IdentityInv'
    BY <1>0, <1>b DEF TypeOK, ProgressInv, IdentityInv, Enrolling, Settled
  <2>5. DataInv'
    BY <1>0, <1>b DEF ProgressInv, IdentityInv, DataInv, DataKey, Enrolling, Settled,
       Archivable, Here, There
  <2>6. WrittenInv' /\ NothingLost'
    BY <1>0, <1>b DEF WrittenInv, NothingLost, Here
  <2> QED
    BY <2>1, <2>2, <2>3, <2>4, <2>5, <2>6 DEF Inv
<1> QED
  BY <1>0, <1>a, <1>b DEF TypeOK

\* A database is moved into the archive.
LEMMA ArchiveKeeps ==
    ASSUME Inv, NEW n \in Databases, Archive(n)
    PROVE  Inv'
<1> USE DEF Archive, Moved, At, Go, Elsewhere, directory
<1>0. TypeOK /\ LockInv /\ ProgressInv /\ IdentityInv /\ DataInv /\ WrittenInv /\ NothingLost
  BY DEF Inv
<1>m. /\ journal.operation \in Operations /\ database[n] # NoData
      /\ archive[journal.operation][n] = NoData
  BY <1>0 DEF ProgressInv, Publishing, IdentityInv, Settled, Archivable, Here, There
<1>1. TypeOK'
  BY <1>0 DEF TypeOK
<1>2. LockInv'
  BY <1>0 DEF LockInv, Exclusive
<1>3. ProgressInv'
  BY <1>0 DEF ProgressInv, Preparing, Enrolling, Publishing
<1>4. IdentityInv'
  BY <1>0 DEF IdentityInv, Settled
<1>5. DataInv'
  BY <1>0 DEF TypeOK, ProgressInv, IdentityInv, DataInv, DataKey, Publishing, Settled,
     Archivable, Here, There
<1>6. WrittenInv' /\ NothingLost'
  <2>1. \A w \in written : \/ database'[w[1]] = w[2]
                           \/ \E o \in Operations : archive'[o][w[1]] = w[2]
    <3> SUFFICES ASSUME NEW w \in written
                 PROVE  database'[w[1]] = w[2] \/ \E o \in Operations : archive'[o][w[1]] = w[2]
      OBVIOUS
    <3>1. w[1] \in Databases /\ w[2] \in Nat
      BY <1>0 DEF WrittenInv
    <3>2. CASE database[w[1]] = w[2]
      BY <1>0, <1>m, <3>1, <3>2 DEF TypeOK
    <3>3. CASE \E o \in Operations : archive[o][w[1]] = w[2]
      <4>1. PICK o \in Operations : archive[o][w[1]] = w[2]
        BY <3>3
      <4>2. archive'[o][w[1]] = w[2]
        BY <1>0, <1>m, <3>1, <4>1, OwnerAssumption
      <4> QED
        BY <4>2
    <3> QED
      BY <1>0, <3>2, <3>3 DEF NothingLost
  <2>2. \A m \in Databases, o \in Operations : Here(m)' => archive'[o][m] # database'[m]
    BY <1>0, <1>m DEF NothingLost, Here, TypeOK
  <2> QED
    BY <1>0, <2>1, <2>2 DEF WrittenInv, NothingLost
<1> QED
  BY <1>1, <1>2, <1>3, <1>4, <1>5, <1>6 DEF Inv

\* Nothing is left to be moved.
LEMMA ArchivedKeeps ==
    ASSUME Inv, Archived
    PROVE  Inv'
<1> USE DEF Archived, At, Go, Elsewhere, directory
<1>0. TypeOK /\ LockInv /\ ProgressInv /\ IdentityInv /\ DataInv /\ WrittenInv /\ NothingLost
  BY DEF Inv
<1>m. \A n \in Databases : database[n] = NoData
  BY <1>0 DEF Archivable, Here
<1>1. TypeOK'
  BY <1>0 DEF TypeOK, Step
<1>2. LockInv'
  BY <1>0 DEF LockInv, Exclusive
<1>3. ProgressInv'
  BY <1>0, <1>m DEF ProgressInv, Preparing, Enrolling, Publishing
<1>4. IdentityInv'
  BY <1>0 DEF IdentityInv, Settled
<1>5. DataInv'
  BY <1>0 DEF DataInv, DataKey, Preparing, Settled, Archivable, Here, There
<1>6. WrittenInv' /\ NothingLost'
  BY <1>0 DEF WrittenInv, NothingLost, Here
<1> QED
  BY <1>1, <1>2, <1>3, <1>4, <1>5, <1>6 DEF Inv

\* The home is bound to the new key.
LEMMA WriteMarkerKeeps ==
    ASSUME Inv, WriteMarker
    PROVE  Inv'
<1> USE DEF WriteMarker, At, Go, Elsewhere, directory
<1>0. TypeOK /\ LockInv /\ ProgressInv /\ IdentityInv /\ DataInv /\ WrittenInv /\ NothingLost
  BY DEF Inv
<1>1. TypeOK'
  BY <1>0 DEF TypeOK, Step, Candidate
<1>2. LockInv'
  BY <1>0 DEF LockInv, Exclusive
<1>3. ProgressInv'
  BY <1>0 DEF ProgressInv, Preparing, Enrolling, Publishing
<1>4. IdentityInv'
  BY <1>0 DEF ProgressInv, IdentityInv, Publishing, Settled
<1>5. DataInv'
  BY <1>0 DEF DataInv, DataKey, Preparing, Settled, Archivable, Here, There
<1>6. WrittenInv' /\ NothingLost'
  BY <1>0 DEF WrittenInv, NothingLost, Here
<1> QED
  BY <1>1, <1>2, <1>3, <1>4, <1>5, <1>6 DEF Inv

\* The candidate is published.
LEMMA WriteConfigKeeps ==
    ASSUME Inv, WriteConfig
    PROVE  Inv'
<1> USE DEF WriteConfig, At, Go, Elsewhere, directory
<1>0. TypeOK /\ LockInv /\ ProgressInv /\ IdentityInv /\ DataInv /\ WrittenInv /\ NothingLost
  BY DEF Inv
<1>1. TypeOK'
  <2>1. config' \in Config
    BY <1>0 DEF TypeOK, ProgressInv, IdentityInv, Publishing, Config, Config
  <2>2. recovery' \in [at : Step, person : People]
    BY <1>0 DEF TypeOK, Step
  <2> QED
    BY <1>0, <2>1, <2>2 DEF TypeOK
<1>2. LockInv'
  BY <1>0 DEF LockInv, Exclusive
<1>3. ProgressInv'
  BY <1>0 DEF ProgressInv, Preparing, Enrolling, Publishing
<1>4. IdentityInv'
  BY <1>0 DEF TypeOK, ProgressInv, IdentityInv, Publishing, Settled
<1>5. DataInv'
  BY <1>0 DEF ProgressInv, DataInv, DataKey, Publishing, Settled, Archivable, Here, There
<1>6. WrittenInv' /\ NothingLost'
  BY <1>0 DEF WrittenInv, NothingLost, Here
<1> QED
  BY <1>1, <1>2, <1>3, <1>4, <1>5, <1>6 DEF Inv

\* The recovery is completed.
LEMMA SettleKeeps ==
    ASSUME Inv, Settle
    PROVE  Inv'
<1> USE DEF Settle, At, Go, Elsewhere, directory
<1>0. TypeOK /\ LockInv /\ ProgressInv /\ IdentityInv /\ DataInv /\ WrittenInv /\ NothingLost
  BY DEF Inv
<1>1. TypeOK'
  <2>1. journal' \in Journal
    BY <1>0 DEF TypeOK, Journal, Stage
  <2>2. recovery' \in [at : Step, person : People]
    BY <1>0 DEF TypeOK, Step
  <2>3. journal'.stage \notin {"publishing", "completed"} => journal'.archive_files = {}
    BY <1>0
  <2> QED
    BY <1>0, <2>1, <2>2, <2>3 DEF TypeOK
<1>2. LockInv'
  BY <1>0 DEF LockInv, Exclusive
<1>3. ProgressInv'
  BY <1>0 DEF ProgressInv, Preparing, Enrolling, Publishing
<1>4. IdentityInv'
  BY <1>0 DEF ProgressInv, IdentityInv, Settled
<1>5. DataInv'
  BY <1>0, OperationsAssumption DEF TypeOK, LockInv, ProgressInv, IdentityInv, DataInv,
     DataKey, Preparing, Settled, Journal
<1>6. WrittenInv' /\ NothingLost'
  BY <1>0 DEF WrittenInv, NothingLost, Here
<1> QED
  BY <1>1, <1>2, <1>3, <1>4, <1>5, <1>6 DEF Inv

-----------------------------------------------------------------------------
(* Faults *)

\* A recovery dies.
LEMMA RecoveryDiesKeeps ==
    ASSUME Inv, RecoveryDies
    PROVE  Inv'
<1> USE DEF RecoveryDies, Fault, Exclusive, At, Go, directory
<1>0. TypeOK /\ LockInv /\ ProgressInv /\ IdentityInv /\ DataInv /\ WrittenInv /\ NothingLost
  BY DEF Inv
<1>1. TypeOK'
  BY <1>0 DEF TypeOK, Step
<1>2. LockInv'
  BY <1>0 DEF LockInv
<1>3. ProgressInv'
  BY <1>0 DEF ProgressInv, Preparing, Enrolling, Publishing
<1>4. IdentityInv'
  BY <1>0 DEF IdentityInv, Settled
<1>5. DataInv'
  BY <1>0 DEF DataInv, DataKey, Preparing, Settled, Archivable, Here, There
<1>6. WrittenInv' /\ NothingLost'
  BY <1>0 DEF WrittenInv, NothingLost, Here
<1> QED
  BY <1>1, <1>2, <1>3, <1>4, <1>5, <1>6 DEF Inv

\* The challenge expires.
LEMMA ExpireKeeps ==
    ASSUME Inv, Expire
    PROVE  Inv'
<1> USE DEF Expire, At, Go, Elsewhere, directory
<1>0. TypeOK /\ LockInv /\ ProgressInv /\ IdentityInv /\ DataInv /\ WrittenInv /\ NothingLost
  BY DEF Inv
<1>1. TypeOK'
  <2>1. candidate' \in Candidate
    BY <1>0 DEF TypeOK, Candidate
  <2>2. recovery' \in [at : Step, person : People]
    BY <1>0 DEF TypeOK
  <2>3. candidate'.person # Nobody => candidate'.enrollment = "none"
    BY <1>0 DEF TypeOK
  <2> QED
    BY <1>0, <2>1, <2>2, <2>3 DEF TypeOK
<1>2. LockInv'
  BY <1>0 DEF LockInv, Settled, Exclusive
<1>3. ProgressInv'
  BY <1>0 DEF ProgressInv, Preparing, Enrolling, Publishing, Settled
<1>4. IdentityInv'
  BY <1>0 DEF IdentityInv, Settled
<1>5. DataInv'
  BY <1>0, OwnerAssumption DEF TypeOK, IdentityInv, DataInv, DataKey, Preparing, Settled
<1>6. WrittenInv' /\ NothingLost'
  BY <1>0 DEF WrittenInv, NothingLost, Here
<1> QED
  BY <1>1, <1>2, <1>3, <1>4, <1>5, <1>6 DEF Inv

\* The code is lost.
LEMMA LoseCodeKeeps ==
    ASSUME Inv, LoseCode
    PROVE  Inv'
<1> USE DEF LoseCode, Fault, At, Go, Elsewhere, directory
<1>0. TypeOK /\ LockInv /\ ProgressInv /\ IdentityInv /\ DataInv /\ WrittenInv /\ NothingLost
  BY DEF Inv
<1>1. TypeOK'
  <2>1. candidate' \in Candidate
    BY <1>0 DEF TypeOK, Candidate
  <2>2. recovery' \in [at : Step, person : People]
    BY <1>0 DEF TypeOK
  <2>3. candidate'.person # Nobody => candidate'.enrollment = "none"
    BY <1>0 DEF TypeOK
  <2> QED
    BY <1>0, <2>1, <2>2, <2>3 DEF TypeOK
<1>2. LockInv'
  BY <1>0 DEF LockInv, Settled, Exclusive
<1>3. ProgressInv'
  BY <1>0 DEF ProgressInv, Preparing, Enrolling, Publishing, Settled
<1>4. IdentityInv'
  BY <1>0 DEF IdentityInv, Settled
<1>5. DataInv'
  BY <1>0 DEF DataInv, DataKey, Preparing, Settled, Archivable, Here, There
<1>6. WrittenInv' /\ NothingLost'
  BY <1>0 DEF WrittenInv, NothingLost, Here
<1> QED
  BY <1>1, <1>2, <1>3, <1>4, <1>5, <1>6 DEF Inv

-----------------------------------------------------------------------------
(* The theorems *)

\* The first installation satisfies the invariant.
LEMMA InitInv == Init => Inv
<1> SUFFICES ASSUME Init PROVE Inv
  OBVIOUS
<1> USE OwnerAssumption, OperationsAssumption DEF Init
<1>1. TypeOK
  BY DEF TypeOK, Config, Journal, Stage, Candidate, Step
<1>2. LockInv /\ ProgressInv /\ IdentityInv
  BY DEF LockInv, ProgressInv, IdentityInv, Preparing, Enrolling, Publishing, Settled, At
<1>3. DataInv /\ WrittenInv /\ NothingLost
  BY DEF DataInv, WrittenInv, NothingLost, Here, Preparing, Settled
<1> QED
  BY <1>1, <1>2, <1>3 DEF Inv

\* Steps that change nothing keep the invariant.
LEMMA StutterKeeps == Inv /\ UNCHANGED vars => Inv'
BY DEF Inv, TypeOK, LockInv, ProgressInv, IdentityInv, DataInv, WrittenInv, NothingLost,
   vars, directory, Preparing, Enrolling, Publishing, Settled, Exclusive, At, DataKey,
   Archivable, Here, There

\* Every step of a command, of a recovery or of a fault keeps the invariant.
LEMMA NextKeeps == Inv /\ [Next]_vars => Inv'
<1> SUFFICES ASSUME Inv, [Next]_vars PROVE Inv'
  OBVIOUS
<1>1. ASSUME NEW p \in Commands, Begin(p) \/ CommandStep(p) \/ CommandDies(p) PROVE Inv'
  BY <1>1, BeginKeeps, WriteKeeps, FinishKeeps, EndKeeps, CommandDiesKeeps DEF CommandStep
<1>2. CASE StartNew \/ Resume \/ Cancel
  BY <1>2, StartNewKeeps, ResumeKeeps, CancelKeeps
<1>3. CASE RecoveryStep
  <2>1. CASE Prepare
    BY <2>1, WriteOriginalKeeps, WriteCandidateKeeps, WriteJournalKeeps DEF Prepare
  <2>2. CASE Enroll
    BY <2>2, AlreadyEnrolledKeeps, RequestEnrollmentKeeps, WriteMetadataKeeps,
       UseEnrollmentKeeps, CompleteKeeps, WriteEnrolledKeeps DEF Enroll
  <2>3. CASE CheckOwner \/ Verify \/ Checkpoint
    BY <2>3, CheckOwnerKeeps, VerifyKeeps, CheckpointKeeps
  <2>4. CASE Publish
    BY <2>4, ArchiveKeeps, ArchivedKeeps, WriteMarkerKeeps, WriteConfigKeeps,
       SettleKeeps DEF Publish
  <2> QED
    BY <1>3, <2>1, <2>2, <2>3, <2>4 DEF RecoveryStep
<1>4. CASE RecoveryDies \/ Expire \/ LoseCode
  BY <1>4, RecoveryDiesKeeps, ExpireKeeps, LoseCodeKeeps
<1>5. CASE UNCHANGED vars
  BY <1>5, StutterKeeps
<1> QED
  BY <1>1, <1>2, <1>3, <1>4, <1>5 DEF Next

\* The invariant of a recovery holds in every state.
THEOREM Invariant == Spec => []Inv
BY InitInv, NextKeeps, PTL DEF Spec

\* The files always have the values their validators accept
\* (identity_recovery.py, _context).
THEOREM TypeCorrect == Spec => []TypeOK
<1>1. Inv => TypeOK
  BY DEF Inv
<1> QED
  BY <1>1, Invariant, PTL

\* However recoveries, commands and deaths are interleaved, a command sees one
\* identity and its data from its start to the end of its monitoring
\* (identity_recovery.py, identity_command).
THEOREM OneIdentityCorrect == Spec => []OneIdentity
<1>1. Inv => OneIdentity
  <2> SUFFICES ASSUME Inv, NEW p \in Commands, command[p].at # "idle"
               PROVE  /\ config.key = command[p].key
                      /\ marker = command[p].key
                      /\ \A n \in Databases : database[n] \in {NoData, command[p].key}
    BY DEF OneIdentity
  <2>1. command[p].key = config.key /\ Settled
    BY DEF Inv, LockInv
  <2>2. marker = config.key /\ DataKey = config.key
    BY <2>1 DEF Inv, IdentityInv, Settled, DataKey
  <2> QED
    BY <2>1, <2>2 DEF Inv, DataInv
<1> QED
  BY <1>1, Invariant, PTL

\* Wherever a recovery dies, what it leaves on disk is accepted by the next one
\* (identity_recovery.py, _context and _archive).
THEOREM ResumableCorrect == Spec => []Resumable
<1>1. Inv => Resumable
  <2> SUFFICES ASSUME Inv PROVE Resumable
    OBVIOUS
  <2>1. journal.stage = "publishing" => Archivable
    BY DEF Inv, DataInv
  <2>2. ASSUME ~Settled PROVE Context
    <3>1. /\ config \in Config /\ original \in Config /\ candidate \in Candidate
          /\ journal \in Journal
      BY DEF Inv, TypeOK
    <3>2. /\ candidate.key = operations /\ journal.new = operations
          /\ original.key = journal.old /\ original.person = Owner /\ journal.person = Owner
          /\ journal.old < operations /\ config.person = Owner /\ operations \in Nat
      BY <2>2 DEF Inv, IdentityInv, TypeOK
    <3>3. journal.stage \in {"enrolling", "owner_mismatch", "publishing"}
      BY <2>2, <3>1 DEF Settled, Journal, Stage
    <3>4. CASE journal.stage = "publishing"
      <4>1. /\ candidate.person = Owner
            /\ config.key \in {journal.old, operations} /\ marker \in {journal.old, operations}
        BY <3>4 DEF Inv, IdentityInv
      <4>2. config \in {original, [key |-> candidate.key, person |-> candidate.person]}
        BY <3>1, <3>2, <4>1 DEF Config
      <4> QED
        BY <3>1, <3>2, <3>4, <4>1, <4>2 DEF Context
    <3>5. CASE journal.stage \in {"enrolling", "owner_mismatch"}
      <4>1. config.key = journal.old /\ marker = journal.old
        BY <3>5 DEF Inv, IdentityInv
      <4>2. config = original
        BY <3>1, <3>2, <4>1, ConfigFields
      <4> QED
        BY <3>1, <3>2, <3>5, <4>1, <4>2 DEF Context
    <3> QED
      BY <3>3, <3>4, <3>5
  <2> QED
    BY <2>1, <2>2 DEF Resumable
<1> QED
  BY <1>1, Invariant, PTL

\* No interruption of a recovery loses or duplicates data that commands wrote
\* (identity_recovery.py, _archive).
THEOREM NothingLostCorrect == Spec => []NothingLost
<1>1. Inv => NothingLost
  BY DEF Inv
<1> QED
  BY <1>1, Invariant, PTL

\* Whoever approves an enrollment, the installation stays its owner's
\* (identity_recovery.py, re_enroll).
THEOREM SamePersonCorrect == Spec => []SamePerson
<1>1. Inv => SamePerson
  BY DEF Inv, IdentityInv, SamePerson
<1> QED
  BY <1>1, Invariant, PTL

-----------------------------------------------------------------------------
(* The recovery as one step of the installation's identity *)

Seen == <<KeyInUse, OwnerInUse, Users, DataInUse, Retained>>

\* Steps that neither move data, publish, nor start or end a command change
\* nothing that commands see.
LEMMA QuietStep ==
    ASSUME UNCHANGED <<config, database, archive>>, Users' = Users,
           journal' = journal \/ (~Undone /\ ~Undone')
    PROVE  UNCHANGED Seen
<1>1. CASE journal' = journal
  BY <1>1 DEF Seen, KeyInUse, OwnerInUse, DataInUse, Retained, Undone, There
<1>2. CASE ~Undone /\ ~Undone'
  BY <1>2 DEF Seen, KeyInUse, OwnerInUse, DataInUse, Retained
<1> QED
  BY <1>1, <1>2

\* While a command runs, no recovery is at work or waits to be resumed.
LEMMA InUse ==
    ASSUME Inv, NEW p \in Users
    PROVE  ~Undone /\ KeyInUse = config.key /\ command[p].key = config.key
BY DEF Inv, LockInv, Users, Settled, Undone, KeyInUse

\* While a recovery is at work, no command runs.
LEMMA Excluded ==
    ASSUME Inv, Exclusive
    PROVE  Users = {}
BY DEF Inv, LockInv, Users

\* A command begins.
LEMMA BeginMaps ==
    ASSUME Inv, NEW p \in Commands, Begin(p)
    PROVE  Identity!Enter(p)
<1>1. p \notin Users /\ Users' = Users \cup {p}
  BY DEF Inv, TypeOK, Begin, Users
<1>2. UNCHANGED <<KeyInUse, OwnerInUse, DataInUse, Retained>>
  BY DEF Begin, directory, KeyInUse, OwnerInUse, DataInUse, Retained, Undone, There
<1> QED
  BY <1>1, <1>2 DEF Identity!Enter

\* A command ends, or dies.
LEMMA LeaveMaps ==
    ASSUME Inv, NEW p \in Commands, End(p) \/ CommandDies(p)
    PROVE  Identity!Leave(p)
<1>1. p \in Users /\ Users' = Users \ {p}
  BY DEF Inv, TypeOK, End, CommandDies, Users
<1>2. UNCHANGED <<KeyInUse, OwnerInUse, DataInUse, Retained>>
  BY DEF End, CommandDies, directory, KeyInUse, OwnerInUse, DataInUse, Retained, Undone, There
<1> QED
  BY <1>1, <1>2 DEF Identity!Leave

\* A command's monitoring is still the command's.
LEMMA FinishMaps ==
    ASSUME Inv, NEW p \in Commands, Finish(p)
    PROVE  UNCHANGED Seen
<1>1. Users' = Users
  BY DEF Inv, TypeOK, Finish, Users
<1> QED
  BY <1>1, QuietStep DEF Finish, directory

\* A command writes under the key of the installation.
LEMMA WriteMaps ==
    ASSUME Inv, NEW p \in Commands, NEW n \in Databases, Write(p, n)
    PROVE  Identity!Write(p, n)
<1>1. p \in Users /\ Users' = Users
  BY DEF Inv, TypeOK, Write, Users
<1>2. ~Undone /\ ~Undone' /\ command[p].key = KeyInUse
  BY <1>1, InUse DEF Write, Undone
<1>3. DataInUse = [m \in Databases |-> database[m]]
      /\ DataInUse' = [m \in Databases |-> database'[m]]
  BY <1>2 DEF DataInUse
<1>4. DataInUse' = [DataInUse EXCEPT ![n] = KeyInUse]
  BY <1>2, <1>3 DEF Write, Inv, TypeOK
<1>5. UNCHANGED <<KeyInUse, OwnerInUse, Retained>>
  BY DEF Write, KeyInUse, OwnerInUse, Retained, Undone
<1> QED
  BY <1>1, <1>4, <1>5 DEF Identity!Write

\* The decision to publish: the journal holds the old identity, and nothing is
\* in the archive yet.
LEMMA CheckpointMaps ==
    ASSUME Inv, Checkpoint
    PROVE  UNCHANGED Seen
<1>1. Users' = Users /\ UNCHANGED <<config, database, archive>>
  BY DEF Checkpoint, Elsewhere, Users
<1>2. CASE UNCHANGED journal
  BY <1>1, <1>2, QuietStep
<1>3. CASE journal' = [journal EXCEPT !.stage = "publishing", !.archive_files = Existing]
  <2>1. journal \in Journal /\ journal.stage = "enrolling"
    BY DEF Inv, TypeOK, ProgressInv, Enrolling, Checkpoint, At
  <2>2. ~Undone /\ Undone' /\ journal'.operation = operations
        /\ journal'.old = config.key /\ journal'.person = config.person
    BY <1>3, <2>1 DEF Inv, IdentityInv, Settled, Undone, Journal
  <2>3. \A n \in Databases : archive[operations][n] = NoData
    BY <2>1 DEF Inv, DataInv, Settled
  <2>4. \A n \in Databases : ~There(n)'
    BY <1>1, <2>2, <2>3 DEF There
  <2>5. UNCHANGED <<KeyInUse, OwnerInUse, DataInUse>>
    BY <1>1, <2>2, <2>4 DEF KeyInUse, OwnerInUse, DataInUse
  <2>6. Retained' = Retained
    BY <1>1, <2>2, <2>3 DEF Retained
  <2> QED
    BY <1>1, <2>5, <2>6 DEF Seen
<1> QED
  BY <1>2, <1>3 DEF Checkpoint

\* The database that goes to the archive is still seen.
LEMMA ArchiveMaps ==
    ASSUME Inv, NEW n \in Databases, Archive(n)
    PROVE  UNCHANGED Seen
<1>1. /\ Users' = Users /\ UNCHANGED <<config, journal>>
      /\ archive' = [archive EXCEPT ![journal.operation][n] = database[n]]
      /\ database' = [database EXCEPT ![n] = NoData]
      /\ Here(n) /\ ~There(n)
  BY DEF Archive, Archivable, Moved, Elsewhere, Users
<1>2. journal.stage = "publishing" /\ Undone /\ Undone'
  BY <1>1 DEF Inv, ProgressInv, Publishing, Archive, At, Undone
<1>3. journal.operation \in Operations
  BY <1>2 DEF Inv, IdentityInv, Settled
<1>4. \A m \in Databases : /\ m # n => database'[m] = database[m]
                                      /\ archive'[journal.operation][m] = archive[journal.operation][m]
                           /\ m = n => database'[m] = NoData
                                      /\ archive'[journal.operation][m] = database[m]
  BY <1>1, <1>3 DEF Inv, TypeOK
<1>5. DataInUse' = DataInUse
  BY <1>1, <1>2, <1>4 DEF DataInUse, Here, There
<1>6. \A o \in Operations \ {journal.operation} : archive'[o] = archive[o]
  BY <1>1, <1>3 DEF Inv, TypeOK
<1>7. Retained' = Retained
  BY <1>1, <1>2, <1>6 DEF Retained
<1> QED
  BY <1>1, <1>2, <1>5, <1>7 DEF Seen, KeyInUse, OwnerInUse

\* With the journal, everything changes at once.
LEMMA SettleMaps ==
    ASSUME Inv, Settle
    PROVE  Identity!Replace
<1>1. /\ journal' = [journal EXCEPT !.stage = "completed"]
      /\ UNCHANGED <<config, database, archive>> /\ Users' = Users
  BY DEF Settle, Elsewhere, Users
<1>2. /\ journal \in Journal /\ journal.stage = "publishing"
      /\ config.key = candidate.key
      /\ \A n \in Databases : database[n] = NoData
  BY DEF Inv, TypeOK, ProgressInv, Publishing, Settle, At
<1>3. Undone /\ ~Undone'
  BY <1>1, <1>2 DEF Undone, Journal
<1>4. /\ journal.operation \in Operations /\ candidate.key = operations
      /\ journal.old < operations /\ journal.person = Owner /\ config.person = Owner
  BY <1>2 DEF Inv, IdentityInv, Settled
<1>5. Users = {}
  BY Excluded DEF Settle, At, Exclusive
<1>6. KeyInUse' > KeyInUse /\ OwnerInUse' = OwnerInUse
  BY <1>1, <1>2, <1>3, <1>4 DEF KeyInUse, OwnerInUse
<1>7. DataInUse' = [n \in Databases |-> NoData]
  BY <1>1, <1>2, <1>3 DEF DataInUse
<1>8. \A n \in Databases : DataInUse[n] = archive[journal.operation][n]
  BY <1>2, <1>3 DEF DataInUse, There
<1>9. Retained' = Retained \cup Identity!Written
  BY <1>1, <1>3, <1>4, <1>8 DEF Retained, Identity!Written
<1> QED
  BY <1>1, <1>5, <1>6, <1>7, <1>9 DEF Identity!Replace

\* Every other step of a recovery is seen by no command.
LEMMA HiddenSteps ==
    ASSUME Inv,
           \/ StartNew \/ Resume \/ Cancel \/ Prepare \/ Enroll \/ CheckOwner \/ Verify
           \/ Archived \/ WriteMarker \/ RecoveryDies \/ Expire \/ LoseCode
    PROVE  UNCHANGED Seen
<1>1. UNCHANGED <<config, database, archive, command>>
  BY DEF StartNew, Resume, Cancel, Prepare, WriteOriginal, WriteCandidate, WriteJournal,
     Enroll, AlreadyEnrolled, RequestEnrollment, WriteMetadata, UseEnrollment, Complete,
     WriteEnrolled, CheckOwner, Verify, Archived, WriteMarker, RecoveryDies, Expire, LoseCode,
     Elsewhere, directory
<1>2. journal' = journal \/ WriteJournal \/ Cancel \/ CheckOwner
  BY DEF StartNew, Resume, Prepare, WriteOriginal, WriteCandidate,
     Enroll, AlreadyEnrolled, RequestEnrollment, WriteMetadata, UseEnrollment, Complete,
     WriteEnrolled, Verify, Archived, WriteMarker, RecoveryDies, Expire, LoseCode,
     Elsewhere, directory
<1>3. journal \in Journal
  BY DEF Inv, TypeOK
<1>4. ASSUME WriteJournal PROVE ~Undone /\ ~Undone'
  BY <1>4 DEF WriteJournal, Inv, ProgressInv, Preparing, Settled, At, Undone
<1>5. ASSUME Cancel PROVE ~Undone /\ ~Undone'
  BY <1>3, <1>5 DEF Cancel, Undone, Journal
<1>6. ASSUME CheckOwner PROVE ~Undone /\ ~Undone'
  BY <1>3, <1>6 DEF CheckOwner, Inv, ProgressInv, Enrolling, At, Undone, Journal
<1> QED
  BY <1>1, <1>2, <1>4, <1>5, <1>6, QuietStep DEF Users

\* The configuration is published while the journal still holds the old one.
LEMMA WriteConfigMaps ==
    ASSUME Inv, WriteConfig
    PROVE  UNCHANGED Seen
<1>1. Undone /\ UNCHANGED <<journal, database, archive>> /\ Users' = Users
  BY DEF WriteConfig, Inv, ProgressInv, Publishing, At, Undone, Elsewhere, Users
<1> QED
  BY <1>1 DEF Seen, KeyInUse, OwnerInUse, DataInUse, Retained, Undone, There

\* Every step is a step of the installation's identity, or none.
LEMMA NextMaps == Inv /\ [Next]_vars => [Identity!Next]_Seen
<1> SUFFICES ASSUME Inv, [Next]_vars PROVE Identity!Next \/ UNCHANGED Seen
  OBVIOUS
<1>1. ASSUME NEW p \in Commands, Begin(p) \/ CommandStep(p) \/ CommandDies(p)
      PROVE  Identity!Next \/ UNCHANGED Seen
  <2>1. CASE Begin(p)
    BY <2>1, BeginMaps DEF Identity!Next
  <2>2. CASE End(p) \/ CommandDies(p)
    BY <2>2, LeaveMaps DEF Identity!Next
  <2>3. CASE Finish(p)
    BY <2>3, FinishMaps
  <2>4. ASSUME NEW n \in Databases, Write(p, n) PROVE Identity!Next
    BY <2>4, WriteMaps DEF Identity!Next
  <2> QED
    BY <1>1, <2>1, <2>2, <2>3, <2>4 DEF CommandStep
<1>2. CASE StartNew \/ Resume \/ Cancel \/ RecoveryDies \/ Expire \/ LoseCode
  BY <1>2, HiddenSteps
<1>3. CASE RecoveryStep
  <2>1. CASE Prepare \/ Enroll \/ CheckOwner \/ Verify \/ Archived \/ WriteMarker
    BY <2>1, HiddenSteps
  <2>2. CASE Checkpoint
    BY <2>2, CheckpointMaps
  <2>3. ASSUME NEW n \in Databases, Archive(n) PROVE UNCHANGED Seen
    BY <2>3, ArchiveMaps
  <2>4. CASE WriteConfig
    BY <2>4, WriteConfigMaps
  <2>5. CASE Settle
    BY <2>5, SettleMaps DEF Identity!Next
  <2> QED
    BY <1>3, <2>1, <2>2, <2>3, <2>4, <2>5 DEF RecoveryStep, Publish
<1>4. CASE UNCHANGED vars
  <2>1. Users' = Users
    BY <1>4 DEF vars, Users
  <2> QED
    BY <1>4, <2>1, QuietStep DEF vars, directory
<1> QED
  BY <1>1, <1>2, <1>3, <1>4 DEF Next

\* To its commands the installation changes its identity in one step, wherever
\* a recovery dies and however often it is resumed (identity_recovery.py,
\* re_enroll and identity_command).
THEOREM IdentityImplemented == Spec => ImplementsIdentity
<1>1. Init => Identity!Init
  <2> SUFFICES ASSUME Init PROVE Identity!Init
    OBVIOUS
  <2>1. ~Undone /\ Users = {}
    BY DEF Init, Undone, Users
  <2>2. Retained = {}
    BY DEF Init, Retained
  <2>3. KeyInUse = 0 /\ OwnerInUse = Owner /\ DataInUse = [n \in Databases |-> NoData]
    BY <2>1 DEF Init, KeyInUse, OwnerInUse, DataInUse
  <2> QED
    BY <2>1, <2>2, <2>3 DEF Identity!Init
<1>2. Inv /\ [Next]_vars => [Identity!Next]_<<KeyInUse, OwnerInUse, Users, DataInUse, Retained>>
  BY NextMaps DEF Seen
<1> QED
  BY <1>1, <1>2, Invariant, PTL DEF Spec, ImplementsIdentity, Identity!Spec
==============================================================================
