-------------------------- MODULE PersonaSyncProofs --------------------------
(***************************************************************************)
(* Proofs about PersonaSync, for every number of devices, files, contents  *)
(* and every value of the bounds.                                          *)
(***************************************************************************)
EXTENDS PersonaSync, SequenceTheorems, TLAPS

\* Every revision a receipt, a decision or a running process names exists.
KnownRevisions ==
    /\ Len(record) = Len(rows)
    /\ \A u \in DOMAIN record :
        record[u].revision <= head /\ record[u].resolvedRevision <= head
    /\ \A d \in Devices :
        /\ call[d].revision <= head
        /\ call[d].at = "replied" => call[d].update \in Ids

IInv == TypeOK /\ KnownRevisions /\ BaselineIsHistory

----------------------------------------------------------------------------
\* A function on an initial segment of the naturals is a sequence.
LEMMA SegmentIsSeq ==
    ASSUME NEW S, NEW n \in Nat, NEW f \in [1..n -> S]
    PROVE  f \in Seq(S) /\ Len(f) = n
PROOF
<1>1. f \in Seq(S)
    OBVIOUS
<1>2. DOMAIN f = 1..n
    OBVIOUS
<1> QED
    BY <1>1, <1>2, LenProperties

\* Restricting files to some paths yields the changes of an update.
LEMMA RestrictedType ==
    ASSUME NEW f \in Changes, NEW S
    PROVE  Restricted(f, S) \in Changes
BY DEF Restricted, Changes

\* Contents are a possible value of changes.
LEMMA FilesAreChanges == Files \subseteq Changes
BY DEF Files, Changes

\* Overlaying contents on files yields files.
LEMMA OverlayType ==
    ASSUME NEW S, NEW f, NEW g \in Files, \A p \in S \cap Paths : f[p] \in Contents
    PROVE  Overlay(S, f, g) \in Files
BY DEF Overlay, Files

\* The contents of an existing revision are files.
LEMMA RemoteType ==
    ASSUME TypeOK, NEW r \in 0..head
    PROVE  Remote(r) \in Files
BY DEF TypeOK, Remote, ContentsOf, Files, Snapshot, FileVersion

\* Publishing a revision leaves every earlier one as it was.
LEMMA PublishKeepsHistory ==
    ASSUME TypeOK, NEW changes \in Changes, Publish(changes)
    PROVE  /\ head' = head + 1
           /\ history' \in [0..head' -> Snapshot]
           /\ \A r \in 0..head : Remote(r)' = Remote(r)
PROOF
<1>1. head \in Nat /\ history[head] \in Snapshot
    BY DEF TypeOK
<1>2. applyChanges(changes) \in Snapshot
    BY <1>1, ContentAssumption DEF applyChanges, Snapshot, FileVersion, Sent, Changes
<1>3. history' = [r \in 0..(head + 1) |-> IF r <= head THEN history[r] ELSE applyChanges(changes)]
    BY DEF Publish
<1>4. \A r \in 0..head : history[r] \in Snapshot
    BY DEF TypeOK
<1>5. history' \in [0..(head + 1) -> Snapshot]
    BY <1>1, <1>2, <1>3, <1>4
<1>6. \A r \in 0..head : history'[r] = history[r]
    BY <1>1, <1>3
<1> QED
    BY <1>5, <1>6 DEF Publish, Remote

\* Marking rows changes no row's payload.
LEMMA MarkedType ==
    ASSUME TypeOK, NEW done, NEW resolved
    PROVE  Marked(done, resolved) \in Seq(Row) /\ Len(Marked(done, resolved)) = Len(rows)
PROOF
<1>1. rows \in Seq(Row) /\ DOMAIN rows = 1..Len(rows) /\ Len(rows) \in Nat
    BY DEF TypeOK
<1>2. \A u \in 1..Len(rows) : rows[u] \in Row
    BY <1>1
<1>3. Marked(done, resolved) \in [1..Len(rows) -> Row]
    BY <1>1, <1>2 DEF Marked, Ids, Row, Status
<1> QED
    BY <1>1, <1>3, SegmentIsSeq

\* A queued row is well formed and the server has no record of it yet.
LEMMA QueueRowType ==
    ASSUME TypeOK, KnownRevisions,
           NEW d \in Devices, NEW base \in Nat, NEW changes \in Changes, NEW resolves \in Nat,
           NEW expected \in Changes, QueueRow(d, base, changes, resolves, expected)
    PROVE  /\ rows' \in Seq(Row) /\ record' \in Seq(Record)
           /\ Len(rows') = Len(rows) + 1 /\ Len(record') = Len(rows')
           /\ head \in Nat
           /\ \A u \in DOMAIN record' :
               record'[u].revision <= head /\ record'[u].resolvedRevision <= head
PROOF
<1>1. [owner |-> d, base |-> base, changes |-> changes, resolves |-> resolves,
       expected |-> expected, basis |-> basis[d], status |-> "pending"] \in Row
    BY DEF Row, Status, TypeOK
<1>2. NoRecord \in Record
    BY DEF NoRecord, Record
<1>3. rows \in Seq(Row) /\ record \in Seq(Record) /\ head \in Nat
    BY DEF TypeOK
<1>4. rows' \in Seq(Row) /\ Len(rows') = Len(rows) + 1
    BY <1>1, <1>3 DEF QueueRow
<1>5. record' \in Seq(Record) /\ Len(record') = Len(record) + 1
    BY <1>2, <1>3 DEF QueueRow
<1>6. \A u \in DOMAIN record' :
        record'[u].revision <= head /\ record'[u].resolvedRevision <= head
    BY <1>3 DEF QueueRow, KnownRevisions, NoRecord
<1> QED
    BY <1>3, <1>4, <1>5, <1>6 DEF KnownRevisions

----------------------------------------------------------------------------
\* A process moves to a place at which it holds no reply; nothing else changes
\* but the counters of the bounds.
LEMMA CallStep ==
    ASSUME IInv, NEW d \in Devices, NEW c \in Call, c.revision <= head, c.at # "replied",
           call' = [call EXCEPT ![d] = c],
           UNCHANGED <<serverVars, clientVars, reported>>,
           edits' \in Nat, faults' \in Nat, decisions' \in Nat
    PROVE  IInv'
PROOF
<1>1. TypeOK'
    BY DEF IInv, TypeOK, serverVars, clientVars
<1>2. KnownRevisions'
    BY DEF IInv, TypeOK, KnownRevisions, Ids, serverVars, clientVars, Call
<1>3. BaselineIsHistory'
    BY DEF IInv, BaselineIsHistory, Remote, serverVars, clientVars
<1> QED
    BY <1>1, <1>2, <1>3 DEF IInv

\* An apply is journaled towards an existing revision that is not an older one.
LEMMA StartApplyStep ==
    ASSUME IInv, NEW d \in Devices, NEW j \in Journal, StartApply(d, j),
           j.revision \in revision[d]..head, j.baseline = Remote(j.revision),
           UNCHANGED <<serverVars, files, revision, baseline, rows, retained, ack, reported,
                       basis, edits, faults>>,
           backups' \in [Devices -> SUBSET Files], decisions' \in Nat
    PROVE  IInv'
PROOF
<1>0. /\ journal' = [journal EXCEPT ![d] = {j}] /\ call' = [call EXCEPT ![d] = At("journaled")]
      /\ At("journaled") \in Call /\ At("journaled").at = "journaled"
      /\ At("journaled").revision = 0
    BY DEF StartApply, At, Idle, Call, Place, Answer
<1>1. TypeOK'
    BY <1>0 DEF IInv, TypeOK, serverVars
<1>2. KnownRevisions'
    BY <1>0 DEF IInv, TypeOK, KnownRevisions, Ids, serverVars, Call
<1>3. BaselineIsHistory'
    BY <1>0 DEF IInv, TypeOK, BaselineIsHistory, Remote, serverVars
<1> QED
    BY <1>1, <1>2, <1>3 DEF IInv

\* Rows are marked or queued; server revisions, files and applies do not change.
LEMMA RowStep ==
    ASSUME IInv, rows' \in Seq(Row), record' \in Seq(Record),
           Len(rows') >= Len(rows), Len(record') = Len(rows'),
           \A u \in DOMAIN record' :
               record'[u].revision <= head /\ record'[u].resolvedRevision <= head,
           call' \in [Devices -> Call],
           \A d \in Devices : call'[d] = call[d] \/ call'[d] = Idle,
           retained' \in [Devices -> BOOLEAN], decisions' \in Nat,
           basis' = basis \/ basis' \in [Devices -> Files],
           UNCHANGED <<head, history, files, revision, baseline, journal, ack, reported,
                       backups, edits, faults>>
    PROVE  IInv'
PROOF
<1>0. basis' \in [Devices -> Files]
    BY DEF IInv, TypeOK
<1>1. TypeOK'
    BY <1>0 DEF IInv, TypeOK
<1>2. Ids \subseteq Ids'
    BY LenProperties DEF IInv, TypeOK, Ids
<1>3. Idle.revision = 0 /\ Idle.at = "idle" /\ head \in Nat
    BY DEF Idle, IInv, TypeOK
<1>4. KnownRevisions'
    BY <1>2, <1>3 DEF IInv, KnownRevisions, Ids
<1>5. BaselineIsHistory'
    BY DEF IInv, BaselineIsHistory, Remote
<1> QED
    BY <1>1, <1>4, <1>5 DEF IInv

----------------------------------------------------------------------------
\* The invariant holds initially.
LEMMA InitIInv == Init => IInv
PROOF
<1> SUFFICES ASSUME Init PROVE IInv
    OBVIOUS
<1>1. head = 0 /\ history = [r \in {0} |-> [p \in Paths |-> [content |-> Absent, revision |-> 0]]]
      /\ record = <<>> /\ rows = <<>>
    BY DEF Init, ServerInit
<1>2. history \in [0..head -> Snapshot] /\ Remote(0) = [p \in Paths |-> Absent]
    BY <1>1, ContentAssumption DEF Snapshot, FileVersion, Remote, ContentsOf
<1>3. Idle \in Call /\ Idle.at = "idle" /\ Idle.revision = 0
    BY DEF Idle, Call, Place, Answer
<1>4. [p \in Paths |-> Absent] \in Files
    BY ContentAssumption DEF Files
<1>5. TypeOK
  <2>1. /\ files \in [Devices -> Files] /\ baseline \in [Devices -> Files]
        /\ basis \in [Devices -> Files]
    BY <1>4 DEF Init
  <2>2. /\ revision \in [Devices -> Nat] /\ journal \in [Devices -> SUBSET Journal]
        /\ retained \in [Devices -> BOOLEAN] /\ ack \in [Devices -> SUBSET Nat]
        /\ reported \in [Devices -> SUBSET Nat] /\ backups \in [Devices -> SUBSET Files]
    BY DEF Init
  <2>3. call \in [Devices -> Call] /\ edits \in Nat /\ faults \in Nat /\ decisions \in Nat
    BY <1>3 DEF Init
  <2>4. head \in Nat /\ record \in Seq(Record) /\ rows \in Seq(Row)
    BY <1>1
  <2> QED
    BY <1>2, <2>1, <2>2, <2>3, <2>4 DEF TypeOK
<1>6. KnownRevisions
    BY <1>1, <1>3 DEF Init, KnownRevisions, Ids
<1>7. BaselineIsHistory
    BY <1>1, <1>2 DEF Init, BaselineIsHistory
<1> QED
    BY <1>5, <1>6, <1>7 DEF IInv

----------------------------------------------------------------------------
\* An edit (the Agent, the CLI) changes the files of one environment only.
LEMMA EditStep ==
    ASSUME IInv, NEW d \in Devices, NEW p \in Paths, NEW c \in Contents, Edit(d, p, c)
    PROVE  IInv'
PROOF
<1>1. TypeOK'
    BY DEF Edit, IInv, TypeOK, Files, serverVars
<1>2. KnownRevisions'
    BY DEF Edit, IInv, KnownRevisions, Ids, serverVars
<1>3. BaselineIsHistory'
    BY DEF Edit, IInv, BaselineIsHistory, Remote, serverVars
<1> QED
    BY <1>1, <1>2, <1>3 DEF IInv

\* What an environment would send now is a possible payload.
LEMMA LocalChangesType ==
    ASSUME TypeOK, NEW d \in Devices
    PROVE  LocalChanges(d) \in Changes /\ NoChanges \in Changes
BY DEF TypeOK, LocalChanges, NoChanges, Changes, Files

\* A session checkpoint changes the retained flag and may queue a row.
LEMMA CheckpointStep ==
    ASSUME IInv, NEW d \in Devices, Checkpoint(d)
    PROVE  IInv'
PROOF
<1>0. TypeOK /\ KnownRevisions /\ revision[d] \in Nat
    BY DEF IInv, TypeOK
<1>1. CASE CheckpointQueue(d)
    <2>1. /\ rows' \in Seq(Row) /\ record' \in Seq(Record)
          /\ Len(rows') = Len(rows) + 1 /\ Len(record') = Len(rows')
          /\ \A u \in DOMAIN record' :
              record'[u].revision <= head /\ record'[u].resolvedRevision <= head
        BY <1>0, <1>1, LocalChangesType, QueueRowType, 0 \in Nat DEF CheckpointQueue
    <2>2. Len(rows) \in Nat
        BY <1>0, LenProperties DEF TypeOK
    <2>3. /\ call' = call /\ retained' \in [Devices -> BOOLEAN] /\ decisions' \in Nat
          /\ call' \in [Devices -> Call]
        BY <1>0, <1>1 DEF CheckpointQueue, TypeOK, bounds
    <2> QED
        BY <1>1, <2>1, <2>2, <2>3, RowStep DEF CheckpointQueue, bounds
<1>2. CASE CheckpointOpen(d) \/ CheckpointClean(d)
    <2>1. /\ rows' = rows /\ record' = record /\ call' = call /\ decisions' = decisions
          /\ retained' \in [Devices -> BOOLEAN]
        BY <1>0, <1>2 DEF CheckpointOpen, CheckpointClean, TypeOK, serverVars, bounds
    <2>2. /\ rows' \in Seq(Row) /\ record' \in Seq(Record) /\ Len(rows) \in Nat
          /\ call' \in [Devices -> Call] /\ decisions' \in Nat
        BY <1>0, <2>1, LenProperties DEF TypeOK
    <2>3. /\ Len(record') = Len(rows')
          /\ \A u \in DOMAIN record' :
              record'[u].revision <= head /\ record'[u].resolvedRevision <= head
        BY <1>0, <2>1 DEF KnownRevisions
    <2> QED
        BY <1>2, <2>1, <2>2, <2>3, RowStep
           DEF CheckpointOpen, CheckpointClean, serverVars, bounds
<1> QED
    BY <1>1, <1>2 DEF Checkpoint

\* Queueing local changes adds a well-formed row.
LEMMA QueueStep ==
    ASSUME IInv, NEW d \in Devices, Queue(d)
    PROVE  IInv'
PROOF
<1>0. TypeOK /\ KnownRevisions /\ revision[d] \in Nat
    BY DEF IInv, TypeOK
<1>1. /\ rows' \in Seq(Row) /\ record' \in Seq(Record)
      /\ Len(rows') = Len(rows) + 1 /\ Len(record') = Len(rows')
      /\ \A u \in DOMAIN record' :
          record'[u].revision <= head /\ record'[u].resolvedRevision <= head
    BY <1>0, LocalChangesType, QueueRowType, 0 \in Nat DEF Queue
<1>2. Len(rows) \in Nat /\ call' = call /\ call' \in [Devices -> Call]
      /\ retained' \in [Devices -> BOOLEAN] /\ decisions' \in Nat
    BY <1>0, LenProperties DEF TypeOK, Queue, bounds
<1> QED
    BY <1>1, <1>2, RowStep DEF Queue, bounds

\* Queueing the owner's decision adds rows whose base exists.
LEMMA ResolveStep ==
    ASSUME IInv, NEW d \in Devices, NEW x \in Conflicts(d), NEW keepLocal \in BOOLEAN,
           Resolve(d, x, keepLocal)
    PROVE  IInv'
PROOF
<1>0. TypeOK /\ KnownRevisions /\ head \in Nat /\ x \in Nat
    BY LenProperties DEF IInv, TypeOK, Conflicts, RowsOf, Ids
<1>1. files[d] \in Files /\ Remote(head) \in Files
    BY <1>0, RemoteType DEF TypeOK
<1>2. files[d] \in Changes /\ (IF keepLocal THEN files[d] ELSE Remote(head)) \in Changes
    BY <1>1, FilesAreChanges
<1>3. Restricted(IF keepLocal THEN files[d] ELSE Remote(head), Sent(rows[x].changes)) \in Changes
    BY <1>2, RestrictedType
<1>4. /\ rows' \in Seq(Row) /\ record' \in Seq(Record)
      /\ Len(rows') = Len(rows) + 1 /\ Len(record') = Len(rows')
      /\ \A u \in DOMAIN record' :
          record'[u].revision <= head /\ record'[u].resolvedRevision <= head
    BY <1>0, <1>2, <1>3, QueueRowType DEF Resolve
<1>5. Len(rows) \in Nat /\ call' = call /\ call' \in [Devices -> Call]
      /\ retained' \in [Devices -> BOOLEAN] /\ decisions' \in Nat
    BY <1>0, LenProperties DEF TypeOK, Resolve, Deciding
<1>6. basis' \in [Devices -> Files]
    <2>1. basis[d] \in Files /\ \A p \in Paths : Remote(head)[p] \in Contents
        BY <1>0, <1>1 DEF TypeOK, Files
    <2>2. Overlay(Sent(rows[x].changes), Remote(head), basis[d]) \in Files
        BY <2>1, OverlayType
    <2> QED
        BY <1>0, <2>2 DEF Resolve, SeesCurrent, TypeOK
<1> QED
    BY <1>4, <1>5, <1>6, RowStep DEF Resolve

\* The steps that only move the process: start, give up, fetch, check.
LEMMA MoveStep ==
    ASSUME IInv, NEW d \in Devices,
           \/ Begin(d) \/ RejectChanged(d) \/ Pull(d) \/ PullRaced(d)
           \/ Recover(d) \/ PreflightPasses(d) \/ PreflightFails(d) \/ Abort(d)
    PROVE  IInv'
PROOF
<1>0. head \in Nat /\ edits \in Nat /\ faults \in Nat /\ decisions \in Nat
    BY DEF IInv, TypeOK
<1>1. UNCHANGED <<serverVars, clientVars, reported>>
    BY DEF Begin, RejectChanged, Pull, PullRaced, Recover, PreflightPasses, PreflightFails,
       Abort
<1>2. edits' \in Nat /\ faults' \in Nat /\ decisions' \in Nat
    BY <1>0 DEF Begin, RejectChanged, Pull, PullRaced, Recover, PreflightPasses, PreflightFails,
                Abort, bounds
<1>3. /\ Idle \in Call /\ Idle.revision = 0 /\ Idle.at = "idle"
      /\ At("checked") \in Call /\ At("checked").revision = 0 /\ At("checked").at = "checked"
      /\ At("journaled") \in Call /\ At("journaled").revision = 0
      /\ At("journaled").at = "journaled"
      /\ At("writing") \in Call /\ At("writing").revision = 0 /\ At("writing").at = "writing"
    BY DEF Idle, At, Call, Place, Answer
<1>4. /\ [At("pulled") EXCEPT !.revision = head] \in Call
      /\ [At("pulled") EXCEPT !.revision = head].revision = head
      /\ [At("pulled") EXCEPT !.revision = head].at = "pulled"
    BY <1>0 DEF Idle, At, Call, Place, Answer
<1>5. PICK c \in {Idle, At("checked"), At("journaled"), At("writing"),
                  [At("pulled") EXCEPT !.revision = head]} :
        call' = [call EXCEPT ![d] = c]
    BY DEF Begin, RejectChanged, Pull, PullRaced, Recover, PreflightPasses, PreflightFails,
       Abort
<1>6. c \in Call /\ c.revision <= head /\ c.at # "replied"
    <2>1. CASE c = Idle
        BY <1>0, <1>3, <2>1
    <2>2. CASE c = At("checked")
        BY <1>0, <1>3, <2>2
    <2>3. CASE c = At("journaled")
        BY <1>0, <1>3, <2>3
    <2>4. CASE c = At("writing")
        BY <1>0, <1>3, <2>4
    <2>5. CASE c = [At("pulled") EXCEPT !.revision = head]
        BY <1>0, <1>4, <2>5
    <2> QED
        BY <2>1, <2>2, <2>3, <2>4, <2>5
<1> QED
    BY <1>1, <1>2, <1>5, <1>6, CallStep

\* Marking rows rejected or conflict changes no payload and no file.
LEMMA MarkStep ==
    ASSUME IInv, NEW d \in Devices, RejectStale(d) \/ KeepConflict(d)
    PROVE  IInv'
PROOF
<1>0. TypeOK /\ KnownRevisions /\ rows \in Seq(Row) /\ Len(rows) \in Nat
      /\ DOMAIN rows = 1..Len(rows) /\ record \in Seq(Record)
    BY LenProperties DEF IInv, TypeOK
<1>1. rows' \in Seq(Row) /\ Len(rows') = Len(rows)
    <2>1. CASE RejectStale(d)
        BY <1>0, <2>1, MarkedType DEF RejectStale
    <2>2. CASE KeepConflict(d)
        <3>1. \A u \in 1..Len(rows) : rows[u] \in Row
            BY <1>0
        <3>2. \A row \in Row : /\ [row EXCEPT !.status = "conflict"] \in Row
                               /\ [row EXCEPT !.status = "resolved"] \in Row
            BY DEF Row, Status
        <3>3. rows' \in [1..Len(rows) -> Row]
            BY <1>0, <2>2, <3>1, <3>2 DEF KeepConflict, Ids
        <3> QED
            BY <1>0, <3>3, SegmentIsSeq
    <2> QED
        BY <2>1, <2>2
<1>2. /\ record' = record /\ call' = [call EXCEPT ![d] = Idle] /\ retained' = retained
      /\ decisions' = decisions
    BY DEF RejectStale, KeepConflict, serverVars, bounds
<1>3. /\ call' \in [Devices -> Call] /\ \A e \in Devices : call'[e] = call[e] \/ call'[e] = Idle
      /\ retained' \in [Devices -> BOOLEAN] /\ decisions' \in Nat
    BY <1>0, <1>2 DEF TypeOK, Idle, Call, Place, Answer
<1>4. /\ Len(record') = Len(rows')
      /\ \A u \in DOMAIN record' :
          record'[u].revision <= head /\ record'[u].resolvedRevision <= head
    BY <1>0, <1>1, <1>2 DEF KnownRevisions
<1> QED
    BY <1>0, <1>1, <1>2, <1>3, <1>4, RowStep DEF RejectStale, KeepConflict, serverVars, bounds

----------------------------------------------------------------------------
\* The contents that an update sends are contents.
LEMMA SentContents ==
    ASSUME NEW changes \in Changes, NEW p \in Sent(changes)
    PROVE  p \in Paths /\ changes[p] \in Contents
BY DEF Changes, Sent

\* The basis after an apply is a basis.
LEMMA NewBasisType ==
    ASSUME TypeOK, NEW d \in Devices, NEW remote \in Files, NEW target, NEW seen
    PROVE  NewBasis(d, remote, target, seen) \in Files
BY DEF TypeOK, NewBasis, Files

\* An apply towards an existing revision that is not an older one is journaled.
LEMMA TowardsStep ==
    ASSUME IInv, NEW d \in Devices, NEW r \in Nat, revision[d] <= r, r <= head,
           NEW target \in Files, NEW residual \in Changes, NEW residualBase \in Nat,
           NEW done \in SUBSET Nat, NEW resolved \in SUBSET Nat, NEW newBasis \in Files,
           StartApply(d, Towards(d, r, target, residual, residualBase, done, resolved, newBasis)),
           UNCHANGED <<serverVars, files, revision, baseline, rows, retained, ack, reported,
                       backups, basis, bounds>>
    PROVE  IInv'
PROOF
<1> DEFINE j == Towards(d, r, target, residual, residualBase, done, resolved, newBasis)
<1>1. /\ head \in Nat /\ revision[d] \in Nat /\ files[d] \in Files /\ basis[d] \in Files
      /\ backups \in [Devices -> SUBSET Files] /\ decisions \in Nat
    BY DEF IInv, TypeOK
<1>2. Remote(r) \in Files
    BY <1>1, RemoteType DEF IInv
<1>3. j \in Journal /\ j.revision = r /\ j.baseline = Remote(r)
    BY <1>1, <1>2 DEF Towards, Journal
<1>4. j.revision \in revision[d]..head /\ j.baseline = Remote(j.revision)
    BY <1>1, <1>3
<1>5. /\ backups' \in [Devices -> SUBSET Files] /\ decisions' \in Nat
      /\ UNCHANGED <<serverVars, files, revision, baseline, rows, retained, ack, reported,
                     basis, edits, faults>>
    BY <1>1 DEF bounds
<1> HIDE DEF j
<1>6. StartApply(d, j)
    BY DEF j
<1> QED
    BY <1>3, <1>4, <1>5, <1>6, StartApplyStep

\* Applying the reply of an accepted update journals an existing revision.
LEMMA ApplyAcknowledgedStep ==
    ASSUME IInv, NEW d \in Devices, ApplyAcknowledged(d)
    PROVE  IInv'
PROOF
<1> DEFINE u == call[d].update
           r == call[d].revision
           local == files[d]
           remote == Remote(r)
           row == rows[u]
           submitted == Sent(row.changes)
           expected == Sent(row.expected)
           canApply == {p \in Paths :
               IF p \in submitted
               THEN local[p] = row.changes[p] \/ (p \in expected /\ local[p] = row.expected[p])
               ELSE local[p] = baseline[d][p]}
           target == Overlay(canApply, remote, local)
           unseen == {p \in submitted \cap expected :
               /\ row.resolves # 0
               /\ local[p] # remote[p]
               /\ row.changes[p] # row.expected[p]
               /\ local[p] # row.expected[p]}
           residual == Restricted(local, Diverged(d, submitted, remote) \cup unseen)
           newBasis == NewBasis(d, remote, target, submitted \ unseen)
<1>1. TypeOK /\ head \in Nat /\ call[d] \in Call /\ local \in Files /\ revision[d] \in Nat
    BY DEF IInv, TypeOK
<1>2. r \in Nat /\ u \in Nat /\ r <= head /\ revision[d] <= r /\ u \in Ids
    BY <1>1 DEF ApplyAcknowledged, Call, IInv, KnownRevisions
<1>3. row.resolves \in Nat
    <2>1. rows \in Seq(Row) /\ u \in DOMAIN rows
        BY <1>1, <1>2 DEF TypeOK, Ids
    <2>2. row \in Row
        BY <2>1
    <2> QED
        BY <2>2 DEF Row
<1>4. remote \in Files
    BY <1>1, <1>2, RemoteType
<1> HIDE DEF remote, local, row
<1>5. target \in Files /\ residual \in Changes /\ newBasis \in Files
    <2>1. \A p \in canApply \cap Paths : remote[p] \in Contents
        BY <1>4 DEF Files
    <2>2. target \in Files
        BY <1>1, <2>1, OverlayType
    <2> QED
        BY <1>1, <1>4, <2>2, FilesAreChanges, RestrictedType, NewBasisType
<1>6. {u} \in SUBSET Nat /\ {row.resolves} \ {0} \in SUBSET Nat
    BY <1>2, <1>3
<1>7. /\ StartApply(d, Towards(d, r, target, residual, revision[d], {u}, {row.resolves} \ {0},
                               newBasis))
      /\ UNCHANGED <<serverVars, files, revision, baseline, rows, retained, ack, reported,
                     backups, basis, bounds>>
    BY DEF ApplyAcknowledged, remote, local, row
<1> QED
    BY <1>1, <1>2, <1>5, <1>6, <1>7, TowardsStep

\* Applying a pulled snapshot journals an existing revision.
LEMMA ApplyPulledStep ==
    ASSUME IInv, NEW d \in Devices, ApplyPulled(d)
    PROVE  IInv'
PROOF
<1>1. TypeOK /\ head \in Nat /\ call[d] \in Call /\ revision[d] \in Nat
    BY DEF IInv, TypeOK
<1>2. call[d].revision \in Nat /\ call[d].revision <= head /\ revision[d] <= call[d].revision
    BY <1>1 DEF ApplyPulled, Call, IInv, KnownRevisions
<1>3. Remote(call[d].revision) \in Files /\ NoChanges \in Changes
    BY <1>1, <1>2, RemoteType, LocalChangesType
<1>4. /\ StartApply(d, Towards(d, call[d].revision, Remote(call[d].revision), NoChanges, 0,
                               {}, {}, Remote(call[d].revision)))
      /\ UNCHANGED <<serverVars, files, revision, baseline, rows, retained, ack, reported,
                     backups, basis, bounds>>
    BY DEF ApplyPulled
<1> QED
    BY <1>1, <1>2, <1>3, <1>4, TowardsStep

\* The revision of a decision exists.
LEMMA DecisionRevision ==
    ASSUME IInv, NEW d \in Devices, NEW x \in Conflicts(d)
    PROVE  /\ x \in Nat /\ rows[x] \in Row
           /\ record[x].resolvedRevision \in Nat /\ record[x].resolvedRevision <= head
PROOF
<1>1. rows \in Seq(Row) /\ record \in Seq(Record) /\ Len(record) = Len(rows)
    BY DEF IInv, TypeOK, KnownRevisions
<1>2. x \in DOMAIN rows
    BY DEF Conflicts, RowsOf, Ids
<1>3. x \in DOMAIN record /\ x \in Nat
    BY <1>1, <1>2
<1>4. record[x] \in Record /\ rows[x] \in Row
    BY <1>1, <1>2, <1>3
<1> QED
    BY <1>3, <1>4 DEF Record, IInv, KnownRevisions

\* Reconciling with a decision marks rows and journals its revision.
LEMMA ReconcileDecidedStep ==
    ASSUME IInv, NEW d \in Devices, NEW x \in Conflicts(d), ReconcileDecided(d, x)
    PROVE  IInv'
PROOF
<1> DEFINE r == record[x].resolvedRevision
           local == files[d]
           remote == Remote(r)
           changes == rows[x].changes
           submitted == Sent(changes)
           untouched == {p \in Paths : local[p] = Overlay(submitted, changes, baseline[d])[p]}
           target == Overlay(untouched, remote, local)
           later == {p \in submitted : local[p] # remote[p] /\ local[p] # changes[p]}
           residual == Restricted(local, Diverged(d, submitted, remote) \cup later)
           newBasis == NewBasis(d, remote, target, {})
<1>1. TypeOK /\ head \in Nat /\ local \in Files /\ revision[d] \in Nat
    BY DEF IInv, TypeOK
<1>2. x \in Nat /\ r \in Nat /\ r <= head /\ revision[d] <= r
    BY DecisionRevision DEF ReconcileDecided
<1>3. remote \in Files
    BY <1>1, <1>2, RemoteType
<1> HIDE DEF remote, local, changes
<1>4. target \in Files /\ residual \in Changes /\ newBasis \in Files
    <2>1. \A p \in untouched \cap Paths : remote[p] \in Contents
        BY <1>3 DEF Files
    <2>2. target \in Files
        BY <1>1, <2>1, OverlayType
    <2> QED
        BY <1>1, <1>3, <2>2, FilesAreChanges, RestrictedType, NewBasisType
<1>5. {} \in SUBSET Nat /\ {x} \in SUBSET Nat
    BY <1>2
<1>6. /\ StartApply(d, Towards(d, r, target, residual, revision[d], {}, {x}, newBasis))
      /\ UNCHANGED <<serverVars, files, revision, baseline, rows, retained, ack, reported,
                     backups, basis, bounds>>
    BY DEF ReconcileDecided, remote, local, changes
<1> QED
    BY <1>1, <1>2, <1>4, <1>5, <1>6, TowardsStep

\* Reconciling a decision lost to the portal marks rows and may queue one.
LEMMA ReconcileLosingStep ==
    ASSUME IInv, NEW d \in Devices, NEW x \in Conflicts(d), ReconcileLosing(d, x)
    PROVE  IInv'
PROOF
<1> DEFINE r == record[x].resolvedRevision
           local == files[d]
           remote == Remote(r)
           row(u) == rows[u]
           selected(u) == Sent(row(u).changes)
           choice(u) == {p \in selected(u) \cap Sent(row(u).expected) :
                           local[p] = row(u).expected[p]}
           untouched(u) == {p \in Paths \ selected(u) : local[p] = baseline[d][p]}
           inner(u) == Overlay(untouched(u), remote, local)
           target(u) == Overlay(choice(u), row(u).changes, inner(u))
           chosen(u) == {p \in selected(u) : target(u)[p] # remote[p]}
           residual(u) == Restricted(target(u), Diverged(d, selected(u), remote) \cup chosen(u))
           base(u) == IF row(u).base < revision[d] THEN row(u).base ELSE revision[d]
           newBasis(u) == NewBasis(d, remote, target(u), {})
<1>1. TypeOK /\ head \in Nat /\ local \in Files /\ revision[d] \in Nat
    BY DEF IInv, TypeOK
<1>2. x \in Nat /\ r \in Nat /\ r <= head /\ revision[d] <= r
    BY DecisionRevision DEF ReconcileLosing
<1>3. remote \in Files
    BY <1>1, <1>2, RemoteType
<1>4. PICK u \in FirstPending(d) :
        StartApply(d, Towards(d, r, target(u), residual(u), base(u), {}, {x, u}, newBasis(u)))
    BY DEF ReconcileLosing
<1>5. u \in Ids /\ u \in Nat /\ row(u) \in Row
    <2>1. u \in Ids
        BY DEF FirstPending, Pending, RowsOf
    <2> QED
        BY <1>1, <2>1 DEF TypeOK, Ids
<1>6. row(u).changes \in Changes /\ row(u).base \in Nat
    BY <1>5 DEF Row
<1> HIDE DEF remote, local, row
<1>7. target(u) \in Files /\ residual(u) \in Changes /\ newBasis(u) \in Files
    <2>1. \A p \in untouched(u) \cap Paths : remote[p] \in Contents
        BY <1>3 DEF Files
    <2>2. inner(u) \in Files
        BY <1>1, <2>1, OverlayType
    <2>3. \A p \in choice(u) \cap Paths : row(u).changes[p] \in Contents
        BY <1>6, SentContents
    <2> HIDE DEF inner, choice
    <2>4. target(u) \in Files
        BY <2>2, <2>3, OverlayType
    <2> HIDE DEF target
    <2> QED
        BY <1>1, <1>3, <2>4, FilesAreChanges, RestrictedType, NewBasisType
<1>8. base(u) \in Nat /\ {} \in SUBSET Nat /\ {x, u} \in SUBSET Nat
    BY <1>1, <1>2, <1>5, <1>6
<1>9. UNCHANGED <<serverVars, files, revision, baseline, rows, retained, ack, reported,
                  backups, basis, bounds>>
    BY DEF ReconcileLosing
<1> HIDE DEF target, residual, base, newBasis
<1> QED
    BY <1>1, <1>2, <1>4, <1>7, <1>8, <1>9, TowardsStep

----------------------------------------------------------------------------
\* The server moves on, or answers: clients keep all but the reply they hold.
LEMMA ServerStep ==
    ASSUME IInv, head' \in Nat, head <= head', history' \in [0..head' -> Snapshot],
           \A r \in 0..head : Remote(r)' = Remote(r),
           record' \in Seq(Record), Len(record') = Len(record),
           \A u \in DOMAIN record' :
               record'[u].revision <= head' /\ record'[u].resolvedRevision <= head',
           call' \in [Devices -> Call],
           \A d \in Devices : /\ call'[d].revision <= head'
                              /\ call'[d].at = "replied" => call'[d].update \in Ids,
           UNCHANGED <<clientVars, reported>>,
           edits' \in Nat, faults' \in Nat, decisions' \in Nat
    PROVE  IInv'
PROOF
<1>1. TypeOK'
    BY DEF IInv, TypeOK, clientVars
<1>2. KnownRevisions'
    <2>1. rows' = rows /\ Ids' = Ids /\ Len(record) = Len(rows)
        BY DEF IInv, KnownRevisions, Ids, clientVars
    <2> QED
        BY <2>1 DEF KnownRevisions
<1>3. BaselineIsHistory'
    <2> SUFFICES ASSUME NEW d \in Devices
                 PROVE  /\ revision[d] <= head'
                        /\ baseline[d] = Remote(revision[d])'
                        /\ \A j \in journal[d] : /\ j.revision \in revision[d]..head'
                                                 /\ j.baseline = Remote(j.revision)'
        BY DEF BaselineIsHistory, clientVars
    <2>1. /\ revision[d] \in Nat /\ head \in Nat /\ revision[d] <= head
          /\ baseline[d] = Remote(revision[d])
          /\ \A j \in journal[d] : /\ j.revision \in revision[d]..head
                                   /\ j.baseline = Remote(j.revision)
        BY DEF IInv, TypeOK, BaselineIsHistory
    <2>2. Remote(revision[d])' = Remote(revision[d])
        BY <2>1 DEF clientVars, Remote
    <2>3. ASSUME NEW j \in journal[d]
          PROVE  j.revision \in revision[d]..head' /\ j.baseline = Remote(j.revision)'
        BY <2>1
    <2> QED
        BY <2>1, <2>2, <2>3
<1> QED
    BY <1>1, <1>2, <1>3 DEF IInv

\* The reply that a process receives is one it may hold.
LEMMA ReplyType ==
    ASSUME IInv, NEW d \in Devices, NEW u \in Ids, NEW answer \in Answer, NEW r \in Nat,
           head' \in Nat, head <= head', r <= head', Reply(d, u, answer, r)
    PROVE  /\ call' \in [Devices -> Call]
           /\ \A e \in Devices : /\ call'[e].revision <= head'
                                 /\ call'[e].at = "replied" => call'[e].update \in Ids
PROOF
<1> DEFINE c == [At("replied") EXCEPT !.update = u, !.answer = answer, !.revision = r]
<1>1. u \in Nat /\ call \in [Devices -> Call] /\ head \in Nat
    BY DEF IInv, TypeOK, Ids
<1>2. c \in Call /\ c.revision = r /\ c.update = u
    BY <1>1 DEF At, Idle, Call, Place
<1>3. call' = [call EXCEPT ![d] = c]
    BY DEF Reply
<1>4. \A e \in Devices : /\ call[e].revision <= head
                         /\ call[e].at = "replied" => call[e].update \in Ids
    BY DEF IInv, KnownRevisions
<1>5. \A e \in Devices : call[e].revision \in Nat
    BY <1>1 DEF Call
<1> HIDE DEF c
<1> QED
    BY <1>1, <1>2, <1>3, <1>4, <1>5

\* A receipt, or a decision, at revision h names revisions up to h only.
LEMMA RecordUpdate ==
    ASSUME NEW y \in Record, NEW h \in Nat, y.revision <= h, y.resolvedRevision <= h,
           NEW a \in {"applied", "conflict"}, NEW b \in Nat
    PROVE  /\ Receipt(y, a, h) \in Record
           /\ Receipt(y, a, h).revision <= h /\ Receipt(y, a, h).resolvedRevision <= h
           /\ Decision(y, b, h) \in Record
           /\ Decision(y, b, h).revision <= h /\ Decision(y, b, h).resolvedRevision <= h
PROOF
<1>1. Receipt(y, a, h) \in Record /\ Decision(y, b, h) \in Record
    BY DEF Record, Receipt, Decision
<1>2. /\ Receipt(y, a, h).revision = h
      /\ Receipt(y, a, h).resolvedRevision = y.resolvedRevision
    BY DEF Record, Receipt
<1>3. /\ Decision(y, b, h).revision = y.revision
      /\ Decision(y, b, h).resolvedRevision = h
    BY DEF Record, Decision
<1> QED
    BY <1>1, <1>2, <1>3

\* If every new record names revisions up to h only, so does the sequence of them.
LEMMA RecordsStep ==
    ASSUME record \in Seq(Record), NEW h \in Nat,
           record' = [v \in DOMAIN record |-> record'[v]],
           \A v \in DOMAIN record :
               /\ record'[v] \in Record
               /\ record'[v].revision <= h /\ record'[v].resolvedRevision <= h
    PROVE  /\ record' \in Seq(Record) /\ Len(record') = Len(record)
           /\ \A v \in DOMAIN record' :
               record'[v].revision <= h /\ record'[v].resolvedRevision <= h
PROOF
<1>1. DOMAIN record = 1..Len(record) /\ Len(record) \in Nat
    BY LenProperties
<1>2. record' \in [1..Len(record) -> Record]
    BY <1>1
<1>3. DOMAIN record' = DOMAIN record
    BY <1>1, <1>2
<1> QED
    BY <1>1, <1>2, <1>3, SegmentIsSeq

\* A POST, whatever the server answers, leaves every served revision as it was.
LEMMA PostStep ==
    ASSUME IInv, NEW d \in Devices, Post(d)
    PROVE  IInv'
PROOF
<1>1. PICK u \in FirstPending(d) :
        PostAgain(d, u) \/ PostUnavailable(d, u) \/ PostStale(d, u) \/ PostConflict(d, u)
          \/ PostApplied(d, u)
    BY DEF Post
<1>2. /\ UNCHANGED <<clientVars, reported>>
      /\ edits' \in Nat /\ faults' \in Nat /\ decisions' \in Nat
    BY DEF Post, IInv, TypeOK, bounds
<1>3. /\ TypeOK /\ head \in Nat /\ history \in [0..head -> Snapshot]
      /\ rows \in Seq(Row) /\ record \in Seq(Record) /\ Len(record) = Len(rows)
    BY DEF IInv, TypeOK, KnownRevisions
<1>4. u \in Ids /\ u \in DOMAIN rows /\ u \in DOMAIN record
    <2>1. u \in DOMAIN rows
        BY DEF FirstPending, Pending, RowsOf, Ids
    <2> QED
        BY <1>3, <2>1 DEF Ids
<1>5. rows[u] \in Row /\ record[u] \in Record
    BY <1>3, <1>4
<1>6. rows[u].changes \in Changes /\ record[u].revision \in Nat /\ record[u].answer \in Answer
    BY <1>5 DEF Row, Record, Answer
<1>7. \A v \in DOMAIN record : /\ record[v] \in Record
                               /\ record[v].revision <= head
                               /\ record[v].resolvedRevision <= head
    BY <1>3 DEF IInv, KnownRevisions
<1>8. CASE PostAgain(d, u) \/ PostUnavailable(d, u) \/ PostStale(d, u)
    <2>1. UNCHANGED serverVars
        BY <1>8 DEF PostAgain, PostUnavailable, PostStale
    <2>2. head' = head /\ history' = history /\ record' = record
        BY <2>1 DEF serverVars
    <2>3. \/ Reply(d, u, record[u].answer, record[u].revision)
          \/ Reply(d, u, "conflict_unavailable", 0) \/ Reply(d, u, "incomplete_resolution", 0)
        BY <1>8 DEF PostAgain, PostUnavailable, PostStale
    <2>4. /\ call' \in [Devices -> Call]
          /\ \A e \in Devices : /\ call'[e].revision <= head'
                                /\ call'[e].at = "replied" => call'[e].update \in Ids
        <3>1. "conflict_unavailable" \in Answer /\ "incomplete_resolution" \in Answer
            BY DEF Answer
        <3> QED
            BY <1>3, <1>4, <1>6, <1>7, <2>2, <2>3, <3>1, ReplyType
    <2>5. \A r \in 0..head : Remote(r)' = Remote(r)
        BY <2>2 DEF Remote
    <2> QED
        BY <1>2, <1>3, <1>7, <2>2, <2>4, <2>5, ServerStep
<1>9. CASE PostConflict(d, u)
    <2>1. /\ head' = head /\ history' = history /\ Reply(d, u, "conflict", head)
          /\ record' = [record EXCEPT ![u] = Receipt(record[u], "conflict", head)]
        BY <1>9 DEF PostConflict, Retained
    <2>2. /\ call' \in [Devices -> Call]
          /\ \A e \in Devices : /\ call'[e].revision <= head'
                                /\ call'[e].at = "replied" => call'[e].update \in Ids
        <3>1. "conflict" \in Answer
            BY DEF Answer
        <3> QED
            BY <1>3, <1>4, <2>1, <3>1, ReplyType
    <2>3. /\ record' \in Seq(Record) /\ Len(record') = Len(record)
          /\ \A v \in DOMAIN record' :
              record'[v].revision <= head' /\ record'[v].resolvedRevision <= head'
        <3>1. record' = [v \in DOMAIN record |-> record'[v]]
            BY <1>3, <2>1
        <3>2. \A v \in DOMAIN record :
                record'[v] = IF v = u THEN Receipt(record[v], "conflict", head)
                             ELSE record[v]
            BY <1>3, <2>1
        <3>3. ASSUME NEW v \in DOMAIN record
              PROVE  /\ record'[v] \in Record
                     /\ record'[v].revision <= head /\ record'[v].resolvedRevision <= head
            <4>1. CASE v = u
                BY <1>3, <1>7, <3>2, <4>1, RecordUpdate, 0 \in Nat
            <4>2. CASE v # u
                BY <1>7, <3>2, <4>2
            <4> QED
                BY <4>1, <4>2
        <3> QED
            BY <1>3, <2>1, <3>1, <3>3, RecordsStep
    <2>4. \A r \in 0..head : Remote(r)' = Remote(r)
        BY <2>1 DEF Remote
    <2> QED
        BY <1>2, <1>3, <2>1, <2>2, <2>3, <2>4, ServerStep
<1>10. CASE PostApplied(d, u)
    <2>1. /\ Publish(rows[u].changes) /\ Accepted(u, rows[u].resolves)
          /\ Reply(d, u, "applied", head + 1)
        BY <1>10 DEF PostApplied
    <2>2. /\ head' = head + 1 /\ history' \in [0..head' -> Snapshot]
          /\ \A r \in 0..head : Remote(r)' = Remote(r)
        BY <1>3, <1>6, <2>1, PublishKeepsHistory
    <2>3. head' \in Nat /\ head <= head' /\ head + 1 \in Nat /\ head + 1 <= head'
        BY <1>3, <2>2
    <2>4. /\ call' \in [Devices -> Call]
          /\ \A e \in Devices : /\ call'[e].revision <= head'
                                /\ call'[e].at = "replied" => call'[e].update \in Ids
        <3>1. "applied" \in Answer
            BY DEF Answer
        <3> QED
            BY <1>4, <2>1, <2>3, <3>1, ReplyType
    <2>5. /\ record' \in Seq(Record) /\ Len(record') = Len(record)
          /\ \A v \in DOMAIN record' :
              record'[v].revision <= head' /\ record'[v].resolvedRevision <= head'
        <3>1. record' = [v \in DOMAIN record |-> record'[v]]
            BY <2>1 DEF Accepted
        <3>2. \A v \in DOMAIN record :
                \/ record'[v] = Receipt(record[v], "applied", head + 1)
                \/ record'[v] = Decision(record[v], u, head + 1)
                \/ record'[v] = record[v]
            BY <2>1 DEF Accepted
        <3>3. ASSUME NEW v \in DOMAIN record
              PROVE  /\ record'[v] \in Record
                     /\ record'[v].revision <= head + 1 /\ record'[v].resolvedRevision <= head + 1
            <4>1. /\ record[v] \in Record /\ record[v].revision <= head
                  /\ record[v].resolvedRevision <= head
                BY <1>7
            <4>2. record[v].revision \in Nat /\ record[v].resolvedRevision \in Nat
                BY <4>1 DEF Record
            <4>3. /\ head + 1 \in Nat /\ record[v].revision <= head + 1
                  /\ record[v].resolvedRevision <= head + 1
                BY <1>3, <4>1, <4>2
            <4>4. u \in Nat
                BY <1>3, <1>4
            <4> QED
                BY <3>2, <4>1, <4>3, <4>4, RecordUpdate
        <3> QED
            BY <1>3, <2>2, <2>3, <3>1, <3>3, RecordsStep
    <2> QED
        BY <1>2, <2>2, <2>3, <2>4, <2>5, ServerStep
<1> QED
    BY <1>1, <1>8, <1>9, <1>10

\* A decision in the portal publishes a revision and updates receipts.
LEMMA PortalStep ==
    ASSUME IInv, NEW x \in Ids, NEW keepCandidate \in BOOLEAN, NEW wholeCandidate \in BOOLEAN,
           PortalResolve(x, keepCandidate, wholeCandidate)
    PROVE  IInv'
PROOF
<1> DEFINE scope == IF wholeCandidate THEN Sent(rows[x].changes)
                    ELSE conflictPathsAt(record[x].revision, rows[x].base, rows[x].changes)
           changes == [p \in Paths |-> IF p \notin scope THEN Unsent
                                       ELSE IF keepCandidate THEN rows[x].changes[p]
                                       ELSE Remote(head)[p]]
<1>1. /\ TypeOK /\ head \in Nat /\ rows \in Seq(Row) /\ record \in Seq(Record)
      /\ Len(record) = Len(rows) /\ edits \in Nat /\ faults \in Nat /\ decisions \in Nat
    BY DEF IInv, TypeOK, KnownRevisions
<1>2. x \in DOMAIN rows /\ x \in DOMAIN record
    BY <1>1 DEF Ids
<1>3. rows[x] \in Row /\ record[x] \in Record /\ Remote(head) \in Files
    BY <1>1, <1>2, RemoteType
<1>4. rows[x].changes \in Changes
    BY <1>3 DEF Row
<1>5. changes \in Changes
    BY <1>3, <1>4 DEF Changes, Files
<1>6. /\ Publish(changes)
      /\ record' = [record EXCEPT ![x] = Decision(record[x], 0, head + 1)]
    BY DEF PortalResolve, PortalDecision
<1>7. /\ head' = head + 1 /\ history' \in [0..head' -> Snapshot]
      /\ \A r \in 0..head : Remote(r)' = Remote(r)
    BY <1>1, <1>5, <1>6, PublishKeepsHistory
<1>8. /\ record' \in Seq(Record) /\ Len(record') = Len(record)
      /\ \A v \in DOMAIN record' :
          record'[v].revision <= head' /\ record'[v].resolvedRevision <= head'
    <2>1. record' = [v \in DOMAIN record |-> record'[v]]
        BY <1>1, <1>6
    <2>2. \A v \in DOMAIN record :
            record'[v] = IF v = x THEN Decision(record[v], 0, head + 1)
                         ELSE record[v]
        BY <1>1, <1>6
    <2>3. ASSUME NEW v \in DOMAIN record
          PROVE  /\ record'[v] \in Record
                 /\ record'[v].revision <= head + 1 /\ record'[v].resolvedRevision <= head + 1
        <3>1. /\ record[v] \in Record /\ record[v].revision <= head
              /\ record[v].resolvedRevision <= head
            BY <1>1 DEF IInv, KnownRevisions
        <3>2. record[v].revision \in Nat /\ record[v].resolvedRevision \in Nat
            BY <3>1 DEF Record
        <3>3. /\ head + 1 \in Nat /\ record[v].revision <= head + 1
              /\ record[v].resolvedRevision <= head + 1
            BY <1>1, <3>1, <3>2
        <3> QED
            BY <2>2, <3>1, <3>3, RecordUpdate, 0 \in Nat
    <2> QED
        BY <1>1, <1>7, <2>1, <2>3, RecordsStep
<1>9. /\ UNCHANGED <<clientVars, reported>> /\ call' = call
      /\ edits' = edits /\ faults' = faults /\ decisions' = decisions + 1
    BY DEF PortalResolve, Deciding
<1>10. /\ call' \in [Devices -> Call]
       /\ \A d \in Devices : /\ call'[d].revision <= head'
                             /\ call'[d].at = "replied" => call'[d].update \in Ids
    <2>1. call \in [Devices -> Call] /\ \A d \in Devices : call[d].revision \in Nat
        BY <1>1 DEF TypeOK, Call
    <2> QED
        BY <1>1, <1>7, <1>9, <2>1 DEF IInv, KnownRevisions
<1>11. /\ head' \in Nat /\ head <= head'
       /\ edits' \in Nat /\ faults' \in Nat /\ decisions' \in Nat
    BY <1>1, <1>7, <1>9
<1>12. UNCHANGED <<clientVars, reported>>
    BY <1>9
<1> HIDE DEF scope, changes
<1> QED
    BY <1>7, <1>8, <1>10, <1>11, <1>12, ServerStep

----------------------------------------------------------------------------
\* Writing one file of an apply changes no baseline.
LEMMA WriteStep ==
    ASSUME IInv, NEW d \in Devices, WriteFile(d)
    PROVE  IInv'
PROOF
<1>1. PICK j \in journal[d] : files' = [files EXCEPT ![d][call[d].next] = j.target[call[d].next]]
    BY DEF WriteFile
<1>2. j \in Journal /\ call[d] \in Call /\ call[d].next \in Paths
    BY DEF IInv, TypeOK, WriteFile
<1>3. j.target[call[d].next] \in Contents
    BY <1>2 DEF Journal, Files
<1>4. files' \in [Devices -> Files]
    BY <1>1, <1>2, <1>3 DEF IInv, TypeOK, Files
<1>5. /\ call' = [call EXCEPT ![d] = [call[d] EXCEPT !.next = call[d].next + 1]]
      /\ UNCHANGED <<serverVars, revision, baseline, rows, journal, retained, ack, reported,
                     backups, basis, bounds>>
    BY DEF WriteFile
<1>6. /\ [call[d] EXCEPT !.next = call[d].next + 1] \in Call
      /\ [call[d] EXCEPT !.next = call[d].next + 1].revision = call[d].revision
      /\ [call[d] EXCEPT !.next = call[d].next + 1].at = call[d].at
      /\ [call[d] EXCEPT !.next = call[d].next + 1].update = call[d].update
    BY <1>2 DEF Call
<1>7. TypeOK'
    BY <1>4, <1>5, <1>6 DEF IInv, TypeOK, serverVars, bounds
<1>8. KnownRevisions'
    BY <1>5, <1>6 DEF IInv, TypeOK, KnownRevisions, Ids, serverVars
<1>9. BaselineIsHistory'
    BY <1>5 DEF IInv, BaselineIsHistory, Remote, serverVars
<1> QED
    BY <1>7, <1>8, <1>9 DEF IInv

\* The owner's choice for an interrupted apply keeps the revision it aims at.
LEMMA RecoverChoiceStep ==
    ASSUME IInv, NEW d \in Devices, NEW keepLocal \in BOOLEAN, RecoverChoice(d, keepLocal)
    PROVE  IInv'
PROOF
<1> DEFINE target(j) == IF keepLocal THEN files[d] ELSE j.target
           newBasis(j) == [p \in Paths |-> IF target(j)[p] = j.target[p] THEN j.basis[p]
                                           ELSE j.baseline[p]]
           chosen(j) == [j EXCEPT !.expected = files[d], !.target = target(j),
                                  !.basis = newBasis(j)]
<1>1. PICK j \in journal[d] :
        /\ StartApply(d, chosen(j))
        /\ backups' = [backups EXCEPT ![d] = @ \cup {files[d], j.target}]
    BY DEF RecoverChoice
<1>2. /\ UNCHANGED <<serverVars, files, revision, baseline, rows, retained, ack, reported, basis,
                     edits, faults>>
      /\ decisions' = decisions + 1
    BY DEF RecoverChoice, Deciding
<1>3. /\ j \in Journal /\ files[d] \in Files /\ decisions \in Nat
      /\ backups \in [Devices -> SUBSET Files]
    BY DEF IInv, TypeOK
<1>4. j.revision \in revision[d]..head /\ j.baseline = Remote(j.revision)
    BY DEF IInv, BaselineIsHistory
<1>5. j.target \in Files /\ j.basis \in Files /\ j.baseline \in Files /\ target(j) \in Files
    BY <1>3 DEF Journal
<1>6. newBasis(j) \in Files
    BY <1>5 DEF Files
<1> HIDE DEF target, newBasis
<1>7. /\ chosen(j) \in Journal
      /\ chosen(j).revision = j.revision /\ chosen(j).baseline = j.baseline
    BY <1>3, <1>5, <1>6 DEF Journal
<1>8. backups' \in [Devices -> SUBSET Files] /\ decisions' \in Nat
    BY <1>1, <1>2, <1>3, <1>5
<1> HIDE DEF chosen
<1> QED
    BY <1>1, <1>2, <1>4, <1>7, <1>8, StartApplyStep

\* A backup copies the files of one environment.
LEMMA BackupStep ==
    ASSUME IInv, NEW d \in Devices, Backup(d)
    PROVE  IInv'
PROOF
<1>1. files[d] \in Files
    BY DEF IInv, TypeOK
<1>2. TypeOK'
    BY <1>1 DEF Backup, Deciding, IInv, TypeOK, serverVars
<1>3. KnownRevisions'
    BY DEF Backup, IInv, KnownRevisions, Ids, serverVars
<1>4. BaselineIsHistory'
    BY DEF Backup, IInv, BaselineIsHistory, Remote, serverVars
<1> QED
    BY <1>2, <1>3, <1>4 DEF IInv

\* A restore journals a saved copy towards the current revision.
LEMMA RestoreStep ==
    ASSUME IInv, NEW d \in Devices, NEW saved \in backups[d], Restore(d, saved)
    PROVE  IInv'
PROOF
<1> DEFINE j == [expected |-> files[d], target |-> saved, revision |-> revision[d],
                 baseline |-> baseline[d], residual |-> NoChanges, residualBase |-> 0,
                 residualBasis |-> basis[d], done |-> {}, resolved |-> {}, basis |-> basis[d]]
<1>1. /\ files[d] \in Files /\ saved \in Files /\ revision[d] \in Nat /\ baseline[d] \in Files
      /\ basis[d] \in Files /\ NoChanges \in Changes /\ head \in Nat /\ decisions \in Nat
      /\ backups \in [Devices -> SUBSET Files]
    BY LocalChangesType DEF IInv, TypeOK
<1>2. j \in Journal /\ j.revision = revision[d] /\ j.baseline = baseline[d]
    BY <1>1 DEF Journal
<1>3. revision[d] <= head /\ baseline[d] = Remote(revision[d])
    BY DEF IInv, BaselineIsHistory
<1>4. j.revision \in revision[d]..head /\ j.baseline = Remote(j.revision)
    BY <1>1, <1>2, <1>3
<1>5. /\ StartApply(d, j)
      /\ UNCHANGED <<serverVars, files, revision, baseline, rows, retained, ack, reported, basis,
                     edits, faults>>
      /\ backups' = [backups EXCEPT ![d] = @ \cup {files[d]}]
      /\ decisions' = decisions + 1
    BY DEF Restore, Deciding
<1>6. backups' \in [Devices -> SUBSET Files] /\ decisions' \in Nat
    BY <1>1, <1>5
<1> HIDE DEF j
<1> QED
    BY <1>2, <1>4, <1>5, <1>6, StartApplyStep

\* Reporting an applied revision changes only what the server knows of it.
LEMMA ReportStep ==
    ASSUME IInv, NEW d \in Devices, ReportRetired(d) \/ ReportLost(d)
    PROVE  IInv'
PROOF
<1>1. PICK r \in ack[d] : reported' = [reported EXCEPT ![d] = {r}]
    BY DEF ReportRetired, ReportLost, Report
<1>2. reported' \in [Devices -> SUBSET Nat]
    BY <1>1 DEF IInv, TypeOK
<1>3. TypeOK'
    <2>1. CASE ReportRetired(d)
        BY <1>2, <2>1 DEF ReportRetired, IInv, TypeOK, serverVars, bounds
    <2>2. CASE ReportLost(d)
        BY <1>2, <2>2 DEF ReportLost, IInv, TypeOK, serverVars, clientVars
    <2> QED
        BY <2>1, <2>2
<1>4. KnownRevisions'
    BY DEF ReportRetired, ReportLost, IInv, KnownRevisions, Ids, serverVars, clientVars
<1>5. BaselineIsHistory'
    BY DEF ReportRetired, ReportLost, IInv, BaselineIsHistory, Remote, serverVars, clientVars
<1> QED
    BY <1>3, <1>4, <1>5 DEF IInv

\* The transaction that completes an apply publishes the journal's revision.
LEMMA CommitStep ==
    ASSUME IInv, NEW d \in Devices, Commit(d)
    PROVE  /\ IInv'
           /\ revision' \in [Devices -> Nat]
           /\ \A e \in Devices : revision'[e] >= revision[e]
PROOF
<1> DEFINE marked(j) == Marked(j.done, j.resolved)
           residue(j) == j.residual # NoChanges
           row(j) == [owner |-> d, base |-> j.residualBase, changes |-> j.residual,
                      resolves |-> 0, expected |-> NoChanges, basis |-> j.residualBasis,
                      status |-> "pending"]
           after(j) == IF ~residue(j) THEN marked(j) ELSE Append(marked(j), row(j))
<1>1. PICK j \in journal[d] :
        /\ rows' = after(j)
        /\ record' = IF residue(j) THEN Append(record, NoRecord) ELSE record
        /\ revision' = [revision EXCEPT ![d] = j.revision]
        /\ baseline' = [baseline EXCEPT ![d] = j.baseline]
        /\ basis' = [basis EXCEPT ![d] = j.basis]
        /\ \E complete \in BOOLEAN :
            /\ retained' = [retained EXCEPT ![d] = @ /\ ~complete]
            /\ ack' = IF complete THEN [ack EXCEPT ![d] = {j.revision}] ELSE ack
    <2>1. PICK j \in journal[d] :
            LET complete == CompleteApply(d, j, after(j))
            IN  /\ rows' = after(j)
                /\ record' = IF residue(j) THEN Append(record, NoRecord) ELSE record
                /\ revision' = [revision EXCEPT ![d] = j.revision]
                /\ baseline' = [baseline EXCEPT ![d] = j.baseline]
                /\ basis' = [basis EXCEPT ![d] = j.basis]
                /\ retained' = [retained EXCEPT ![d] = @ /\ ~complete]
                /\ ack' = IF complete THEN [ack EXCEPT ![d] = {j.revision}] ELSE ack
        BY DEF Commit
    <2>2. CompleteApply(d, j, after(j)) \in BOOLEAN
        BY DEF CompleteApply
    <2> HIDE DEF after, residue
    <2> QED
        BY <2>1, <2>2
<1>2. /\ journal' = [journal EXCEPT ![d] = {}] /\ call' = [call EXCEPT ![d] = Idle]
      /\ UNCHANGED <<head, history, files, reported, backups, bounds>>
    BY DEF Commit
<1>3. /\ TypeOK /\ KnownRevisions /\ j \in Journal /\ head \in Nat
      /\ rows \in Seq(Row) /\ record \in Seq(Record) /\ Len(record) = Len(rows)
      /\ revision \in [Devices -> Nat]
    BY DEF IInv, TypeOK, KnownRevisions
<1>4. /\ j.revision \in revision[d]..head /\ j.baseline = Remote(j.revision)
      /\ j.revision \in Nat /\ j.baseline \in Files /\ j.basis \in Files
    BY <1>3 DEF IInv, BaselineIsHistory, Journal
<1>5. marked(j) \in Seq(Row) /\ Len(marked(j)) = Len(rows)
    BY <1>3, MarkedType
<1>6. row(j) \in Row
    <2>1. NoChanges \in Changes
        BY <1>3, LocalChangesType
    <2> QED
        BY <1>3, <2>1 DEF Journal, Row, Status
<1> HIDE DEF marked, row
<1>7. /\ rows' \in Seq(Row) /\ record' \in Seq(Record) /\ Len(record') = Len(rows')
      /\ \A u \in DOMAIN record' :
          record'[u].revision <= head /\ record'[u].resolvedRevision <= head
    <2>1. CASE residue(j)
        <3>1. rows' = Append(marked(j), row(j)) /\ record' = Append(record, NoRecord)
            BY <1>1, <2>1
        <3>2. NoRecord \in Record /\ NoRecord.revision = 0 /\ NoRecord.resolvedRevision = 0
            BY DEF NoRecord, Record
        <3>3. rows' \in Seq(Row) /\ Len(rows') = Len(rows) + 1
            BY <1>3, <1>5, <1>6, <3>1
        <3>4. record' \in Seq(Record) /\ Len(record') = Len(record) + 1
            BY <1>3, <3>1, <3>2
        <3>5. \A u \in DOMAIN record' :
                record'[u].revision <= head /\ record'[u].resolvedRevision <= head
            BY <1>3, <3>1, <3>2 DEF KnownRevisions
        <3> QED
            BY <1>3, <3>3, <3>4, <3>5
    <2>2. CASE ~residue(j)
        BY <1>1, <1>3, <1>5, <2>2 DEF KnownRevisions
    <2> QED
        BY <2>1, <2>2
<1> HIDE DEF after, residue
<1>8. Idle \in Call /\ Idle.at = "idle" /\ Idle.revision = 0
    BY DEF Idle, Call, Place, Answer
<1>9. Ids \subseteq Ids'
    <2>1. Len(rows') >= Len(rows)
        <3>1. CASE residue(j)
            BY <1>1, <1>3, <1>5, <1>6, <3>1 DEF after
        <3>2. CASE ~residue(j)
            BY <1>1, <1>3, <1>5, <3>2 DEF after
        <3> QED
            BY <3>1, <3>2
    <2> QED
        BY <1>3, <1>7, <2>1, LenProperties DEF Ids
<1>10. revision' \in [Devices -> Nat] /\ \A e \in Devices : revision'[e] >= revision[e]
    BY <1>1, <1>3, <1>4
<1>11. TypeOK'
    <2>1. PICK complete \in BOOLEAN :
            /\ retained' = [retained EXCEPT ![d] = @ /\ ~complete]
            /\ ack' = IF complete THEN [ack EXCEPT ![d] = {j.revision}] ELSE ack
        BY <1>1
    <2>2. retained' \in [Devices -> BOOLEAN]
        BY <1>3, <2>1 DEF TypeOK
    <2>3. ack' \in [Devices -> SUBSET Nat]
        BY <1>3, <1>4, <2>1 DEF TypeOK
    <2>4. /\ baseline' \in [Devices -> Files] /\ basis' \in [Devices -> Files]
          /\ journal' \in [Devices -> SUBSET Journal] /\ call' \in [Devices -> Call]
        BY <1>1, <1>2, <1>3, <1>4, <1>8 DEF TypeOK
    <2> QED
        BY <1>2, <1>3, <1>7, <1>10, <2>2, <2>3, <2>4 DEF TypeOK, bounds
<1>12. KnownRevisions'
    <2>1. head' = head /\ \A e \in Devices : call'[e] = call[e] \/ call'[e] = Idle
        BY <1>2, <1>3 DEF TypeOK
    <2> QED
        BY <1>3, <1>7, <1>8, <1>9, <2>1 DEF KnownRevisions
<1>13. BaselineIsHistory'
    BY <1>1, <1>2, <1>3, <1>4 DEF IInv, TypeOK, BaselineIsHistory, Remote
<1> QED
    BY <1>10, <1>11, <1>12, <1>13 DEF IInv

----------------------------------------------------------------------------
\* Every step keeps the invariant.
LEMMA NextStep ==
    ASSUME IInv, [Next]_vars
    PROVE  IInv'
PROOF
<1>1. CASE \E d \in Devices : Sync(d) \/ Owner(d) \/ Abort(d)
    <2> PICK d \in Devices : Sync(d) \/ Owner(d) \/ Abort(d)
        BY <1>1
    <2>1. CASE Begin(d) \/ RejectChanged(d) \/ Pull(d) \/ PullRaced(d) \/ Abort(d)
        BY <2>1, MoveStep
    <2>2. CASE Queue(d)
        BY <2>2, QueueStep
    <2>3. CASE Post(d)
        BY <2>3, PostStep
    <2>4. CASE RejectStale(d) \/ KeepConflict(d)
        BY <2>4, MarkStep
    <2>5. CASE ApplyAcknowledged(d)
        BY <2>5, ApplyAcknowledgedStep
    <2>6. CASE ApplyPulled(d)
        BY <2>6, ApplyPulledStep
    <2>7. CASE \E x \in Conflicts(d) : ReconcileDecided(d, x) \/ ReconcileLosing(d, x)
        BY <2>7, ReconcileDecidedStep, ReconcileLosingStep
    <2>8. CASE Apply(d)
        BY <2>8, MoveStep, WriteStep, CommitStep DEF Apply
    <2>9. CASE Owner(d)
        BY <2>9, EditStep, ResolveStep, RecoverChoiceStep, BackupStep, RestoreStep DEF Owner
    <2> QED
        BY <2>1, <2>2, <2>3, <2>4, <2>5, <2>6, <2>7, <2>8, <2>9 DEF Sync
<1>2. CASE \E d \in Managed : Checkpoint(d) \/ ReportRetired(d) \/ ReportLost(d)
    BY <1>2, ManagedAssumption, CheckpointStep, ReportStep
<1>3. CASE \E x \in Ids, keepCandidate, wholeCandidate \in BOOLEAN :
            PortalResolve(x, keepCandidate, wholeCandidate)
    BY <1>3, PortalStep
<1>4. CASE UNCHANGED vars
    <2>1. UNCHANGED <<serverVars, clientVars, reported, call, bounds>>
        BY <1>4 DEF vars
    <2>2. TypeOK'
        BY <2>1 DEF IInv, TypeOK, serverVars, clientVars, bounds
    <2>3. KnownRevisions'
        BY <2>1 DEF IInv, KnownRevisions, Ids, serverVars, clientVars
    <2>4. BaselineIsHistory'
        BY <2>1 DEF IInv, BaselineIsHistory, Remote, serverVars, clientVars
    <2> QED
        BY <2>2, <2>3, <2>4 DEF IInv
<1> QED
    BY <1>1, <1>2, <1>3, <1>4 DEF Next

\* The strengthened invariant holds in every behaviour of the specification.
LEMMA Inductive == Spec => []IInv
PROOF
<1> QED
    BY InitIInv, NextStep, PTL DEF Spec

\* Type correctness: whatever the interleaving, every variable keeps its type;
\* in particular a process only ever holds the receipt of a queued update.
THEOREM TypeCorrect == Spec => []TypeOK
PROOF
<1>1. IInv => TypeOK
    BY DEF IInv
<1> QED
    BY <1>1, Inductive, PTL

\* What state.py publishes as the baseline of a revision is what the server
\* served as that revision, and a journaled apply never aims at an older one.
THEOREM BaselineCorrect == Spec => []BaselineIsHistory
PROOF
<1>1. IInv => BaselineIsHistory
    BY DEF IInv
<1> QED
    BY <1>1, Inductive, PTL

\* No step of any actor takes the revision of an environment back.
LEMMA RevisionStep ==
    ASSUME IInv, [Next]_vars
    PROVE  \A d \in Devices : revision'[d] >= revision[d]
PROOF
<1>1. CASE \E e \in Devices : Commit(e)
    BY <1>1, CommitStep
<1>2. CASE ~ \E e \in Devices : Commit(e)
    <2>1. revision' = revision
        <3>1. ASSUME NEW d \in Devices, Sync(d) PROVE revision' = revision
            <4>1. CASE Begin(d) \/ Queue(d) \/ Post(d) \/ Pull(d) \/ PullRaced(d)
                BY <4>1 DEF Begin, Queue, Post, Pull, PullRaced, clientVars
            <4>2. CASE RejectStale(d) \/ RejectChanged(d) \/ KeepConflict(d)
                BY <4>2 DEF RejectStale, RejectChanged, KeepConflict, clientVars
            <4>3. CASE ApplyAcknowledged(d) \/ ApplyPulled(d)
                BY <4>3 DEF ApplyAcknowledged, ApplyPulled
            <4>4. CASE \E x \in Conflicts(d) : ReconcileDecided(d, x) \/ ReconcileLosing(d, x)
                BY <4>4 DEF ReconcileDecided, ReconcileLosing
            <4>5. CASE Apply(d)
                BY <1>2, <4>5
                DEF Apply, Recover, PreflightPasses, PreflightFails, WriteFile, clientVars
            <4> QED
                BY <3>1, <4>1, <4>2, <4>3, <4>4, <4>5 DEF Sync
        <3>2. ASSUME NEW d \in Devices, Owner(d) \/ Abort(d) PROVE revision' = revision
            BY <3>2 DEF Owner, Edit, Resolve, RecoverChoice, Backup, Restore, Abort, clientVars
        <3>3. ASSUME NEW d \in Devices, Checkpoint(d) \/ ReportRetired(d) \/ ReportLost(d)
              PROVE  revision' = revision
            BY <3>3 DEF Checkpoint, CheckpointQueue, CheckpointOpen, CheckpointClean,
                        ReportRetired, ReportLost, clientVars
        <3>4. ASSUME NEW x, NEW keepCandidate, NEW wholeCandidate,
                     PortalResolve(x, keepCandidate, wholeCandidate)
              PROVE  revision' = revision
            BY <3>4 DEF PortalResolve, clientVars
        <3>5. CASE UNCHANGED vars
            BY <3>5 DEF vars, clientVars
        <3> QED
            BY <3>1, <3>2, <3>3, <3>4, <3>5, ManagedAssumption DEF Next
    <2>2. \A d \in Devices : revision[d] \in Nat
        BY DEF IInv, TypeOK
    <2> QED
        BY <2>1, <2>2
<1> QED
    BY <1>1, <1>2

\* Whatever races, restores, retries or interrupted applies happen, the
\* revision that an environment has applied never goes back.
THEOREM RevisionsNeverGoBack == Spec => RevisionMonotone
PROOF
<1>1. IInv /\ [Next]_vars => [\A d \in Devices : revision'[d] >= revision[d]]_vars
    BY RevisionStep
<1> QED
    BY <1>1, Inductive, PTL DEF Spec, RevisionMonotone
=============================================================================
