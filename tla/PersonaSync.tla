----------------------------- MODULE PersonaSync -----------------------------
(***************************************************************************)
(* Personality synchronization of one owner's environments: Synchronizer   *)
(* (sync.py) over the durable State (state.py) of each environment, against*)
(* the server of PersonaServer.  A step is what one process does between   *)
(* two points at which another actor can be seen to act: a request at the  *)
(* server, one durable SQLite transaction, one atomic file replacement.    *)
(* A process may die, or give up on a network error, between any two.      *)
(***************************************************************************)
EXTENDS PersonaServer

CONSTANTS
    Devices,        \* the owner's environments, each with a home and a state directory
    Managed,        \* the devices whose session boundaries and reports are explored
    Locked,         \* the paths with a cooperative writer lock (the two memory files)
    MaxRevisions,   \* bound: revisions the server publishes
    MaxRows,        \* bound: updates queued by all devices
    MaxEdits,       \* bound: edits by the user or by Hermes
    MaxFaults,      \* bound: processes that die or requests whose reply is lost
    MaxDecisions    \* bound: explicit commands of the owner (resolve, restore, ...)

ASSUME LockAssumption == Locked \subseteq Paths
ASSUME ManagedAssumption == Managed \subseteq Devices

VARIABLES
    files,      \* files[d][p]: the content on disk
    revision,   \* metadata 'revision'
    baseline,   \* metadata 'baseline'
    rows,       \* the outbox rows of every device, in the order they were queued
    journal,    \* metadata 'apply_journal': empty, or one pending apply
    retained,   \* whether metadata 'session_checkpoint' holds a session
    ack,        \* metadata 'sync_ack_pending': empty, or one revision
    reported,   \* the server's applied_revision of the installation: empty, or one
    backups,    \* the snapshots under state/backups
    call,       \* the running process: where it is and the reply it holds
    basis,      \* history: the server content each local content descends from
    edits, faults, decisions    \* how much of each bound is used

clientVars == <<files, revision, baseline, rows, journal, retained, ack, backups, basis>>
bounds == <<edits, faults, decisions>>
vars == <<serverVars, clientVars, reported, call, bounds>>

Status == {"pending", "conflict", "done", "resolved"}
Row == [owner : Devices, base : Nat, changes : Changes, resolves : Nat,
        expected : Changes, basis : Files, status : Status]
Journal == [expected : Files, target : Files, revision : Nat, baseline : Files,
            residual : Changes, residualBase : Nat, done : SUBSET Nat, resolved : SUBSET Nat,
            basis : Files, residualBasis : Files]
Place == {"idle", "checked", "replied", "pulled", "journaled", "writing"}
Answer == {"none", "applied", "conflict", "incomplete_resolution", "conflict_unavailable"}
Call == [at : Place, update : Nat, answer : Answer, revision : Nat, next : Nat]
Idle == [at |-> "idle", update |-> 0, answer |-> "none", revision |-> 0, next |-> 1]
At(place) == [Idle EXCEPT !.at = place]

Ids == DOMAIN rows
RowsOf(d, status) == {u \in Ids : rows[u].owner = d /\ rows[u].status = status}
Pending(d) == RowsOf(d, "pending")
Conflicts(d) == RowsOf(d, "conflict")
FirstPending(d) == {u \in Pending(d) : \A v \in Pending(d) : u <= v}
Open(d) == Pending(d) \cup Conflicts(d)

\* No process runs for d and no apply is interrupted: a command starts here.
Ready(d) == call[d] = Idle /\ journal[d] = {}

LocalChanges(d) ==
    [p \in Paths |-> IF files[d][p] # baseline[d][p] THEN files[d][p] ELSE Unsent]

Init ==
    /\ ServerInit
    /\ files = [d \in Devices |-> [p \in Paths |-> Absent]]
    /\ revision = [d \in Devices |-> 0]
    /\ baseline = [d \in Devices |-> [p \in Paths |-> Absent]]
    /\ rows = <<>>
    /\ journal = [d \in Devices |-> {}]
    /\ retained = [d \in Devices |-> FALSE]
    /\ ack = [d \in Devices |-> {}]
    /\ reported = [d \in Devices |-> {}]
    /\ backups = [d \in Devices |-> {}]
    /\ call = [d \in Devices |-> Idle]
    /\ basis = [d \in Devices |-> [p \in Paths |-> Absent]]
    /\ edits = 0 /\ faults = 0 /\ decisions = 0

----------------------------------------------------------------------------
(***************************************************************************)
(* The user, Hermes' memory tool and the edit command.  A writer that      *)
(* honours the memory locks waits for the process that holds them; SOUL.md *)
(* has no such lock.                                                       *)
(***************************************************************************)
Edit(d, p, c) ==
    /\ edits < MaxEdits
    /\ p \in Locked => call[d] = Idle
    /\ files[d][p] # c
    /\ files' = [files EXCEPT ![d][p] = c]
    /\ edits' = edits + 1
    /\ UNCHANGED <<serverVars, revision, baseline, rows, journal, retained, ack, reported,
                   backups, call, basis, faults, decisions>>

\* State.queue and the outbox half of State.capture_session: one new row.
QueueRow(d, base, changes, resolves, expected) ==
    /\ Len(rows) < MaxRows
    /\ rows' = Append(rows, [owner |-> d, base |-> base, changes |-> changes,
                             resolves |-> resolves, expected |-> expected,
                             basis |-> basis[d], status |-> "pending"])
    /\ record' = Append(record, NoRecord)

\* State.mark_many: the rows in done and resolved change status together.
Marked(done, resolved) ==
    [u \in Ids |-> IF u \in resolved THEN [rows[u] EXCEPT !.status = "resolved"]
                   ELSE IF u \in done THEN [rows[u] EXCEPT !.status = "done"]
                   ELSE rows[u]]

(***************************************************************************)
(* checkpoint_session: the boundary of a managed session.                  *)
(***************************************************************************)
CheckpointQueue(d) ==
    /\ Ready(d) /\ Open(d) = {} /\ LocalChanges(d) # NoChanges
    /\ QueueRow(d, revision[d], LocalChanges(d), 0, NoChanges)
    /\ retained' = [retained EXCEPT ![d] = TRUE]
    /\ UNCHANGED <<head, history, files, revision, baseline, journal, ack, reported, backups,
                   call, basis, bounds>>

CheckpointOpen(d) ==
    /\ Ready(d) /\ Open(d) # {}
    /\ retained' = [retained EXCEPT ![d] = TRUE]
    /\ UNCHANGED <<serverVars, files, revision, baseline, rows, journal, ack, reported, backups,
                   call, basis, bounds>>

CheckpointClean(d) ==
    /\ Ready(d) /\ Open(d) = {} /\ LocalChanges(d) = NoChanges
    /\ retained' = [retained EXCEPT ![d] = FALSE]
    /\ UNCHANGED <<serverVars, files, revision, baseline, rows, journal, ack, reported, backups,
                   call, basis, bounds>>

----------------------------------------------------------------------------
(***************************************************************************)
(* run().  It first asks the server about each retained conflict; with     *)
(* none decided elsewhere it goes on, unless a conflict is left that the   *)
(* pending update does not resolve.                                        *)
(***************************************************************************)
\* Fault: a decision is taken for another's although this device's own
\* resolution, whose reply was lost, made it.
DecidedByAnyone(d, x) == Decided(x)

DecidedElsewhere(d, x) ==
    /\ Decided(x)
    /\ ~ \E u \in FirstPending(d) : rows[u].resolves = x /\ record[x].resolvedBy = u

Begin(d) ==
    /\ Ready(d)
    /\ \A x \in Conflicts(d) :
        /\ ~DecidedElsewhere(d, x)
        /\ \E u \in FirstPending(d) : rows[u].resolves = x
    /\ call' = [call EXCEPT ![d] = At("checked")]
    /\ UNCHANGED <<serverVars, clientVars, reported, bounds>>

Queue(d) ==
    /\ call[d].at = "checked" /\ Pending(d) = {} /\ LocalChanges(d) # NoChanges
    /\ QueueRow(d, revision[d], LocalChanges(d), 0, NoChanges)
    /\ UNCHANGED <<head, history, files, revision, baseline, journal, retained, ack, reported,
                   backups, call, basis, bounds>>

Reply(d, u, answer, r) ==
    call' = [call EXCEPT ![d] = [At("replied") EXCEPT !.update = u, !.answer = answer,
                                                      !.revision = r]]

\* A retransmitted update gets its receipt, whatever happened since.
PostAgain(d, u) ==
    /\ record[u].answer # "none"
    /\ Reply(d, u, record[u].answer, record[u].revision)
    /\ UNCHANGED serverVars

PostUnavailable(d, u) ==
    /\ record[u].answer = "none"
    /\ rows[u].resolves # 0 /\ Decided(rows[u].resolves)
    /\ Reply(d, u, "conflict_unavailable", 0)
    /\ UNCHANGED serverVars

PostStale(d, u) ==
    /\ record[u].answer = "none"
    /\ rows[u].resolves # 0 /\ ~Decided(rows[u].resolves) /\ rows[u].base # head
    /\ Reply(d, u, "incomplete_resolution", 0)
    /\ UNCHANGED serverVars

PostConflict(d, u) ==
    /\ record[u].answer = "none"
    /\ rows[u].resolves # 0 => ~Decided(rows[u].resolves)
    /\ conflictPaths(rows[u].base, rows[u].changes) # {}
    /\ Retained(u)
    /\ Reply(d, u, "conflict", head)
    /\ UNCHANGED <<head, history>>

PostApplied(d, u) ==
    /\ record[u].answer = "none" /\ head < MaxRevisions
    /\ rows[u].resolves # 0 => (~Decided(rows[u].resolves) /\ rows[u].base = head)
    /\ conflictPaths(rows[u].base, rows[u].changes) = {}
    /\ Publish(rows[u].changes)
    /\ Accepted(u, rows[u].resolves)
    /\ Reply(d, u, "applied", head + 1)

Post(d) ==
    /\ call[d].at = "checked"
    /\ \E u \in FirstPending(d) :
        \/ PostAgain(d, u)
        \/ PostUnavailable(d, u)
        \/ PostStale(d, u)
        \/ PostConflict(d, u)
        \/ PostApplied(d, u)
    /\ UNCHANGED <<clientVars, reported, bounds>>

\* The resolution never committed: stop retrying it, keep the conflict.
RejectStale(d) ==
    /\ call[d].at = "replied" /\ call[d].answer = "incomplete_resolution"
    /\ rows' = Marked({}, {call[d].update})
    /\ call' = [call EXCEPT ![d] = Idle]
    /\ UNCHANGED <<serverVars, files, revision, baseline, journal, retained, ack, reported,
                   backups, basis, bounds>>

RejectChanged(d) ==
    /\ call[d].at = "replied" /\ call[d].answer = "conflict_unavailable"
    /\ call' = [call EXCEPT ![d] = Idle]
    /\ UNCHANGED <<serverVars, clientVars, reported, bounds>>

\* Fault: a conflict is taken for a passing failure and the update retried.
RetryConflict(d) ==
    /\ call[d].at = "replied" /\ call[d].answer = "conflict"
    /\ call' = [call EXCEPT ![d] = Idle]
    /\ UNCHANGED <<serverVars, clientVars, reported, bounds>>

KeepConflict(d) ==
    /\ call[d].at = "replied" /\ call[d].answer = "conflict"
    /\ rows' = [u \in Ids |-> IF u = call[d].update THEN [rows[u] EXCEPT !.status = "conflict"]
                              ELSE IF u = rows[call[d].update].resolves
                              THEN [rows[u] EXCEPT !.status = "resolved"]
                              ELSE rows[u]]
    /\ call' = [call EXCEPT ![d] = Idle]
    /\ UNCHANGED <<serverVars, files, revision, baseline, journal, retained, ack, reported,
                   backups, basis, bounds>>

----------------------------------------------------------------------------
\* Fault: what the files will hold is published as the baseline.
StartApplyOfTarget(d, j) ==
    /\ journal' = [journal EXCEPT ![d] = {[j EXCEPT !.baseline = j.target]}]
    /\ call' = [call EXCEPT ![d] = At("journaled")]

\* State.journal_apply: the apply is durable before any file changes.
StartApply(d, j) ==
    /\ journal' = [journal EXCEPT ![d] = {j}]
    /\ call' = [call EXCEPT ![d] = At("journaled")]

(***************************************************************************)
(* What an apply leaves of a local content: the history variable keeps the *)
(* server content it descends from.  seen are the paths whose local content*)
(* is, or descends from, the remote one.                                   *)
(***************************************************************************)
NewBasis(d, remote, target, seen) ==
    [p \in Paths |-> IF p \in seen \/ target[p] = remote[p] THEN remote[p] ELSE basis[d][p]]

\* Fault: an edit outside the update is rebased on the revision it has not seen.
DivergedIgnored(d, sent, remote) == {}

\* Paths edited here whose remote content also moved, outside the paths sent.
Diverged(d, sent, remote) ==
    {p \in Paths \ sent : /\ files[d][p] # remote[p]
                          /\ files[d][p] # baseline[d][p]
                          /\ remote[p] # baseline[d][p]}

Restricted(f, S) == [p \in Paths |-> IF p \in S THEN f[p] ELSE Unsent]

\* f on S, and g elsewhere.
Overlay(S, f, g) == [p \in Paths |-> IF p \in S THEN f[p] ELSE g[p]]

\* Fault: what an apply leaves unsent is rebased on the revision it has not seen.
TowardsRebased(d, r, target, residual, residualBase, done, resolved, newBasis) ==
    [expected |-> files[d], target |-> target, revision |-> r, baseline |-> Remote(r),
     residual |-> residual, residualBase |-> r, residualBasis |-> basis[d],
     done |-> done, resolved |-> resolved, basis |-> newBasis]

\* An apply that moves d's baseline to revision r.
Towards(d, r, target, residual, residualBase, done, resolved, newBasis) ==
    [expected |-> files[d], target |-> target, revision |-> r, baseline |-> Remote(r),
     residual |-> residual, residualBase |-> residualBase, residualBasis |-> basis[d],
     done |-> done, resolved |-> resolved, basis |-> newBasis]

(***************************************************************************)
(* The update was applied at the revision of its receipt: that revision    *)
(* becomes the baseline.  A path takes the remote content unless it was    *)
(* edited since; an edit that has not seen the remote content keeps its    *)
(* old causal base in a residual update.                                   *)
(***************************************************************************)
ApplyAcknowledged(d) ==
    LET u == call[d].update
        r == call[d].revision
        local == files[d]
        remote == Remote(r)
        row == rows[u]
        submitted == Sent(row.changes)
        expected == Sent(row.expected)
        canApply == {p \in Paths :
            IF p \in submitted
            THEN local[p] = row.changes[p] \/ (p \in expected /\ local[p] = row.expected[p])
            ELSE local[p] = baseline[d][p]}
        target == Overlay(canApply, remote, local)
        unseen == {p \in submitted \cap expected :
            /\ row.resolves # 0
            /\ local[p] # remote[p]
            /\ row.changes[p] # row.expected[p]
            /\ local[p] # row.expected[p]}
    IN  /\ call[d].at = "replied" /\ call[d].answer = "applied"
        /\ r >= revision[d]
        /\ StartApply(d, Towards(d, r, target,
                                 Restricted(local, Diverged(d, submitted, remote) \cup unseen),
                                 revision[d], {u}, {row.resolves} \ {0},
                                 NewBasis(d, remote, target, submitted \ unseen)))
        /\ UNCHANGED <<serverVars, files, revision, baseline, rows, retained, ack, reported,
                       backups, basis, bounds>>

\* Nothing to send: fetch the current snapshot ...
Pull(d) ==
    /\ call[d].at = "checked" /\ Pending(d) = {} /\ LocalChanges(d) = NoChanges
    /\ call' = [call EXCEPT ![d] = [At("pulled") EXCEPT !.revision = head]]
    /\ UNCHANGED <<serverVars, clientVars, reported, bounds>>

\* ... and apply it if the files are still what was observed before the fetch.
ApplyPulled(d) ==
    LET remote == Remote(call[d].revision)
    IN  /\ call[d].at = "pulled"
        /\ call[d].revision >= revision[d]
        /\ files[d] = baseline[d]
        /\ StartApply(d, Towards(d, call[d].revision, remote, NoChanges, 0, {}, {}, remote))
        /\ UNCHANGED <<serverVars, files, revision, baseline, rows, retained, ack, reported,
                       backups, basis, bounds>>

\* journal_apply's comparison failed: SOUL.md was edited during the fetch.
PullRaced(d) ==
    /\ call[d].at = "pulled" /\ files[d] # baseline[d]
    /\ call' = [call EXCEPT ![d] = Idle]
    /\ UNCHANGED <<serverVars, clientVars, reported, bounds>>

(***************************************************************************)
(* reconcile_portal_resolutions: a retained conflict was decided in the    *)
(* portal, and no resolution of this device is outstanding.                *)
(***************************************************************************)
ReconcileDecided(d, x) ==
    LET r == record[x].resolvedRevision
        local == files[d]
        remote == Remote(r)
        changes == rows[x].changes
        submitted == Sent(changes)
        untouched == {p \in Paths : local[p] = Overlay(submitted, changes, baseline[d])[p]}
        target == Overlay(untouched, remote, local)
        later == {p \in submitted : local[p] # remote[p] /\ local[p] # changes[p]}
    IN  /\ Ready(d) /\ Decided(x)
        /\ \A u \in FirstPending(d) : rows[u].resolves # x
        /\ r >= revision[d]
        /\ StartApply(d, Towards(d, r, target,
                                 Restricted(local, Diverged(d, submitted, remote) \cup later),
                                 revision[d], {}, {x}, NewBasis(d, remote, target, {})))
        /\ UNCHANGED <<serverVars, files, revision, baseline, rows, retained, ack, reported,
                       backups, basis, bounds>>

(***************************************************************************)
(* The same while a resolution of this device waits: the portal won.  The  *)
(* owner's choice, or a newer edit, becomes a fresh candidate on the old   *)
(* base; the losing resolution is retired with the conflict.               *)
(***************************************************************************)
ReconcileLosing(d, x) ==
    LET r == record[x].resolvedRevision
        local == files[d]
        remote == Remote(r)
    IN  /\ Ready(d) /\ DecidedElsewhere(d, x)
        /\ r >= revision[d]
        /\ \E u \in FirstPending(d) :
            LET row == rows[u]
                selected == Sent(row.changes)
                choice == {p \in selected \cap Sent(row.expected) : local[p] = row.expected[p]}
                untouched == {p \in Paths \ selected : local[p] = baseline[d][p]}
                target == Overlay(choice, row.changes, Overlay(untouched, remote, local))
                chosen == {p \in selected : target[p] # remote[p]}
            IN  /\ row.resolves = x
                /\ StartApply(d, Towards(d, r, target,
                        Restricted(target, Diverged(d, selected, remote) \cup chosen),
                        IF row.base < revision[d] THEN row.base ELSE revision[d],
                        {}, {x, u}, NewBasis(d, remote, target, {})))
        /\ UNCHANGED <<serverVars, files, revision, baseline, rows, retained, ack, reported,
                       backups, basis, bounds>>

----------------------------------------------------------------------------
(***************************************************************************)
(* State.recover: every command replays an interrupted apply first.        *)
(***************************************************************************)
Recover(d) ==
    /\ call[d] = Idle /\ journal[d] # {}
    /\ call' = [call EXCEPT ![d] = At("journaled")]
    /\ UNCHANGED <<serverVars, clientVars, reported, bounds>>

\* Fault: an interrupted apply is replayed over whatever the files hold now.
PreflightSkipped(d, j) == TRUE

Preflight(d, j) == \A p \in Paths : files[d][p] \in {j.expected[p], j.target[p]}

PreflightPasses(d) ==
    /\ call[d].at = "journaled"
    /\ \A j \in journal[d] : Preflight(d, j)
    /\ call' = [call EXCEPT ![d] = At("writing")]
    /\ UNCHANGED <<serverVars, clientVars, reported, bounds>>

\* recovery_conflict: stop, and leave journal and files to the owner.
PreflightFails(d) ==
    /\ call[d].at = "journaled"
    /\ \E j \in journal[d] : ~Preflight(d, j)
    /\ call' = [call EXCEPT ![d] = Idle]
    /\ UNCHANGED <<serverVars, clientVars, reported, bounds>>

WriteFile(d) ==
    /\ call[d].at = "writing" /\ call[d].next \in Paths
    /\ \E j \in journal[d] :
        files' = [files EXCEPT ![d][call[d].next] = j.target[call[d].next]]
    /\ call' = [call EXCEPT ![d].next = @ + 1]
    /\ UNCHANGED <<serverVars, revision, baseline, rows, journal, retained, ack, reported,
                   backups, basis, bounds>>

\* Fault: an apply that keeps unsent local edits counts as complete.
CompleteRows(d, j, after) ==
    \A u \in DOMAIN after :
        after[u].owner = d => after[u].status \notin {"pending", "conflict"}

\* The journaled files are the whole remote snapshot and d has nothing open.
CompleteApply(d, j, after) ==
    /\ j.target = j.baseline
    /\ \A u \in DOMAIN after :
        after[u].owner = d => after[u].status \notin {"pending", "conflict"}

(***************************************************************************)
(* One transaction inserts the residual update, completes the receipts,    *)
(* publishes revision and baseline and drops the journal.  Only a complete *)
(* snapshot with no open row clears the session checkpoint and queues the  *)
(* applied-revision report.                                                *)
(***************************************************************************)
Commit(d) ==
    /\ call[d].at = "writing" /\ call[d].next \notin Paths
    /\ \E j \in journal[d] :
        LET marked == Marked(j.done, j.resolved)
            residue == j.residual # NoChanges
            after == IF ~residue THEN marked
                     ELSE Append(marked, [owner |-> d, base |-> j.residualBase,
                                          changes |-> j.residual, resolves |-> 0,
                                          expected |-> NoChanges, basis |-> j.residualBasis,
                                          status |-> "pending"])
            complete == CompleteApply(d, j, after)
        IN  /\ residue => Len(rows) < MaxRows
            /\ rows' = after
            /\ record' = IF residue THEN Append(record, NoRecord) ELSE record
            /\ revision' = [revision EXCEPT ![d] = j.revision]
            /\ baseline' = [baseline EXCEPT ![d] = j.baseline]
            /\ basis' = [basis EXCEPT ![d] = j.basis]
            /\ retained' = [retained EXCEPT ![d] = @ /\ ~complete]
            /\ ack' = IF complete THEN [ack EXCEPT ![d] = {j.revision}] ELSE ack
    /\ journal' = [journal EXCEPT ![d] = {}]
    /\ call' = [call EXCEPT ![d] = Idle]
    /\ UNCHANGED <<head, history, files, reported, backups, bounds>>

----------------------------------------------------------------------------
(***************************************************************************)
(* The owner's explicit commands.                                          *)
(***************************************************************************)
Deciding == decisions < MaxDecisions /\ decisions' = decisions + 1

(***************************************************************************)
(* resolve fetches the current snapshot and its owner chooses in sight of  *)
(* it: from then on the local contents of the conflict's paths descend from*)
(* what the choice keeps or gives up.                                      *)
(***************************************************************************)
SeesCurrent(d, x) ==
    basis' = [basis EXCEPT ![d] = Overlay(Sent(rows[x].changes), Remote(head), @)]

\* Fault: a second resolution is queued while another update is outstanding.
ResolveTwice(d, x, keepLocal) ==
    /\ Deciding /\ Ready(d) /\ x \in Conflicts(d)
    /\ QueueRow(d, head, Restricted(IF keepLocal THEN files[d] ELSE Remote(head),
                                    Sent(rows[x].changes)), x, files[d])
    /\ SeesCurrent(d, x)
    /\ UNCHANGED <<head, history, files, revision, baseline, journal, retained, ack, reported,
                   backups, call, edits, faults>>

\* Fault: the conflict is given up when its resolution is queued.
ResolveForgets(d, x, keepLocal) ==
    /\ Deciding /\ Ready(d) /\ x \in Conflicts(d) /\ Pending(d) = {} /\ Len(rows) < MaxRows
    /\ rows' = Append(Marked({}, {x}),
            [owner |-> d, base |-> head, resolves |-> 0, expected |-> NoChanges,
             changes |-> Restricted(IF keepLocal THEN files[d] ELSE Remote(head),
                                    Sent(rows[x].changes)),
             basis |-> basis[d], status |-> "pending"])
    /\ record' = Append(record, NoRecord)
    /\ SeesCurrent(d, x)
    /\ UNCHANGED <<head, history, files, revision, baseline, journal, retained, ack, reported,
                   backups, call, edits, faults>>

Resolve(d, x, keepLocal) ==
    /\ Deciding /\ Ready(d) /\ x \in Conflicts(d) /\ Pending(d) = {}
    /\ QueueRow(d, head, Restricted(IF keepLocal THEN files[d] ELSE Remote(head),
                                  Sent(rows[x].changes)), x, files[d])
    /\ SeesCurrent(d, x)
    /\ UNCHANGED <<head, history, files, revision, baseline, journal, retained, ack, reported,
                   backups, call, edits, faults>>

\* recover --choice: both candidates are backed up, then one is journaled.
RecoverChoice(d, keepLocal) ==
    /\ Deciding /\ call[d] = Idle
    /\ \E j \in journal[d] :
        LET target == IF keepLocal THEN files[d] ELSE j.target
        IN  /\ StartApply(d, [j EXCEPT !.expected = files[d], !.target = target,
                !.basis = [p \in Paths |-> IF target[p] = j.target[p] THEN j.basis[p]
                                           ELSE j.baseline[p]]])
            /\ backups' = [backups EXCEPT ![d] = @ \cup {files[d], j.target}]
    /\ UNCHANGED <<serverVars, files, revision, baseline, rows, retained, ack, reported, basis,
                   edits, faults>>

Backup(d) ==
    /\ Deciding /\ Ready(d)
    /\ backups' = [backups EXCEPT ![d] = @ \cup {files[d]}]
    /\ UNCHANGED <<serverVars, files, revision, baseline, rows, journal, retained, ack, reported,
                   call, basis, edits, faults>>

\* Fault: the revision saved with the backup comes back with its files.
RestoreRewinds(d, saved) ==
    /\ Deciding /\ Ready(d) /\ saved \in backups[d]
    /\ backups' = [backups EXCEPT ![d] = @ \cup {files[d]}]
    /\ StartApply(d, [expected |-> files[d], target |-> saved, revision |-> 0,
                      baseline |-> Remote(0), residual |-> NoChanges, residualBase |-> 0,
                      residualBasis |-> basis[d], done |-> {}, resolved |-> {},
                      basis |-> basis[d]])
    /\ UNCHANGED <<serverVars, files, revision, baseline, rows, retained, ack, reported, basis,
                   edits, faults>>

\* Fault: the files that a restore replaces are not backed up first.
RestoreUnsaved(d, saved) ==
    /\ Deciding /\ Ready(d) /\ saved \in backups[d]
    /\ StartApply(d, [expected |-> files[d], target |-> saved, revision |-> revision[d],
                      baseline |-> baseline[d], residual |-> NoChanges, residualBase |-> 0,
                      residualBasis |-> basis[d], done |-> {}, resolved |-> {},
                      basis |-> basis[d]])
    /\ UNCHANGED <<serverVars, files, revision, baseline, rows, retained, ack, reported, basis,
                   backups, edits, faults>>

Restore(d, saved) ==
    /\ Deciding /\ Ready(d) /\ saved \in backups[d]
    /\ backups' = [backups EXCEPT ![d] = @ \cup {files[d]}]
    /\ StartApply(d, [expected |-> files[d], target |-> saved, revision |-> revision[d],
                      baseline |-> baseline[d], residual |-> NoChanges, residualBase |-> 0,
                      residualBasis |-> basis[d], done |-> {}, resolved |-> {},
                      basis |-> basis[d]])
    /\ UNCHANGED <<serverVars, files, revision, baseline, rows, retained, ack, reported, basis,
                   edits, faults>>

PortalResolve(x, keepCandidate, wholeCandidate) ==
    /\ Deciding /\ head < MaxRevisions
    /\ PortalDecision(x, rows[x].base, rows[x].changes, keepCandidate, wholeCandidate)
    /\ UNCHANGED <<clientVars, reported, call, edits, faults>>

----------------------------------------------------------------------------
(***************************************************************************)
(* SyncAcknowledgements.flush: the report may arrive and its reply be lost.*)
(***************************************************************************)
Report(d) ==
    /\ call[d] = Idle
    /\ \E r \in ack[d] :
        /\ r <= revision[d]
        /\ \A q \in reported[d] : r >= q
        /\ reported' = [reported EXCEPT ![d] = {r}]

ReportRetired(d) ==
    /\ Report(d)
    /\ ack' = [ack EXCEPT ![d] = {}]
    /\ UNCHANGED <<serverVars, files, revision, baseline, rows, journal, retained, backups, call,
                   basis, bounds>>

ReportLost(d) ==
    /\ faults < MaxFaults
    /\ Report(d)
    /\ faults' = faults + 1
    /\ UNCHANGED <<serverVars, clientVars, call, edits, decisions>>

\* The process dies or a request fails: what it held in memory is gone.
Abort(d) ==
    /\ faults < MaxFaults
    /\ call[d] # Idle
    /\ call' = [call EXCEPT ![d] = Idle]
    /\ faults' = faults + 1
    /\ UNCHANGED <<serverVars, clientVars, reported, edits, decisions>>

----------------------------------------------------------------------------
Checkpoint(d) == CheckpointQueue(d) \/ CheckpointOpen(d) \/ CheckpointClean(d)

Apply(d) == Recover(d) \/ PreflightPasses(d) \/ PreflightFails(d) \/ WriteFile(d) \/ Commit(d)

\* One step of the sync command.
Sync(d) ==
    \/ Begin(d) \/ Queue(d) \/ Post(d)
    \/ RejectStale(d) \/ RejectChanged(d) \/ KeepConflict(d)
    \/ ApplyAcknowledged(d)
    \/ Pull(d) \/ ApplyPulled(d) \/ PullRaced(d)
    \/ \E x \in Conflicts(d) : ReconcileDecided(d, x) \/ ReconcileLosing(d, x)
    \/ Apply(d)

Owner(d) ==
    \/ \E p \in Paths, c \in Contents : Edit(d, p, c)
    \/ \E x \in Conflicts(d), keepLocal \in BOOLEAN : Resolve(d, x, keepLocal)
    \/ \E keepLocal \in BOOLEAN : RecoverChoice(d, keepLocal)
    \/ Backup(d)
    \/ \E saved \in backups[d] : Restore(d, saved)

Next ==
    \/ \E d \in Devices :
        Sync(d) \/ Owner(d) \/ Abort(d)
    \/ \E d \in Managed :
        Checkpoint(d) \/ ReportRetired(d) \/ ReportLost(d)
    \/ \E x \in Ids, keepCandidate, wholeCandidate \in BOOLEAN :
        PortalResolve(x, keepCandidate, wholeCandidate)

Spec == Init /\ [][Next]_vars

----------------------------------------------------------------------------
(***************************************************************************)
(* Properties.                                                             *)
(***************************************************************************)

\* Every variable keeps its type: merged files hold contents only, a process
\* holds a reply of the server, and the history has no hole.
TypeOK ==
    /\ head \in Nat
    /\ history \in [0..head -> Snapshot]
    /\ record \in Seq(Record)
    /\ files \in [Devices -> Files]
    /\ revision \in [Devices -> Nat]
    /\ baseline \in [Devices -> Files]
    /\ rows \in Seq(Row)
    /\ journal \in [Devices -> SUBSET Journal]
    /\ retained \in [Devices -> BOOLEAN]
    /\ ack \in [Devices -> SUBSET Nat]
    /\ reported \in [Devices -> SUBSET Nat]
    /\ backups \in [Devices -> SUBSET Files]
    /\ call \in [Devices -> Call]
    /\ basis \in [Devices -> Files]
    /\ edits \in Nat /\ faults \in Nat /\ decisions \in Nat

\* An environment has at most one pending update and one retained conflict,
\* and what is pending beside a conflict is its resolution: run, resolve and
\* checkpoint_session never queue a second update, a residual is inserted only
\* as the update it comes from is completed, and a rejected resolution leaves
\* its conflict alone.
OneOpenUpdate ==
    \A d \in Devices :
        /\ \A u, v \in Pending(d) : u = v
        /\ \A x, y \in Conflicts(d) : x = y
        /\ \A u \in Pending(d) : rows[u].resolves # 0 => rows[u].resolves \in Conflicts(d)
        /\ \A u \in Pending(d), x \in Conflicts(d) : rows[u].resolves = x

\* metadata 'baseline' is what the server published as metadata 'revision', and
\* an interrupted apply, replayed after any delay, moves both to one published
\* revision that is not an older one (State.recover's last transaction).
BaselineIsHistory ==
    \A d \in Devices :
        /\ revision[d] <= head
        /\ baseline[d] = Remote(revision[d])
        /\ \A j \in journal[d] :
            /\ j.revision \in revision[d]..head
            /\ j.baseline = Remote(j.revision)

\* The outbox never contradicts the server, although replies are lost and
\* decisions race: a row is done only if the server applied it, retained as a
\* conflict only if the server holds that conflict, and retired as resolved
\* only if it was not itself applied.
ReceiptsAgree ==
    \A u \in Ids :
        /\ rows[u].status = "done" => record[u].answer = "applied"
        /\ rows[u].status = "conflict" => record[u].answer = "conflict"
        /\ rows[u].status = "resolved" => record[u].answer # "applied"

\* An update other than the owner's explicit resolution never replaces a
\* server content that its author had not seen: each path it sends still has
\* at the server the content from which the local edit descends.  The residual
\* updates that ApplyAcknowledged and ReconcileDecided re-base are the danger.
NoBlindOverwrite ==
    [][\A u \in Ids :
        /\ record[u].answer = "none" /\ record'[u].answer = "applied"
        /\ rows[u].resolves = 0
        => \A p \in Sent(rows[u].changes) :
            Remote(head)[p] \in {rows[u].basis[p], rows[u].changes[p]}]_vars

\* Content c of path p can still be found: in the history of the server, in an
\* outbox row of d, or in one of d's backups.
Kept(d, p, c) ==
    \/ \E r \in 0..head : Remote(r)[p] = c
    \/ \E u \in Ids : rows[u].owner = d /\ c \in {rows[u].changes[p], rows[u].expected[p]}
    \/ \E saved \in backups[d] : saved[p] = c

\* Synchronization never destroys an edit: whatever content an apply or its
\* replay is about to replace when it starts to write, SOUL.md included, is in the
\* history, in the outbox or in a backup; and of a memory file, whose lock keeps
\* others out until then, this holds when the file is written.  An edit during the
\* fetch, the crash that leaves a journal behind and edits before its replay are
\* what journal_apply's comparison and recover's preflight are for.
NoSilentLoss ==
    [][\A d \in Devices :
        /\ \A p \in Locked :
            files'[d][p] # files[d][p] /\ edits' = edits => Kept(d, p, files[d][p])
        /\ call[d].at = "journaled" /\ call'[d].at = "writing" =>
            \A j \in journal[d], p \in Paths :
                files[d][p] = j.target[p] \/ Kept(d, p, files[d][p])]_vars

\* A retained conflict leaves the outbox only after the server recorded a
\* decision for it or answered its resolution with a newer conflict; no retry,
\* rejection, rebase or restart drops it.
ConflictNeedsDecision ==
    [][\A x \in Ids :
        rows[x].status = "conflict" /\ rows'[x].status # "conflict"
        => \/ Decided(x)
           \/ \E u \in Ids : rows[u].resolves = x /\ record[u].answer = "conflict"]_vars

\* Nothing of d is open and its locked files are the snapshot it reports.
Complete(d) ==
    /\ Open(d) = {}
    /\ \A p \in Locked : files[d][p] = Remote(revision[d])[p]

\* The applied-revision report, and the end of a session's retained boundary,
\* come only with a complete snapshot: nothing pending, no conflict, and the
\* files those of the reported revision (the settled test of State.recover).
ReportsAreComplete ==
    [][\A d \in Devices :
        /\ (ack'[d] # ack[d] /\ ack'[d] # {}) \/ (retained[d] /\ ~retained'[d])
        => Complete(d)' /\ ack'[d] \subseteq ack[d] \cup {revision'[d]}]_vars

\* An environment never goes back to an older revision, whatever receipts come
\* late, journals are replayed or backups restored.
RevisionMonotone == [][\A d \in Devices : revision'[d] >= revision[d]]_vars

----------------------------------------------------------------------------
\* The sync command is run again and again in every environment (by its user
\* and at managed session boundaries) and each run goes on to its end
\* unless one of the boundedly many faults stops it; edits, commands of the
\* owner and reports need never come.
FairSpec == Spec /\ \A d \in Devices : WF_vars(Sync(d))

\* What synchronization converges to ...
Synchronized(d) == Pending(d) = {} /\ files[d] = baseline[d] /\ revision[d] = head
\* ... unless an undecided conflict waits for the owner ...
AwaitsDecision(d) == \E x \in Conflicts(d) : ~Decided(x)
\* ... or an interrupted apply whose files were edited waits for recover --choice.
AwaitsRecovery(d) == \E j \in journal[d] : ~Preflight(d, j)

\* If edits, faults and decisions cease, every environment ends up with the
\* current snapshot and an empty outbox, or waits for a decision of the owner:
\* no retry loop, residual update or reconciliation goes on for ever.
Settles == \A d \in Devices : <>[](Synchronized(d) \/ AwaitsDecision(d) \/ AwaitsRecovery(d))
=============================================================================
