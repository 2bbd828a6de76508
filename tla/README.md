# MyHermes companion: a verification project

TLA+ models, TLC runs and TLAPS proofs about the companion of this repository:
the program that keeps a person's Hermes personality, skills, connections and
telemetry consistent between several computers and a portal, the recovery of its
identity, and the relay that forwards and meters the inference requests it makes.
Paths below are relative
to the repository; `sync.py` and the like are under `src/myhermes/`, `*.ts`
under `packages/core/src/`.

## The system

| Component | State it keeps | Operations | What makes it correct |
|---|---|---|---|
| **Personality sync**: `sync.py`, `state.py`, `files.py`, `sync_ack.py`, `session_sync.py`, `index.ts` | `SOUL.md` and two memory files; SQLite `outbox` (updates) and `metadata` (`revision`, `baseline`, `apply_journal`, `session_checkpoint`, `sync_ack_pending`); at the server revisions and update records | queue, post, keep a conflict, apply, pull, reconcile a portal decision, recover, resolve, checkpoint a session, report | nothing typed is lost; nothing is published over what was not seen; a conflict ends by a decision only; baseline and revision agree; synchronization settles |
| **Relay ledger**: `relay-ledger.ts`, `relay-reconcile.ts`, `relay.ts` | tables `relay_requests`, `relay_settings` (frozen, clock floor, coverage) | register, checkpoint, finish, reconcile, purge | at-most-once admission, budget, slots, coherent receipts, honest coverage |
| **Skills**: `skill_sync.py`, `skill_state.py`, `skill_packages.py`, `skill_cli.py`, `builtin_skills.py`, `skills.ts` | skill directories, their baselines, outbox, activation journal | capture, post, activate by renames, recover, resolve, withdraw | directory, row and journal agree after any crash; no edit replaced unseen |
| **Relay forward and bridge**: `relay-forward.ts`, `relay_bridge.py`, `relay_ids.py` | per request: timer, abort signals, the once-flag; at the bridge: active calls, request-ID digests | forward, checkpoint, stream, cancel, time out, close | one outcome per request, and one only |
| **Telemetry**: `telemetry_state.py`, `telemetry.py`, `monitoring*.ts`, the monitoring plugin | event chains, queue, drop counter, per-transport acknowledgement | record, rotate, drain, acknowledge | sequence without silent gaps; bounded queue |
| **Connections**: `connections.py`, `connection_store.py`, `connection_directory.py`, `github.py`, `connections.ts` | connection rows with phases, native credentials, profile bindings | add, test, resume, cancel, forget | no credential without a row, no row the owner did not grant |
| **Identity recovery**: `identity_recovery.py`, `local_config.py` | marker, journal, archived state, configuration | begin, archive, publish, resume | exactly one identity is published; the archive is complete |
| **Managed runtime**: `runtime.py`, `runtime_lock.py`, `sandbox.py`, `desktop*.py`, `hermes_mcp*.py` | runtime lock, child process, signal state, backups | lock, start, forward signals, reap; back up, restore | one runtime per home; the lock outlives the child |
| **Command line and transport**: `cli.py`, `api.py`, `auth.py` | none of its own | commands call the components above | |
| **Companion update**: `companion_update.py`, `companion-release.ts` | retained wheel | check, install, verify | the old wheel stays until the new one is verified |

Interaction: commands of one environment run one at a time under the sync lock
(`state.py`/`files.py`), next to a running Hermes session and the user's editor,
which take the cooperative memory locks only for the two memory files. A
recovery of the identity excludes them all by the identity lock. Devices meet
only at the server. Connections and telemetry have databases and locks of their
own and are used by any of those commands. The bridge is a local server between
Hermes and the company's relay, whose forwarder calls the ledger (register,
checkpoint, finish); a reconciliation job and a retention job call it too, each
call one storage transaction. The hazards this gives rise to are listed in
`PROJECT.json`, each at its line.

## Modules

`PersonaServer` is the portal side of personality sync: revisions, the update
records with their receipts and decisions, `conflictPaths` and `applyChanges`
of `index.ts`. The request handler around these two functions is not part of
this repository; its behaviour (a retransmitted update gets its first receipt, a
resolution needs the current head, the portal may decide a conflict) is taken
from what `sync.py` and the tests rely on, and marked external in the map.

`PersonaSync` is the device side, composed with it. One action is one step
between two points where another actor can act: one request at the server, one
SQLite transaction, one atomic file replacement. So `Synchronizer.run` is
`Begin` (reconcile and guards), `Queue`, `Post`, then by the answer
`RejectStale`, `RejectChanged`, `KeepConflict` or `ApplyAcknowledged`, or `Pull`
and `ApplyPulled`; `State.recover` is `Recover`, `PreflightPasses` or
`PreflightFails`, one `WriteFile` per file and `Commit`. `Abort` ends a process
anywhere: a crash, a lost reply, a network error. `Edit` is the user, Hermes or
the edit command; `Resolve`, `RecoverChoice`, `Backup`, `Restore` and
`PortalResolve` are the owner's decisions; `Checkpoint` and `Report` are the
session boundary and `sync_ack.flush`. Correspondences a reader should know:

- update ids are positions in `rows`; a residual update gets its id when it is
  inserted, not when it is journalled;
- `Locked` are the memory files. `SOUL.md` has no cooperative lock (as
  `docs/COMPANION.md` says), so an editor may write it in the instant before the
  atomic replacement. `NoSilentLoss` therefore speaks of every file, `SOUL.md`
  included, at the moment an apply begins to write, after its preflight, and of
  `Locked` files alone at the moment each is replaced;
- nothing reads the contents of `session_checkpoint`, so `retained` is a boolean;
- a command first recovers and then goes on; the model returns to idle between
  the two, which adds the behaviours in which the process dies there. Likewise
  the rest of a pass after an apply is the next `Begin`;
- a resolution that names a conflict already decided is refused as unavailable
  (`PostUnavailable`), whatever the head is by then;
- `basis` is a history variable: for every local content the server content its
  author had seen. Only properties read it. An owner who resolves a conflict has
  seen the current snapshot (`SeesCurrent`): `resolve` fetches it and bases the
  resolution on it (`sync.py:362`), and the portal shows both sides
  (`docs/API.md:80`).

`RelayLifecycle` is the abstract specification of one metered request: fresh,
executing, ended, forgotten; one charge, once. `RelayLedger` is
`PublicRelayLedger`, one action per method, split by outcome, with the clock
reading as a parameter: callers' clocks disagree and go backwards. It implements
`RelayLifecycle` under the mapping `Phase`, `Charge`. "failed" stands for failed,
cancelled and timeout, which the ledger treats alike; `matches` stands for the
comparison of model, provider and token counts; `purged` is a history variable
with the receipts that retention deleted.

`SkillActivation` is the part of the skill library that touches directories:
`SkillState.apply`, `recover`, `recover_preserving_local` and `restore_runtime`,
called by imports, deletions, restores, library updates and the session boundary
of `skill_sync.py` and `skill_cli.py`. A directory is replaced between two
transactions: `ApplyJournaled` stages the package and writes the journal; `Look`
decides by what it finds; `MoveOut` and `MoveIn` are the two renames; `Commit` is
the closing transaction. `Die` ends the command between any two of them, `Edit`
changes a directory at any time. Correspondences a reader should know:

- a directory's content is a model value; a package is a content and a version,
  so that "the same bytes under another version" and the reverse can be told
  apart; `Unpackable` contents are those that `pack_directory` refuses;
- `lacking` is the answer of the requirement check, which an owner changes by
  adding and forgetting connections;
- the staging directory is private, so its check and the rename are one step;
  reading a directory and journaling are one step too, as an edit in between is
  the same as an edit right after;
- a command first recovers and then goes on; the model returns to idle between
  the two. The session lock is taken a little before a session and released a
  little after, so an import may be deferred with no session running;
- the outbox rows written in the same transaction, and which package the library
  chooses, belong to the planned `SkillSync`; here a library update may bring any
  package. The order of refreshes and updates in one pass is left open.
  `FromPortal` is the decision of the portal that `skills resolve` applies before
  its pass inspects a directory, `FromLibrary` any update after the inspection;
- `touched` is a history variable: the directory was edited since the companion
  last saw it or put it there. `kept` collects the backups of finished operations.

`RelayForward` is `forwardRelay` of `relay-forward.ts` for one request: the code
between two awaits is a step, and the timer, the caller's abort signal and the
cancellation of the stream come in between. `RelayBridge` composes it with
`relay_bridge.py`: `Refuse` and `Identify` are `request_id` with its table,
`Enter` to `Relay` the handler thread, `Cancel` what the watching thread
(`WatchClient`, `WatchDeadline`) and `close` (`Stop`) do to a call, `Broken` the
handler's exceptions. Correspondences a reader should know:

- calls, bodies and IDs are numbered in the order of their first use, which only
  removes symmetric copies; a body stands for its canonical form;
- timer and signal record their outcome at once and abort the provider request;
  that it is aborted is derived (`Aborted`), not stored;
- a receipt is "lost" when the storage refuses the outcome: the ledger keeps the
  row registered for the reconciliation that `RelayLedger` models;
- the look at the deadline in `check` has the effect of `WatchDeadline` and is
  merged with it. A client that left and a bridge that was closed are one reason,
  as the code treats them alike;
- refusals by the server (`Refusals`) are one status of each kind that the bridge
  tells apart: 403 (no access or budget), 503 (no service) and, of a request it
  knows, 409. Access is looked at first, so a known request may be answered by
  any of them;
- `Streaming` are the bodies that ask for a stream;
- model list, tool events and directory requests pass through the bridge without
  a change of its state and are left out.

`InferenceService` says what Hermes is promised by the two together: a request body
is executed at most once, however often it is sent; an execution gets one record,
which does not change; a call that was told "ok" was executed to the end, one that
was told "failed" was not and never will be. `RelayBridge` implements it
(`ImplementsService`) with one execution per request that the relay admitted, known
by its body and the call it was admitted for; ids, threads, timers and connections
are invisible. The promise lasts as long as the bridge's process and its table.

`MonitoringStore` is the server's store of monitoring metadata
(`monitoring-store.ts`), with one operator per transaction. `TelemetryOutbox` is
the device side, composed with it: `Record` is `TelemetryState.queue` for an event
of a command, `FlushNext` to `FlushTraced` one pass of `Telemetry.flush`, `Break`
its death or a lost request or reply, `Arrive` a request that arrives after its
sender gave up, `Tick` and `SetClock` the two clocks. Every transaction prunes, as
`_prune` is part of each. Correspondences:

- a batch has one event and is known by its number, which stands for ID, hash and
  signature. Its `duration` is that of the event's activity, which may have begun
  before the range of the span transport (`BeganEarly`) while the event itself is
  in the range of both;
- the client's clock is ahead by at most what the server tolerates and is only
  corrected backwards; a clock that is behind, whose batches the server would
  refuse by their age before they expire, is left out;
- a request of either transport may arrive late, after any number of other steps;
- of the refusals that the server keeps, only those of a chain are in the model
  (`rejections`): no property is about the count of the others;
- the age limit of finished rows, the server's capacity of 100000 rows and the
  rollback of the metrics provider are left out.

`IdentityRecovery` is `identity_recovery.py` with the commands it excludes.
`Begin`, `Write`, `Finish` and `End` are an ordinary command from
`identity_command` to the flush of its monitoring; `StartNew`, `Resume` and
`Cancel` are the owner's commands; every other action is one file that a recovery
writes, one request, or one rename into the archive, and `RecoveryDies` may fall
between any two. Data is known by the key it was written under. The dry run, the
locks of older launchers and the side files of SQLite, which the checkpoint folds
into the database before it is moved, are left out.

`InstallationIdentity` is the same seen from the commands: they enter, write and
leave; a recovery is the one step `Replace`, with no command running, that brings a
new key, leaves no data in place, retains all there was and keeps the owner. The
mapping (`Undone`, `KeyInUse`, `OwnerInUse`, `DataInUse`, `Retained`) counts a
publication as not happened until its journal is settled: till then what is already
archived is still in use, under the key of the original configuration. So
`ImplementsIdentity` says that every death between two files leaves either the
whole replacement to be finished or none of it.

`Connections` is `connections.py` over `connection_store.py`: `Add`, `Authorize`,
`Test`, `Resume`, `Cancel` and `Forget` begin a command (`Resume` also when a
cancellation or a forgetting is repeated, of a request that is finished too), the
other actions are its transactions, its calls of the directory and its operations on the native store,
and `Die` ends it between any two. `ChangeGrant` and `Disable` are the company's
administrators. A credential has the number of the request that made it. What
`authorized`, `test` and binding requests answer is taken from what the companion
expects and marked external. Reads under a binding, drafts and the directory
report change nothing here and are left out.

The proofs about a module are in the module named after it, those about
`RelayForward` in `RelayBridgeProofs`, and those about the outbox and the files of
the personality in `PersonaSafetyProofs`. The `MC` modules are the instances for TLC.
Definitions commented "Fault:" are the plausible bugs that `PROJECT.json` names
as mutants; the specifications do not use them.

## Runs

| Run | Checks | Shows |
|---|---|---|
| `persona_crash` | `BaselineIsHistory`, `NoBlindOverwrite`, `NoSilentLoss` | two devices, two files (one locked, one not), a fault anywhere: an apply that is interrupted and replayed leaves a baseline the server published, publishes nothing over unseen content, and what it is about to replace is kept |
| `persona_resolutions` | `OneOpenUpdate`, `ConflictNeedsDecision`, `RevisionMonotone`, `NoSilentLoss`, `NoBlindOverwrite` | one file, three edits, decisions on the device and in the portal, backups and restores: resolutions that are stale, repeated or overtaken leave one update open, a conflict ends by a recorded decision, no device goes back, and what a lost resolution leaves is not published over the decision that won |
| `persona_sessions` | `ReceiptsAgree`, `ReportsAreComplete`, `Settles` | sessions, reports and lost replies under fairness: local rows and receipts agree, a reported revision is complete, every device settles |
| `relay_ledger` | `TypeOK`, `BudgetHeld`, `CoverageHonest`, `ImplementsLifecycle` | three requests under clocks that go backwards: budget, slots, at-most-once, coverage |
| `relay_bridge` | `AnswerRecorded`, `Reconcilable`, `Reported`, `OneExecution`, `Settled`, `ImplementsService` | two calls with retries under the same ID, another or none, an ID used for two bodies, timeouts of both sides, departing clients, broken connections and the closing of the bridge: the record agrees with what the caller was given, no output precedes its stored generation ID, a body is executed once, what a call is told stays true, everything that began ends |
| `skill_activation` | `InstalledMatches`, `NothingDiscarded`, `SessionUndisturbed`, `Settles` | one skill, three contents, two edits and a death between any two steps: directory and library agree, no content is destroyed, sessions are left alone, and interrupted or deferred activations end or wait for the owner |
| `skill_adoption` | `ImportedIsInstalled` (violated) | an edited directory that is imported under its old version is not recorded as installed, see Findings |
| `telemetry_clocks` | `TypeOK`, `DropsAccounted`, `OneChain`, `NoBrokenChain`, `DeliveredIsStored`, `StoredOnce` | expiry, rotation and purge by two clocks, a queue that overflows, a lost reply and a late request of either transport: every event is delivered, queued or counted once, and the server never meets a broken chain or the same event twice |
| `telemetry_delivery` | `Emptied` | two commands that flush at once under fairness: the queue and the report of drops are delivered or expire |
| `identity_recovery` | `OneIdentity`, `Resumable`, `NothingLost`, `Published`, `ImplementsIdentity` | two commands, two databases, two recoveries and two deaths: commands never mix identities, a recovery can be resumed wherever it died, data is in place or archived, a recovery is one step of the same owner or none for the commands, and what was to be published is |
| `connections` | `TypeOK`, `Traceable`, `BindingTested` | four requests on one connection, a change of the grant and two deaths: no credential is left behind, and a binding says what was tested |
| `connections_forgotten` | `ForgottenStays` (violated) | a request whose acknowledgement was lost binds a forgotten connection again, see Findings |

Bounds. `MaxRevisions`, `MaxRows`, `MaxEdits`, `MaxFaults` and `MaxDecisions`
cap counters that the program does not cap; three edits on two devices give
every conflict of two writers plus an edit in flight, three or four revisions
let a device be one behind and its residual update follow, one fault per
behaviour can fall between any two steps. Devices and texts are interchangeable
and symmetric in the safety runs. In `relay_ledger` a day is two ticks, so that
a day ends and receipts of it are deleted; with a budget of 3, reservations of 2
and costs of 1 and 3 a request can be refused, released and overrun; one slot
and two records make both limits bite. In `skill_activation` three commands allow
an import, an adoption or deletion and a recovery chosen by the owner, two edits
let the second fall on the recovery from the first.

In `relay_bridge` two calls and two bodies let the second call repeat the body of
the first, under its ID, under another for which the table has room, or under
none, or use its ID for another body, while the relay is at any point of the first
execution; so two requests may be executed, one for each call. One of the bodies
asks for a stream. A handler thread at a time (`MaxConnections` of one) keeps the
run small: what a second call finds of the first is the table and the relay, which
goes on when the first handler has ended. Two handlers at once, a full table and a
third ID are beyond the run, and within the theorems, which hold for all these
constants. In `telemetry_clocks` four days pass the one-day limits of expiry and
rotation and the three-day limit of the server, with a clock that may be a day
ahead; three events meet a queue of two, so that an event is dropped as the queue
is full, and a report of drops finds it full; every activity lasts a day, so that
the span of an event may be refused when its batch is not. `telemetry_delivery`
has the second command and shorter limits instead. In `identity_recovery` the
second recovery finds what the first archived, and two deaths let one fall on a
command or on the resumption. In `connections` four
requests are a creation, its cancellation or a new authorization, a test and a
forgetting, in any order; a second connection would share only the lock and the
journal (the invariant that is proved was checked with two as well).

`MaxCalls`, `MaxBodies`, `MaxTime`, `MaxRecords` of telemetry, `MaxOperations`,
`MaxRequests` and `MaxGrants` of connections, `MaxDeaths` and every `MaxFaults`
are bounds of the instances; `MaxRequests` and `MaxConnections` of the bridge,
`QueueEvents` and the ages of telemetry are limits of the code.

Deadlock is not checked where the system may stop: in `persona_resolutions` and
`skill_activation` the companion may wait for a decision when the owner's bounded
commands are used up; in both runs of `Connections` a person may issue no more
commands, and in `relay_bridge` Hermes may open no more connections.

Fairness. `FairSpec` asks only that a device that can synchronize eventually
does (`WF` of `Sync`): the companion syncs at session ends and on command, and a
person who never runs it has no promise. Faults are finitely many because
`MaxFaults` is: a device whose every request fails never settles. `Settles` says
a device ends synchronized, or waiting for its owner: for a decision, or for a
`recover` choice when a file was edited under an interrupted apply.
`SkillActivation!FairSpec` asks that session boundaries or syncs keep being run
(`WF` of `Boundary`); nothing is asked of the owner, of library updates or of the
end of a session. Its `Settles` names the waits: `AwaitsRecovery` for a directory
in a third state or a damaged staging directory, `AwaitsImport` for one that was
edited before its deferred activation. `TelemetryOutbox!FairSpec` asks that
commands keep being run and go on once started (`WF` of each one's steps); faults
are finitely many, and expiry ends what cannot be delivered.
`IdentityRecovery!FairSpec` asks that commands end, that a recovery that lives goes
on and that its owner resumes one that was interrupted; it asks no approval of an
enrollment, so `Published` speaks of a recovery that has come to publish.
`RelayBridge!FairSpec` asks of every call that its threads run and its deadline
passes, and of every request that its timer expires and the storage answers the call
that records its outcome; the provider, a checkpoint or the reader of a stream need
never answer.

Every property has a mutant in `PROJECT.json`: a plausible bug of the code that
makes TLC refute it.

## Proofs

For every set of devices, files and contents and all bounds
(`PersonaSyncProofs`): `TypeCorrect`, `BaselineCorrect` and
`RevisionsNeverGoBack`. The invariant is `IInv == TypeOK /\ KnownRevisions /\
BaselineIsHistory`. A baseline equals the server's snapshot because an apply
carries the snapshot and its revision together through the journal, so the
invariant speaks of the journal as well as of the committed baseline; that needs
`KnownRevisions`, by which every revision a reply, a journal, a record or a
backup holds was published and is not behind the device's. `RevisionMonotone`
follows step by step.

On top of it (`PersonaSafetyProofs`): `OneOpenCorrect`, `ReceiptsCorrect`,
`ConflictsNeedDecisions`, `NothingLost` and `ReportsCorrect`. The outbox first,
with `OInv == IInv /\ OutboxFits`. `OneOpenUpdate` is not inductive, because rows
are closed by what a journal says and receipts are read before they are acted on:
`ApplyFits` says that a journaled apply completes rows that the server applied,
retires rows that it did not, and leaves none open beside a residual; `CallFits`
that the reply a process holds is still the receipt, and that beyond its recovery
there is no journal. `ReceiptFits` adds that a resolution which was applied is the
one its conflict records as its decision, so that the portal and the device cannot
both have decided. Then the files, with `FInv == OInv /\ \A d : FilesFit(d)`: what an
apply replaces was kept elsewhere when it was journaled and still is, as the history,
the payloads of rows and the backups only grow (`KeptForEver`), and while it writes, a
locked file holds what the preflight saw or already the target. The first part gives
`NoSilentLoss` (with the preflight, when the writing begins: `WritingBegins`), the
second `ReportsAreComplete`.

Last `NothingUnseen`, the action property `NoBlindOverwrite`, with
`CInv == OInv /\ HistoryFits /\ ...`: an update that is applied replaces only
server contents that its author had seen. The server refuses an update when a file
it sends has moved since its base, so the question is whether the base can be later
than what the author saw: it can, because what an interrupted exchange leaves over
is sent again on a newer base (`Towards`). `HistoryFits` says that the version of a
file changes only when the file is published; `RowCausal` that every update either
descends from its base or would be refused, as the file has moved; `OpenCausal` that
what is open was refused, or decided by the owner, no earlier than at the applied
revision; `FilesCausal` that a local content descends from the baseline unless an
open update sends it and the server has moved on; `JournalCausal` says the same of
what a journaled apply will leave, and `CallCausal` that a snapshot is applied only
when nothing is open. Together they say why a rebased remainder is safe: whenever
its content does not descend from its new base, the server has moved that very file,
so the remainder ends in a conflict and not over it.

For every set of requests and generations, all clock readings and limits
(`RelayLedgerProofs`): `TypeCorrect`, `CoverageCorrect`, `BudgetCorrect` and
`LifecycleImplemented`, the refinement. Its invariant adds to the types that a
retained receipt's deadline is past the last instant its ID is admissible
(`Retained`), that the ID of a deleted receipt is no longer admissible at the
clock floor (`NeverAgain`), and that an absent row is blank (`Blank`).
`NeverAgain` is what makes admission at-most-once: the floor only rises. For the
budget of a day it adds `Dated`: a receipt is kept for the whole retention after its
creation, so a retention job never deletes a receipt of the day whose spending an
admission adds up. The sums over finite sets that this needs (a summand is removed,
added or bounded) are lemmas of the module; induction over the set is done by a
minimal counterexample, as the library's induction theorems cannot be used. The
assumptions are those the modules state, among them that retention is at least
a day.

For every set of skills, contents and versions and all bounds
(`SkillActivationProofs`): `TypeCorrect`, `InstalledCorrect`,
`SessionsUndisturbed` and `ContentsKept`. The invariant adds three parts to the
types: `Places` says what is known between the steps of a recovery (before the
commit the directory is the target, unless it was edited), `Others` that every
directory but that of the pending operation is what was installed, `Quiet` that
in a session no operation is pending and the running command, if any, will defer.
`InstalledMatches` alone is not inductive: it says nothing while an operation is
pending, so nothing would be known when it commits. The assumptions are that the
model values are distinct and the personal skills are skills.

For every set of requests and all limits (`RelayBridgeProofs`): `TypeCorrect`,
`AnswerRecordedCorrect`, `ReconcilableCorrect`, `ReportedCorrect`,
`OneExecutionCorrect` and `ServiceImplemented`, the refinement of `InferenceService`.
The invariant has three parts. `JobInv` relates the await a
forwarding has reached to its outcome, its receipt and what the caller was given:
the outcome that was first decided is the only one that can still be recorded.
`TableInv` says that the IDs in the table are the first so many and that IDs and
bodies name each other, so that a body keeps its ID. `CallInv` relates the
progress of a call to that of the request it talks about; `Reported` is inductive
only with it, as the outcome of a call is decided by what the bridge has read of
the answer, not by what the forwarder did. For the refinement it adds `Origins`: the
call a request was admitted for waits for it or has had its end, and no two requests
have the same one. So the step that admits a request is an `Execute`, the one that
stores or loses an outcome a `Record`, the one that ends a call a `Tell` whose answer
`Reported` makes true, and every other step changes nothing a caller can see.

For every set of commands, databases and people and all bounds
(`IdentityRecoveryProofs`): `TypeCorrect`, `OneIdentityCorrect`,
`ResumableCorrect`, `NothingLostCorrect`, `SamePersonCorrect` and
`IdentityImplemented`, the refinement of `InstallationIdentity`. `ProgressInv`
says what the journal and the candidate hold at each step of a living recovery,
`IdentityInv` what is left when it dies there (between marker and configuration
the two disagree, and the journal says both), `DataInv` under which key data is in
place and in each archive, `LockInv` that no command runs beside a recovery or
before it is settled. `OneIdentity` needs all of them: a command is admitted when
the journal is settled and marker and configuration agree, and only the invariant
says under which key the databases it finds were written then. The refinement follows
from the same invariant: a rename into the archive moves data that the mapping still
counts as in use, `Settle` is the abstract `Replace`, because at that point no
database is left in place and no command shares the lock, and every other step of a
recovery, its deaths and resumptions included, stutters. Owner and key are then those
of the marker, which `IdentityInv` relates to the original configuration.

For every set of connections and all bounds (`ConnectionsProofs`): `TypeCorrect`,
`TraceableCorrect` and `BindingTestedCorrect`. `JournalInv` says what the kind and
phase of a request imply for its other fields, `CommandInv` what the step a
command has reached implies for its request, `CredentialInv` that a credential is
bound (`InUse`), listed for deletion by an open request (`Listed`) or the one an
open request will bind (`Awaited`). `Traceable` alone is not inductive: a request
to delete credentials keeps the one it began with in its row, and the invariant
must say that its list, not that field, is what will be deleted.

For every set of flushing commands, all capacities, clocks and faults
(`TelemetryOutboxProofs`): `TypeCorrect`, `DropsCorrect`, `ChainCorrect`,
`NeverBroken`, `DeliveredCorrect` and `StoredOnceCorrect`. The ages are any that
`MarginAssumption` allows: the server's retention is at least twice the age at which
an event is refused, and at least that age and the one at which an idle stream is
given up, each time plus the tolerated skew (the code has 30, 30 and 90 days and five
minutes). With a shorter retention TLC refutes `NoBrokenChain`, and with a still
shorter one `StoredOnce`: the server would forget a head, or a batch, that its
successor or its retry still needs. The
invariant is about an outbox, its metadata and the batches known outside of them,
as a transaction prunes first and goes on with what the pruning left. `LinkInv` and
`ChainInv` say how the pending rows hang together and how the metadata extend them,
`CountInv` accounts for events and drops, `MeetInv` says that the server's head is
the predecessor of the front of the queue or, if its reply was lost, the front
itself, `KnownInv` that a batch that is on its way was stored, is that front, or
belongs to an abandoned stream. Each of the last two needs the other: a late request
moves the head only if what it brings is the front.

Only model-checked: the liveness properties `Settles` (of the personality and of the
skills), `Settled`, `Emptied` and `Published`, as liveness under fairness is outside
the prover's reach. Every safety property of a passing run is a theorem. The type
invariants of `PersonaSync`, `SkillActivation`, `IdentityRecovery` and `RelayBridge`, and
`SamePerson`, which the refinement of `InstallationIdentity` contains, are proved and
not run. The invariants of the skills, of the recovery and of the connections hold in
TLC on the instances of their runs, and so does `Origins` of the bridge.

## Findings

`skill_adoption`: `SkillState.apply` takes a shortcut when the directory already
equals the package *described with the metadata of the installed one*
(`skill_state.py:158`). After an edit, `skills import --projected` under the same
version meets that condition: the import is recorded as wanted and answers
"applied", but `installed:` keeps the old package. The next sync refuses with
"Managed skill files changed or disappeared; import/derive or restore explicitly
before sync." (`skill_state.py:142`), after the very import it asks for.
`docs/SKILL_SYNC.md` asks for a new version (lines 33 and 43), which no code
checks. A new version, or a restore, repairs it.

`connections_forgotten`: `begin_forget` detaches all resumable activations of a
connection by the `connection_id` of their rows (`connection_store.py:162`). A
`create` request whose command died between the directory's answer to
`POST /v1/connections` and the update that stores the ID (`connections.py:312`)
has none yet, though its resumption activates that connection. After `authorize`
and `forget` of the connection, `resume` of the first request binds it again, with
the older credential. `docs/CONNECTIONS.md:81` says: "Forget atomically detaches
the local binding and cancels outstanding activation records before deleting all
associated native keys." `connections pending` shows the open request, and cancelling
it first avoids the case.

Seen while modelling and not made a run:

- `Connections` also reaches states in which a connection is bound and its credential
  is deleted. The cleanup of a replaced credential deletes what `finish` journaled
  (`connection_store.py:121`, `connections.py:371`) without looking whether it is
  bound by then; `docs/CONNECTIONS.md:81` calls it "old-key cleanup". The same kind of
  `create` request makes it possible, as it is open unseen beside others: after
  `authorize` of its connection a `test` is interrupted; `resume` of the creation
  binds its own token and is interrupted before its cleanup; `resume` of the test
  binds the authorized token again; `resume` of the creation finishes its cleanup and
  deletes the bound token. TLC finds it with three requests and three faults.
- `docs/RELAY_BRIDGE.md` says that bridge shutdown closes the upstream transport,
  which a handler that enters its call after the snapshot of `close` does not hear of
  (`Settled` shows that such a call still ends, by its deadline).

## Not modelled

- The exchange of skill packages with the portal (`SkillSync`): a protocol like
  that of `PersonaSync`, around the activations that `SkillActivation` models.
- The managed child, its lock file and signals (`runtime.py`, `runtime_lock.py`):
  the semantics of open, rename, flock and of signals during the creation of a
  process would be most of the model. Backup and restore of the personality are in
  `PersonaSync`.
- The companion's update: a sequential installation with one crash window.
- File encodings and size limits, terminal input, transport, TLS, signatures and
  authentication; `dry_run`, export and listing, which change nothing; the limit
  of a hundred passes of `flush_session`; answers of the report endpoint that only
  a server rolled back to an older state gives; the migration of legacy ledger
  tables; of the skill library its outbox, package format and built-in skills, and
  the content of a staging directory that an owner's recovery moves aside.
- What the descriptions of the modules above name as left out.

Hazards without a property are in `PROJECT.json`, each with the reason.

## Plan

Done, in this order: `PersonaServer` and `PersonaSync` (three runs, two modules of proofs);
`RelayLifecycle` and `RelayLedger` (one run, refinement, proofs);
`SkillActivation` (two runs, proofs); `MonitoringStore` and `TelemetryOutbox` (two
runs, proofs); `InstallationIdentity` and `IdentityRecovery` (one run, refinement, proofs);
`Connections` (two runs, proofs); `InferenceService`, `RelayForward` and
`RelayBridge` (one run, refinement, proofs). What is left:

1. `SkillSync` around `SkillActivation`, as `PersonaSync` is around
   `State.recover`: outbox, receipts, conflicts and the causal base of a
   resolution (`skill_sync.py`, `skills.ts`).
2. `ManagedChild`: lock, child process and signals; `CompanionUpdate`.
