------------------------- MODULE PersonaSafetyProofs -------------------------
(***************************************************************************)
(* Proofs about PersonaSync, for every number of devices, files, contents  *)
(* and every value of the bounds: first the outbox (one update in flight,  *)
(* rows that never contradict the server's receipts, conflicts that only a *)
(* decision ends), then the files (nothing is overwritten that is not kept *)
(* elsewhere, and what is reported as applied is on disk), and last what   *)
(* an update overwrites (never a server content that its author, unless it *)
(* is the owner's explicit resolution, has not seen).                      *)
(***************************************************************************)
EXTENDS PersonaSyncProofs

\* What row u's status says about the server's receipt of u.  An applied
\* resolution is the decision of its conflict: nobody else can have made it.
ReceiptFits(u) ==
    /\ rows[u].status = "done" => record[u].answer = "applied"
    /\ rows[u].status = "conflict" => record[u].answer = "conflict"
    /\ rows[u].status = "resolved" => record[u].answer # "applied"
    /\ rows[u].resolves < u
    /\ record[u].answer = "applied" /\ rows[u].resolves # 0 =>
        /\ Decided(rows[u].resolves)
        /\ record[rows[u].resolves].resolvedBy = u

\* OneOpenUpdate for one device.
OpenFits(d) ==
    /\ \A u, v \in Pending(d) : u = v
    /\ \A x, y \in Conflicts(d) : x = y
    /\ \A u \in Pending(d) : rows[u].resolves # 0 => rows[u].resolves \in Conflicts(d)
    /\ \A u \in Pending(d), x \in Conflicts(d) : rows[u].resolves = x

\* A process that is past its recovery has no apply to finish, one that may
\* queue has no conflict beside it, and a reply held agrees with the receipt.
CallFits(d) ==
    /\ call[d].at \in {"checked", "replied", "pulled"} => journal[d] = {}
    /\ call[d].at = "checked" => (Conflicts(d) # {} => Pending(d) # {})
    /\ call[d].at = "replied" =>
        /\ call[d].update \in Pending(d)
        /\ call[d].answer \in {"applied", "conflict"}
           => record[call[d].update].answer = call[d].answer
        /\ call[d].answer = "incomplete_resolution" => record[call[d].update].answer = "none"

\* Apply j of d completes what the server applied and retires what it did not;
\* unless it touches no row at all, it leaves nothing open.
Completes(d, j) ==
    /\ \A u \in j.done : u \in Pending(d) /\ record[u].answer = "applied"
    /\ \A u \in j.resolved : /\ u \in Open(d) /\ record[u].answer # "applied"
                             /\ u \in Conflicts(d) => Decided(u)
    /\ j.residual # NoChanges \/ j.done # {} \/ j.resolved # {}
       => Open(d) \subseteq j.done \cup j.resolved

ApplyFits(d) == \A j \in journal[d] : Completes(d, j)

OutboxFits ==
    /\ \A u \in Ids : ReceiptFits(u)
    /\ \A d \in Devices : OpenFits(d) /\ CallFits(d) /\ ApplyFits(d)

OInv == IInv /\ OutboxFits

----------------------------------------------------------------------------
\* What the type of the rows and of the records gives every step.
LEMMA RowFacts ==
    ASSUME IInv
    PROVE  /\ Ids = 1..Len(rows) /\ DOMAIN record = Ids /\ Len(rows) \in Nat
           /\ \A u \in Ids : u \in Nat /\ u > 0 /\ rows[u] \in Row /\ record[u] \in Record
PROOF
<1>1. /\ rows \in Seq(Row) /\ record \in Seq(Record) /\ Len(record) = Len(rows)
    BY DEF IInv, TypeOK, KnownRevisions
<1>2. Ids = 1..Len(rows) /\ DOMAIN record = 1..Len(rows) /\ Len(rows) \in Nat
    BY <1>1, LenProperties DEF Ids
<1> QED
    BY <1>1, <1>2

\* An open row is one of the rows, and has the device as its owner.
LEMMA OpenRows ==
    ASSUME NEW d
    PROVE  /\ \A u \in Pending(d) : u \in Ids /\ rows[u].owner = d /\ rows[u].status = "pending"
           /\ \A u \in Conflicts(d) : u \in Ids /\ rows[u].owner = d /\ rows[u].status = "conflict"
           /\ Open(d) = Pending(d) \cup Conflicts(d)
BY DEF Pending, Conflicts, Open, RowsOf

\* A device that a step leaves alone keeps what is said of it.
LEMMA DeviceKeeps ==
    ASSUME NEW e, OpenFits(e), CallFits(e), ApplyFits(e),
           call'[e] = call[e], journal'[e] = journal[e],
           Pending(e)' = Pending(e), Conflicts(e)' = Conflicts(e),
           \A u \in Open(e) : /\ rows'[u].resolves = rows[u].resolves
                              /\ record'[u].answer = record[u].answer
                              /\ Decided(u) => Decided(u)'
    PROVE  OpenFits(e)' /\ CallFits(e)' /\ ApplyFits(e)'
PROOF
<1>1. Open(e) = Pending(e) \cup Conflicts(e) /\ Open(e)' = Open(e)
    BY DEF Open
<1>2. OpenFits(e)'
    BY <1>1 DEF OpenFits
<1>3. CallFits(e)'
    BY <1>1 DEF CallFits
<1>4. ApplyFits(e)'
    BY <1>1 DEF ApplyFits, Completes
<1> QED
    BY <1>2, <1>3, <1>4

\* The rows of e are open as before if a step queues and marks none of them.
LEMMA OtherRows ==
    ASSUME NEW e, Ids \subseteq Ids',
           \A u \in Ids' : u \notin Ids => rows'[u].owner # e,
           \A u \in Ids : /\ rows'[u].owner = rows[u].owner
                          /\ rows[u].owner = e => rows'[u].status = rows[u].status
    PROVE  Pending(e)' = Pending(e) /\ Conflicts(e)' = Conflicts(e)
BY DEF Pending, Conflicts, RowsOf

\* A step of d keeps the outbox in order if it fits d and every receipt, and
\* touches no other device's rows, receipts, process and apply.
LEMMA StepOfDevice ==
    ASSUME OInv, IInv', NEW d \in Devices,
           \A e \in Devices : e # d => call'[e] = call[e] /\ journal'[e] = journal[e],
           Ids \subseteq Ids',
           \A u \in Ids' : u \notin Ids => rows'[u].owner = d,
           \A u \in Ids : /\ rows'[u].owner = rows[u].owner
                          /\ rows'[u].resolves = rows[u].resolves
                          /\ Decided(u) => Decided(u)'
                          /\ rows[u].owner # d => /\ rows'[u].status = rows[u].status
                                                  /\ record'[u].answer = record[u].answer,
           \A u \in Ids' : ReceiptFits(u)',
           OpenFits(d)', CallFits(d)', ApplyFits(d)'
    PROVE  OInv'
PROOF
<1>1. ASSUME NEW e \in Devices
      PROVE  OpenFits(e)' /\ CallFits(e)' /\ ApplyFits(e)'
    <2>1. CASE e = d
        BY <2>1
    <2>2. CASE e # d
        <3>1. Pending(e)' = Pending(e) /\ Conflicts(e)' = Conflicts(e)
            BY <2>2, OtherRows
        <3>2. \A u \in Open(e) : u \in Ids /\ rows[u].owner = e
            BY OpenRows
        <3>3. OpenFits(e) /\ CallFits(e) /\ ApplyFits(e)
            BY DEF OInv, OutboxFits
        <3> QED
            BY <2>2, <3>1, <3>2, <3>3, DeviceKeeps
    <2> QED
        BY <2>1, <2>2
<1> QED
    BY <1>1 DEF OInv, OutboxFits

\* The same for a step that leaves the rows and the receipts alone.
LEMMA StepOfProcess ==
    ASSUME OInv, IInv', NEW d \in Devices, UNCHANGED <<rows, record>>,
           \A e \in Devices : e # d => call'[e] = call[e] /\ journal'[e] = journal[e],
           CallFits(d)', ApplyFits(d)'
    PROVE  OInv'
PROOF
<1>1. rows' = rows /\ record' = record
    OBVIOUS
<1>2. Ids' = Ids /\ Pending(d)' = Pending(d) /\ Conflicts(d)' = Conflicts(d)
    BY <1>1 DEF Ids, Pending, Conflicts, RowsOf
<1>3. \A u \in Ids : ReceiptFits(u)
    BY DEF OInv, OutboxFits
<1>4. \A u \in Ids' : ReceiptFits(u)'
    BY <1>1, <1>2, <1>3 DEF ReceiptFits, Decided
<1>5. OpenFits(d)'
    BY <1>1, <1>2 DEF OInv, OutboxFits, OpenFits
<1>6. \A u \in Ids : Decided(u) => Decided(u)'
    BY <1>1 DEF Decided
<1> QED
    BY <1>1, <1>2, <1>4, <1>5, <1>6, StepOfDevice

\* A process moves on and its apply is untouched.
LEMMA ProcessMoves ==
    ASSUME OInv, IInv', NEW d \in Devices, NEW c, call' = [call EXCEPT ![d] = c],
           UNCHANGED <<rows, record, journal>>,
           c.at \in {"checked", "replied", "pulled"} => journal[d] = {},
           c.at = "checked" => (Conflicts(d) # {} => Pending(d) # {}),
           c.at = "replied" =>
               /\ c.update \in Pending(d)
               /\ c.answer \in {"applied", "conflict"} => record[c.update].answer = c.answer
               /\ c.answer = "incomplete_resolution" => record[c.update].answer = "none"
    PROVE  OInv'
PROOF
<1>1. /\ rows' = rows /\ record' = record /\ journal' = journal
      /\ call'[d] = c /\ \A e \in Devices : e # d => call'[e] = call[e]
    BY DEF OInv, IInv, TypeOK
<1>2. Pending(d)' = Pending(d) /\ Conflicts(d)' = Conflicts(d) /\ Open(d)' = Open(d)
    BY <1>1 DEF Ids, Pending, Conflicts, Open, RowsOf
<1>3. CallFits(d)'
    BY <1>1, <1>2 DEF CallFits
<1>4. ApplyFits(d)'
    BY <1>1, <1>2 DEF OInv, OutboxFits, ApplyFits, Completes, Decided
<1> QED
    BY <1>1, <1>3, <1>4, StepOfProcess

\* An apply that fits the outbox is journaled.
LEMMA ApplyStarts ==
    ASSUME OInv, IInv', NEW d \in Devices, NEW j, StartApply(d, j), Completes(d, j),
           UNCHANGED <<rows, record>>
    PROVE  OInv'
PROOF
<1>1. /\ rows' = rows /\ record' = record
      /\ call'[d].at = "journaled" /\ journal'[d] = {j}
      /\ \A e \in Devices : e # d => call'[e] = call[e] /\ journal'[e] = journal[e]
    BY DEF OInv, IInv, TypeOK, StartApply, At, Idle
<1>2. Pending(d)' = Pending(d) /\ Conflicts(d)' = Conflicts(d) /\ Open(d)' = Open(d)
    BY <1>1 DEF Ids, Pending, Conflicts, Open, RowsOf
<1>3. CallFits(d)'
    BY <1>1 DEF CallFits
<1>4. ApplyFits(d)'
    BY <1>1, <1>2 DEF ApplyFits, Completes, Decided
<1> QED
    BY <1>1, <1>3, <1>4, StepOfProcess

----------------------------------------------------------------------------
\* The outbox is in order initially: it is empty.
LEMMA InitOInv == Init => OInv
PROOF
<1> SUFFICES ASSUME Init PROVE OInv
    OBVIOUS
<1>1. IInv
    BY InitIInv
<1>2. Ids = {} /\ \A d \in Devices : call[d].at = "idle" /\ journal[d] = {}
    BY DEF Init, Ids, Idle
<1>3. \A d \in Devices : Pending(d) = {} /\ Conflicts(d) = {}
    BY <1>2 DEF Pending, Conflicts, RowsOf
<1> QED
    BY <1>1, <1>2, <1>3 DEF OInv, OutboxFits, OpenFits, CallFits, ApplyFits

\* The steps at which a process stops, or goes on with its apply.
LEMMA ProcessSteps ==
    ASSUME OInv, IInv', NEW d \in Devices,
           \/ RejectChanged(d) \/ PullRaced(d) \/ Recover(d) \/ PreflightPasses(d)
           \/ PreflightFails(d) \/ WriteFile(d) \/ Abort(d)
    PROVE  OInv'
PROOF
<1>1. UNCHANGED <<rows, record, journal>>
    BY DEF RejectChanged, PullRaced, Recover, PreflightPasses, PreflightFails, WriteFile, Abort,
           serverVars, clientVars
<1>2. CASE WriteFile(d)
    <2>1. /\ call \in [Devices -> Call] /\ call[d] \in Call /\ call[d].at = "writing"
          /\ call' = [call EXCEPT ![d] = [call[d] EXCEPT !.next = call[d].next + 1]]
        BY <1>2 DEF WriteFile, OInv, IInv, TypeOK
    <2>2. [call[d] EXCEPT !.next = call[d].next + 1].at = "writing"
        BY <2>1 DEF Call
    <2> QED
        BY <1>1, <2>1, <2>2, ProcessMoves
<1>3. CASE ~WriteFile(d)
    <2>1. PICK c \in {Idle, At("journaled"), At("writing")} : call' = [call EXCEPT ![d] = c]
        BY <1>3 DEF RejectChanged, PullRaced, Recover, PreflightPasses, PreflightFails, Abort
    <2>2. c.at \in {"idle", "journaled", "writing"}
        BY <2>1 DEF Idle, At
    <2> QED
        BY <1>1, <2>1, <2>2, ProcessMoves
<1> QED
    BY <1>2, <1>3

\* A run begins, or fetches, only with nothing to recover.
LEMMA BeginSteps ==
    ASSUME OInv, IInv', NEW d \in Devices, Begin(d) \/ Pull(d)
    PROVE  OInv'
PROOF
<1>1. UNCHANGED <<rows, record, journal>>
    BY DEF Begin, Pull, serverVars, clientVars
<1>2. CASE Begin(d)
    <2>1. call' = [call EXCEPT ![d] = At("checked")] /\ At("checked").at = "checked"
        BY <1>2 DEF Begin, At, Idle
    <2>2. journal[d] = {} /\ (Conflicts(d) # {} => Pending(d) # {})
        BY <1>2 DEF Begin, Ready, FirstPending
    <2> QED
        BY <1>1, <2>1, <2>2, ProcessMoves
<1>3. CASE Pull(d)
    <2>1. /\ call' = [call EXCEPT ![d] = [At("pulled") EXCEPT !.revision = head]]
          /\ [At("pulled") EXCEPT !.revision = head].at = "pulled"
        BY <1>3 DEF Pull, At, Idle
    <2>2. journal[d] = {}
        BY <1>3 DEF Pull, OInv, OutboxFits, CallFits
    <2> QED
        BY <1>1, <2>1, <2>2, ProcessMoves
<1> QED
    BY <1>2, <1>3

\* Edits, backups, reports and the boundaries that queue nothing.
LEMMA QuietSteps ==
    ASSUME OInv, IInv', NEW d \in Devices,
           UNCHANGED <<rows, record, journal, call>>
    PROVE  OInv'
PROOF
<1>1. call' = [call EXCEPT ![d] = call[d]]
    BY DEF OInv, IInv, TypeOK
<1>2. CallFits(d)
    BY DEF OInv, OutboxFits
<1> QED
    BY <1>1, <1>2, ProcessMoves DEF CallFits

----------------------------------------------------------------------------
\* The one pending update is the first.
LEMMA OnlyPending ==
    ASSUME OInv, NEW d \in Devices, NEW u \in Pending(d)
    PROVE  FirstPending(d) = {u} /\ Pending(d) = {u}
PROOF
<1>1. Pending(d) = {u}
    BY DEF OInv, OutboxFits, OpenFits
<1>2. u \in Nat
    BY RowFacts, OpenRows DEF OInv
<1> QED
    BY <1>1, <1>2 DEF FirstPending

\* What an update and its conflict are: all that is open of a device.
LEMMA OpenRowsOf ==
    ASSUME OInv, NEW d \in Devices, NEW u \in Pending(d)
    PROVE  /\ Open(d) \subseteq {u} \cup ({rows[u].resolves} \ {0})
           /\ rows[u].resolves # 0 => rows[u].resolves \in Conflicts(d)
PROOF
<1>1. OpenFits(d)
    BY DEF OInv, OutboxFits
<1>2. \A x \in Conflicts(d) : x = rows[u].resolves /\ x # 0
    BY <1>1, RowFacts, OpenRows DEF OInv, OpenFits
<1> QED
    BY <1>1, <1>2, OnlyPending, OpenRows DEF OpenFits

\* A conflict's row and receipt.
LEMMA ConflictReceipt ==
    ASSUME OInv, NEW d \in Devices, NEW x \in Conflicts(d)
    PROVE  x \in Ids /\ x # 0 /\ record[x].answer = "conflict"
BY RowFacts, OpenRows DEF OInv, OutboxFits, ReceiptFits

\* What an apply towards a revision does to the rows.
LEMMA TowardsRows ==
    ASSUME NEW d, NEW r, NEW target, NEW residual, NEW residualBase, NEW done, NEW resolved,
           NEW newBasis
    PROVE  /\ Towards(d, r, target, residual, residualBase, done, resolved, newBasis).done = done
           /\ Towards(d, r, target, residual, residualBase, done, resolved, newBasis).resolved
                  = resolved
           /\ Towards(d, r, target, residual, residualBase, done, resolved, newBasis).residual
                  = residual
BY DEF Towards

\* An acknowledged update is completed, and the conflict it decided retired.
LEMMA AcknowledgedKeeps ==
    ASSUME OInv, IInv', NEW d \in Devices, ApplyAcknowledged(d)
    PROVE  OInv'
PROOF
<1> DEFINE u == call[d].update
           x == rows[u].resolves
<1>1. PICK j :
        /\ StartApply(d, j) /\ j.done = {u} /\ j.resolved = {x} \ {0}
    <2>1. PICK target, residual, newBasis :
            StartApply(d, Towards(d, call[d].revision, target, residual, revision[d],
                                  {u}, {x} \ {0}, newBasis))
        BY DEF ApplyAcknowledged
    <2> QED
        BY <2>1, TowardsRows
<1>2. call[d].at = "replied" /\ call[d].answer = "applied" /\ UNCHANGED <<rows, record>>
    BY DEF ApplyAcknowledged, serverVars
<1>3. u \in Pending(d) /\ record[u].answer = "applied"
    BY <1>2 DEF OInv, OutboxFits, CallFits
<1>4. u \in Ids
    BY <1>3, OpenRows
<1>5. x # 0 => x \in Conflicts(d) /\ record[x].answer = "conflict" /\ Decided(x)
    BY <1>3, <1>4, OpenRowsOf, ConflictReceipt DEF OInv, OutboxFits, ReceiptFits
<1>6. Completes(d, j)
    BY <1>1, <1>3, <1>5, OpenRowsOf, OpenRows DEF Completes
<1> QED
    BY <1>1, <1>2, <1>6, ApplyStarts

\* Applies of a fetched snapshot and of a backup touch no row.
LEMMA PlainApplyKeeps ==
    ASSUME OInv, IInv', NEW d \in Devices,
           ApplyPulled(d) \/ \E saved \in backups[d] : Restore(d, saved)
    PROVE  OInv'
PROOF
<1>1. PICK j :
        StartApply(d, j) /\ j.done = {} /\ j.resolved = {} /\ j.residual = NoChanges
    <2>1. CASE ApplyPulled(d)
        <3>1. StartApply(d, Towards(d, call[d].revision, Remote(call[d].revision), NoChanges, 0,
                                    {}, {}, Remote(call[d].revision)))
            BY <2>1 DEF ApplyPulled
        <3> QED
            BY <3>1, TowardsRows
    <2>2. CASE \E saved \in backups[d] : Restore(d, saved)
        BY <2>2 DEF Restore
    <2> QED
        BY <2>1, <2>2
<1>2. UNCHANGED <<rows, record>>
    BY DEF ApplyPulled, Restore, serverVars
<1>3. Completes(d, j)
    BY <1>1 DEF Completes
<1> QED
    BY <1>1, <1>2, <1>3, ApplyStarts

\* recover --choice changes which files win, not which rows are completed.
LEMMA ChoiceKeeps ==
    ASSUME OInv, IInv', NEW d \in Devices, NEW keepLocal \in BOOLEAN,
           RecoverChoice(d, keepLocal)
    PROVE  OInv'
PROOF
<1>1. PICK j, k :
        /\ j \in journal[d]
        /\ StartApply(d, k)
        /\ k.done = j.done /\ k.resolved = j.resolved /\ k.residual = j.residual
    <2>1. PICK j, target, newBasis :
            /\ j \in journal[d]
            /\ StartApply(d, [j EXCEPT !.expected = files[d], !.target = target,
                                       !.basis = newBasis])
        BY DEF RecoverChoice
    <2>2. j \in Journal
        BY <2>1 DEF OInv, IInv, TypeOK
    <2> DEFINE k == [j EXCEPT !.expected = files[d], !.target = target, !.basis = newBasis]
    <2>3. k.done = j.done /\ k.resolved = j.resolved /\ k.residual = j.residual
        BY <2>2 DEF Journal
    <2> QED
        BY <2>1, <2>3
<1>2. UNCHANGED <<rows, record>>
    BY DEF RecoverChoice, serverVars
<1>3. Completes(d, k)
    BY <1>1 DEF OInv, OutboxFits, ApplyFits, Completes
<1> QED
    BY <1>1, <1>2, <1>3, ApplyStarts

\* A conflict decided elsewhere is retired: it is all that is open.
LEMMA DecidedKeeps ==
    ASSUME OInv, IInv', NEW d \in Devices, NEW x \in Conflicts(d), ReconcileDecided(d, x)
    PROVE  OInv'
PROOF
<1>1. PICK j : StartApply(d, j) /\ j.done = {} /\ j.resolved = {x}
    BY DEF ReconcileDecided, Towards
<1>2. Decided(x) /\ UNCHANGED <<rows, record>>
    BY DEF ReconcileDecided, serverVars
<1>3. Pending(d) = {}
    <2>1. ASSUME NEW u \in Pending(d) PROVE FALSE
        <3>1. u \in FirstPending(d) /\ rows[u].resolves = x
            BY OnlyPending DEF OInv, OutboxFits, OpenFits
        <3> QED
            BY <3>1 DEF ReconcileDecided
    <2> QED
        BY <2>1
<1>4. Conflicts(d) = {x}
    BY DEF OInv, OutboxFits, OpenFits
<1>5. Completes(d, j)
    BY <1>1, <1>2, <1>3, <1>4, ConflictReceipt, OpenRows DEF Completes
<1> QED
    BY <1>1, <1>2, <1>5, ApplyStarts

\* A resolution that lost to another decision was not itself applied.
LEMMA LosingKeeps ==
    ASSUME OInv, IInv', NEW d \in Devices, NEW x \in Conflicts(d), ReconcileLosing(d, x)
    PROVE  OInv'
PROOF
<1>1. PICK u \in FirstPending(d) : rows[u].resolves = x /\ \E j :
        StartApply(d, j) /\ j.done = {} /\ j.resolved = {x, u}
    BY DEF ReconcileLosing, Towards
<1>2. PICK j : StartApply(d, j) /\ j.done = {} /\ j.resolved = {x, u}
    BY <1>1
<1>3. DecidedElsewhere(d, x) /\ UNCHANGED <<rows, record>>
    BY DEF ReconcileLosing, serverVars
<1>4. u \in Pending(d) /\ u \in Ids
    BY OpenRows DEF FirstPending
<1>5. Decided(x) /\ record[x].resolvedBy # u
    BY <1>1, <1>3 DEF DecidedElsewhere
<1>6. record[u].answer # "applied"
    BY <1>1, <1>4, <1>5, ConflictReceipt DEF OInv, OutboxFits, ReceiptFits
<1>7. u \notin Conflicts(d)
    BY <1>4, OpenRows
<1>8. Completes(d, j)
    BY <1>1, <1>2, <1>4, <1>5, <1>6, <1>7, ConflictReceipt, OpenRowsOf, OpenRows DEF Completes
<1> QED
    BY <1>2, <1>3, <1>8, ApplyStarts

----------------------------------------------------------------------------
\* What a receipt and a decision change of a record.
LEMMA RecordParts ==
    ASSUME NEW y \in Record, NEW a, NEW b, NEW h
    PROVE  /\ Receipt(y, a, h).answer = a
           /\ Receipt(y, a, h).resolvedBy = y.resolvedBy
           /\ Receipt(y, a, h).resolvedRevision = y.resolvedRevision
           /\ Decision(y, b, h).answer = y.answer
           /\ Decision(y, b, h).resolvedBy = b
           /\ Decision(y, b, h).resolvedRevision = h
BY DEF Record, Receipt, Decision

\* The reply a process holds after the server answered its pending update.
LEMMA ReplyFits ==
    ASSUME OInv, NEW d \in Devices, NEW u \in Pending(d), NEW answer, NEW r,
           Reply(d, u, answer, r), UNCHANGED <<rows, journal>>, call[d].at = "checked",
           answer \in {"applied", "conflict"} => record'[u].answer = answer,
           answer = "incomplete_resolution" => record'[u].answer = "none"
    PROVE  /\ CallFits(d)' /\ ApplyFits(d)' /\ OpenFits(d)'
           /\ \A e \in Devices : e # d => call'[e] = call[e] /\ journal'[e] = journal[e]
PROOF
<1> DEFINE c == [At("replied") EXCEPT !.update = u, !.answer = answer, !.revision = r]
<1>1. c.at = "replied" /\ c.update = u /\ c.answer = answer
    BY DEF At, Idle
<1>2. call' = [call EXCEPT ![d] = c]
    BY DEF Reply
<1> HIDE DEF c
<1>3. /\ rows' = rows /\ journal' = journal
      /\ call'[d] = c /\ \A e \in Devices : e # d => call'[e] = call[e]
    BY <1>2 DEF OInv, IInv, TypeOK
<1>4. Ids' = Ids /\ Pending(d)' = Pending(d) /\ Conflicts(d)' = Conflicts(d)
    BY <1>3 DEF Ids, Pending, Conflicts, RowsOf
<1>5. journal[d] = {}
    BY DEF OInv, OutboxFits, CallFits
<1>6. CallFits(d)'
    BY <1>1, <1>3, <1>4, <1>5 DEF CallFits
<1>7. ApplyFits(d)'
    BY <1>3, <1>5 DEF ApplyFits
<1>8. OpenFits(d)'
    BY <1>3, <1>4 DEF OInv, OutboxFits, OpenFits
<1> QED
    BY <1>3, <1>6, <1>7, <1>8

\* The server's answer to a new update is recorded once: the receipt that u has
\* not had yet, and the decision that its conflict has not had yet.
LEMMA PostKeeps ==
    ASSUME OInv, IInv', NEW d \in Devices, Post(d)
    PROVE  OInv'
PROOF
<1>1. PICK u \in Pending(d) :
        PostAgain(d, u) \/ PostUnavailable(d, u) \/ PostStale(d, u) \/ PostConflict(d, u)
          \/ PostApplied(d, u)
    BY DEF Post, FirstPending
<1>2. call[d].at = "checked" /\ UNCHANGED <<rows, journal>> /\ rows' = rows /\ Ids' = Ids
    BY DEF Post, clientVars, Ids
<1>3. u \in Ids /\ rows[u].owner = d /\ rows[u].status = "pending"
    BY OpenRows
<1>4. \A v \in Ids : ReceiptFits(v)
    BY DEF OInv, OutboxFits
<1>5. CASE PostAgain(d, u) \/ PostUnavailable(d, u) \/ PostStale(d, u)
    <2>1. record' = record
        BY <1>5 DEF PostAgain, PostUnavailable, PostStale, serverVars
    <2>2. PICK answer, r :
            /\ Reply(d, u, answer, r)
            /\ answer \in {"applied", "conflict"} => record'[u].answer = answer
            /\ answer = "incomplete_resolution" => record'[u].answer = "none"
        <3>1. CASE PostAgain(d, u)
            <4>1. record[u].answer # "incomplete_resolution"
                BY <1>3, RowFacts DEF OInv, Record
            <4> QED
                BY <2>1, <3>1, <4>1 DEF PostAgain
        <3>2. CASE PostUnavailable(d, u)
            BY <3>2 DEF PostUnavailable
        <3>3. CASE PostStale(d, u)
            BY <2>1, <3>3 DEF PostStale
        <3> QED
            BY <1>5, <3>1, <3>2, <3>3
    <2>3. /\ CallFits(d)' /\ ApplyFits(d)'
          /\ \A e \in Devices : e # d => call'[e] = call[e] /\ journal'[e] = journal[e]
        BY <1>2, <2>2, ReplyFits
    <2> QED
        BY <1>2, <2>1, <2>3, StepOfProcess
<1>6. CASE PostConflict(d, u) \/ PostApplied(d, u)
    <2> DEFINE x == rows[u].resolves
    <2>1. PICK a \in {"applied", "conflict"}, h \in Nat, decides \in BOOLEAN :
            /\ record[u].answer = "none" /\ Reply(d, u, a, h)
            /\ a = "applied" => (x # 0 => decides)
            /\ decides => x \in Ids /\ x # u /\ ~Decided(x) /\ h > 0
            /\ \A v \in Ids : record'[v] = IF v = u THEN Receipt(record[v], a, h)
                                           ELSE IF decides /\ v = x
                                           THEN Decision(record[v], u, h)
                                           ELSE record[v]
        <3>1. head \in Nat /\ DOMAIN record = Ids /\ x \in Nat /\ x < u
            BY <1>3, <1>4, RowFacts DEF OInv, IInv, TypeOK, Row, ReceiptFits
        <3>2. CASE PostConflict(d, u)
            <4>1. \A v \in Ids : record'[v] = IF v = u THEN Receipt(record[v], "conflict", head)
                                              ELSE record[v]
                BY <3>1, <3>2, <1>3, RowFacts DEF OInv, PostConflict, Retained
            <4> QED
                BY <3>1, <3>2, <4>1 DEF PostConflict
        <3>3. CASE PostApplied(d, u)
            <4>1. /\ record[u].answer = "none" /\ Reply(d, u, "applied", head + 1)
                  /\ x # 0 => ~Decided(x)
                BY <3>3 DEF PostApplied
            <4>2. \A v \in Ids : record'[v] =
                    IF v = u THEN Receipt(record[v], "applied", head + 1)
                    ELSE IF v = x THEN Decision(record[v], u, head + 1)
                    ELSE record[v]
                BY <3>1, <3>3 DEF PostApplied, Accepted
            <4>3. x # 0 => x \in Ids /\ x # u
                BY <1>3, <3>1, RowFacts DEF OInv
            <4>4. 0 \notin Ids
                BY RowFacts DEF OInv
            <4>5. CASE x # 0
                BY <3>1, <4>1, <4>2, <4>3, <4>5, head + 1 \in Nat, head + 1 > 0
            <4>6. CASE x = 0
                <5>1. \A v \in Ids : record'[v] =
                        IF v = u THEN Receipt(record[v], "applied", head + 1)
                        ELSE IF FALSE /\ v = x THEN Decision(record[v], u, head + 1)
                        ELSE record[v]
                    BY <4>2, <4>4, <4>6
                <5>2. head + 1 \in Nat /\ FALSE \in BOOLEAN
                    BY <3>1
                <5> QED
                    BY <4>1, <4>6, <5>1, <5>2
            <4> QED
                BY <4>5, <4>6
        <3> QED
            BY <1>6, <3>2, <3>3
    <2>2. /\ record'[u].answer = a
          /\ \A v \in Ids : v # u => record'[v].answer = record[v].answer
        <3>1. \A v \in Ids : record[v] \in Record
            BY RowFacts DEF OInv
        <3>2. record'[u] = Receipt(record[u], a, h)
            BY <1>3, <2>1
        <3>3. record'[u].answer = a
            BY <1>3, <3>1, <3>2, RecordParts
        <3>4. ASSUME NEW v \in Ids, v # u PROVE record'[v].answer = record[v].answer
            <4>1. record'[v] = Decision(record[v], u, h) \/ record'[v] = record[v]
                BY <2>1, <3>4
            <4> QED
                BY <3>1, <4>1, RecordParts
        <3> QED
            BY <3>3, <3>4
    <2>3. \A v \in Ids : Decided(v) =>
            Decided(v)' /\ record'[v].resolvedBy = record[v].resolvedBy
        BY <2>1, RecordParts, RowFacts DEF OInv, Decided
    <2>4. decides => Decided(x)' /\ record'[x].resolvedBy = u
        <3> SUFFICES ASSUME decides PROVE Decided(x)' /\ record'[x].resolvedBy = u
            OBVIOUS
        <3>1. record'[x] = Decision(record[x], u, h) /\ h > 0
            BY <2>1
        <3>2. record[x] \in Record
            BY <2>1, RowFacts DEF OInv
        <3>3. record'[x].resolvedBy = u /\ record'[x].resolvedRevision = h
            BY <3>1, <3>2, RecordParts
        <3> QED
            BY <1>2, <3>1, <3>3 DEF Decided
    <2>5. ASSUME NEW v \in Ids PROVE ReceiptFits(v)'
        <3>1. ReceiptFits(v)
            BY <1>4
        <3>2. CASE v = u
            BY <1>2, <1>3, <2>1, <2>2, <2>4, <3>1, <3>2 DEF ReceiptFits
        <3>3. CASE v # u
            <4>1. record'[v].answer = record[v].answer
                BY <2>2, <3>3
            <4>2. rows[v].resolves # 0 => rows[v].resolves \in Ids
                BY <3>1, RowFacts DEF OInv, ReceiptFits, Row
            <4> QED
                BY <1>2, <2>3, <3>1, <4>1, <4>2 DEF ReceiptFits, Decided
        <3> QED
            BY <3>2, <3>3
    <2>6. /\ CallFits(d)' /\ ApplyFits(d)' /\ OpenFits(d)'
          /\ \A e \in Devices : e # d => call'[e] = call[e] /\ journal'[e] = journal[e]
        BY <1>2, <2>1, <2>2, ReplyFits
    <2> QED
        BY <1>2, <1>3, <2>2, <2>3, <2>5, <2>6, StepOfDevice
<1> QED
    BY <1>1, <1>5, <1>6

\* The portal decides an undecided conflict; no receipt's answer changes.
LEMMA PortalKeeps ==
    ASSUME OInv, IInv', NEW x \in Ids, NEW keepCandidate, NEW wholeCandidate,
           PortalResolve(x, keepCandidate, wholeCandidate)
    PROVE  OInv'
PROOF
<1>1. /\ ~Decided(x) /\ record' = [record EXCEPT ![x] = Decision(record[x], 0, head + 1)]
      /\ rows' = rows /\ call' = call /\ journal' = journal /\ Ids' = Ids
    BY DEF PortalResolve, PortalDecision, clientVars, Ids
<1>2. head \in Nat /\ DOMAIN record = Ids
    BY RowFacts DEF OInv, IInv, TypeOK
<1>3. \A v \in Ids : record'[v].answer = record[v].answer
    BY <1>1, <1>2, RecordParts, RowFacts DEF OInv
<1>4. \A v \in Ids : Decided(v) => Decided(v)' /\ record'[v].resolvedBy = record[v].resolvedBy
    BY <1>1, <1>2 DEF Decided
<1>5. ASSUME NEW v \in Ids PROVE ReceiptFits(v)'
    <2>1. ReceiptFits(v)
        BY DEF OInv, OutboxFits
    <2>2. rows[v].resolves # 0 => rows[v].resolves \in Ids
        BY <2>1, RowFacts DEF OInv, ReceiptFits, Row
    <2> QED
        BY <1>1, <1>3, <1>4, <2>1, <2>2 DEF ReceiptFits, Decided
<1>6. ASSUME NEW d \in Devices PROVE OpenFits(d)' /\ CallFits(d)' /\ ApplyFits(d)'
    <2>1. Pending(d)' = Pending(d) /\ Conflicts(d)' = Conflicts(d)
        BY <1>1 DEF Pending, Conflicts, RowsOf
    <2>2. \A u \in Open(d) : u \in Ids
        BY OpenRows
    <2>3. OpenFits(d) /\ CallFits(d) /\ ApplyFits(d)
        BY DEF OInv, OutboxFits
    <2> QED
        BY <1>1, <1>3, <1>4, <2>1, <2>2, <2>3, DeviceKeeps
<1> QED
    BY <1>1, <1>5, <1>6 DEF OInv, OutboxFits

----------------------------------------------------------------------------
\* A queued row comes last, after the rows kept, and the server has not heard
\* of it.
LEMMA QueuedRow ==
    ASSUME IInv, IInv', NEW row \in Row, NEW kept \in Seq(Row), Len(kept) = Len(rows),
           rows' = Append(kept, row), record' = Append(record, NoRecord)
    PROVE  LET n == Len(rows) + 1
           IN  /\ n \in Nat /\ n \notin Ids /\ Ids' = Ids \cup {n}
               /\ rows'[n] = row /\ record'[n].answer = "none" /\ record'[n].resolvedRevision = 0
               /\ \A u \in Ids : rows'[u] = kept[u] /\ record'[u] = record[u]
PROOF
<1>1. rows \in Seq(Row) /\ record \in Seq(Record) /\ Len(record) = Len(rows)
    BY DEF IInv, TypeOK, KnownRevisions
<1>2. Ids = 1..Len(rows) /\ Len(rows) \in Nat /\ Ids' = 1..Len(rows')
    BY RowFacts, LenProperties DEF IInv, TypeOK, Ids
<1>3. Len(rows') = Len(rows) + 1
    BY <1>1
<1>4. rows'[Len(rows) + 1] = row /\ record'[Len(rows) + 1] = NoRecord
    BY <1>1
<1>5. \A u \in 1..Len(rows) : rows'[u] = kept[u] /\ record'[u] = record[u]
    BY <1>1
<1>6. /\ Len(rows) + 1 \in Nat /\ Len(rows) + 1 \notin 1..Len(rows)
      /\ 1..(Len(rows) + 1) = 1..Len(rows) \cup {Len(rows) + 1}
    BY <1>2
<1>7. Ids' = 1..(Len(rows) + 1)
    BY <1>2, <1>3
<1>8. NoRecord.answer = "none" /\ NoRecord.resolvedRevision = 0
    BY DEF NoRecord
<1> DEFINE n == Len(rows) + 1
<1> HIDE DEF n
<1>9. /\ n \in Nat /\ n \notin Ids /\ Ids' = Ids \cup {n}
      /\ rows'[n] = row /\ record'[n].answer = "none" /\ record'[n].resolvedRevision = 0
    BY <1>2, <1>4, <1>6, <1>7, <1>8 DEF n
<1> QED
    BY <1>2, <1>5, <1>9 DEF n

\* A row is queued with nothing pending: alone, or as the resolution of the
\* one retained conflict.
LEMMA QueueKeeps ==
    ASSUME OInv, IInv', NEW d \in Devices, NEW base, NEW changes, NEW resolves, NEW expected,
           QueueRow(d, base, changes, resolves, expected), UNCHANGED <<call, journal>>,
           journal[d] = {}, call[d].at # "replied", Pending(d) = {},
           resolves \in Conflicts(d) \/ (resolves = 0 /\ Conflicts(d) = {})
    PROVE  OInv'
PROOF
<1> DEFINE n == Len(rows) + 1
           row == [owner |-> d, base |-> base, changes |-> changes, resolves |-> resolves,
                   expected |-> expected, basis |-> basis[d], status |-> "pending"]
<1>1. rows' = Append(rows, row) /\ record' = Append(record, NoRecord)
    BY DEF QueueRow
<1>2. row \in Row
    <2>1. rows' \in Seq(Row) /\ Len(rows) \in Nat /\ n \in 1..Len(rows') /\ rows'[n] = row
        BY <1>1, RowFacts DEF OInv, IInv, TypeOK
    <2> QED
        BY <2>1
<1>3. /\ n \in Nat /\ n \notin Ids /\ Ids' = Ids \cup {n}
      /\ rows'[n] = row /\ record'[n].answer = "none"
      /\ \A u \in Ids : rows'[u] = rows[u] /\ record'[u] = record[u]
    BY <1>1, <1>2, QueuedRow DEF OInv, IInv, TypeOK
<1>4. row.owner = d /\ row.resolves = resolves /\ row.status = "pending"
    OBVIOUS
<1> HIDE DEF row
<1>5. Ids = 1..Len(rows) /\ n = Len(rows) + 1 /\ Len(rows) \in Nat
    BY RowFacts DEF OInv
<1> HIDE DEF n
<1>6. resolves < n
    BY <1>5, OpenRows
<1>7. Pending(d)' = {n} /\ Conflicts(d)' = Conflicts(d)
    BY <1>3, <1>4 DEF Pending, Conflicts, RowsOf
<1>8. OpenFits(d)
    BY DEF OInv, OutboxFits
<1>9. OpenFits(d)'
    <2>1. resolves # 0 => resolves \in Conflicts(d)
        OBVIOUS
    <2>2. \A x, y \in Conflicts(d) : x = y
        BY <1>8 DEF OpenFits
    <2>3. \A x \in Conflicts(d) : resolves = x
        BY <2>2
    <2> QED
        BY <1>3, <1>4, <1>7, <2>1, <2>2, <2>3 DEF OpenFits
<1>10. CallFits(d)'
    BY <1>7 DEF CallFits
<1>11. ApplyFits(d)'
    BY DEF ApplyFits
<1>12. ASSUME NEW u \in Ids' PROVE ReceiptFits(u)'
    <2>1. CASE u = n
        BY <1>3, <1>4, <1>6, <2>1 DEF ReceiptFits
    <2>2. CASE u \in Ids
        <3>1. ReceiptFits(u)
            BY <2>2 DEF OInv, OutboxFits
        <3>2. rows[u].resolves # 0 => rows[u].resolves \in Ids
            BY <2>2, <3>1, RowFacts DEF OInv, ReceiptFits, Row
        <3> QED
            BY <1>3, <2>2, <3>1, <3>2 DEF ReceiptFits, Decided
    <2> QED
        BY <1>3, <2>1, <2>2
<1>13. \A u \in Ids : Decided(u) => Decided(u)'
    BY <1>3 DEF Decided
<1> QED
    BY <1>3, <1>4, <1>9, <1>10, <1>11, <1>12, <1>13, StepOfDevice

\* sync, a session boundary and resolve queue only with nothing pending.
LEMMA QueueSteps ==
    ASSUME OInv, IInv', NEW d \in Devices,
           \/ Queue(d) \/ CheckpointQueue(d)
           \/ \E x \in Conflicts(d), keepLocal \in BOOLEAN : Resolve(d, x, keepLocal)
    PROVE  OInv'
PROOF
<1>1. CASE Queue(d)
    <2>1. call[d].at = "checked" /\ Pending(d) = {} /\ UNCHANGED <<call, journal>>
        BY <1>1 DEF Queue
    <2>2. journal[d] = {} /\ Conflicts(d) = {}
        BY <2>1 DEF OInv, OutboxFits, CallFits
    <2>3. QueueRow(d, revision[d], LocalChanges(d), 0, NoChanges)
        BY <1>1 DEF Queue
    <2> QED
        BY <2>1, <2>2, <2>3, QueueKeeps
<1>2. CASE CheckpointQueue(d)
    <2>1. /\ call[d].at # "replied" /\ journal[d] = {}
          /\ Pending(d) = {} /\ Conflicts(d) = {} /\ UNCHANGED <<call, journal>>
        BY <1>2 DEF CheckpointQueue, Ready, Idle, Open
    <2>2. QueueRow(d, revision[d], LocalChanges(d), 0, NoChanges)
        BY <1>2 DEF CheckpointQueue
    <2> QED
        BY <2>1, <2>2, QueueKeeps
<1>3. CASE \E x \in Conflicts(d), keepLocal \in BOOLEAN : Resolve(d, x, keepLocal)
    <2>1. PICK x \in Conflicts(d), keepLocal \in BOOLEAN : Resolve(d, x, keepLocal)
        BY <1>3
    <2>2. /\ call[d].at # "replied" /\ journal[d] = {} /\ Pending(d) = {}
          /\ UNCHANGED <<call, journal>>
        BY <2>1 DEF Resolve, Ready, Idle
    <2>3. QueueRow(d, head, Restricted(IF keepLocal THEN files[d] ELSE Remote(head),
                                       Sent(rows[x].changes)), x, files[d])
        BY <2>1 DEF Resolve
    <2> QED
        BY <2>2, <2>3, QueueKeeps
<1> QED
    BY <1>1, <1>2, <1>3

----------------------------------------------------------------------------
\* Marking changes nothing of a row but its status.
LEMMA MarkedRows ==
    ASSUME IInv, NEW done, NEW resolved, NEW u \in Ids
    PROVE  /\ Marked(done, resolved)[u].owner = rows[u].owner
           /\ Marked(done, resolved)[u].resolves = rows[u].resolves
           /\ Marked(done, resolved)[u].changes = rows[u].changes
           /\ Marked(done, resolved)[u].expected = rows[u].expected
           /\ Marked(done, resolved)[u].base = rows[u].base
           /\ Marked(done, resolved)[u].basis = rows[u].basis
           /\ Marked(done, resolved)[u].status =
                IF u \in resolved THEN "resolved" ELSE IF u \in done THEN "done"
                ELSE rows[u].status
BY RowFacts DEF Marked, Row

\* A process that received an answer marks rows of its own, as the receipts say.
LEMMA MarkKeeps ==
    ASSUME OInv, IInv', NEW d \in Devices, record' = record, journal' = journal,
           call' = [call EXCEPT ![d] = Idle], Ids' = Ids, journal[d] = {},
           \A u \in Ids : /\ rows'[u].owner = rows[u].owner
                          /\ rows'[u].resolves = rows[u].resolves
                          /\ \/ rows'[u].status = rows[u].status
                             \/ /\ rows[u].owner = d
                                /\ rows'[u].status = "conflict" /\ record[u].answer = "conflict"
                             \/ /\ rows[u].owner = d
                                /\ rows'[u].status = "resolved" /\ record[u].answer # "applied",
           OpenFits(d)'
    PROVE  OInv'
PROOF
<1>1. /\ call'[d].at = "idle"
      /\ \A e \in Devices : e # d => call'[e] = call[e] /\ journal'[e] = journal[e]
    BY DEF OInv, IInv, TypeOK, Idle
<1>2. CallFits(d)' /\ ApplyFits(d)'
    BY <1>1 DEF CallFits, ApplyFits
<1>3. ASSUME NEW u \in Ids' PROVE ReceiptFits(u)'
    <2>1. ReceiptFits(u)
        BY DEF OInv, OutboxFits
    <2> QED
        BY <2>1 DEF ReceiptFits, Decided
<1>4. \A u \in Ids : Decided(u) => Decided(u)'
    BY DEF Decided
<1> QED
    BY <1>1, <1>2, <1>3, <1>4, StepOfDevice

\* A resolution that came too late is retired and its conflict stays.
LEMMA RejectKeeps ==
    ASSUME OInv, IInv', NEW d \in Devices, RejectStale(d)
    PROVE  OInv'
PROOF
<1> DEFINE u == call[d].update
<1>1. /\ call[d].at = "replied" /\ call[d].answer = "incomplete_resolution"
      /\ rows' = Marked({}, {u}) /\ record' = record /\ journal' = journal
      /\ call' = [call EXCEPT ![d] = Idle]
    BY DEF RejectStale, serverVars
<1>2. u \in Pending(d) /\ record[u].answer = "none" /\ journal[d] = {}
    BY <1>1 DEF OInv, OutboxFits, CallFits
<1> HIDE DEF u
<1>3. u \in Ids /\ rows[u].owner = d
    BY <1>2, OpenRows
<1>4. Ids' = Ids
    BY <1>1 DEF Ids, Marked
<1>5. \A v \in Ids : /\ rows'[v].owner = rows[v].owner /\ rows'[v].resolves = rows[v].resolves
                     /\ rows'[v].status = IF v = u THEN "resolved" ELSE rows[v].status
    BY <1>1, MarkedRows DEF OInv
<1>6. Pending(d)' = {} /\ Conflicts(d)' = Conflicts(d)
    <2>1. Pending(d) = {u}
        BY <1>2, OnlyPending
    <2>2. rows[u].status = "pending"
        BY <1>2, OpenRows
    <2> QED
        BY <1>4, <1>5, <2>1, <2>2 DEF Pending, Conflicts, RowsOf
<1>7. OpenFits(d)'
    BY <1>6 DEF OInv, OutboxFits, OpenFits
<1> QED
    BY <1>1, <1>2, <1>3, <1>4, <1>5, <1>7, MarkKeeps

\* A refused update becomes the one conflict: the older one it resolves goes.
LEMMA ConflictKeeps ==
    ASSUME OInv, IInv', NEW d \in Devices, KeepConflict(d)
    PROVE  OInv'
PROOF
<1> DEFINE u == call[d].update
           x == rows[u].resolves
<1>1. /\ call[d].at = "replied" /\ call[d].answer = "conflict"
      /\ record' = record /\ journal' = journal
      /\ call' = [call EXCEPT ![d] = Idle]
      /\ rows' = [v \in Ids |-> IF v = u THEN [rows[v] EXCEPT !.status = "conflict"]
                                ELSE IF v = x THEN [rows[v] EXCEPT !.status = "resolved"]
                                ELSE rows[v]]
    BY DEF KeepConflict, serverVars
<1>2. u \in Pending(d) /\ record[u].answer = "conflict" /\ journal[d] = {}
    BY <1>1 DEF OInv, OutboxFits, CallFits
<1>3. u \in Ids /\ rows[u].owner = d /\ u # x
    BY <1>2, OpenRows, RowFacts DEF OInv, OutboxFits, ReceiptFits, Row
<1>4. x \in Ids => x \in Conflicts(d) /\ rows[x].owner = d /\ record[x].answer = "conflict"
    BY <1>2, OpenRowsOf, OpenRows, ConflictReceipt, RowFacts DEF OInv
<1>5. Ids' = Ids
    BY <1>1 DEF Ids
<1>6. \A v \in Ids : /\ rows'[v].owner = rows[v].owner /\ rows'[v].resolves = rows[v].resolves
                     /\ rows'[v].status = IF v = u THEN "conflict"
                                          ELSE IF v = x THEN "resolved" ELSE rows[v].status
    BY <1>1, RowFacts DEF OInv, Row
<1>7. Pending(d)' = {} /\ Conflicts(d)' = {u}
    <2>1. Pending(d) = {u}
        BY <1>2, OnlyPending
    <2>2. \A y \in Conflicts(d) : y = x
        BY <1>2 DEF OInv, OutboxFits, OpenFits
    <2> HIDE DEF u, x
    <2> QED
        BY <1>3, <1>5, <1>6, <2>1, <2>2 DEF Pending, Conflicts, RowsOf
<1>8. OpenFits(d)'
    BY <1>7 DEF OpenFits
<1>9. \A v \in Ids :
        \/ rows'[v].status = rows[v].status
        \/ rows[v].owner = d /\ rows'[v].status = "conflict" /\ record[v].answer = "conflict"
        \/ rows[v].owner = d /\ rows'[v].status = "resolved" /\ record[v].answer # "applied"
    BY <1>2, <1>3, <1>4, <1>6
<1> QED
    BY <1>1, <1>2, <1>5, <1>6, <1>8, <1>9, MarkKeeps

----------------------------------------------------------------------------
\* The transaction that ends an apply: rows are marked, and the residual update
\* is queued, only together with everything that was open.
LEMMA CommitRows ==
    ASSUME OInv, IInv', NEW d \in Devices, Commit(d)
    PROVE  \E j \in journal[d] :
            LET n == Len(rows) + 1
            IN  /\ Completes(d, j)
                /\ revision'[d] = j.revision /\ baseline'[d] = j.baseline /\ basis'[d] = j.basis
                /\ \A u \in Ids :
                    /\ record'[u] = record[u]
                    /\ rows'[u].owner = rows[u].owner /\ rows'[u].resolves = rows[u].resolves
                    /\ rows'[u].changes = rows[u].changes
                    /\ rows'[u].expected = rows[u].expected
                    /\ rows'[u].base = rows[u].base /\ rows'[u].basis = rows[u].basis
                    /\ rows'[u].status = IF u \in j.resolved THEN "resolved"
                                         ELSE IF u \in j.done THEN "done" ELSE rows[u].status
                /\ \/ j.residual = NoChanges /\ Ids' = Ids
                   \/ /\ j.residual # NoChanges
                      /\ n \in Nat /\ n \notin Ids /\ n > 0 /\ Ids' = Ids \cup {n}
                      /\ rows'[n].owner = d /\ rows'[n].resolves = 0
                      /\ rows'[n].status = "pending"
                      /\ record'[n].answer = "none" /\ record'[n].resolvedRevision = 0
                      /\ rows'[n].base = j.residualBase /\ rows'[n].changes = j.residual
                      /\ rows'[n].basis = j.residualBasis
PROOF
<1> DEFINE row(j) == [owner |-> d, base |-> j.residualBase, changes |-> j.residual,
                      resolves |-> 0, expected |-> NoChanges, basis |-> j.residualBasis,
                      status |-> "pending"]
           residue(j) == j.residual # NoChanges
           marked(j) == Marked(j.done, j.resolved)
<1>1. PICK j \in journal[d] :
        /\ rows' = IF ~residue(j) THEN marked(j) ELSE Append(marked(j), row(j))
        /\ record' = IF residue(j) THEN Append(record, NoRecord) ELSE record
        /\ revision' = [revision EXCEPT ![d] = j.revision]
        /\ baseline' = [baseline EXCEPT ![d] = j.baseline]
        /\ basis' = [basis EXCEPT ![d] = j.basis]
    BY DEF Commit
<1>2. /\ TypeOK /\ IInv /\ j \in Journal /\ Completes(d, j)
      /\ marked(j) \in Seq(Row) /\ Len(marked(j)) = Len(rows)
    BY MarkedType DEF OInv, IInv, TypeOK, OutboxFits, ApplyFits
<1>3. \A u \in Ids : /\ marked(j)[u].owner = rows[u].owner
                     /\ marked(j)[u].resolves = rows[u].resolves
                     /\ marked(j)[u].changes = rows[u].changes
                     /\ marked(j)[u].expected = rows[u].expected
                     /\ marked(j)[u].base = rows[u].base /\ marked(j)[u].basis = rows[u].basis
                     /\ marked(j)[u].status = IF u \in j.resolved THEN "resolved"
                                              ELSE IF u \in j.done THEN "done"
                                              ELSE rows[u].status
    BY <1>2, MarkedRows
<1>4. row(j) \in Row
    <2>1. NoChanges \in Changes
        BY <1>2, LocalChangesType
    <2> QED
        BY <1>2, <2>1 DEF Journal, Row, Status
<1>5. /\ row(j).owner = d /\ row(j).resolves = 0 /\ row(j).status = "pending"
      /\ row(j).base = j.residualBase /\ row(j).changes = j.residual
      /\ row(j).basis = j.residualBasis
    OBVIOUS
<1> HIDE DEF row, marked
<1>6. revision'[d] = j.revision /\ baseline'[d] = j.baseline /\ basis'[d] = j.basis
    BY <1>1, <1>2 DEF TypeOK
<1>7. CASE residue(j)
    <2>1. rows' = Append(marked(j), row(j)) /\ record' = Append(record, NoRecord)
        BY <1>1, <1>7
    <2> DEFINE n == Len(rows) + 1
    <2>2. /\ n \in Nat /\ n \notin Ids /\ Ids' = Ids \cup {n}
          /\ rows'[n] = row(j) /\ record'[n].answer = "none" /\ record'[n].resolvedRevision = 0
          /\ \A u \in Ids : rows'[u] = marked(j)[u] /\ record'[u] = record[u]
        BY <1>2, <1>4, <2>1, QueuedRow
    <2>3. n > 0
        BY <1>2, RowFacts
    <2> HIDE DEF n
    <2>4. /\ rows'[n].owner = d /\ rows'[n].resolves = 0 /\ rows'[n].status = "pending"
          /\ rows'[n].base = j.residualBase /\ rows'[n].changes = j.residual
          /\ rows'[n].basis = j.residualBasis
        BY <1>5, <2>2
    <2> QED
        BY <1>2, <1>3, <1>7, <1>6, <2>2, <2>3, <2>4 DEF n
<1>8. CASE ~residue(j)
    <2>1. rows' = marked(j) /\ record' = record
        BY <1>1, <1>8
    <2>2. Ids' = Ids
        BY <1>2, <2>1, LenProperties DEF Ids, TypeOK
    <2> QED
        BY <1>2, <1>3, <1>8, <1>6, <2>1, <2>2
<1> QED
    BY <1>7, <1>8

\* Either the apply touches no row, or it closes all and at most one is new.
LEMMA CommitKeeps ==
    ASSUME OInv, IInv', NEW d \in Devices, Commit(d)
    PROVE  OInv'
PROOF
<1> DEFINE n == Len(rows) + 1
<1>1. PICK j \in journal[d] :
        /\ Completes(d, j)
        /\ \A u \in Ids :
            /\ record'[u] = record[u]
            /\ rows'[u].owner = rows[u].owner /\ rows'[u].resolves = rows[u].resolves
            /\ rows'[u].status = IF u \in j.resolved THEN "resolved"
                                 ELSE IF u \in j.done THEN "done" ELSE rows[u].status
        /\ \/ Ids' = Ids
           \/ /\ j.residual # NoChanges
              /\ n \in Nat /\ n \notin Ids /\ n > 0 /\ Ids' = Ids \cup {n}
              /\ rows'[n].owner = d /\ rows'[n].resolves = 0
              /\ rows'[n].status = "pending" /\ record'[n].answer = "none"
    BY CommitRows
<1> HIDE DEF n
<1>2. /\ call'[d].at = "idle" /\ journal'[d] = {}
      /\ \A e \in Devices : e # d => call'[e] = call[e] /\ journal'[e] = journal[e]
    BY DEF Commit, OInv, IInv, TypeOK, Idle
<1>3. CallFits(d)' /\ ApplyFits(d)'
    BY <1>2 DEF CallFits, ApplyFits
<1>4. \A u \in j.done \cup j.resolved : u \in Ids /\ rows[u].owner = d
    BY <1>1, OpenRows DEF Completes
<1>5. OpenFits(d)'
    <2>1. CASE Ids' = Ids /\ j.done = {} /\ j.resolved = {}
        <3>1. Pending(d)' = Pending(d) /\ Conflicts(d)' = Conflicts(d)
            BY <1>1, <2>1 DEF Pending, Conflicts, RowsOf
        <3>2. \A u \in Pending(d) : u \in Ids
            BY OpenRows
        <3> QED
            BY <1>1, <3>1, <3>2 DEF OInv, OutboxFits, OpenFits
    <2>2. CASE ~(Ids' = Ids /\ j.done = {} /\ j.resolved = {})
        <3>1. Open(d) \subseteq j.done \cup j.resolved
            BY <1>1, <2>2 DEF Completes
        <3>2. \A u \in Ids : rows'[u].owner = d => rows'[u].status \notin {"pending", "conflict"}
            <4> TAKE u \in Ids
            <4>1. CASE u \in j.done \cup j.resolved
                BY <1>1, <4>1
            <4>2. CASE u \notin j.done \cup j.resolved
                BY <1>1, <3>1, <4>2 DEF Open, Pending, Conflicts, RowsOf
            <4> QED
                BY <4>1, <4>2
        <3>3. Conflicts(d)' = {} /\ Pending(d)' \subseteq {n}
            BY <1>1, <3>2 DEF Pending, Conflicts, RowsOf
        <3>4. \A u \in Pending(d)' : rows'[u].resolves = 0
            <4>1. \A u \in Pending(d)' : u \in Ids' /\ u \notin Ids
                BY <1>1, <3>2 DEF Pending, RowsOf
            <4> QED
                BY <1>1, <4>1
        <3> QED
            BY <3>3, <3>4 DEF OpenFits
    <2> QED
        BY <2>1, <2>2
<1>6. ASSUME NEW u \in Ids' PROVE ReceiptFits(u)'
    <2>1. CASE u \in Ids
        <3>1. ReceiptFits(u)
            BY <2>1 DEF OInv, OutboxFits
        <3>2. rows[u].resolves # 0 => rows[u].resolves \in Ids
            BY <2>1, <3>1, RowFacts DEF OInv, ReceiptFits, Row
        <3>3. /\ u \in j.done => record[u].answer = "applied"
              /\ u \in j.resolved => record[u].answer # "applied"
            BY <1>1 DEF Completes
        <3> QED
            BY <1>1, <2>1, <3>1, <3>2, <3>3 DEF ReceiptFits, Decided
    <2>2. CASE u \notin Ids
        <3>1. u = n
            BY <1>1, <2>2
        <3> QED
            BY <1>1, <2>2, <3>1 DEF ReceiptFits
    <2> QED
        BY <2>1, <2>2
<1>7. \A u \in Ids : Decided(u) => Decided(u)'
    BY <1>1 DEF Decided
<1> QED
    BY <1>1, <1>2, <1>3, <1>4, <1>5, <1>6, <1>7, StepOfDevice

----------------------------------------------------------------------------
\* Every step keeps the outbox in order.
LEMMA NextOInv ==
    ASSUME OInv, [Next]_vars
    PROVE  OInv'
PROOF
<1>1. IInv'
    BY NextStep DEF OInv
<1>2. ASSUME NEW d \in Devices, Sync(d) PROVE OInv'
    <2>1. CASE Begin(d) \/ Pull(d)
        BY <1>1, <2>1, BeginSteps
    <2>2. CASE Queue(d)
        BY <1>1, <2>2, QueueSteps
    <2>3. CASE Post(d)
        BY <1>1, <2>3, PostKeeps
    <2>4. CASE RejectStale(d)
        BY <1>1, <2>4, RejectKeeps
    <2>5. CASE KeepConflict(d)
        BY <1>1, <2>5, ConflictKeeps
    <2>6. CASE ApplyAcknowledged(d)
        BY <1>1, <2>6, AcknowledgedKeeps
    <2>7. CASE ApplyPulled(d)
        BY <1>1, <2>7, PlainApplyKeeps
    <2>8. CASE \E x \in Conflicts(d) : ReconcileDecided(d, x) \/ ReconcileLosing(d, x)
        BY <1>1, <2>8, DecidedKeeps, LosingKeeps
    <2>9. CASE RejectChanged(d) \/ PullRaced(d)
        BY <1>1, <2>9, ProcessSteps
    <2>10. CASE Apply(d)
        BY <1>1, <2>10, ProcessSteps, CommitKeeps DEF Apply
    <2> QED
        BY <1>2, <2>1, <2>2, <2>3, <2>4, <2>5, <2>6, <2>7, <2>8, <2>9, <2>10 DEF Sync
<1>3. ASSUME NEW d \in Devices, Owner(d) PROVE OInv'
    <2>1. CASE Backup(d) \/ \E p \in Paths, c \in Contents : Edit(d, p, c)
        <3>1. UNCHANGED <<rows, record, journal, call>>
            BY <2>1 DEF Backup, Edit, serverVars
        <3> QED
            BY <1>1, <3>1, QuietSteps
    <2>2. CASE \E x \in Conflicts(d), keepLocal \in BOOLEAN : Resolve(d, x, keepLocal)
        BY <1>1, <2>2, QueueSteps
    <2>3. CASE \E keepLocal \in BOOLEAN : RecoverChoice(d, keepLocal)
        BY <1>1, <2>3, ChoiceKeeps
    <2>4. CASE \E saved \in backups[d] : Restore(d, saved)
        BY <1>1, <2>4, PlainApplyKeeps
    <2> QED
        BY <1>3, <2>1, <2>2, <2>3, <2>4 DEF Owner
<1>4. ASSUME NEW d \in Devices, Checkpoint(d) \/ ReportRetired(d) \/ ReportLost(d) PROVE OInv'
    <2>1. CASE CheckpointQueue(d)
        BY <1>1, <2>1, QueueSteps
    <2>2. CASE CheckpointOpen(d) \/ CheckpointClean(d) \/ ReportRetired(d) \/ ReportLost(d)
        <3>1. UNCHANGED <<rows, record, journal, call>>
            BY <2>2 DEF CheckpointOpen, CheckpointClean, ReportRetired, ReportLost, serverVars,
                        clientVars
        <3> QED
            BY <1>1, <3>1, QuietSteps
    <2> QED
        BY <1>4, <2>1, <2>2 DEF Checkpoint
<1>5. CASE UNCHANGED vars
    <2>1. UNCHANGED <<rows, record, journal, call>>
        BY <1>5 DEF vars, serverVars, clientVars
    <2>2. CASE Devices = {}
        <3>1. rows' = rows /\ record' = record /\ Ids' = Ids
            BY <2>1 DEF Ids
        <3> QED
            BY <1>1, <2>2, <3>1 DEF OInv, OutboxFits, ReceiptFits, Decided
    <2>3. CASE Devices # {}
        <3>1. PICK d : d \in Devices
            BY <2>3
        <3> QED
            BY <1>1, <2>1, <3>1, QuietSteps
    <2> QED
        BY <2>2, <2>3
<1>6. CASE \E d \in Devices : Sync(d) \/ Owner(d) \/ Abort(d)
    BY <1>1, <1>2, <1>3, <1>6, ProcessSteps
<1>7. CASE \E d \in Managed : Checkpoint(d) \/ ReportRetired(d) \/ ReportLost(d)
    BY <1>4, <1>7, ManagedAssumption
<1>8. CASE \E x \in Ids, keepCandidate, wholeCandidate \in BOOLEAN :
            PortalResolve(x, keepCandidate, wholeCandidate)
    BY <1>1, <1>8, PortalKeeps
<1> QED
    BY <1>5, <1>6, <1>7, <1>8 DEF Next

\* The outbox is in order in every behaviour of the specification.
LEMMA OutboxInductive == Spec => []OInv
PROOF
<1> QED
    BY InitOInv, NextOInv, PTL DEF Spec

\* Whatever processes die, replies are lost and decisions race, an environment
\* has one update in flight and one retained conflict, and what is pending
\* beside a conflict resolves it.
THEOREM OneOpenCorrect == Spec => []OneOpenUpdate
PROOF
<1>1. OInv => OneOpenUpdate
    BY DEF OInv, OutboxFits, OpenFits, OneOpenUpdate
<1> QED
    BY <1>1, OutboxInductive, PTL

\* The rows of the outbox never contradict the receipts of the server: no
\* update is counted as done that was not applied, nor retired after it was.
THEOREM ReceiptsCorrect == Spec => []ReceiptsAgree
PROOF
<1>1. OInv => ReceiptsAgree
    BY DEF OInv, OutboxFits, ReceiptFits, ReceiptsAgree
<1> QED
    BY <1>1, OutboxInductive, PTL

----------------------------------------------------------------------------
\* The steps that leave the outbox alone.
LEMMA RowsKept ==
    ASSUME OInv, [Next]_vars,
           \A d \in Devices : ~Commit(d) /\ ~KeepConflict(d) /\ ~RejectStale(d)
    PROVE  \A u \in Ids : u \in Ids' /\ rows'[u] = rows[u]
PROOF
<1>1. CASE \E d, base, changes, resolves, expected : QueueRow(d, base, changes, resolves, expected)
    <2>1. PICK row : rows' = Append(rows, row)
        BY <1>1 DEF QueueRow
    <2> QED
        BY <2>1, RowFacts, LenProperties DEF OInv, IInv, TypeOK, Ids
<1>2. CASE ~ \E d, base, changes, resolves, expected :
                QueueRow(d, base, changes, resolves, expected)
    <2>1. ASSUME NEW d \in Devices, Sync(d) PROVE rows' = rows
        <3>1. CASE Begin(d) \/ Post(d) \/ Pull(d) \/ PullRaced(d) \/ RejectChanged(d)
            BY <3>1 DEF Begin, Post, Pull, PullRaced, RejectChanged, clientVars
        <3>2. CASE ApplyAcknowledged(d) \/ ApplyPulled(d)
            BY <3>2 DEF ApplyAcknowledged, ApplyPulled
        <3>3. CASE \E x \in Conflicts(d) : ReconcileDecided(d, x) \/ ReconcileLosing(d, x)
            BY <3>3 DEF ReconcileDecided, ReconcileLosing
        <3>4. CASE Apply(d)
            BY <3>4 DEF Apply, Recover, PreflightPasses, PreflightFails, WriteFile, clientVars
        <3>5. CASE Queue(d)
            BY <1>2, <3>5 DEF Queue
        <3> QED
            BY <2>1, <3>1, <3>2, <3>3, <3>4, <3>5 DEF Sync
    <2>2. ASSUME NEW d \in Devices, Owner(d) \/ Abort(d) PROVE rows' = rows
        BY <1>2, <2>2
        DEF Owner, Edit, Resolve, RecoverChoice, Backup, Restore, Abort, clientVars
    <2>3. ASSUME NEW d \in Devices, Checkpoint(d) \/ ReportRetired(d) \/ ReportLost(d)
          PROVE  rows' = rows
        BY <1>2, <2>3 DEF Checkpoint, CheckpointQueue, CheckpointOpen, CheckpointClean,
                          ReportRetired, ReportLost, clientVars
    <2>4. ASSUME NEW x, NEW keepCandidate, NEW wholeCandidate,
                 PortalResolve(x, keepCandidate, wholeCandidate)
          PROVE  rows' = rows
        BY <2>4 DEF PortalResolve, clientVars
    <2>5. CASE UNCHANGED vars
        BY <2>5 DEF vars, clientVars, Ids
    <2> QED
        BY <2>1, <2>2, <2>3, <2>4, <2>5, ManagedAssumption DEF Next, Ids
<1> QED
    BY <1>1, <1>2 DEF Ids

\* A row stops being a conflict only by an apply that retires it, which knows
\* the decision, or by a resolution that itself became the conflict.
LEMMA ConflictLeaves ==
    ASSUME OInv, [Next]_vars, NEW x \in Ids,
           rows[x].status = "conflict", rows'[x].status # "conflict"
    PROVE  \/ Decided(x)
           \/ \E u \in Ids : rows[u].resolves = x /\ record[u].answer = "conflict"
PROOF
<1>1. OInv' /\ IInv'
    BY NextOInv DEF OInv
<1>2. PICK d \in Devices : Commit(d) \/ KeepConflict(d) \/ RejectStale(d)
    BY RowsKept
<1>3. CASE Commit(d)
    <2>1. PICK j \in journal[d] : /\ Completes(d, j)
                                  /\ x \in j.resolved \cup j.done
        BY <1>1, <1>3, CommitRows
    <2>2. x \notin j.done
        BY <2>1, OpenRows DEF Completes
    <2>3. x \in Conflicts(d)
        BY <2>1, <2>2, OpenRows DEF Completes
    <2> QED
        BY <2>1, <2>2, <2>3 DEF Completes
<1>4. CASE KeepConflict(d) \/ RejectStale(d)
    <2> DEFINE u == call[d].update
    <2>1. call[d].at = "replied"
        BY <1>4 DEF KeepConflict, RejectStale
    <2>2. u \in Pending(d) /\ u \in Ids /\ x # u
        BY <2>1, OpenRows DEF OInv, OutboxFits, CallFits
    <2>3. CASE KeepConflict(d)
        <3>1. record[u].answer = "conflict"
            BY <2>1, <2>3 DEF KeepConflict, OInv, OutboxFits, CallFits
        <3>2. x = rows[u].resolves
            BY <2>2, <2>3 DEF KeepConflict
        <3> QED
            BY <2>2, <3>1, <3>2
    <2>4. CASE RejectStale(d)
        BY <2>2, <2>4, MarkedRows DEF RejectStale, OInv
    <2> QED
        BY <1>4, <2>3, <2>4
<1> QED
    BY <1>2, <1>3, <1>4

\* No retry, rejection, rebase or restart drops a retained conflict: it leaves
\* the outbox after a decision, or replaced by the newer conflict of its own
\* resolution.
THEOREM ConflictsNeedDecisions == Spec => ConflictNeedsDecision
PROOF
<1>1. OInv /\ [Next]_vars =>
        [\A x \in Ids :
            rows[x].status = "conflict" /\ rows'[x].status # "conflict"
            => \/ Decided(x)
               \/ \E u \in Ids : rows[u].resolves = x /\ record[u].answer = "conflict"]_vars
    BY ConflictLeaves
<1> QED
    BY <1>1, OutboxInductive, PTL DEF Spec, ConflictNeedsDecision
----------------------------------------------------------------------------
\* At most one apply is journaled.  What it replaces is kept elsewhere, and
\* while it writes, a locked file still holds what its preflight saw or already
\* what it writes: whoever else writes such a file waits for the process to end.
FilesFit(d) ==
    /\ \A j, k \in journal[d] : j = k
    /\ \A j \in journal[d], p \in Paths :
        j.expected[p] # j.target[p] => Kept(d, p, j.expected[p])
    /\ call[d].at = "writing" => call[d].next > 0
    /\ call[d].at = "writing" => \A j \in journal[d], p \in Locked :
        /\ files[d][p] \in {j.expected[p], j.target[p]}
        /\ p < call[d].next => files[d][p] = j.target[p]

FInv == OInv /\ \A d \in Devices : FilesFit(d)

\* The rows of the outbox are kept for ever, and only their status changes.
LEMMA RowsGrow ==
    ASSUME OInv, [Next]_vars, NEW u \in Ids
    PROVE  /\ u \in Ids'
           /\ rows'[u].owner = rows[u].owner /\ rows'[u].changes = rows[u].changes
           /\ rows'[u].expected = rows[u].expected /\ rows'[u].resolves = rows[u].resolves
           /\ rows'[u].base = rows[u].base /\ rows'[u].basis = rows[u].basis
PROOF
<1>1. OInv' /\ IInv' /\ IInv
    BY NextOInv DEF OInv
<1>2. CASE \A d \in Devices : ~Commit(d) /\ ~KeepConflict(d) /\ ~RejectStale(d)
    BY <1>2, RowsKept
<1>3. CASE \E d \in Devices : Commit(d)
    <2>1. PICK d \in Devices : Commit(d)
        BY <1>3
    <2> QED
        BY <1>1, <2>1, CommitRows
<1>4. CASE \E d \in Devices : RejectStale(d)
    <2>1. PICK d \in Devices : rows' = Marked({}, {call[d].update})
        BY <1>4 DEF RejectStale
    <2> QED
        BY <1>1, <2>1, MarkedRows DEF Ids, Marked
<1>5. CASE \E d \in Devices : KeepConflict(d)
    BY <1>1, <1>5, RowFacts DEF KeepConflict, Ids, Row
<1> QED
    BY <1>2, <1>3, <1>4, <1>5

\* The server publishes one revision more, or none.
LEMMA ServerMoves ==
    ASSUME OInv, [Next]_vars
    PROVE  UNCHANGED <<head, history>> \/ \E changes \in Changes : Publish(changes)
PROOF
<1>0. TypeOK /\ head \in Nat
    BY DEF OInv, IInv, TypeOK
<1>3. ASSUME NEW d \in Devices, Post(d)
      PROVE  UNCHANGED <<head, history>> \/ \E changes \in Changes : Publish(changes)
    <2>1. PICK u \in FirstPending(d) :
            PostAgain(d, u) \/ PostUnavailable(d, u) \/ PostStale(d, u) \/ PostConflict(d, u)
              \/ PostApplied(d, u)
        BY <1>3 DEF Post
    <2>2. rows[u].changes \in Changes
        BY OpenRows, RowFacts DEF OInv, FirstPending, Row
    <2> QED
        BY <2>1, <2>2 DEF PostAgain, PostUnavailable, PostStale, PostConflict, PostApplied,
                          serverVars
<1>4. ASSUME NEW x \in Ids, NEW keepCandidate, NEW wholeCandidate,
             PortalResolve(x, keepCandidate, wholeCandidate)
      PROVE  \E changes \in Changes : Publish(changes)
    <2>1. rows[x].changes \in Changes /\ Remote(head) \in Files
        BY <1>0, RowFacts, RemoteType DEF OInv, Row
    <2>2. PICK scope :
            Publish([p \in Paths |-> IF p \notin scope THEN Unsent
                                     ELSE IF keepCandidate THEN rows[x].changes[p]
                                     ELSE Remote(head)[p]])
        BY <1>4 DEF PortalResolve, PortalDecision
    <2>3. [p \in Paths |-> IF p \notin scope THEN Unsent
                           ELSE IF keepCandidate THEN rows[x].changes[p]
                           ELSE Remote(head)[p]] \in Changes
        BY <2>1 DEF Changes, Files
    <2> QED
        BY <2>2, <2>3
<1>5. ASSUME NEW d \in Devices, Sync(d), ~Post(d) PROVE UNCHANGED <<head, history>>
    <2>1. CASE Begin(d) \/ Queue(d) \/ Pull(d) \/ PullRaced(d)
        BY <2>1 DEF Begin, Queue, Pull, PullRaced, serverVars
    <2>2. CASE RejectStale(d) \/ RejectChanged(d) \/ KeepConflict(d)
        BY <2>2 DEF RejectStale, RejectChanged, KeepConflict, serverVars
    <2>3. CASE ApplyAcknowledged(d) \/ ApplyPulled(d)
        BY <2>3 DEF ApplyAcknowledged, ApplyPulled, serverVars
    <2>4. CASE \E x \in Conflicts(d) : ReconcileDecided(d, x) \/ ReconcileLosing(d, x)
        BY <2>4 DEF ReconcileDecided, ReconcileLosing, serverVars
    <2>5. CASE Apply(d)
        BY <2>5 DEF Apply, Recover, PreflightPasses, PreflightFails, WriteFile, Commit,
           serverVars
    <2> QED
        BY <1>5, <2>1, <2>2, <2>3, <2>4, <2>5 DEF Sync
<1>6. ASSUME NEW d \in Devices,
             Owner(d) \/ Abort(d) \/ Checkpoint(d) \/ ReportRetired(d) \/ ReportLost(d)
      PROVE  UNCHANGED <<head, history>>
    BY <1>6 DEF Owner, Edit, Resolve, RecoverChoice, Backup, Restore, Abort, Checkpoint,
                CheckpointQueue, CheckpointOpen, CheckpointClean, ReportRetired, ReportLost,
                serverVars
<1>7. CASE UNCHANGED vars
    BY <1>7 DEF vars, serverVars
<1> QED
    BY <1>3, <1>4, <1>5, <1>6, <1>7, ManagedAssumption DEF Next

\* The published revisions stay what they were.
LEMMA HistoryKept ==
    ASSUME OInv, [Next]_vars
    PROVE  head \in Nat /\ head <= head' /\ \A r \in 0..head : Remote(r)' = Remote(r)
PROOF
<1>0. TypeOK /\ head \in Nat
    BY DEF OInv, IInv, TypeOK
<1>1. CASE UNCHANGED <<head, history>>
    BY <1>0, <1>1 DEF Remote
<1>2. CASE \E changes \in Changes : Publish(changes)
    <2>1. PICK changes \in Changes : Publish(changes)
        BY <1>2
    <2>2. head' = head + 1 /\ \A r \in 0..head : Remote(r)' = Remote(r)
        BY <1>0, <2>1, PublishKeepsHistory
    <2> QED
        BY <1>0, <2>2
<1> QED
    BY <1>1, <1>2, ServerMoves

\* Backups are never deleted.
LEMMA BackupsGrow ==
    ASSUME OInv, [Next]_vars, NEW d \in Devices
    PROVE  backups[d] \subseteq backups'[d]
PROOF
<1>1. CASE UNCHANGED backups
    BY <1>1
<1>2. CASE \E e, more : e \in Devices /\ backups' = [backups EXCEPT ![e] = @ \cup more]
    BY <1>2 DEF OInv, IInv, TypeOK
<1>3. ASSUME NEW e \in Devices, Sync(e) PROVE UNCHANGED backups
    <2>1. CASE Begin(e) \/ Queue(e) \/ Post(e) \/ Pull(e) \/ PullRaced(e)
        BY <2>1 DEF Begin, Queue, Post, Pull, PullRaced, clientVars
    <2>2. CASE RejectStale(e) \/ RejectChanged(e) \/ KeepConflict(e)
        BY <2>2 DEF RejectStale, RejectChanged, KeepConflict, clientVars
    <2>3. CASE ApplyAcknowledged(e) \/ ApplyPulled(e)
        BY <2>3 DEF ApplyAcknowledged, ApplyPulled
    <2>4. CASE \E x \in Conflicts(e) : ReconcileDecided(e, x) \/ ReconcileLosing(e, x)
        BY <2>4 DEF ReconcileDecided, ReconcileLosing
    <2>5. CASE Apply(e)
        BY <2>5 DEF Apply, Recover, PreflightPasses, PreflightFails, WriteFile, Commit,
           clientVars
    <2> QED
        BY <1>3, <2>1, <2>2, <2>3, <2>4, <2>5 DEF Sync
<1>4. ASSUME NEW e \in Devices,
             Abort(e) \/ Checkpoint(e) \/ ReportRetired(e) \/ ReportLost(e)
      PROVE  UNCHANGED backups
    BY <1>4 DEF Abort, Checkpoint, CheckpointQueue, CheckpointOpen, CheckpointClean,
                ReportRetired, ReportLost, clientVars
<1>5. ASSUME NEW e \in Devices, Owner(e)
      PROVE  UNCHANGED backups \/ \E more : backups' = [backups EXCEPT ![e] = @ \cup more]
    BY <1>5 DEF Owner, Edit, Resolve, RecoverChoice, Backup, Restore
<1>6. CASE \E x \in Ids, keepCandidate, wholeCandidate \in BOOLEAN :
            PortalResolve(x, keepCandidate, wholeCandidate)
    BY <1>1, <1>6 DEF PortalResolve, clientVars
<1>7. CASE UNCHANGED vars
    BY <1>1, <1>7 DEF vars, clientVars
<1> QED
    BY <1>1, <1>2, <1>3, <1>4, <1>5, <1>6, <1>7, ManagedAssumption DEF Next

\* What is kept once is kept for ever.
LEMMA KeptForEver ==
    ASSUME OInv, [Next]_vars, NEW d \in Devices, NEW p, NEW c, Kept(d, p, c)
    PROVE  Kept(d, p, c)'
PROOF
<1>1. CASE \E r \in 0..head : Remote(r)[p] = c
    <2>1. PICK r \in 0..head : Remote(r)[p] = c
        BY <1>1
    <2>2. OInv'
        BY NextOInv
    <2>3. r \in 0..head' /\ Remote(r)' = Remote(r)
        <3>1. head' \in Nat
            BY <2>2 DEF OInv, IInv, TypeOK
        <3>2. head \in Nat /\ head <= head' /\ Remote(r)' = Remote(r)
            BY <2>1, HistoryKept
        <3> QED
            BY <2>1, <3>1, <3>2
    <2>4. Remote(r)'[p] = c
        BY <2>1, <2>3
    <2> QED
        BY <2>3, <2>4 DEF Kept
<1>2. CASE \E u \in Ids : /\ rows[u].owner = d
                          /\ c \in {rows[u].changes[p], rows[u].expected[p]}
    BY <1>2, RowsGrow DEF Kept
<1>3. CASE \E saved \in backups[d] : saved[p] = c
    BY <1>3, BackupsGrow DEF Kept
<1> QED
    BY <1>1, <1>2, <1>3 DEF Kept

----------------------------------------------------------------------------
\* An apply of d starts, and what it is to replace is kept elsewhere.
Begins(d, j) ==
    /\ StartApply(d, j) /\ files' = files
    /\ \A p \in Paths : j.expected[p] # j.target[p] => Kept(d, p, j.expected[p])'

\* What was last fetched is in the history of the server.
LEMMA BaselineKept ==
    ASSUME OInv, NEW d \in Devices, NEW p
    PROVE  Kept(d, p, baseline[d][p])
PROOF
<1>1. revision[d] \in 0..head /\ baseline[d] = Remote(revision[d])
    BY DEF OInv, IInv, TypeOK, BaselineIsHistory
<1> QED
    BY <1>1 DEF Kept

\* What d sends, and what it expects to replace, is in its outbox.
LEMMA RowKept ==
    ASSUME NEW d, NEW u \in Open(d), NEW p
    PROVE  Kept(d, p, rows[u].changes[p]) /\ Kept(d, p, rows[u].expected[p])
BY OpenRows DEF Kept

\* An apply towards a revision expects the files as they are.
LEMMA TowardsFiles ==
    ASSUME NEW d, NEW r, NEW target, NEW residual, NEW residualBase, NEW done, NEW resolved,
           NEW newBasis
    PROVE  /\ Towards(d, r, target, residual, residualBase, done, resolved, newBasis).expected
                  = files[d]
           /\ Towards(d, r, target, residual, residualBase, done, resolved, newBasis).target
                  = target
BY DEF Towards

\* Where the target is not the local content it overlays the local content.
LEMMA OverlayReplaces ==
    ASSUME NEW S, NEW f, NEW g, NEW p \in Paths, g[p] # Overlay(S, f, g)[p]
    PROVE  p \in S
BY DEF Overlay

\* An acknowledged update replaces what was sent, or was the baseline.
LEMMA AcknowledgedBegins ==
    ASSUME OInv, [Next]_vars, NEW d \in Devices, ApplyAcknowledged(d)
    PROVE  \E j : Begins(d, j)
PROOF
<1> DEFINE u == call[d].update
           remote == Remote(call[d].revision)
           sent == Sent(rows[u].changes)
           expected == Sent(rows[u].expected)
           canApply == {p \in Paths :
               IF p \in sent
               THEN \/ files[d][p] = rows[u].changes[p]
                    \/ p \in expected /\ files[d][p] = rows[u].expected[p]
               ELSE files[d][p] = baseline[d][p]}
           target == Overlay(canApply, remote, files[d])
<1>1. PICK residual, newBasis :
        StartApply(d, Towards(d, call[d].revision, target, residual, revision[d],
                              {u}, {rows[u].resolves} \ {0}, newBasis))
    BY DEF ApplyAcknowledged
<1>2. u \in Open(d) /\ files' = files
    BY DEF ApplyAcknowledged, OInv, OutboxFits, CallFits, Open
<1>3. ASSUME NEW p \in Paths, files[d][p] # target[p]
      PROVE  Kept(d, p, files[d][p])
    <2>1. p \in canApply
        BY <1>3, OverlayReplaces, LockAssumption
    <2>2. \/ files[d][p] = rows[u].changes[p] \/ files[d][p] = rows[u].expected[p]
          \/ files[d][p] = baseline[d][p]
        BY <2>1
    <2> QED
        BY <1>2, <2>2, RowKept, BaselineKept
<1> HIDE DEF target
<1> QED
    BY <1>1, <1>2, <1>3, TowardsFiles, KeptForEver DEF Begins

\* A fetched snapshot replaces the baseline only.
LEMMA PulledBegins ==
    ASSUME OInv, [Next]_vars, NEW d \in Devices, ApplyPulled(d)
    PROVE  \E j : Begins(d, j)
PROOF
<1>1. PICK target, newBasis :
        StartApply(d, Towards(d, call[d].revision, target, NoChanges, 0, {}, {}, newBasis))
    BY DEF ApplyPulled
<1>2. files[d] = baseline[d] /\ files' = files
    BY DEF ApplyPulled
<1>3. \A p \in Paths : Kept(d, p, files[d][p])
    BY <1>2, BaselineKept
<1> QED
    BY <1>1, <1>2, <1>3, TowardsFiles, KeptForEver DEF Begins

\* A decision made elsewhere replaces what was sent, or was the baseline.
LEMMA DecidedBegins ==
    ASSUME OInv, [Next]_vars, NEW d \in Devices, NEW x \in Conflicts(d), ReconcileDecided(d, x)
    PROVE  \E j : Begins(d, j)
PROOF
<1> DEFINE r == record[x].resolvedRevision
           candidate == Overlay(Sent(rows[x].changes), rows[x].changes, baseline[d])
           untouched == {p \in Paths : files[d][p] = candidate[p]}
           target == Overlay(untouched, Remote(r), files[d])
<1>1. PICK residual, newBasis :
        StartApply(d, Towards(d, r, target, residual, revision[d], {}, {x}, newBasis))
    BY DEF ReconcileDecided
<1>2. x \in Open(d) /\ files' = files
    BY DEF ReconcileDecided, Open
<1>3. ASSUME NEW p \in Paths, files[d][p] # target[p]
      PROVE  Kept(d, p, files[d][p])
    <2>1. p \in Paths /\ files[d][p] = candidate[p]
        BY <1>3, OverlayReplaces, LockAssumption
    <2>2. files[d][p] = rows[x].changes[p] \/ files[d][p] = baseline[d][p]
        BY <2>1 DEF Overlay
    <2> QED
        BY <1>2, <2>2, RowKept, BaselineKept
<1> HIDE DEF target
<1> QED
    BY <1>1, <1>2, <1>3, TowardsFiles, KeptForEver DEF Begins

\* A lost resolution replaces what it expected to replace, or the baseline.
LEMMA LosingBegins ==
    ASSUME OInv, [Next]_vars, NEW d \in Devices, NEW x \in Conflicts(d), ReconcileLosing(d, x)
    PROVE  \E j : Begins(d, j)
PROOF
<1> DEFINE remote == Remote(record[x].resolvedRevision)
           selected(u) == Sent(rows[u].changes)
           choice(u) == {p \in selected(u) \cap Sent(rows[u].expected) :
                           files[d][p] = rows[u].expected[p]}
           untouched(u) == {p \in Paths \ selected(u) : files[d][p] = baseline[d][p]}
           inner(u) == Overlay(untouched(u), remote, files[d])
           target(u) == Overlay(choice(u), rows[u].changes, inner(u))
<1>1. PICK u \in FirstPending(d) : \E residual, base, newBasis :
        StartApply(d, Towards(d, record[x].resolvedRevision, target(u), residual, base,
                              {}, {x, u}, newBasis))
    BY DEF ReconcileLosing
<1>2. u \in Open(d) /\ files' = files
    BY DEF ReconcileLosing, FirstPending, Open
<1>3. ASSUME NEW p \in Paths, files[d][p] # target(u)[p]
      PROVE  Kept(d, p, files[d][p])
    <2>1. p \in Paths
        BY LockAssumption
    <2>2. p \in choice(u) \/ p \in untouched(u)
        BY <1>3, <2>1 DEF Overlay
    <2>3. files[d][p] = rows[u].expected[p] \/ files[d][p] = baseline[d][p]
        BY <2>2
    <2> QED
        BY <1>2, <2>3, RowKept, BaselineKept
<1> HIDE DEF target
<1> QED
    BY <1>1, <1>2, <1>3, TowardsFiles, KeptForEver DEF Begins

\* The owner's choice, and a restore, back up the files they replace first.
LEMMA OwnerBegins ==
    ASSUME OInv, NEW d \in Devices,
           \/ \E keepLocal \in BOOLEAN : RecoverChoice(d, keepLocal)
           \/ \E saved \in backups[d] : Restore(d, saved)
    PROVE  \E j : Begins(d, j)
PROOF
<1>1. PICK j : StartApply(d, j) /\ j.expected = files[d]
    <2>1. CASE \E keepLocal \in BOOLEAN : RecoverChoice(d, keepLocal)
        <3>1. PICK j, target, newBasis :
                /\ j \in journal[d]
                /\ StartApply(d, [j EXCEPT !.expected = files[d], !.target = target,
                                           !.basis = newBasis])
            BY <2>1 DEF RecoverChoice
        <3>2. j \in Journal
            BY <3>1 DEF OInv, IInv, TypeOK
        <3>3. [j EXCEPT !.expected = files[d], !.target = target, !.basis = newBasis].expected
                = files[d]
            BY <3>2 DEF Journal
        <3> QED
            BY <3>1, <3>3
    <2>2. CASE \E saved \in backups[d] : Restore(d, saved)
        BY <2>2 DEF Restore
    <2> QED
        BY <2>1, <2>2
<1>2. files' = files /\ files[d] \in backups'[d]
    BY DEF RecoverChoice, Restore, OInv, IInv, TypeOK
<1>3. \A p \in Paths : Kept(d, p, files[d][p])'
    BY <1>2 DEF Kept
<1> QED
    BY <1>1, <1>2, <1>3 DEF Begins

----------------------------------------------------------------------------
\* No step touches the process, the apply, the files, or what was applied, of
\* another device.
LEMMA OthersUntouched ==
    ASSUME OInv, NEW d \in Devices, NEW e \in Devices, e # d,
           Sync(e) \/ Owner(e) \/ Abort(e)
    PROVE  /\ call'[d] = call[d] /\ journal'[d] = journal[d] /\ files'[d] = files[d]
           /\ revision'[d] = revision[d] /\ baseline'[d] = baseline[d] /\ basis'[d] = basis[d]
PROOF
<1>1. /\ call \in [Devices -> Call] /\ journal \in [Devices -> SUBSET Journal]
      /\ files \in [Devices -> Files] /\ revision \in [Devices -> Nat]
      /\ baseline \in [Devices -> Files] /\ basis \in [Devices -> Files]
    BY DEF OInv, IInv, TypeOK
<1>2. CASE Sync(e)
    <2>1. CASE Begin(e) \/ Pull(e) \/ PullRaced(e) \/ RejectChanged(e)
        BY <1>1, <2>1 DEF Begin, Pull, PullRaced, RejectChanged, clientVars
    <2>2. CASE Queue(e) \/ RejectStale(e) \/ KeepConflict(e)
        BY <1>1, <2>2 DEF Queue, RejectStale, KeepConflict
    <2>3. CASE Post(e)
        <3>1. PICK c : call' = [call EXCEPT ![e] = c]
            BY <2>3 DEF Post, PostAgain, PostUnavailable, PostStale, PostConflict, PostApplied,
                        Reply
        <3> QED
            BY <1>1, <2>3, <3>1 DEF Post, clientVars
    <2>4. CASE ApplyAcknowledged(e) \/ ApplyPulled(e)
                 \/ \E x \in Conflicts(e) : ReconcileDecided(e, x) \/ ReconcileLosing(e, x)
        <3>1. UNCHANGED <<files, revision, baseline, basis>> /\ \E j : StartApply(e, j)
            BY <2>4 DEF ApplyAcknowledged, ApplyPulled, ReconcileDecided, ReconcileLosing
        <3> QED
            BY <1>1, <3>1 DEF StartApply
    <2>5. CASE Recover(e) \/ PreflightPasses(e) \/ PreflightFails(e)
        BY <1>1, <2>5 DEF Recover, PreflightPasses, PreflightFails, clientVars
    <2>6. CASE WriteFile(e) \/ Commit(e)
        BY <1>1, <2>6 DEF WriteFile, Commit
    <2> QED
        BY <1>2, <2>1, <2>2, <2>3, <2>4, <2>5, <2>6 DEF Sync, Apply
<1>3. CASE Owner(e)
    <2>1. CASE \E saved \in backups[e] : Restore(e, saved)
        BY <1>1, <2>1 DEF Restore, StartApply
    <2>2. CASE \E keepLocal \in BOOLEAN : RecoverChoice(e, keepLocal)
        <3>1. UNCHANGED <<files, revision, baseline, basis>> /\ \E j : StartApply(e, j)
            BY <2>2 DEF RecoverChoice
        <3> QED
            BY <1>1, <3>1 DEF StartApply
    <2>3. CASE Backup(e) \/ \E p \in Paths, c \in Contents : Edit(e, p, c)
        BY <1>1, <2>3 DEF Backup, Edit
    <2>4. CASE \E x \in Conflicts(e), keepLocal \in BOOLEAN : Resolve(e, x, keepLocal)
        BY <1>1, <2>4 DEF Resolve, SeesCurrent
    <2> QED
        BY <1>3, <2>1, <2>2, <2>3, <2>4 DEF Owner
<1>4. CASE Abort(e)
    BY <1>1, <1>4 DEF Abort, clientVars
<1> QED
    BY <1>2, <1>3, <1>4

\* Nor do boundaries, reports and the portal touch those of any device.
LEMMA AllUntouched ==
    ASSUME \/ \E d \in Devices : Checkpoint(d) \/ ReportRetired(d) \/ ReportLost(d)
           \/ \E x \in Ids, keepCandidate, wholeCandidate \in BOOLEAN :
                PortalResolve(x, keepCandidate, wholeCandidate)
           \/ UNCHANGED vars
    PROVE  UNCHANGED <<call, journal, files, revision, baseline, basis>>
BY DEF Checkpoint, CheckpointQueue, CheckpointOpen, CheckpointClean, ReportRetired, ReportLost,
       PortalResolve, vars, clientVars

\* Apply, process and locked files of d stay, or the process stops writing.
LEMMA FilesStay ==
    ASSUME FInv, [Next]_vars, NEW d \in Devices, journal'[d] \subseteq journal[d],
           \/ call'[d].at # "writing"
           \/ call'[d] = call[d] /\ \A p \in Locked : files'[d][p] = files[d][p]
    PROVE  FilesFit(d)'
PROOF
<1>1. FilesFit(d) /\ OInv
    BY DEF FInv
<1>2. ASSUME NEW j \in journal'[d], NEW p \in Paths, j.expected[p] # j.target[p]
      PROVE  Kept(d, p, j.expected[p])'
    <2>1. Kept(d, p, j.expected[p])
        BY <1>1, <1>2 DEF FilesFit
    <2> QED
        BY <1>1, <2>1, KeptForEver
<1>3. ASSUME call'[d].at = "writing", NEW j \in journal'[d], NEW p \in Locked
      PROVE  /\ files'[d][p] \in {j.expected[p], j.target[p]}
             /\ p < call'[d].next => files'[d][p] = j.target[p]
    BY <1>1, <1>3 DEF FilesFit
<1>4. \A j, k \in journal'[d] : j = k
    BY <1>1 DEF FilesFit
<1>5. call'[d].at = "writing" => call'[d].next > 0
    BY <1>1 DEF FilesFit
<1> QED
    BY <1>2, <1>3, <1>4, <1>5 DEF FilesFit

\* A journaled apply has written nothing yet.
LEMMA FilesBegin ==
    ASSUME FInv, NEW d \in Devices, NEW j, Begins(d, j)
    PROVE  FilesFit(d)'
PROOF
<1>1. journal'[d] = {j} /\ call'[d].at = "journaled"
    BY DEF Begins, StartApply, At, Idle, FInv, OInv, IInv, TypeOK
<1> QED
    BY <1>1 DEF Begins, FilesFit

\* The preflight sees each file as expected, or already written.
LEMMA FilesPreflight ==
    ASSUME FInv, [Next]_vars, NEW d \in Devices, PreflightPasses(d)
    PROVE  FilesFit(d)'
PROOF
<1>1. /\ call'[d].at = "writing" /\ call'[d].next = 1
      /\ journal' = journal /\ files' = files
      /\ \A j \in journal[d] : Preflight(d, j)
    BY DEF PreflightPasses, At, Idle, clientVars, FInv, OInv, IInv, TypeOK
<1>2. ASSUME NEW j \in journal'[d], NEW p \in Paths, j.expected[p] # j.target[p]
      PROVE  Kept(d, p, j.expected[p])'
    <2>1. Kept(d, p, j.expected[p])
        BY <1>1, <1>2 DEF FInv, FilesFit
    <2> QED
        BY <2>1, KeptForEver DEF FInv
<1>3. ASSUME NEW j \in journal'[d], NEW p \in Locked
      PROVE  /\ files'[d][p] \in {j.expected[p], j.target[p]}
             /\ ~(p < call'[d].next)
    BY <1>1, LockAssumption, CountAssumption DEF Preflight, Paths
<1>4. \A j, k \in journal'[d] : j = k
    BY <1>1 DEF FInv, FilesFit
<1>5. call'[d].next > 0
    BY <1>1
<1> QED
    BY <1>2, <1>3, <1>4, <1>5 DEF FilesFit

\* A written file holds what the apply writes.
LEMMA FilesWrite ==
    ASSUME FInv, [Next]_vars, NEW d \in Devices, WriteFile(d)
    PROVE  FilesFit(d)'
PROOF
<1> DEFINE n == call[d].next
<1>1. PICK j \in journal[d] : files' = [files EXCEPT ![d][n] = j.target[n]]
    BY DEF WriteFile
<1>2. /\ call[d].at = "writing" /\ n \in Paths /\ journal' = journal
      /\ call'[d].at = "writing" /\ call'[d].next = n + 1
    BY DEF WriteFile, FInv, OInv, IInv, TypeOK, Call
<1>3. files[d] \in Files /\ files'[d] = [files[d] EXCEPT ![n] = j.target[n]]
    BY <1>1 DEF FInv, OInv, IInv, TypeOK
<1>4. journal[d] = {j}
    BY DEF FInv, FilesFit
<1>5. ASSUME NEW p \in Paths, j.expected[p] # j.target[p]
      PROVE  Kept(d, p, j.expected[p])'
    <2>1. Kept(d, p, j.expected[p])
        BY <1>5 DEF FInv, FilesFit
    <2> QED
        BY <2>1, KeptForEver DEF FInv
<1>6. ASSUME NEW p \in Locked
      PROVE  /\ files'[d][p] \in {j.expected[p], j.target[p]}
             /\ p < n + 1 => files'[d][p] = j.target[p]
    <2>1. p \in Paths /\ p \in Nat /\ n \in Nat
        BY <1>2, LockAssumption, CountAssumption DEF Paths
    <2>2. /\ files[d][p] \in {j.expected[p], j.target[p]}
          /\ p < n => files[d][p] = j.target[p]
        BY <1>2 DEF FInv, FilesFit
    <2>3. files'[d][p] = IF p = n THEN j.target[n] ELSE files[d][p]
        BY <1>3, <2>1 DEF Files
    <2> HIDE DEF n
    <2> QED
        BY <2>1, <2>2, <2>3
<1>7. n + 1 > 0
    BY <1>2 DEF FInv, OInv, IInv, TypeOK, Call
<1> QED
    BY <1>2, <1>4, <1>5, <1>6, <1>7 DEF FilesFit

\* Every step of its own keeps what is said of a device's files.
LEMMA FilesOwn ==
    ASSUME FInv, [Next]_vars, NEW d \in Devices, Sync(d) \/ Owner(d) \/ Abort(d)
    PROVE  FilesFit(d)'
PROOF
<1>0. /\ OInv /\ call \in [Devices -> Call] /\ journal \in [Devices -> SUBSET Journal]
      /\ files \in [Devices -> Files]
    BY DEF FInv, OInv, IInv, TypeOK
<1>1. CASE \E j : Begins(d, j)
    BY <1>1, FilesBegin
<1>2. CASE Sync(d)
    <2>1. CASE Begin(d) \/ Pull(d) \/ PullRaced(d) \/ RejectChanged(d) \/ Abort(d)
        <3>1. journal' = journal
            BY <2>1 DEF Begin, Pull, PullRaced, RejectChanged, Abort, clientVars
        <3>2. call'[d].at # "writing"
            <4>1. PICK c \in {Idle, At("checked"), [At("pulled") EXCEPT !.revision = head]} :
                    call' = [call EXCEPT ![d] = c]
                BY <2>1 DEF Begin, Pull, PullRaced, RejectChanged, Abort
            <4>2. /\ Idle.at = "idle" /\ At("checked").at = "checked"
                  /\ [At("pulled") EXCEPT !.revision = head].at = "pulled"
                BY DEF At, Idle
            <4>3. c.at # "writing"
                BY <4>1, <4>2
            <4> QED
                BY <1>0, <4>1, <4>3
        <3> QED
            BY <3>1, <3>2, FilesStay
    <2>2. CASE Queue(d)
        BY <2>2, FilesStay DEF Queue
    <2>3. CASE RejectStale(d) \/ KeepConflict(d)
        <3>1. journal' = journal
            BY <2>3 DEF RejectStale, KeepConflict
        <3>2. call'[d].at # "writing"
            BY <1>0, <2>3 DEF RejectStale, KeepConflict, Idle
        <3> QED
            BY <3>1, <3>2, FilesStay
    <2>4. CASE Post(d)
        <3>1. journal' = journal
            BY <2>4 DEF Post, clientVars
        <3>2. PICK u, answer, r : Reply(d, u, answer, r)
            BY <2>4 DEF Post, PostAgain, PostUnavailable, PostStale, PostConflict, PostApplied
        <3>3. call'[d].at # "writing"
            BY <1>0, <3>2 DEF Reply, At, Idle
        <3> QED
            BY <3>1, <3>3, FilesStay
    <2>5. CASE ApplyAcknowledged(d) \/ ApplyPulled(d)
                 \/ \E x \in Conflicts(d) : ReconcileDecided(d, x) \/ ReconcileLosing(d, x)
        BY <1>0, <1>1, <2>5, AcknowledgedBegins, PulledBegins, DecidedBegins, LosingBegins
    <2>6. CASE Recover(d) \/ PreflightFails(d)
        <3>1. journal' = journal
            BY <2>6 DEF Recover, PreflightFails, clientVars
        <3>2. call'[d].at # "writing"
            BY <1>0, <2>6 DEF Recover, PreflightFails, At, Idle
        <3> QED
            BY <3>1, <3>2, FilesStay
    <2>7. CASE PreflightPasses(d) \/ WriteFile(d)
        BY <2>7, FilesPreflight, FilesWrite
    <2>8. CASE Commit(d)
        <3>1. journal'[d] = {} /\ call'[d].at # "writing"
            BY <1>0, <2>8 DEF Commit, Idle
        <3> QED
            BY <3>1, FilesStay
    <2> QED
        BY <1>2, <2>1, <2>2, <2>3, <2>4, <2>5, <2>6, <2>7, <2>8 DEF Sync, Apply
<1>3. CASE Owner(d)
    <2>1. CASE \E p \in Paths, c \in Contents : Edit(d, p, c)
        <3>1. PICK p \in Paths, c \in Contents : Edit(d, p, c)
            BY <2>1
        <3>2. journal' = journal /\ call' = call /\ files' = [files EXCEPT ![d][p] = c]
            BY <3>1 DEF Edit
        <3>3. call[d].at = "writing" => p \notin Locked
            BY <3>1 DEF Edit, Idle
        <3>4. \A q \in Locked : q # p => files'[d][q] = files[d][q]
            BY <1>0, <3>2, LockAssumption DEF Files
        <3> QED
            BY <3>2, <3>3, <3>4, FilesStay
    <2>2. CASE Backup(d) \/ \E x \in Conflicts(d), keepLocal \in BOOLEAN : Resolve(d, x, keepLocal)
        <3>1. journal' = journal /\ call' = call /\ files' = files
            BY <2>2 DEF Backup, Resolve
        <3> QED
            BY <3>1, FilesStay
    <2>3. CASE \/ \E keepLocal \in BOOLEAN : RecoverChoice(d, keepLocal)
               \/ \E saved \in backups[d] : Restore(d, saved)
        BY <1>0, <1>1, <2>3, OwnerBegins
    <2> QED
        BY <1>3, <2>1, <2>2, <2>3 DEF Owner
<1>4. CASE Abort(d)
    <2>1. journal' = journal
        BY <1>4 DEF Abort, clientVars
    <2>2. call'[d].at # "writing"
        BY <1>0, <1>4 DEF Abort, Idle
    <2> QED
        BY <2>1, <2>2, FilesStay
<1> QED
    BY <1>2, <1>3, <1>4

\* Every step keeps what is said of the files of every device.
LEMMA NextFInv ==
    ASSUME FInv, [Next]_vars
    PROVE  FInv'
PROOF
<1>1. OInv'
    BY NextOInv DEF FInv
<1>2. ASSUME NEW d \in Devices PROVE FilesFit(d)'
    <2>1. CASE Sync(d) \/ Owner(d) \/ Abort(d)
        BY <2>1, FilesOwn
    <2>2. CASE \E e \in Devices : e # d /\ (Sync(e) \/ Owner(e) \/ Abort(e))
        <3>1. call'[d] = call[d] /\ journal'[d] = journal[d] /\ files'[d] = files[d]
            BY <2>2, OthersUntouched DEF FInv
        <3> QED
            BY <3>1, FilesStay
    <2>3. CASE \/ \E e \in Devices : Checkpoint(e) \/ ReportRetired(e) \/ ReportLost(e)
               \/ \E x \in Ids, keepCandidate, wholeCandidate \in BOOLEAN :
                    PortalResolve(x, keepCandidate, wholeCandidate)
               \/ UNCHANGED vars
        <3>1. UNCHANGED <<call, journal, files>>
            BY <2>3, AllUntouched
        <3> QED
            BY <3>1, FilesStay
    <2> QED
        BY <2>1, <2>2, <2>3, ManagedAssumption DEF Next
<1> QED
    BY <1>1, <1>2 DEF FInv

\* What is said of the files holds in every behaviour of the specification.
LEMMA FilesInductive == Spec => []FInv
PROOF
<1>1. Init => FInv
    <2> SUFFICES ASSUME Init PROVE FInv
        OBVIOUS
    <2>1. \A d \in Devices : journal[d] = {} /\ call[d].at = "idle"
        BY DEF Init, Idle
    <2> QED
        BY <2>1, InitOInv DEF FInv, FilesFit
<1> QED
    BY <1>1, NextFInv, PTL DEF Spec

----------------------------------------------------------------------------
\* Only an edit and the writing of an apply change the content of a file.
LEMMA FilesChange ==
    ASSUME FInv, [Next]_vars, NEW d \in Devices, NEW p \in Locked,
           files'[d][p] # files[d][p], edits' = edits
    PROVE  Kept(d, p, files[d][p])
PROOF
<1>0. /\ OInv /\ files \in [Devices -> Files] /\ edits \in Nat
    BY DEF FInv, OInv, IInv, TypeOK
<1>1. files'[d] # files[d]
    OBVIOUS
<1>2. Sync(d) \/ Owner(d) \/ Abort(d)
    BY <1>0, <1>1, OthersUntouched, AllUntouched, ManagedAssumption DEF Next
<1>3. CASE WriteFile(d)
    <2>1. PICK j \in journal[d] :
            files' = [files EXCEPT ![d][call[d].next] = j.target[call[d].next]]
        BY <1>3 DEF WriteFile
    <2>2. files'[d] = [files[d] EXCEPT ![call[d].next] = j.target[call[d].next]]
        BY <1>0, <2>1
    <2>3. p \in Paths /\ files[d] \in Files
        BY <1>0, LockAssumption
    <2>4. p = call[d].next /\ files'[d][p] = j.target[p]
        BY <2>2, <2>3 DEF Files
    <2>5. files[d][p] = j.expected[p]
        BY <1>3, <2>4 DEF WriteFile, FInv, FilesFit
    <2> QED
        BY <2>3, <2>4, <2>5 DEF FInv, FilesFit
<1>4. CASE Sync(d) /\ ~WriteFile(d)
    <2>1. CASE Begin(d) \/ Queue(d) \/ Post(d) \/ Pull(d) \/ PullRaced(d)
        BY <1>1, <2>1 DEF Begin, Queue, Post, Pull, PullRaced, clientVars
    <2>2. CASE RejectStale(d) \/ RejectChanged(d) \/ KeepConflict(d)
        BY <1>1, <2>2 DEF RejectStale, RejectChanged, KeepConflict, clientVars
    <2>3. CASE ApplyAcknowledged(d) \/ ApplyPulled(d)
        BY <1>1, <2>3 DEF ApplyAcknowledged, ApplyPulled
    <2>4. CASE \E x \in Conflicts(d) : ReconcileDecided(d, x) \/ ReconcileLosing(d, x)
        BY <1>1, <2>4 DEF ReconcileDecided, ReconcileLosing
    <2>5. CASE Apply(d)
        BY <1>1, <1>4, <2>5
        DEF Apply, Recover, PreflightPasses, PreflightFails, Commit, clientVars
    <2> QED
        BY <1>4, <2>1, <2>2, <2>3, <2>4, <2>5 DEF Sync
<1>5. CASE Owner(d) \/ Abort(d)
    <2>1. ASSUME NEW q, NEW c, Edit(d, q, c) PROVE FALSE
        BY <1>0, <2>1 DEF Edit
    <2> QED
        BY <1>1, <1>5, <2>1 DEF Owner, Resolve, RecoverChoice, Backup, Restore, Abort,
           clientVars
<1> QED
    BY <1>2, <1>3, <1>4, <1>5

\* A device starts to write only after a preflight of every file.
LEMMA WritingBegins ==
    ASSUME FInv, Next, NEW d \in Devices,
           call[d].at = "journaled", call'[d].at = "writing"
    PROVE  \A j \in journal[d] : Preflight(d, j)
PROOF
<1>0. /\ OInv /\ call \in [Devices -> Call]
    BY DEF FInv, OInv, IInv, TypeOK
<1>1. call'[d] # call[d]
    OBVIOUS
<1>2. Sync(d) \/ Owner(d) \/ Abort(d)
    BY <1>0, <1>1, OthersUntouched, AllUntouched, ManagedAssumption DEF Next
<1>3. CASE Apply(d)
    BY <1>0, <1>3 DEF Apply, Recover, PreflightPasses, PreflightFails, WriteFile, Commit, Idle
<1>4. CASE Sync(d) /\ ~Apply(d)
    BY <1>0, <1>4
    DEF Sync, Begin, Queue, Post, PostAgain, PostUnavailable, PostStale, PostConflict,
        PostApplied, Reply, Pull, PullRaced, RejectStale, RejectChanged, KeepConflict,
        ApplyAcknowledged, ApplyPulled, ReconcileDecided, ReconcileLosing, Ready, Idle
<1>5. CASE Owner(d)
    <2>1. CASE \E p \in Paths, c \in Contents : Edit(d, p, c)
        BY <1>1, <2>1 DEF Edit
    <2>2. CASE Backup(d) \/ \E x \in Conflicts(d), keepLocal \in BOOLEAN : Resolve(d, x, keepLocal)
        BY <1>1, <2>2 DEF Backup, Resolve
    <2>3. CASE \/ \E keepLocal \in BOOLEAN : RecoverChoice(d, keepLocal)
               \/ \E saved \in backups[d] : Restore(d, saved)
        <3>1. call'[d].at = "journaled"
            BY <1>0, <2>3, OwnerBegins DEF Begins, StartApply, At, Idle
        <3> QED
            BY <3>1
    <2> QED
        BY <1>5, <2>1, <2>2, <2>3 DEF Owner
<1>6. CASE Abort(d)
    BY <1>0, <1>6 DEF Abort, Idle
<1> QED
    BY <1>2, <1>3, <1>4, <1>5, <1>6

\* Synchronization never destroys an edit: what an apply is about to replace when
\* it starts to write, and what it replaces of a memory file, is in the history of
\* the server, in the outbox or in a backup.
THEOREM NothingLost == Spec => NoSilentLoss
PROOF
<1>1. ASSUME FInv, Next, NEW d \in Devices,
             call[d].at = "journaled", call'[d].at = "writing",
             NEW j \in journal[d], NEW p \in Paths
      PROVE  files[d][p] = j.target[p] \/ Kept(d, p, files[d][p])
    <2>1. files[d][p] \in {j.expected[p], j.target[p]}
        BY <1>1, WritingBegins DEF Preflight
    <2> QED
        BY <1>1, <2>1 DEF FInv, FilesFit
<1>2. FInv /\ [Next]_vars =>
        [\A d \in Devices :
            /\ \A p \in Locked :
                files'[d][p] # files[d][p] /\ edits' = edits => Kept(d, p, files[d][p])
            /\ call[d].at = "journaled" /\ call'[d].at = "writing" =>
                \A j \in journal[d], p \in Paths :
                    files[d][p] = j.target[p] \/ Kept(d, p, files[d][p])]_vars
    BY <1>1, FilesChange
<1> QED
    BY <1>2, FilesInductive, PTL DEF Spec, NoSilentLoss

----------------------------------------------------------------------------
\* A session boundary that finds nothing to send sees the files of the baseline.
LEMMA CleanIsComplete ==
    ASSUME FInv, FInv', NEW d \in Devices, CheckpointClean(d)
    PROVE  Complete(d)'
PROOF
<1>1. /\ files[d] \in Files /\ baseline[d] \in Files /\ Open(d) = {}
      /\ LocalChanges(d) = NoChanges
      /\ UNCHANGED <<files, revision, rows, history>>
    BY DEF CheckpointClean, FInv, OInv, IInv, TypeOK, serverVars
<1>2. baseline[d] = Remote(revision[d])
    BY DEF FInv, OInv, IInv, BaselineIsHistory
<1>3. ASSUME NEW p \in Locked PROVE files[d][p] = baseline[d][p]
    <2>1. p \in Paths
        BY LockAssumption
    <2>2. LocalChanges(d)[p] = Unsent
        BY <1>1, <2>1 DEF NoChanges
    <2>3. files[d][p] # Unsent
        BY <1>1, <2>1, ContentAssumption DEF Files
    <2> QED
        BY <2>1, <2>2, <2>3 DEF LocalChanges
<1>4. Open(d)' = {} /\ Remote(revision[d])' = Remote(revision[d])
    BY <1>1 DEF Open, Pending, Conflicts, RowsOf, Ids, Remote
<1> QED
    BY <1>1, <1>2, <1>3, <1>4 DEF Complete

\* The transaction that ends an apply reports it only with every file written
\* and no row open.
LEMMA CommitIsComplete ==
    ASSUME FInv, FInv', NEW d \in Devices, Commit(d),
           ack' # ack \/ (retained[d] /\ ~retained'[d])
    PROVE  Complete(d)' /\ ack' = [ack EXCEPT ![d] = {revision'[d]}]
PROOF
<1> DEFINE row(j) == [owner |-> d, base |-> j.residualBase, changes |-> j.residual,
                      resolves |-> 0, expected |-> NoChanges, basis |-> j.residualBasis,
                      status |-> "pending"]
           after(j) == IF ~(j.residual # NoChanges) THEN Marked(j.done, j.resolved)
                       ELSE Append(Marked(j.done, j.resolved), row(j))
<1>0. /\ revision \in [Devices -> Nat] /\ baseline \in [Devices -> Files]
      /\ retained \in [Devices -> BOOLEAN] /\ ack \in [Devices -> SUBSET Nat]
      /\ call[d].next \in Nat
    BY DEF FInv, OInv, IInv, TypeOK, Call
<1>1. PICK j \in journal[d] :
        /\ rows' = after(j)
        /\ revision' = [revision EXCEPT ![d] = j.revision]
        /\ baseline' = [baseline EXCEPT ![d] = j.baseline]
        /\ retained' = [retained EXCEPT ![d] = @ /\ ~CompleteApply(d, j, after(j))]
        /\ ack' = IF CompleteApply(d, j, after(j)) THEN [ack EXCEPT ![d] = {j.revision}] ELSE ack
    BY DEF Commit
<1>2. /\ call[d].at = "writing" /\ call[d].next \notin Paths /\ files' = files
    BY DEF Commit
<1> HIDE DEF after
<1>3. CompleteApply(d, j, after(j)) /\ revision'[d] = j.revision /\ baseline'[d] = j.baseline
    <2>1. CompleteApply(d, j, after(j)) \in BOOLEAN
        BY DEF CompleteApply
    <2> QED
        BY <1>0, <1>1, <2>1
<1>4. j.target = j.baseline
      /\ \A u \in Ids' : rows'[u].owner = d => rows'[u].status \notin {"pending", "conflict"}
    BY <1>1, <1>3 DEF CompleteApply, Ids
<1>5. Open(d)' = {}
    BY <1>4 DEF Open, Pending, Conflicts, RowsOf
<1>6. Remote(revision[d])' = j.target
    BY <1>3, <1>4 DEF FInv, OInv, IInv, BaselineIsHistory
<1>7. ASSUME NEW p \in Locked PROVE files'[d][p] = j.target[p]
    <2>1. /\ p \in Nat /\ p <= FileCount /\ FileCount \in Nat
          /\ ~(call[d].next > 0 /\ call[d].next <= FileCount)
        BY <1>0, <1>2, LockAssumption, CountAssumption DEF Paths
    <2>2. call[d].next > 0
        BY <1>2 DEF FInv, FilesFit
    <2>3. p < call[d].next
        BY <1>0, <2>1, <2>2
    <2> QED
        BY <1>2, <2>3 DEF FInv, FilesFit
<1> QED
    BY <1>1, <1>3, <1>5, <1>6, <1>7 DEF Complete

\* The steps that neither report a revision nor end a session's boundary.
LEMMA ReportsKept ==
    ASSUME FInv, [Next]_vars, NEW d \in Devices, ~Commit(d), ~CheckpointClean(d)
    PROVE  /\ ack'[d] = ack[d] \/ ack'[d] = {}
           /\ retained[d] => retained'[d]
PROOF
<1>0. ack \in [Devices -> SUBSET Nat] /\ retained \in [Devices -> BOOLEAN]
    BY DEF FInv, OInv, IInv, TypeOK
<1>1. CASE UNCHANGED <<ack, retained>>
    BY <1>1
<1>2. ASSUME NEW e \in Devices, Sync(e), ~Commit(e) PROVE UNCHANGED <<ack, retained>>
    <2>1. CASE Begin(e) \/ Queue(e) \/ Post(e) \/ Pull(e) \/ PullRaced(e)
        BY <2>1 DEF Begin, Queue, Post, Pull, PullRaced, clientVars
    <2>2. CASE RejectStale(e) \/ RejectChanged(e) \/ KeepConflict(e)
        BY <2>2 DEF RejectStale, RejectChanged, KeepConflict, clientVars
    <2>3. CASE ApplyAcknowledged(e) \/ ApplyPulled(e)
        BY <2>3 DEF ApplyAcknowledged, ApplyPulled
    <2>4. CASE \E x \in Conflicts(e) : ReconcileDecided(e, x) \/ ReconcileLosing(e, x)
        BY <2>4 DEF ReconcileDecided, ReconcileLosing
    <2>5. CASE Apply(e)
        BY <1>2, <2>5 DEF Apply, Recover, PreflightPasses, PreflightFails, WriteFile, clientVars
    <2> QED
        BY <1>2, <2>1, <2>2, <2>3, <2>4, <2>5 DEF Sync
<1>3. ASSUME NEW e \in Devices, Commit(e), e # d PROVE UNCHANGED <<ack[d], retained[d]>>
    <2>1. PICK r, complete : /\ retained' = [retained EXCEPT ![e] = @ /\ ~complete]
                             /\ ack' = ack \/ ack' = [ack EXCEPT ![e] = {r}]
        BY <1>3 DEF Commit
    <2> QED
        BY <1>0, <1>3, <2>1
<1>4. ASSUME NEW e \in Devices, Owner(e) \/ Abort(e) PROVE UNCHANGED <<ack, retained>>
    BY <1>4 DEF Owner, Edit, Resolve, RecoverChoice, Backup, Restore, Abort, clientVars
<1>5. ASSUME NEW e \in Devices, CheckpointQueue(e) \/ CheckpointOpen(e)
      PROVE  ack' = ack /\ retained' = [retained EXCEPT ![e] = TRUE]
    BY <1>5 DEF CheckpointQueue, CheckpointOpen
<1>6. ASSUME NEW e \in Devices, e # d, CheckpointClean(e)
      PROVE  UNCHANGED <<ack[d], retained[d]>>
    BY <1>0, <1>6 DEF CheckpointClean
<1>7. ASSUME NEW e \in Devices, ReportRetired(e) \/ ReportLost(e)
      PROVE  retained' = retained /\ (ack' = ack \/ ack' = [ack EXCEPT ![e] = {}])
    BY <1>7 DEF ReportRetired, ReportLost, clientVars
<1>8. ASSUME NEW x, NEW keepCandidate, NEW wholeCandidate,
             PortalResolve(x, keepCandidate, wholeCandidate)
      PROVE  UNCHANGED <<ack, retained>>
    BY <1>8 DEF PortalResolve, clientVars
<1>9. CASE UNCHANGED vars
    BY <1>1, <1>9 DEF vars, clientVars
<1>10. CASE \E e \in Devices : Sync(e) \/ Owner(e) \/ Abort(e)
    BY <1>1, <1>2, <1>3, <1>4, <1>10
<1>11. CASE \E e \in Managed : Checkpoint(e) \/ ReportRetired(e) \/ ReportLost(e)
    <2>1. PICK e \in Devices : Checkpoint(e) \/ ReportRetired(e) \/ ReportLost(e)
        BY <1>11, ManagedAssumption
    <2> QED
        BY <1>0, <1>5, <1>6, <1>7, <2>1 DEF Checkpoint
<1> QED
    BY <1>1, <1>8, <1>9, <1>10, <1>11 DEF Next

\* What is reported, and what ends a session's boundary, is a complete snapshot.
LEMMA ReportComplete ==
    ASSUME FInv, [Next]_vars, NEW d \in Devices,
           (ack'[d] # ack[d] /\ ack'[d] # {}) \/ (retained[d] /\ ~retained'[d])
    PROVE  Complete(d)' /\ ack'[d] \subseteq ack[d] \cup {revision'[d]}
PROOF
<1>0. FInv' /\ ack \in [Devices -> SUBSET Nat]
    BY NextFInv DEF FInv, OInv, IInv, TypeOK
<1>1. Commit(d) \/ CheckpointClean(d)
    BY ReportsKept
<1>2. CASE Commit(d)
    <2>1. Complete(d)' /\ ack' = [ack EXCEPT ![d] = {revision'[d]}]
        BY <1>0, <1>2, CommitIsComplete
    <2> QED
        BY <1>0, <2>1
<1>3. CASE CheckpointClean(d)
    <2>1. ack' = ack
        BY <1>3 DEF CheckpointClean
    <2> QED
        BY <1>0, <1>3, <2>1, CleanIsComplete
<1> QED
    BY <1>1, <1>2, <1>3

\* The applied-revision report, and the end of a session's retained boundary,
\* come only with a complete snapshot on disk and nothing open in the outbox.
THEOREM ReportsCorrect == Spec => ReportsAreComplete
PROOF
<1>1. FInv /\ [Next]_vars =>
        [\A d \in Devices :
            /\ (ack'[d] # ack[d] /\ ack'[d] # {}) \/ (retained[d] /\ ~retained'[d])
            => Complete(d)' /\ ack'[d] \subseteq ack[d] \cup {revision'[d]}]_vars
    BY ReportComplete
<1> QED
    BY <1>1, FilesInductive, PTL DEF Spec, ReportsAreComplete

----------------------------------------------------------------------------
(***************************************************************************)
(* What an update overwrites.  A content was seen if it is the one that the*)
(* local edit descends from (basis); an update whose author has not seen   *)
(* the current content of a path it sends has to become a conflict, which  *)
(* it does if that path moved after the update's base.                     *)
(***************************************************************************)
\* Path p has been published after revision base and not after revision r.
Moved(p, r, base) == history[r][p].revision > base

\* Sent on base, path p replaces content c, or is refused.
Causal(p, base, c) == Moved(p, head, base) \/ history[base][p].content = c

\* The owner has queued a resolution of conflict u.
Resolving(u) == \E v \in Ids : rows[v].resolves = u

\* A file keeps its content and the revision it was published at until it is
\* published again.
HistoryFits ==
    \A q, r \in 0..head, p \in Paths :
        /\ history[r][p].revision <= r
        /\ q <= r => /\ history[q][p].revision <= history[r][p].revision
                     /\ history[r][p].revision <= q => history[r][p] = history[q][p]

\* Update u replaces nothing unseen; what the portal decided about u without a
\* resolution covers the paths on which u had been refused.
RowCausal(u) ==
    /\ rows[u].base <= head
    /\ rows[u].resolves = 0 /\ record[u].answer = "none" =>
        \A p \in Sent(rows[u].changes) : Causal(p, rows[u].base, rows[u].basis[p])
    /\ Decided(u) /\ ~Resolving(u) =>
        /\ record[u].answer = "conflict"
        /\ \A p \in Sent(rows[u].changes) :
            Moved(p, record[u].revision, rows[u].base)
            => Moved(p, record[u].resolvedRevision, record[u].revision)

\* What is open of d was refused, or decided by its owner, no earlier than at
\* the revision that d has applied; a resolution sends what its conflict sends.
OpenCausal(d) ==
    \A w \in Open(d) :
        /\ record[w].answer = "conflict" => record[w].revision >= revision[d]
        /\ rows[w].resolves # 0 => rows[w].base >= revision[d]
        /\ w \in Pending(d) /\ rows[w].resolves # 0 =>
            Sent(rows[w].changes) = Sent(rows[rows[w].resolves].changes)

\* A local content descends from the baseline, or an open update of d sends it
\* and the server has moved on, or had when that update was rebased.
FilesCausal(d) ==
    \A p \in Paths :
        \/ basis[d][p] = baseline[d][p]
        \/ \E w \in Open(d) :
            /\ p \in Sent(rows[w].changes)
            /\ \/ Moved(p, head, revision[d])
               \/ /\ rows[w].resolves = 0 /\ ~Resolving(w)
                  /\ Moved(p, revision[d], rows[w].base)

\* Apply j is a restore of what d has applied, not a move to a revision.
Restores(d, j) ==
    j.done = {} /\ j.resolved = {} /\ j.residual = NoChanges /\ j.revision = revision[d]

\* The same of what apply j of d will leave: nothing else stays open beside its
\* residual update.
JournalCausal(d, j) ==
    /\ j.residualBase <= head
    /\ Restores(d, j) \/ Open(d) \subseteq j.done \cup j.resolved
    /\ \A p \in Sent(j.residual) : Causal(p, j.residualBase, j.residualBasis[p])
    /\ \A p \in Paths :
        \/ j.basis[p] = j.baseline[p]
        \/ Restores(d, j) /\ j.basis[p] = basis[d][p]
        \/ /\ p \in Sent(j.residual)
           /\ Moved(p, head, j.revision) \/ Moved(p, j.revision, j.residualBase)

\* A snapshot is fetched only with nothing open, and only a resolution can be
\* answered as incomplete.
CallCausal(d) ==
    /\ call[d].at = "pulled" => Open(d) = {}
    /\ call[d].at = "replied" /\ call[d].answer = "incomplete_resolution" =>
        rows[call[d].update].resolves # 0

DeviceCausal(d) ==
    /\ OpenCausal(d) /\ FilesCausal(d) /\ CallCausal(d)
    /\ \A j \in journal[d] : JournalCausal(d, j)

CInv ==
    /\ OInv /\ HistoryFits
    /\ \A u \in Ids : RowCausal(u)
    /\ \A d \in Devices : DeviceCausal(d)

\* The content of a path in a revision.
LEMMA RemoteContent ==
    ASSUME NEW r, NEW p \in Paths
    PROVE  Remote(r)[p] = history[r][p].content
BY DEF Remote, ContentsOf

\* The versions of a file are versions.
LEMMA VersionType ==
    ASSUME OInv, NEW r \in 0..head, NEW p \in Paths
    PROVE  /\ history[r][p] \in FileVersion /\ history[r][p].revision \in Nat
           /\ history[r][p].content \in Contents
BY DEF OInv, IInv, TypeOK, Snapshot, FileVersion

\* Publishing appends: what was is as it was, and a file either moves to the new
\* revision or stays what it was at the head.
LEMMA HistoryAppends ==
    ASSUME OInv, [Next]_vars
    PROVE  /\ head \in Nat /\ head' \in Nat /\ head <= head'
           /\ \A r \in 0..head : history'[r] = history[r]
           /\ \A r \in 0..head', p \in Paths :
                r > head => \/ history'[r][p].revision = r
                            \/ history'[r][p] = history[head][p]
           /\ head' <= head + 1
PROOF
<1>0. head \in Nat
    BY DEF OInv, IInv, TypeOK
<1>1. CASE UNCHANGED <<head, history>>
    BY <1>0, <1>1
<1>2. CASE \E changes \in Changes : Publish(changes)
    <2>1. PICK changes \in Changes : Publish(changes)
        BY <1>2
    <2>2. head' = head + 1 /\ \A r \in 0..head : history'[r] = history[r]
        BY <1>0, <2>1 DEF Publish
    <2>3. history'[head + 1] = applyChanges(changes)
        BY <1>0, <2>1 DEF Publish
    <2>4. \A p \in Paths : \/ history'[head + 1][p].revision = head + 1
                           \/ history'[head + 1][p] = history[head][p]
        BY <2>3 DEF applyChanges
    <2>5. \A r \in 0..head' : r > head => r = head + 1
        BY <1>0, <2>2
    <2> QED
        BY <1>0, <2>2, <2>4, <2>5
<1> QED
    BY <1>1, <1>2, ServerMoves

\* The history stays one in which a file moves only when it is published.
LEMMA HistoryMoves ==
    ASSUME OInv, HistoryFits, [Next]_vars
    PROVE  /\ HistoryFits'
           /\ \A p \in Paths : /\ history[head][p].revision \in Nat
                               /\ history'[head'][p].revision \in Nat
                               /\ history'[head'][p].revision >= history[head][p].revision
PROOF
<1>1. /\ head \in Nat /\ head' \in Nat /\ head <= head' /\ head' <= head + 1
      /\ \A r \in 0..head : history'[r] = history[r]
      /\ \A r \in 0..head', p \in Paths :
            r > head => history'[r][p].revision = r \/ history'[r][p] = history[head][p]
    BY HistoryAppends
<1>2. OInv'
    BY NextOInv
<1>3. \A r \in 0..head', p \in Paths : history'[r][p].revision \in Nat
    BY <1>2, VersionType DEF OInv, IInv, TypeOK, Snapshot, FileVersion
<1>4. \A r \in 0..head, p \in Paths : history[r][p].revision \in Nat
    BY VersionType
<1>5. ASSUME NEW q \in 0..head', NEW r \in 0..head', NEW p \in Paths
      PROVE  /\ history'[r][p].revision <= r
             /\ q <= r => /\ history'[q][p].revision <= history'[r][p].revision
                          /\ history'[r][p].revision <= q => history'[r][p] = history'[q][p]
    <2>1. CASE r <= head
        <3>1. CASE q <= r
            BY <1>1, <2>1, <3>1 DEF HistoryFits
        <3>2. CASE ~(q <= r)
            BY <1>1, <2>1, <3>2 DEF HistoryFits
        <3> QED
            BY <3>1, <3>2
    <2>2. CASE r > head
        <3>1. CASE q > head
            <4>1. q = r
                BY <1>1, <2>2, <3>1
            <4>2. history[head][p].revision <= head
                BY <1>1 DEF HistoryFits
            <4> QED
                BY <1>1, <1>3, <2>2, <4>1, <4>2
        <3>2. CASE q <= head
            <4>1. /\ history[head][p].revision <= head
                  /\ history[q][p].revision <= history[head][p].revision
                  /\ history[head][p].revision <= q => history[head][p] = history[q][p]
                BY <1>1, <3>2 DEF HistoryFits
            <4>2. history'[q] = history[q]
                BY <1>1, <3>2
            <4>3. history'[r][p].revision = r \/ history'[r][p] = history[head][p]
                BY <1>1, <2>2
            <4> QED
                BY <1>1, <1>3, <1>4, <2>2, <3>2, <4>1, <4>2, <4>3
        <3> QED
            BY <1>1, <3>1, <3>2
    <2> QED
        BY <1>1, <2>1, <2>2
<1>6. HistoryFits'
    BY <1>5 DEF HistoryFits
<1>7. ASSUME NEW p \in Paths
      PROVE  /\ history[head][p].revision \in Nat /\ history'[head'][p].revision \in Nat
             /\ history'[head'][p].revision >= history[head][p].revision
    <2>1. head \in 0..head' /\ head' \in 0..head' /\ head \in 0..head
        BY <1>1
    <2>2. history'[head][p].revision <= history'[head'][p].revision
        BY <1>1, <1>5, <2>1
    <2> QED
        BY <1>1, <1>3, <1>4, <2>1, <2>2
<1> QED
    BY <1>6, <1>7

\* What a step leaves of a path's moves: those up to the head stay, and nothing
\* that moved has not.
LEMMA MovesStay ==
    ASSUME OInv, HistoryFits, [Next]_vars, NEW p \in Paths, NEW base \in Nat
    PROVE  /\ Moved(p, head, base) => history'[head'][p].revision > base
           /\ \A r \in 0..head : Moved(p, r, base) <=> history'[r][p].revision > base
           /\ \A c : base <= head /\ Causal(p, base, c) => Causal(p, base, c)'
PROOF
<1>1. /\ head \in Nat /\ head' \in Nat /\ head <= head'
      /\ \A r \in 0..head : history'[r] = history[r]
    BY HistoryAppends
<1>2. /\ history[head][p].revision \in Nat /\ history'[head'][p].revision \in Nat
      /\ history'[head'][p].revision >= history[head][p].revision
    BY HistoryMoves
<1>3. Moved(p, head, base) => history'[head'][p].revision > base
    BY <1>2 DEF Moved
<1>4. \A r \in 0..head : Moved(p, r, base) <=> history'[r][p].revision > base
    BY <1>1 DEF Moved
<1>5. ASSUME NEW c, base <= head, Causal(p, base, c) PROVE Causal(p, base, c)'
    <2>1. history'[base] = history[base]
        BY <1>1, <1>5
    <2> QED
        BY <1>3, <1>5, <2>1 DEF Causal, Moved
<1> QED
    BY <1>3, <1>4, <1>5

\* An update that was resolved stays so.
LEMMA ResolvingStays ==
    ASSUME OInv, [Next]_vars, NEW u, Resolving(u)
    PROVE  Resolving(u)'
BY RowsGrow DEF Resolving

\* A row keeps what is said of it as long as the server answers nothing new.
LEMMA RowStays ==
    ASSUME CInv, [Next]_vars, NEW u \in Ids, record'[u] = record[u]
    PROVE  RowCausal(u)'
PROOF
<1>1. OInv /\ HistoryFits /\ RowCausal(u) /\ IInv
    BY DEF CInv, OInv
<1>2. /\ rows'[u].base = rows[u].base /\ rows'[u].basis = rows[u].basis
      /\ rows'[u].changes = rows[u].changes /\ rows'[u].resolves = rows[u].resolves
    BY <1>1, RowsGrow
<1>3. /\ rows[u].base \in Nat /\ rows[u].base <= head /\ head \in Nat
      /\ record[u].revision \in Nat /\ record[u].resolvedRevision \in Nat
      /\ record[u].revision <= head /\ record[u].resolvedRevision <= head
    BY <1>1, RowFacts DEF RowCausal, IInv, TypeOK, KnownRevisions, Row, Record
<1>4. head <= head' /\ head' \in Nat
    BY <1>1, HistoryAppends
<1>5. ASSUME rows[u].resolves = 0, record[u].answer = "none", NEW p \in Sent(rows[u].changes)
      PROVE  Causal(p, rows[u].base, rows[u].basis[p])'
    <2>1. p \in Paths /\ Causal(p, rows[u].base, rows[u].basis[p])
        BY <1>1, <1>5 DEF RowCausal, Sent
    <2>2. PICK base \in Nat : base = rows[u].base
        BY <1>3
    <2>3. PICK c : c = rows[u].basis[p]
        OBVIOUS
    <2>4. Causal(p, base, c)'
        BY <1>1, <1>3, <2>1, <2>2, <2>3, MovesStay
    <2> QED
        BY <1>2, <2>2, <2>3, <2>4 DEF Causal, Moved
<1>6. Resolving(u) => Resolving(u)'
    BY <1>1, ResolvingStays
<1>7. ASSUME record[u].resolvedRevision > 0, ~Resolving(u)
      PROVE  /\ record[u].answer = "conflict"
             /\ \A p \in Sent(rows[u].changes) :
                    history'[record[u].revision][p].revision > rows[u].base
                    => history'[record[u].resolvedRevision][p].revision > record[u].revision
    <2>1. /\ record[u].answer = "conflict"
          /\ \A p \in Sent(rows[u].changes) :
                Moved(p, record[u].revision, rows[u].base)
                => Moved(p, record[u].resolvedRevision, record[u].revision)
        BY <1>1, <1>7 DEF RowCausal, Decided
    <2>2. /\ history'[record[u].revision] = history[record[u].revision]
          /\ history'[record[u].resolvedRevision] = history[record[u].resolvedRevision]
        BY <1>1, <1>3, HistoryAppends
    <2> QED
        BY <2>1, <2>2 DEF Moved
<1> QED
    BY <1>2, <1>3, <1>4, <1>5, <1>6, <1>7 DEF RowCausal, Decided, Causal, Moved

\* An apply stays what is said of it while its device's rows and files do.
LEMMA JournalStays ==
    ASSUME CInv, [Next]_vars, NEW d \in Devices, NEW j \in Journal, j.revision \in 0..head,
           JournalCausal(d, j), revision'[d] = revision[d], basis'[d] = basis[d],
           Open(d)' = Open(d)
    PROVE  JournalCausal(d, j)'
PROOF
<1>1. OInv /\ HistoryFits /\ head \in Nat /\ head <= head' /\ head' \in Nat
    BY HistoryAppends DEF CInv
<1>2. /\ j.residualBase \in Nat /\ j.residualBase <= head /\ j.revision \in Nat
      /\ Sent(j.residual) \subseteq Paths
    BY DEF Journal, JournalCausal, Sent
<1>3. Restores(d, j)' <=> Restores(d, j)
    BY DEF Restores
<1>4. ASSUME NEW p \in Sent(j.residual)
      PROVE  Causal(p, j.residualBase, j.residualBasis[p])'
    <2>1. p \in Paths /\ Causal(p, j.residualBase, j.residualBasis[p])
        BY <1>2, <1>4 DEF JournalCausal
    <2> QED
        BY <1>1, <1>2, <2>1, MovesStay
<1>5. ASSUME NEW p \in Paths
      PROVE  /\ Moved(p, head, j.revision) => Moved(p, head, j.revision)'
             /\ Moved(p, j.revision, j.residualBase) => Moved(p, j.revision, j.residualBase)'
    BY <1>1, <1>2, MovesStay DEF Moved
<1> QED
    BY <1>1, <1>2, <1>3, <1>4, <1>5 DEF JournalCausal

\* A device keeps what is said of it if a step leaves its rows, its apply and
\* what it applied alone, and answers at most with a conflict at the head.
LEMMA DeviceStays ==
    ASSUME CInv, [Next]_vars, NEW d \in Devices,
           revision'[d] = revision[d], baseline'[d] = baseline[d], basis'[d] = basis[d],
           journal'[d] = journal[d], Pending(d)' = Pending(d), Conflicts(d)' = Conflicts(d),
           \A w \in Open(d) : record'[w].answer = "conflict" =>
                \/ record'[w].revision = head
                \/ record'[w].revision = record[w].revision /\ record[w].answer = "conflict",
           \A w \in Open(d) : Resolving(w)' => Resolving(w),
           CallCausal(d)'
    PROVE  DeviceCausal(d)'
PROOF
<1>1. /\ OInv /\ HistoryFits /\ DeviceCausal(d) /\ IInv
      /\ head \in Nat /\ head <= head' /\ head' \in Nat
    BY HistoryAppends DEF CInv, OInv
<1>2. Open(d)' = Open(d) /\ Open(d) = Pending(d) \cup Conflicts(d)
    BY DEF Open
<1>3. revision[d] \in Nat /\ revision[d] <= head
    BY <1>1 DEF IInv, TypeOK, BaselineIsHistory
<1>4. \A w \in Open(d) : /\ w \in Ids
                         /\ rows'[w].base = rows[w].base /\ rows'[w].changes = rows[w].changes
                         /\ rows'[w].resolves = rows[w].resolves /\ rows[w].base \in Nat
    BY <1>1, OpenRows, RowsGrow, RowFacts DEF Row
<1>5. OpenCausal(d)'
    <2>1. ASSUME NEW w \in Open(d)
          PROVE  /\ record'[w].answer = "conflict" => record'[w].revision >= revision[d]
                 /\ rows'[w].resolves # 0 => rows'[w].base >= revision[d]
                 /\ w \in Pending(d) /\ rows'[w].resolves # 0 =>
                    Sent(rows'[w].changes) = Sent(rows'[rows'[w].resolves].changes)
        <3>1. /\ record[w].answer = "conflict" => record[w].revision >= revision[d]
              /\ rows[w].resolves # 0 => rows[w].base >= revision[d]
              /\ w \in Pending(d) /\ rows[w].resolves # 0 =>
                    Sent(rows[w].changes) = Sent(rows[rows[w].resolves].changes)
            BY <1>1 DEF DeviceCausal, OpenCausal
        <3>2. w \in Pending(d) /\ rows[w].resolves # 0 => rows[w].resolves \in Open(d)
            BY <1>1, <1>2, OpenRowsOf
        <3> QED
            BY <1>3, <1>4, <3>1, <3>2
    <2> QED
        BY <1>2, <2>1 DEF OpenCausal, Sent
<1>6. FilesCausal(d)'
    <2>1. ASSUME NEW p \in Paths, NEW w \in Open(d), p \in Sent(rows[w].changes),
                 \/ Moved(p, head, revision[d])
                 \/ /\ rows[w].resolves = 0 /\ ~Resolving(w)
                    /\ Moved(p, revision[d], rows[w].base)
          PROVE  \/ Moved(p, head, revision[d])'
                 \/ /\ rows'[w].resolves = 0 /\ ~Resolving(w)'
                    /\ history'[revision[d]][p].revision > rows[w].base
        BY <1>1, <1>3, <1>4, <2>1, MovesStay DEF Moved
    <2>2. ASSUME NEW p \in Paths
          PROVE  \/ basis[d][p] = baseline[d][p]
                 \/ \E w \in Open(d) :
                    /\ p \in Sent(rows'[w].changes)
                    /\ \/ Moved(p, head, revision[d])'
                       \/ /\ rows'[w].resolves = 0 /\ ~Resolving(w)'
                          /\ history'[revision[d]][p].revision > rows'[w].base
        BY <1>1, <1>4, <2>1 DEF DeviceCausal, FilesCausal
    <2> QED
        BY <1>2, <2>2 DEF FilesCausal, Sent, Moved
<1>7. ASSUME NEW j \in journal[d] PROVE JournalCausal(d, j)'
    <2>1. j \in Journal /\ j.revision \in 0..head /\ JournalCausal(d, j)
        BY <1>1 DEF IInv, TypeOK, BaselineIsHistory, DeviceCausal
    <2> QED
        BY <1>2, <2>1, JournalStays
<1> QED
    BY <1>5, <1>6, <1>7 DEF DeviceCausal

\* What a process holds still fits if the process does not move.
LEMMA CallStays ==
    ASSUME CInv, [Next]_vars, NEW d \in Devices, call'[d] = call[d], Open(d)' = Open(d)
    PROVE  CallCausal(d)'
PROOF
<1>1. CallCausal(d) /\ OInv /\ CallFits(d)
    BY DEF CInv, DeviceCausal, OInv, OutboxFits
<1>2. call[d].at = "replied" => call[d].update \in Ids
    BY <1>1, OpenRows DEF CallFits
<1>3. call[d].at = "replied" => rows'[call[d].update].resolves = rows[call[d].update].resolves
    BY <1>1, <1>2, RowsGrow
<1> QED
    BY <1>1, <1>3 DEF CallCausal

\* Steps that leave the outbox, the applies and what was applied alone.
LEMMA QuietCausal ==
    ASSUME CInv, [Next]_vars, UNCHANGED <<rows, record, journal, revision, baseline, basis>>,
           \A d \in Devices : CallCausal(d)'
    PROVE  CInv'
PROOF
<1>1. OInv /\ OInv' /\ HistoryFits'
    BY NextOInv, HistoryMoves DEF CInv
<1>2. Ids' = Ids /\ \A u \in Ids : Resolving(u)' => Resolving(u)
    BY DEF Ids, Resolving
<1>3. \A u \in Ids : RowCausal(u)'
    BY RowStays
<1>4. ASSUME NEW d \in Devices PROVE DeviceCausal(d)'
    <2>1. Pending(d)' = Pending(d) /\ Conflicts(d)' = Conflicts(d)
        BY DEF Pending, Conflicts, RowsOf, Ids
    <2>2. \A w \in Open(d) : w \in Ids
        BY OpenRows
    <2> QED
        BY <1>2, <2>1, <2>2, DeviceStays
<1> QED
    BY <1>1, <1>2, <1>3, <1>4 DEF CInv

\* The steps of a process that neither answer nor change a row: it may only
\* fetch a snapshot with nothing open.
LEMMA ProcessCausal ==
    ASSUME CInv, [Next]_vars, NEW d \in Devices,
           \/ Begin(d) \/ Pull(d) \/ PullRaced(d) \/ RejectChanged(d) \/ Recover(d)
           \/ PreflightPasses(d) \/ PreflightFails(d) \/ WriteFile(d) \/ Abort(d)
    PROVE  CInv'
PROOF
<1>0. OInv
    BY DEF CInv
<1>1. UNCHANGED <<rows, record, journal, revision, baseline, basis>>
    BY DEF Begin, Pull, PullRaced, RejectChanged, Recover, PreflightPasses, PreflightFails,
           WriteFile, Abort, serverVars, clientVars
<1>2. \A e \in Devices : Open(e)' = Open(e)
    BY <1>1 DEF Open, Pending, Conflicts, RowsOf, Ids
<1>3. \A e \in Devices : e # d => call'[e] = call[e]
    BY <1>0, OthersUntouched DEF Sync, Apply
<1>4. CallCausal(d)'
    <2>1. CASE Pull(d)
        <3>1. Pending(d) = {} /\ Conflicts(d) = {}
            BY <1>0, <2>1 DEF Pull, OInv, OutboxFits, CallFits
        <3>2. call'[d].at = "pulled"
            BY <1>0, <2>1 DEF Pull, OInv, IInv, TypeOK, At, Idle
        <3> QED
            BY <1>2, <3>1, <3>2 DEF CallCausal, Open
    <2>2. CASE ~Pull(d)
        <3>1. call \in [Devices -> Call] /\ call[d] \in Call
            BY <1>0 DEF OInv, IInv, TypeOK
        <3>2. call'[d].at \notin {"pulled", "replied"}
            <4>1. CASE WriteFile(d)
                <5>1. call'[d] = [call[d] EXCEPT !.next = call[d].next + 1]
                    BY <3>1, <4>1 DEF WriteFile
                <5>2. call'[d].at = "writing"
                    BY <3>1, <4>1, <5>1 DEF WriteFile, Call
                <5> QED
                    BY <5>2
            <4>2. CASE ~WriteFile(d)
                <5>1. PICK c \in {Idle, At("checked"), At("journaled"), At("writing")} :
                        call' = [call EXCEPT ![d] = c]
                    BY <2>2, <4>2 DEF Begin, PullRaced, RejectChanged, Recover, PreflightPasses,
                                      PreflightFails, Abort
                <5>2. call'[d] = c /\ c.at \notin {"pulled", "replied"}
                    BY <3>1, <5>1 DEF Idle, At
                <5> QED
                    BY <5>2
            <4> QED
                BY <4>1, <4>2
        <3> QED
            BY <3>2 DEF CallCausal
    <2> QED
        BY <2>1, <2>2
<1>5. \A e \in Devices : CallCausal(e)'
    BY <1>2, <1>3, <1>4, CallStays
<1> QED
    BY <1>1, <1>5, QuietCausal

\* Edits, backups, boundaries without a row, reports and stuttering steps.
LEMMA IdleCausal ==
    ASSUME CInv, [Next]_vars, UNCHANGED <<call, rows, record, journal, revision, baseline, basis>>
    PROVE  CInv'
PROOF
<1>1. \A d \in Devices : Open(d)' = Open(d)
    BY DEF Open, Pending, Conflicts, RowsOf, Ids
<1>2. \A d \in Devices : CallCausal(d)'
    BY <1>1, CallStays
<1> QED
    BY <1>2, QuietCausal

----------------------------------------------------------------------------
\* An apply that keeps the bases is journaled.
LEMMA StartCausal ==
    ASSUME CInv, [Next]_vars, NEW d \in Devices, NEW j, StartApply(d, j), JournalCausal(d, j),
           UNCHANGED <<rows, record, revision, baseline, basis, head>>
    PROVE  CInv'
PROOF
<1>1. OInv /\ OInv' /\ IInv' /\ HistoryFits' /\ IInv
    BY NextOInv, HistoryMoves DEF CInv, OInv
<1>2. /\ call'[d].at = "journaled" /\ journal'[d] = {j}
      /\ \A e \in Devices : e # d => call'[e] = call[e] /\ journal'[e] = journal[e]
    BY <1>1 DEF IInv, TypeOK, StartApply, At, Idle
<1>3. Ids' = Ids /\ \A u \in Ids : Resolving(u)' => Resolving(u)
    BY DEF Ids, Resolving
<1>4. \A u \in Ids : RowCausal(u)'
    BY RowStays
<1>5. \A e \in Devices : /\ Pending(e)' = Pending(e) /\ Conflicts(e)' = Conflicts(e)
                         /\ Open(e)' = Open(e) /\ Open(e) \subseteq Ids
    BY DEF Open, Pending, Conflicts, RowsOf, Ids
<1>6. \A e \in Devices : CallCausal(e)'
    <2>1. CallCausal(d)'
        BY <1>2 DEF CallCausal
    <2> QED
        BY <1>2, <1>5, <2>1, CallStays
<1>7. ASSUME NEW e \in Devices, e # d PROVE DeviceCausal(e)'
    BY <1>2, <1>3, <1>5, <1>6, <1>7, DeviceStays
<1>8. DeviceCausal(d)'
    <2>1. j \in Journal /\ j.revision \in 0..head
        BY <1>1, <1>2 DEF IInv, TypeOK, BaselineIsHistory
    <2>2. JournalCausal(d, j)'
        BY <1>5, <2>1, JournalStays
    <2>3. OpenCausal(d) /\ FilesCausal(d) /\ rows' = rows /\ record' = record
        BY DEF CInv, DeviceCausal
    <2>4. OpenCausal(d)'
        BY <1>5, <2>3 DEF OpenCausal
    <2>5. FilesCausal(d)'
        <3>1. head \in Nat /\ revision[d] \in Nat /\ revision[d] <= head
            BY <1>1 DEF IInv, TypeOK, BaselineIsHistory
        <3>2. history'[head] = history[head] /\ history'[revision[d]] = history[revision[d]]
            BY <1>1, <3>1, HistoryAppends
        <3>3. \A w \in Open(d) : ~Resolving(w) => ~Resolving(w)'
            BY <1>3, <1>5
        <3> QED
            BY <1>5, <2>3, <3>2, <3>3 DEF FilesCausal, Moved
    <2> QED
        BY <1>2, <1>6, <2>2, <2>4, <2>5 DEF DeviceCausal
<1> QED
    BY <1>1, <1>3, <1>4, <1>7, <1>8 DEF CInv

\* An apply towards revision r keeps the bases if it sends again what its owner
\* has not seen of r, and r is what was applied wherever it sends nothing.
LEMMA TowardsCausal ==
    ASSUME CInv, NEW d \in Devices, NEW r \in revision[d]..head, NEW target,
           NEW residual \in Changes, NEW done, NEW resolved, NEW seen,
           Open(d) \subseteq done \cup resolved,
           \A p \in Sent(residual) :
                basis[d][p] = baseline[d][p] \/ Moved(p, head, revision[d]),
           \A p \in Paths :
                target[p] # Remote(r)[p] /\ p \notin seen /\ p \notin Sent(residual)
                => basis[d][p] = baseline[d][p] /\ Remote(r)[p] = baseline[d][p]
    PROVE  JournalCausal(d, Towards(d, r, target, residual, revision[d], done, resolved,
                                    NewBasis(d, Remote(r), target, seen)))
PROOF
<1> DEFINE newBasis == NewBasis(d, Remote(r), target, seen)
           j == Towards(d, r, target, residual, revision[d], done, resolved, newBasis)
<1>1. /\ OInv /\ HistoryFits /\ head \in Nat /\ revision[d] \in Nat /\ revision[d] <= head
      /\ baseline[d] = Remote(revision[d]) /\ r \in Nat /\ r <= head /\ revision[d] <= r
    BY DEF CInv, OInv, IInv, TypeOK, BaselineIsHistory
<1>2. /\ j.residualBase = revision[d] /\ j.residual = residual /\ j.done = done
      /\ j.resolved = resolved /\ j.residualBasis = basis[d] /\ j.basis = newBasis
      /\ j.baseline = Remote(r) /\ j.revision = r
    BY DEF Towards
<1>3. \A p \in Paths : newBasis[p] = IF p \in seen \/ target[p] = Remote(r)[p]
                                     THEN Remote(r)[p] ELSE basis[d][p]
    BY DEF NewBasis
<1> HIDE DEF j, newBasis
<1>4. ASSUME NEW p \in Sent(residual) PROVE Causal(p, revision[d], basis[d][p])
    <2>1. p \in Paths
        BY <1>4 DEF Sent
    <2>2. Moved(p, head, revision[d]) \/ basis[d][p] = Remote(revision[d])[p]
        BY <1>1, <1>4
    <2> QED
        BY <2>1, <2>2, RemoteContent DEF Causal
<1>5. ASSUME NEW p \in Paths, newBasis[p] # Remote(r)[p], p \in Sent(residual)
      PROVE  Moved(p, head, r) \/ Moved(p, r, revision[d])
    <2>1. newBasis[p] = basis[d][p]
        BY <1>3, <1>5
    <2>2. SUFFICES ASSUME ~Moved(p, r, revision[d]), ~Moved(p, head, r) PROVE FALSE
        OBVIOUS
    <2>3. /\ history[r][p].revision \in Nat /\ history[head][p].revision \in Nat
          /\ history[revision[d]][p].revision \in Nat
        BY <1>1, VersionType
    <2>4. history[r][p] = history[revision[d]][p]
        BY <1>1, <2>2, <2>3 DEF Moved, HistoryFits
    <2>5. history[head][p] = history[r][p]
        BY <1>1, <2>2, <2>3 DEF Moved, HistoryFits
    <2>6. Remote(r)[p] = baseline[d][p]
        BY <1>1, <2>4, RemoteContent
    <2>7. ~Moved(p, head, revision[d])
        BY <2>2, <2>5 DEF Moved
    <2> QED
        BY <1>5, <2>1, <2>6, <2>7
<1>6. ASSUME NEW p \in Paths, newBasis[p] # Remote(r)[p] PROVE p \in Sent(residual)
    BY <1>3, <1>6
<1>7. JournalCausal(d, j)
    BY <1>1, <1>2, <1>4, <1>5, <1>6 DEF JournalCausal
<1> QED
    BY <1>7 DEF j, newBasis

\* What no open update of d sends was seen.
LEMMA UnsentIsSeen ==
    ASSUME CInv, NEW d \in Devices, NEW p \in Paths,
           \A w \in Open(d) : p \notin Sent(rows[w].changes)
    PROVE  basis[d][p] = baseline[d][p]
BY DEF CInv, DeviceCausal, FilesCausal

\* What the owner resolved, or the portal decided, was seen, or has moved since
\* what d has applied.
LEMMA SentIsBehind ==
    ASSUME CInv, NEW d \in Devices, NEW p \in Paths,
           \A w \in Open(d) :
                rows[w].resolves # 0 \/ Resolving(w)
                \/ (Decided(w) /\ record[w].resolvedRevision <= head)
    PROVE  basis[d][p] = baseline[d][p] \/ Moved(p, head, revision[d])
PROOF
<1>1. SUFFICES ASSUME basis[d][p] # baseline[d][p] PROVE Moved(p, head, revision[d])
    OBVIOUS
<1>2. PICK w \in Open(d) :
        /\ p \in Sent(rows[w].changes)
        /\ \/ Moved(p, head, revision[d])
           \/ /\ rows[w].resolves = 0 /\ ~Resolving(w)
              /\ Moved(p, revision[d], rows[w].base)
    BY <1>1 DEF CInv, DeviceCausal, FilesCausal
<1>3. SUFFICES ASSUME rows[w].resolves = 0, ~Resolving(w), Moved(p, revision[d], rows[w].base),
                      Decided(w), record[w].resolvedRevision <= head
               PROVE  Moved(p, head, revision[d])
    BY <1>2
<1>4. /\ OInv /\ IInv /\ HistoryFits /\ w \in Ids /\ RowCausal(w)
      /\ head \in Nat /\ revision[d] \in Nat /\ revision[d] <= head
    BY OpenRows DEF CInv, OInv, IInv, TypeOK, BaselineIsHistory
<1>5. /\ record[w].revision \in Nat /\ record[w].revision <= head
      /\ record[w].resolvedRevision \in Nat /\ rows[w].base \in Nat
    BY <1>4, RowFacts DEF IInv, KnownRevisions, Row, Record
<1>6. /\ record[w].answer = "conflict"
      /\ Moved(p, record[w].revision, rows[w].base)
         => Moved(p, record[w].resolvedRevision, record[w].revision)
    BY <1>2, <1>3, <1>4 DEF RowCausal
<1>7. record[w].revision >= revision[d]
    BY <1>6 DEF CInv, DeviceCausal, OpenCausal
<1>8. \A r \in 0..head : history[r][p].revision \in Nat
    BY <1>4, VersionType
<1>9. Moved(p, record[w].revision, rows[w].base)
    BY <1>3, <1>4, <1>5, <1>7, <1>8 DEF Moved, HistoryFits
<1>10. history[record[w].resolvedRevision][p].revision > record[w].revision
    BY <1>6, <1>9 DEF Moved
<1>11. history[record[w].resolvedRevision][p].revision <= history[head][p].revision
    BY <1>3, <1>4, <1>5 DEF HistoryFits
<1> QED
    BY <1>3, <1>4, <1>5, <1>7, <1>8, <1>10, <1>11 DEF Moved

\* What a restriction of contents sends.
LEMMA RestrictedSends ==
    ASSUME NEW f, NEW S, \A p \in Paths : f[p] \in Contents
    PROVE  Sent(Restricted(f, S)) = S \cap Paths
BY ContentAssumption DEF Sent, Restricted

\* Beside a pending update nothing else is sent: a resolution and its conflict
\* send the same paths.
LEMMA OutsideIsSeen ==
    ASSUME CInv, NEW d \in Devices, NEW u \in Pending(d), NEW p \in Paths,
           p \notin Sent(rows[u].changes)
    PROVE  basis[d][p] = baseline[d][p]
PROOF
<1>1. OInv /\ OpenCausal(d) /\ u \in Open(d)
    BY DEF CInv, DeviceCausal, Open
<1>2. Open(d) \subseteq {u} \cup ({rows[u].resolves} \ {0})
    BY <1>1, OpenRowsOf
<1>3. rows[u].resolves # 0 => Sent(rows[u].changes) = Sent(rows[rows[u].resolves].changes)
    BY <1>1 DEF OpenCausal
<1>4. \A w \in Open(d) : p \notin Sent(rows[w].changes)
    BY <1>2, <1>3
<1> QED
    BY <1>4, UnsentIsSeen

\* A resolution has seen what it sends, or that has moved since the baseline.
LEMMA ResolutionIsBehind ==
    ASSUME CInv, NEW d \in Devices, NEW u \in Pending(d), NEW p \in Paths, rows[u].resolves # 0
    PROVE  basis[d][p] = baseline[d][p] \/ Moved(p, head, revision[d])
PROOF
<1>1. OInv /\ u \in Ids
    BY OpenRows DEF CInv
<1>2. Open(d) \subseteq {u} \cup ({rows[u].resolves} \ {0})
    BY <1>1, OpenRowsOf
<1>3. Resolving(rows[u].resolves)
    BY <1>1 DEF Resolving
<1> QED
    BY <1>2, <1>3, SentIsBehind

\* An acknowledged update: an edit outside it has seen the baseline, and one
\* made after a resolution is sent again on a base that the server has left.
LEMMA AcknowledgedCausal ==
    ASSUME CInv, [Next]_vars, NEW d \in Devices, ApplyAcknowledged(d)
    PROVE  CInv'
PROOF
<1> DEFINE u == call[d].update
           r == call[d].revision
           local == files[d]
           remote == Remote(r)
           row == rows[u]
           submitted == Sent(row.changes)
           expected == Sent(row.expected)
           canApply == {p \in Paths :
               IF p \in submitted
               THEN local[p] = row.changes[p] \/ (p \in expected /\ local[p] = row.expected[p])
               ELSE local[p] = baseline[d][p]}
           target == Overlay(canApply, remote, local)
           unseen == {p \in submitted \cap expected :
               /\ row.resolves # 0
               /\ local[p] # remote[p]
               /\ row.changes[p] # row.expected[p]
               /\ local[p] # row.expected[p]}
           diverged == Diverged(d, submitted, remote)
           residual == Restricted(local, diverged \cup unseen)
           seen == submitted \ unseen
           resolved == {row.resolves} \ {0}
<1>1. /\ OInv /\ IInv /\ head \in Nat /\ local \in Files /\ call[d] \in Call
      /\ revision[d] \in Nat
    BY DEF CInv, OInv, IInv, TypeOK
<1>2. r \in Nat /\ r <= head /\ revision[d] <= r
    BY <1>1 DEF ApplyAcknowledged, Call, IInv, KnownRevisions
<1>3. u \in Pending(d)
    BY <1>1 DEF ApplyAcknowledged, OInv, OutboxFits, CallFits
<1>4. Open(d) \subseteq {u} \cup resolved
    BY <1>1, <1>3, OpenRowsOf
<1>5. Sent(residual) = diverged \cup unseen /\ residual \in Changes
    <2>1. \A p \in Paths : local[p] \in Contents
        BY <1>1 DEF Files
    <2>2. (diverged \cup unseen) \cap Paths = diverged \cup unseen
        BY DEF Diverged, Sent
    <2> QED
        BY <1>1, <2>1, <2>2, RestrictedSends, RestrictedType, FilesAreChanges
<1>6. ASSUME NEW p \in Sent(residual)
      PROVE  basis[d][p] = baseline[d][p] \/ Moved(p, head, revision[d])
    <2>1. p \in Paths
        BY DEF Sent
    <2>2. CASE p \in diverged
        BY <1>3, <2>1, <2>2, OutsideIsSeen DEF Diverged
    <2>3. CASE p \in unseen
        BY <1>3, <2>1, <2>3, ResolutionIsBehind
    <2> QED
        BY <1>5, <2>2, <2>3
<1>7. ASSUME NEW p \in Paths, target[p] # remote[p], p \notin seen, p \notin Sent(residual)
      PROVE  basis[d][p] = baseline[d][p] /\ remote[p] = baseline[d][p]
    <2>1. p \notin submitted /\ p \notin diverged
        BY <1>5, <1>7
    <2>2. basis[d][p] = baseline[d][p]
        BY <1>3, <2>1, OutsideIsSeen
    <2>3. target[p] = local[p] /\ p \notin canApply
        BY <1>7 DEF Overlay
    <2> QED
        BY <1>7, <2>1, <2>2, <2>3 DEF Diverged
<1>8. /\ StartApply(d, Towards(d, r, target, residual, revision[d], {u}, resolved,
                               NewBasis(d, remote, target, seen)))
      /\ UNCHANGED <<rows, record, revision, baseline, basis, head>>
    BY DEF ApplyAcknowledged, serverVars
<1> HIDE DEF u, r, local, row, target, residual, seen, resolved
<1>9. JournalCausal(d, Towards(d, r, target, residual, revision[d], {u}, resolved,
                               NewBasis(d, remote, target, seen)))
    <2>1. r \in revision[d]..head
        BY <1>1, <1>2
    <2> QED
        BY <1>4, <1>5, <1>6, <1>7, <2>1, TowardsCausal
<1> QED
    BY <1>8, <1>9, StartCausal

\* A fetched snapshot is applied with nothing open: its contents are what the
\* files will hold.
LEMMA PulledCausal ==
    ASSUME CInv, [Next]_vars, NEW d \in Devices, ApplyPulled(d)
    PROVE  CInv'
PROOF
<1> DEFINE remote == Remote(call[d].revision)
           j == Towards(d, call[d].revision, remote, NoChanges, 0, {}, {}, remote)
<1>1. OInv /\ head \in Nat /\ CallCausal(d)
    BY DEF CInv, DeviceCausal, OInv, IInv, TypeOK
<1>2. Open(d) = {}
    BY <1>1 DEF ApplyPulled, CallCausal
<1>3. /\ j.residualBase = 0 /\ j.residual = NoChanges /\ j.basis = remote /\ j.baseline = remote
      /\ Sent(NoChanges) = {}
    BY DEF Towards, Sent, NoChanges
<1>4. StartApply(d, j) /\ UNCHANGED <<rows, record, revision, baseline, basis, head>>
    BY DEF ApplyPulled, serverVars
<1> HIDE DEF j, remote
<1>5. JournalCausal(d, j)
    BY <1>1, <1>2, <1>3 DEF JournalCausal
<1> QED
    BY <1>4, <1>5, StartCausal

\* A conflict decided in the portal: what the owner did not choose and edited
\* since is sent again on a base that the decision has left.
LEMMA DecidedCausal ==
    ASSUME CInv, [Next]_vars, NEW d \in Devices, NEW x \in Conflicts(d), ReconcileDecided(d, x)
    PROVE  CInv'
PROOF
<1> DEFINE r == record[x].resolvedRevision
           local == files[d]
           remote == Remote(r)
           changes == rows[x].changes
           submitted == Sent(changes)
           untouched == {p \in Paths : local[p] = Overlay(submitted, changes, baseline[d])[p]}
           target == Overlay(untouched, remote, local)
           later == {p \in submitted : local[p] # remote[p] /\ local[p] # changes[p]}
           diverged == Diverged(d, submitted, remote)
           residual == Restricted(local, diverged \cup later)
<1>1. /\ OInv /\ IInv /\ head \in Nat /\ local \in Files /\ revision[d] \in Nat
      /\ r \in Nat /\ r <= head /\ revision[d] <= r /\ Decided(x)
    BY DecisionRevision DEF CInv, OInv, IInv, TypeOK, ReconcileDecided
<1>2. Open(d) = {x}
    <2>1. Pending(d) = {}
        <3>1. ASSUME NEW u \in Pending(d) PROVE FALSE
            <4>1. u \in FirstPending(d) /\ rows[u].resolves = x
                BY <1>1, OnlyPending DEF OInv, OutboxFits, OpenFits
            <4> QED
                BY <4>1 DEF ReconcileDecided
        <3> QED
            BY <3>1
    <2>2. Conflicts(d) = {x}
        BY <1>1 DEF OInv, OutboxFits, OpenFits
    <2> QED
        BY <2>1, <2>2 DEF Open
<1>3. \A p \in Paths : p \notin submitted => basis[d][p] = baseline[d][p]
    BY <1>2, UnsentIsSeen
<1>4. Sent(residual) = diverged \cup later /\ residual \in Changes
    <2>1. \A p \in Paths : local[p] \in Contents
        BY <1>1 DEF Files
    <2>2. (diverged \cup later) \cap Paths = diverged \cup later
        BY DEF Diverged, Sent
    <2> QED
        BY <1>1, <2>1, <2>2, RestrictedSends, RestrictedType, FilesAreChanges
<1>5. ASSUME NEW p \in Sent(residual)
      PROVE  basis[d][p] = baseline[d][p] \/ Moved(p, head, revision[d])
    <2>1. p \in Paths
        BY DEF Sent
    <2> QED
        BY <1>1, <1>2, <2>1, SentIsBehind
<1>6. ASSUME NEW p \in Paths, target[p] # remote[p], p \notin {}, p \notin Sent(residual)
      PROVE  basis[d][p] = baseline[d][p] /\ remote[p] = baseline[d][p]
    <2>1. p \notin diverged /\ p \notin later
        BY <1>4, <1>6
    <2>2. target[p] = local[p] /\ p \notin untouched
        BY <1>6 DEF Overlay
    <2>3. p \notin submitted
        BY <1>6, <2>1, <2>2 DEF Overlay
    <2>4. local[p] # baseline[d][p]
        BY <2>2, <2>3 DEF Overlay
    <2> QED
        BY <1>3, <1>6, <2>1, <2>2, <2>3, <2>4 DEF Diverged
<1>7. /\ StartApply(d, Towards(d, r, target, residual, revision[d], {}, {x},
                               NewBasis(d, remote, target, {})))
      /\ UNCHANGED <<rows, record, revision, baseline, basis, head>>
    BY DEF ReconcileDecided, serverVars
<1> HIDE DEF r, local, changes, target, residual
<1>8. JournalCausal(d, Towards(d, r, target, residual, revision[d], {}, {x},
                               NewBasis(d, remote, target, {})))
    <2>1. r \in revision[d]..head /\ Open(d) \subseteq {} \cup {x}
        BY <1>1, <1>2
    <2> QED
        BY <1>4, <1>5, <1>6, <2>1, TowardsCausal
<1> QED
    BY <1>7, <1>8, StartCausal

\* The portal won: the choice that lost becomes a candidate on what d applied,
\* which its own base is not older than.
LEMMA LosingCausal ==
    ASSUME CInv, [Next]_vars, NEW d \in Devices, NEW x \in Conflicts(d), ReconcileLosing(d, x)
    PROVE  CInv'
PROOF
<1> DEFINE r == record[x].resolvedRevision
           local == files[d]
           remote == Remote(r)
           row(u) == rows[u]
           selected(u) == Sent(row(u).changes)
           choice(u) == {p \in selected(u) \cap Sent(row(u).expected) :
                           local[p] = row(u).expected[p]}
           untouched(u) == {p \in Paths \ selected(u) : local[p] = baseline[d][p]}
           inner(u) == Overlay(untouched(u), remote, local)
           target(u) == Overlay(choice(u), row(u).changes, inner(u))
           chosen(u) == {p \in selected(u) : target(u)[p] # remote[p]}
           diverged(u) == Diverged(d, selected(u), remote)
           residual(u) == Restricted(target(u), diverged(u) \cup chosen(u))
           base(u) == IF row(u).base < revision[d] THEN row(u).base ELSE revision[d]
           newBasis(u) == NewBasis(d, remote, target(u), {})
<1>1. /\ OInv /\ IInv /\ head \in Nat /\ local \in Files /\ revision[d] \in Nat
      /\ r \in Nat /\ r <= head /\ revision[d] <= r /\ remote \in Files
    <2>1. OInv /\ IInv /\ TypeOK
        BY DEF CInv, OInv, IInv
    <2>2. r \in Nat /\ r <= head /\ revision[d] <= r
        BY <2>1, DecisionRevision DEF ReconcileLosing
    <2> QED
        BY <2>1, <2>2, RemoteType DEF TypeOK
<1>2. PICK u \in FirstPending(d) :
        /\ row(u).resolves = x
        /\ StartApply(d, Towards(d, r, target(u), residual(u), base(u), {}, {x, u}, newBasis(u)))
    BY DEF ReconcileLosing
<1>3. /\ u \in Pending(d) /\ u \in Ids /\ u \in Open(d) /\ rows[u] \in Row
      /\ x # 0
    BY <1>1, OpenRows, RowFacts, ConflictReceipt DEF FirstPending
<1>4. Open(d) \subseteq {} \cup {x, u}
    BY <1>1, <1>2, <1>3, OpenRowsOf
<1>5. base(u) = revision[d]
    <2>1. row(u).base >= revision[d] /\ row(u).base \in Nat
        BY <1>2, <1>3 DEF CInv, DeviceCausal, OpenCausal, Row
    <2> QED
        BY <1>1, <2>1
<1>6. Sent(residual(u)) = diverged(u) \cup chosen(u) /\ residual(u) \in Changes
    <2>1. row(u).changes \in Changes
        BY <1>3 DEF Row
    <2>2. target(u) \in Files
        <3>1. \A p \in untouched(u) \cap Paths : remote[p] \in Contents
            BY <1>1 DEF Files
        <3> HIDE DEF remote, local, row
        <3>2. inner(u) \in Files
            BY <1>1, <3>1, OverlayType
        <3>3. \A p \in choice(u) \cap Paths : row(u).changes[p] \in Contents
            BY <2>1, SentContents
        <3> HIDE DEF inner, choice
        <3> QED
            BY <3>2, <3>3, OverlayType
    <2> HIDE DEF target
    <2>3. \A p \in Paths : target(u)[p] \in Contents
        BY <2>2 DEF Files
    <2>4. (diverged(u) \cup chosen(u)) \cap Paths = diverged(u) \cup chosen(u)
        BY DEF Diverged, Sent
    <2> QED
        BY <2>2, <2>3, <2>4, RestrictedSends, RestrictedType, FilesAreChanges
<1>7. ASSUME NEW p \in Sent(residual(u))
      PROVE  basis[d][p] = baseline[d][p] \/ Moved(p, head, revision[d])
    <2>1. p \in Paths
        BY DEF Sent
    <2> QED
        BY <1>2, <1>3, <2>1, ResolutionIsBehind
<1>8. ASSUME NEW p \in Paths, target(u)[p] # remote[p], p \notin {}, p \notin Sent(residual(u))
      PROVE  basis[d][p] = baseline[d][p] /\ remote[p] = baseline[d][p]
    <2>1. p \notin diverged(u) /\ p \notin selected(u)
        BY <1>6, <1>8
    <2>2. target(u)[p] = local[p] /\ p \notin untouched(u)
        BY <1>8, <2>1 DEF Overlay
    <2>3. local[p] # baseline[d][p]
        BY <2>1, <2>2
    <2>4. basis[d][p] = baseline[d][p]
        BY <1>3, <2>1, OutsideIsSeen
    <2> QED
        BY <1>8, <2>1, <2>2, <2>3, <2>4 DEF Diverged
<1>9. UNCHANGED <<rows, record, revision, baseline, basis, head>>
    BY DEF ReconcileLosing, serverVars
<1> HIDE DEF r, local, row, target, residual, base
<1>10. StartApply(d, Towards(d, r, target(u), residual(u), revision[d], {}, {x, u},
                             NewBasis(d, remote, target(u), {})))
    BY <1>2, <1>5
<1>11. JournalCausal(d, Towards(d, r, target(u), residual(u), revision[d], {}, {x, u},
                                NewBasis(d, remote, target(u), {})))
    <2>1. r \in revision[d]..head
        BY <1>1
    <2> QED
        BY <1>4, <1>6, <1>7, <1>8, <2>1, TowardsCausal
<1> QED
    BY <1>9, <1>10, <1>11, StartCausal

\* The owner's choice keeps what was journaled, or what is local and descends
\* from what the journal moves to; a restore keeps what was applied.
LEMMA OwnerCausal ==
    ASSUME CInv, [Next]_vars, NEW d \in Devices,
           \/ \E keepLocal \in BOOLEAN : RecoverChoice(d, keepLocal)
           \/ \E saved \in backups[d] : Restore(d, saved)
    PROVE  CInv'
PROOF
<1>1. UNCHANGED <<rows, record, revision, baseline, basis, head>>
    BY DEF RecoverChoice, Restore, serverVars
<1>2. CASE \E keepLocal \in BOOLEAN : RecoverChoice(d, keepLocal)
    <2>1. PICK j, target, newBasis :
            /\ j \in journal[d]
            /\ \A p \in Paths : newBasis[p] \in {j.basis[p], j.baseline[p]}
            /\ StartApply(d, [j EXCEPT !.expected = files[d], !.target = target,
                                       !.basis = newBasis])
        BY <1>2 DEF RecoverChoice
    <2> DEFINE k == [j EXCEPT !.expected = files[d], !.target = target, !.basis = newBasis]
    <2>2. j \in Journal /\ JournalCausal(d, j)
        BY <2>1 DEF CInv, DeviceCausal, OInv, IInv, TypeOK
    <2>3. /\ k.residualBase = j.residualBase /\ k.residual = j.residual /\ k.done = j.done
          /\ k.resolved = j.resolved /\ k.residualBasis = j.residualBasis
          /\ k.baseline = j.baseline /\ k.revision = j.revision /\ k.basis = newBasis
        BY <2>2 DEF Journal
    <2> HIDE DEF k
    <2>4. Restores(d, k) <=> Restores(d, j)
        BY <2>3 DEF Restores
    <2>5. JournalCausal(d, k)
        BY <2>1, <2>2, <2>3, <2>4 DEF JournalCausal
    <2> QED
        BY <1>1, <2>1, <2>5, StartCausal DEF k
<1>3. CASE \E saved \in backups[d] : Restore(d, saved)
    <2>1. PICK j : /\ StartApply(d, j)
                   /\ j.done = {} /\ j.resolved = {} /\ j.residual = NoChanges
                   /\ j.revision = revision[d] /\ j.basis = basis[d] /\ j.residualBase = 0
        BY <1>3 DEF Restore
    <2>2. Sent(NoChanges) = {} /\ 0 <= head
        BY DEF Sent, NoChanges, CInv, OInv, IInv, TypeOK
    <2>3. JournalCausal(d, j)
        BY <2>1, <2>2 DEF JournalCausal, Restores
    <2> QED
        BY <1>1, <2>1, <2>3, StartCausal
<1> QED
    BY <1>2, <1>3

----------------------------------------------------------------------------
\* What a receipt and a decision keep of a record.
LEMMA RecordKeeps ==
    ASSUME NEW y \in Record, NEW a, NEW b, NEW h
    PROVE  /\ Receipt(y, a, h).answer = a /\ Receipt(y, a, h).revision = h
           /\ Receipt(y, a, h).resolvedRevision = y.resolvedRevision
           /\ Decision(y, b, h).answer = y.answer /\ Decision(y, b, h).revision = y.revision
           /\ Decision(y, b, h).resolvedRevision = h
BY DEF Record, Receipt, Decision

\* A step of the server or of a process that receives its answer: each row is
\* accounted for, and what is open is refused at most at the head.
LEMMA AnswerCausal ==
    ASSUME CInv, [Next]_vars, UNCHANGED <<rows, journal, revision, baseline, basis>>,
           \A d \in Devices : CallCausal(d)',
           \A v \in Ids : record'[v] = record[v] \/ RowCausal(v)',
           \A v \in Ids : record'[v].answer = "conflict" =>
                \/ record'[v].revision = head
                \/ record'[v].revision = record[v].revision /\ record[v].answer = "conflict"
    PROVE  CInv'
PROOF
<1>1. OInv /\ OInv' /\ HistoryFits'
    BY NextOInv, HistoryMoves DEF CInv
<1>2. Ids' = Ids /\ \A u \in Ids : Resolving(u)' => Resolving(u)
    BY DEF Ids, Resolving
<1>3. \A u \in Ids : RowCausal(u)'
    BY RowStays
<1>4. ASSUME NEW d \in Devices PROVE DeviceCausal(d)'
    <2>1. Pending(d)' = Pending(d) /\ Conflicts(d)' = Conflicts(d)
        BY DEF Pending, Conflicts, RowsOf, Ids
    <2>2. \A w \in Open(d) : w \in Ids
        BY OpenRows
    <2> QED
        BY <1>2, <2>1, <2>2, DeviceStays
<1> QED
    BY <1>1, <1>2, <1>3, <1>4 DEF CInv

\* The reply that a process holds, and nobody else's.
LEMMA ReplyCausal ==
    ASSUME CInv, [Next]_vars, NEW d \in Devices, NEW u, NEW answer, NEW r, rows' = rows,
           Reply(d, u, answer, r), answer = "incomplete_resolution" => rows[u].resolves # 0
    PROVE  \A e \in Devices : CallCausal(e)'
PROOF
<1> DEFINE c == [At("replied") EXCEPT !.update = u, !.answer = answer, !.revision = r]
<1>1. c.at = "replied" /\ c.update = u /\ c.answer = answer
    BY DEF At, Idle
<1>2. call' = [call EXCEPT ![d] = c]
    BY DEF Reply
<1> HIDE DEF c
<1>3. call'[d] = c /\ \A e \in Devices : e # d => call'[e] = call[e]
    BY <1>2 DEF CInv, OInv, IInv, TypeOK
<1>4. CallCausal(d)'
    BY <1>1, <1>3 DEF CallCausal
<1>5. \A e \in Devices : Open(e)' = Open(e)
    BY DEF Open, Pending, Conflicts, RowsOf, Ids
<1> QED
    BY <1>3, <1>4, <1>5, CallStays

\* An update that had no answer is not a decided conflict.
LEMMA UnansweredIsOpen ==
    ASSUME CInv, NEW u \in Ids, record[u].answer = "none", Decided(u)
    PROVE  Resolving(u)
BY DEF CInv, RowCausal

\* The server's answers: refused at the head, or published and, for a
\* resolution, the decision of its own conflict.
LEMMA PostCausal ==
    ASSUME CInv, [Next]_vars, NEW d \in Devices, Post(d)
    PROVE  CInv'
PROOF
<1>1. PICK u \in Pending(d) :
        PostAgain(d, u) \/ PostUnavailable(d, u) \/ PostStale(d, u) \/ PostConflict(d, u)
          \/ PostApplied(d, u)
    BY DEF Post, FirstPending
<1>2. /\ UNCHANGED <<rows, journal, revision, baseline, basis>> /\ rows' = rows /\ Ids' = Ids
      /\ OInv /\ IInv /\ OInv' /\ IInv' /\ u \in Ids /\ head \in Nat
      /\ u \in Nat /\ rows[u] \in Row /\ DOMAIN record = Ids
      /\ \A v \in Ids : record[v] \in Record
    BY OpenRows, RowFacts, NextOInv DEF Post, clientVars, Ids, CInv, OInv, IInv, TypeOK
<1>3. CASE PostAgain(d, u) \/ PostUnavailable(d, u) \/ PostStale(d, u)
    <2>1. record' = record
        BY <1>3 DEF PostAgain, PostUnavailable, PostStale, serverVars
    <2>2. PICK answer, r :
            /\ Reply(d, u, answer, r)
            /\ answer = "incomplete_resolution" => rows[u].resolves # 0
        <3>1. CASE PostAgain(d, u)
            <4>1. record[u].answer # "incomplete_resolution"
                BY <1>2 DEF Record
            <4> QED
                BY <3>1, <4>1 DEF PostAgain
        <3>2. CASE PostUnavailable(d, u)
            BY <3>2 DEF PostUnavailable
        <3>3. CASE PostStale(d, u)
            BY <3>3 DEF PostStale
        <3> QED
            BY <1>3, <3>1, <3>2, <3>3
    <2>3. \A e \in Devices : CallCausal(e)'
        BY <1>2, <2>2, ReplyCausal
    <2> QED
        BY <1>2, <2>1, <2>3, QuietCausal
<1>4. CASE PostConflict(d, u)
    <2>1. /\ record[u].answer = "none" /\ Reply(d, u, "conflict", head)
          /\ UNCHANGED <<head, history>>
          /\ record' = [record EXCEPT ![u] = Receipt(record[u], "conflict", head)]
        BY <1>4 DEF PostConflict, Retained
    <2>2. \A e \in Devices : CallCausal(e)'
        BY <1>2, <2>1, ReplyCausal
    <2>3. /\ record'[u].answer = "conflict" /\ record'[u].revision = head
          /\ record'[u].resolvedRevision = record[u].resolvedRevision
          /\ \A v \in Ids : v # u => record'[v] = record[v]
        BY <1>2, <2>1, RecordKeeps
    <2>4. RowCausal(u)'
        <3>1. rows[u].base <= head
            BY <1>2 DEF CInv, RowCausal
        <3>2. Decided(u) => Resolving(u)
            BY <1>2, <2>1, UnansweredIsOpen
        <3>3. Resolving(u)' <=> Resolving(u)
            BY <1>2 DEF Resolving
        <3> QED
            BY <1>2, <2>1, <2>3, <3>1, <3>2, <3>3 DEF RowCausal, Decided
    <2> QED
        BY <1>2, <2>2, <2>3, <2>4, AnswerCausal
<1>5. CASE PostApplied(d, u)
    <2>0. PICK x : x = rows[u].resolves
        OBVIOUS
    <2>1. /\ record[u].answer = "none" /\ Reply(d, u, "applied", head + 1)
          /\ head' = head + 1
          /\ \A v \in Ids : record'[v] = IF v = u THEN Receipt(record[v], "applied", head + 1)
                                         ELSE IF v = x THEN Decision(record[v], u, head + 1)
                                         ELSE record[v]
        BY <1>2, <1>5, <2>0 DEF PostApplied, Publish, Accepted
    <2>2. \A e \in Devices : CallCausal(e)'
        BY <1>2, <2>1, ReplyCausal
    <2>3. x \in Ids => x \in Conflicts(d) /\ record[x].answer = "conflict" /\ x # u
        <3>1. x < u /\ x \in Nat
            BY <1>2, <2>0 DEF OInv, OutboxFits, ReceiptFits, Row
        <3>2. x \in Ids => x # 0
            BY <1>2, RowFacts
        <3> QED
            BY <1>2, <2>0, <3>1, <3>2, OpenRowsOf, ConflictReceipt
    <2>4. /\ record'[u].answer = "applied"
          /\ record'[u].resolvedRevision = record[u].resolvedRevision
        BY <1>2, <2>1, RecordKeeps
    <2>5. RowCausal(u)'
        <3>1. rows[u].base <= head /\ rows[u].base \in Nat
            BY <1>2 DEF CInv, RowCausal, Row
        <3>2. Decided(u) => Resolving(u)
            BY <1>2, <2>1, UnansweredIsOpen
        <3>3. Resolving(u)' <=> Resolving(u)
            BY <1>2 DEF Resolving
        <3> QED
            BY <1>2, <2>1, <2>4, <3>1, <3>2, <3>3 DEF RowCausal, Decided
    <2>6. ASSUME x \in Ids PROVE RowCausal(x)'
        <3>1. rows[x].base <= head /\ rows[x].base \in Nat
            BY <1>2, <2>6, RowFacts DEF CInv, RowCausal, Row
        <3>2. record'[x].answer = "conflict"
            <4>1. record'[x] = Decision(record[x], u, head + 1) /\ record[x] \in Record
                BY <1>2, <2>1, <2>3, <2>6
            <4> QED
                BY <2>3, <2>6, <4>1, RecordKeeps
        <3>3. Resolving(x)'
            BY <1>2, <2>0 DEF Resolving
        <3> QED
            BY <1>2, <2>1, <3>1, <3>2, <3>3 DEF RowCausal
    <2>7. ASSUME NEW v \in Ids PROVE record'[v] = record[v] \/ RowCausal(v)'
        BY <2>1, <2>5, <2>6
    <2>8. ASSUME NEW v \in Ids, record'[v].answer = "conflict"
          PROVE  record'[v].revision = record[v].revision /\ record[v].answer = "conflict"
        <3>1. v # u
            BY <2>4, <2>8
        <3>2. CASE record'[v] = record[v]
            BY <2>8, <3>2
        <3>3. CASE record'[v] = Decision(record[v], u, head + 1)
            <4>1. record[v] \in Record
                BY <1>2
            <4>2. record'[v].answer = record[v].answer /\ record'[v].revision = record[v].revision
                BY <3>3, <4>1, RecordKeeps
            <4> QED
                BY <2>8, <4>2
        <3> QED
            BY <2>1, <3>1, <3>2, <3>3
    <2> QED
        BY <1>2, <2>2, <2>7, <2>8, AnswerCausal
<1> QED
    BY <1>1, <1>3, <1>4, <1>5

\* The portal publishes at least the paths on which the conflict was refused.
LEMMA PortalCausal ==
    ASSUME CInv, [Next]_vars, NEW x \in Ids, NEW keepCandidate, NEW wholeCandidate,
           PortalResolve(x, keepCandidate, wholeCandidate)
    PROVE  CInv'
PROOF
<1> DEFINE changes == rows[x].changes
           refused == conflictPathsAt(record[x].revision, rows[x].base, changes)
           scope == IF wholeCandidate THEN Sent(changes) ELSE refused
           published == [p \in Paths |-> IF p \notin scope THEN Unsent
                                         ELSE IF keepCandidate THEN changes[p]
                                         ELSE Remote(head)[p]]
<1>1. /\ record[x].answer = "conflict" /\ Publish(published)
      /\ record' = [record EXCEPT ![x] = Decision(record[x], 0, head + 1)]
      /\ UNCHANGED <<rows, journal, revision, baseline, basis, call>>
    BY DEF PortalResolve, PortalDecision, clientVars
<1>2. /\ OInv /\ IInv /\ head \in Nat /\ rows[x] \in Row /\ record[x] \in Record
      /\ DOMAIN record = Ids /\ Ids' = Ids /\ rows' = rows
      /\ record[x].revision \in Nat /\ record[x].revision <= head
    BY <1>1, RowFacts DEF CInv, OInv, IInv, TypeOK, KnownRevisions, Record, Ids
<1>3. /\ record'[x].answer = "conflict" /\ record'[x].revision = record[x].revision
      /\ record'[x].resolvedRevision = head + 1
      /\ \A v \in Ids : v # x => record'[v] = record[v]
    BY <1>1, <1>2, RecordKeeps
<1>4. /\ head' = head + 1 /\ history'[head + 1] = applyChanges(published)
      /\ \A r \in 0..head : history'[r] = history[r]
    BY <1>1, <1>2 DEF Publish
<1>5. ASSUME NEW p \in Sent(changes), history'[record[x].revision][p].revision > rows[x].base
      PROVE  history'[head + 1][p].revision > record[x].revision
    <2>1. p \in Paths /\ history[record[x].revision][p].revision > rows[x].base
        BY <1>2, <1>4, <1>5 DEF Sent
    <2>2. p \in scope
        BY <1>5, <2>1 DEF conflictPathsAt
    <2>3. published[p] # Unsent
        <3>1. Remote(head)[p] \in Contents
            BY <1>2, <2>1, RemoteType DEF IInv, Files
        <3>2. changes[p] # Unsent
            BY <1>5 DEF Sent
        <3> HIDE DEF changes, scope
        <3> QED
            BY <2>1, <2>2, <3>1, <3>2, ContentAssumption
    <2>4. applyChanges(published)[p].revision = head + 1
        BY <2>1, <2>3 DEF applyChanges, Sent
    <2> QED
        BY <1>2, <1>4, <2>4
<1>6. RowCausal(x)'
    <2>1. rows[x].base <= head /\ rows[x].base \in Nat
        BY <1>2 DEF CInv, RowCausal, Row
    <2> QED
        BY <1>2, <1>3, <1>4, <1>5, <2>1 DEF RowCausal, Moved
<1>7. \A e \in Devices : CallCausal(e)'
    <2>1. \A e \in Devices : Open(e)' = Open(e)
        BY <1>1 DEF Open, Pending, Conflicts, RowsOf, Ids
    <2> QED
        BY <1>1, <2>1, CallStays
<1> QED
    BY <1>1, <1>2, <1>3, <1>6, <1>7, AnswerCausal

----------------------------------------------------------------------------
\* A step of d that answers nothing: no other device has to be looked at, and
\* of the rows only those that d queues.
LEMMA OwnCausal ==
    ASSUME CInv, [Next]_vars, NEW d \in Devices, DeviceCausal(d)',
           \A e \in Devices : e # d =>
                /\ call'[e] = call[e] /\ journal'[e] = journal[e]
                /\ revision'[e] = revision[e] /\ baseline'[e] = baseline[e]
                /\ basis'[e] = basis[e],
           \A u \in Ids : /\ record'[u] = record[u]
                          /\ rows[u].owner # d => rows'[u].status = rows[u].status,
           \A n \in Ids' : n \notin Ids =>
                /\ rows'[n].owner = d /\ RowCausal(n)'
                /\ rows'[n].resolves = 0 \/ rows'[n].resolves \in Open(d)
    PROVE  CInv'
PROOF
<1>1. OInv /\ OInv' /\ IInv /\ HistoryFits'
    BY NextOInv, HistoryMoves DEF CInv, OInv
<1>2. \A u \in Ids : /\ u \in Ids' /\ rows'[u].owner = rows[u].owner
                     /\ rows'[u].resolves = rows[u].resolves
    BY <1>1, RowsGrow
<1>3. \A u \in Ids' : RowCausal(u)'
    BY RowStays
<1>4. ASSUME NEW e \in Devices, e # d PROVE DeviceCausal(e)'
    <2>1. Pending(e)' = Pending(e) /\ Conflicts(e)' = Conflicts(e)
        <3>1. Ids \subseteq Ids'
            BY <1>2
        <3> QED
            BY <1>2, <1>4, <3>1, OtherRows
    <2>2. Open(e)' = Open(e)
        BY <2>1 DEF Open
    <2>3. CallCausal(e)'
        BY <1>4, <2>2, CallStays
    <2>4. ASSUME NEW w \in Open(e), Resolving(w)' PROVE Resolving(w)
        <3>1. w \in Ids /\ rows[w].owner = e /\ w # 0
            BY <1>1, OpenRows, RowFacts
        <3>2. PICK v \in Ids' : rows'[v].resolves = w
            BY <2>4 DEF Resolving
        <3>3. v \in Ids
            BY <1>4, <3>1, <3>2, OpenRows
        <3> QED
            BY <1>2, <3>2, <3>3 DEF Resolving
    <2>5. \A w \in Open(e) : record'[w] = record[w]
        BY OpenRows
    <2> QED
        BY <1>4, <2>1, <2>3, <2>4, <2>5, DeviceStays
<1> QED
    BY <1>1, <1>3, <1>4 DEF CInv

\* What queueing a row does, whatever the row.
LEMMA QueueAppends ==
    ASSUME OInv, [Next]_vars, NEW d, NEW base, NEW changes, NEW resolves, NEW expected,
           QueueRow(d, base, changes, resolves, expected)
    PROVE  \E n : /\ n \in Nat /\ n \notin Ids /\ Ids' = Ids \cup {n}
                  /\ rows'[n].owner = d /\ rows'[n].base = base /\ rows'[n].changes = changes
                  /\ rows'[n].resolves = resolves /\ rows'[n].basis = basis[d]
                  /\ rows'[n].status = "pending"
                  /\ record'[n].answer = "none" /\ record'[n].resolvedRevision = 0
                  /\ \A u \in Ids : rows'[u] = rows[u] /\ record'[u] = record[u]
PROOF
<1> DEFINE n == Len(rows) + 1
           row == [owner |-> d, base |-> base, changes |-> changes, resolves |-> resolves,
                   expected |-> expected, basis |-> basis[d], status |-> "pending"]
<1>1. rows' = Append(rows, row) /\ record' = Append(record, NoRecord) /\ OInv' /\ IInv /\ IInv'
    BY NextOInv DEF QueueRow, OInv
<1>2. row \in Row
    <2>1. rows' \in Seq(Row) /\ Len(rows) \in Nat /\ n \in 1..Len(rows') /\ rows'[n] = row
        BY <1>1, RowFacts DEF IInv, TypeOK
    <2> QED
        BY <2>1
<1>3. /\ n \in Nat /\ n \notin Ids /\ Ids' = Ids \cup {n}
      /\ rows'[n] = row /\ record'[n].answer = "none" /\ record'[n].resolvedRevision = 0
      /\ \A u \in Ids : rows'[u] = rows[u] /\ record'[u] = record[u]
    BY <1>1, <1>2, QueuedRow DEF IInv, TypeOK
<1>4. /\ row.owner = d /\ row.base = base /\ row.changes = changes /\ row.resolves = resolves
      /\ row.basis = basis[d] /\ row.status = "pending"
    OBVIOUS
<1> HIDE DEF n, row
<1> QED
    BY <1>3, <1>4

\* With nothing open, what a device holds descends from what it applied.
LEMMA QueueCausal ==
    ASSUME CInv, [Next]_vars, NEW d \in Devices, Queue(d) \/ CheckpointQueue(d)
    PROVE  CInv'
PROOF
<1>1. /\ UNCHANGED <<head, history, call, journal, revision, baseline, basis>>
      /\ QueueRow(d, revision[d], LocalChanges(d), 0, NoChanges)
      /\ call[d].at \in {"idle", "checked"}
    BY DEF Queue, CheckpointQueue, Ready, Idle, bounds
<1>2. /\ OInv /\ IInv /\ head \in Nat /\ revision[d] \in Nat /\ revision[d] <= head
      /\ baseline[d] = Remote(revision[d])
    BY DEF CInv, OInv, IInv, TypeOK, BaselineIsHistory
<1>3. Open(d) = {} /\ journal[d] = {}
    <2>1. CASE Queue(d)
        BY <1>2, <2>1 DEF Queue, OInv, OutboxFits, CallFits, Open
    <2>2. CASE CheckpointQueue(d)
        BY <2>2 DEF CheckpointQueue, Ready
    <2> QED
        BY <2>1, <2>2
<1>4. \A p \in Paths : basis[d][p] = baseline[d][p]
    BY <1>3, UnsentIsSeen
<1>5. PICK n : /\ n \in Nat /\ n \notin Ids /\ Ids' = Ids \cup {n}
               /\ rows'[n].owner = d /\ rows'[n].base = revision[d] /\ rows'[n].resolves = 0
               /\ rows'[n].basis = basis[d] /\ rows'[n].status = "pending"
               /\ record'[n].answer = "none" /\ record'[n].resolvedRevision = 0
               /\ \A u \in Ids : rows'[u] = rows[u] /\ record'[u] = record[u]
    BY <1>1, <1>2, QueueAppends
<1>6. RowCausal(n)'
    <2>1. ASSUME NEW p \in Paths PROVE history'[revision[d]][p].content = basis[d][p]
        BY <1>1, <1>2, <1>4, RemoteContent
    <2> QED
        BY <1>1, <1>2, <1>5, <2>1 DEF RowCausal, Causal, Decided, Sent
<1>7. Open(d)' = {n} /\ Conflicts(d)' = {}
    BY <1>3, <1>5 DEF Open, Pending, Conflicts, RowsOf
<1>8. DeviceCausal(d)'
    <2>1. OpenCausal(d)'
        BY <1>5, <1>7 DEF OpenCausal
    <2>2. FilesCausal(d)'
        BY <1>1, <1>4 DEF FilesCausal
    <2>3. CallCausal(d)'
        BY <1>1 DEF CallCausal
    <2> QED
        BY <1>1, <1>3, <2>1, <2>2, <2>3 DEF DeviceCausal
<1>9. \A u \in Ids' : u \notin Ids => u = n
    BY <1>5
<1> QED
    BY <1>1, <1>5, <1>6, <1>8, <1>9, OwnCausal

\* A resolution: its owner has seen the head, and where that is not what was
\* applied here the server has moved on.
LEMMA ResolveCausal ==
    ASSUME CInv, [Next]_vars, NEW d \in Devices, NEW x \in Conflicts(d),
           NEW keepLocal \in BOOLEAN, Resolve(d, x, keepLocal)
    PROVE  CInv'
PROOF
<1> DEFINE chosen == IF keepLocal THEN files[d] ELSE Remote(head)
           submitted == Sent(rows[x].changes)
<1>1. /\ UNCHANGED <<head, history, call, journal, revision, baseline>>
      /\ QueueRow(d, head, Restricted(chosen, submitted), x, files[d])
      /\ Pending(d) = {} /\ journal[d] = {} /\ call[d].at = "idle"
      /\ basis' = [basis EXCEPT ![d] = Overlay(submitted, Remote(head), basis[d])]
    BY DEF Resolve, Ready, Idle, SeesCurrent
<1>2. /\ OInv /\ IInv /\ head \in Nat /\ revision[d] \in Nat /\ revision[d] <= head
      /\ baseline[d] = Remote(revision[d]) /\ HistoryFits /\ OpenCausal(d)
      /\ \A p \in Paths : chosen[p] \in Contents
    BY RemoteType DEF CInv, DeviceCausal, OInv, IInv, TypeOK, BaselineIsHistory, Files
<1>3. /\ basis'[d] = Overlay(submitted, Remote(head), basis[d])
      /\ \A e \in Devices : e # d => basis'[e] = basis[e]
    BY <1>1 DEF CInv, OInv, IInv, TypeOK
<1>4. Sent(Restricted(chosen, submitted)) = submitted
    BY <1>2, RestrictedSends DEF Sent
<1>5. Conflicts(d) = {x} /\ Open(d) = {x} /\ x \in Ids /\ x # 0
    BY <1>1, <1>2, ConflictReceipt DEF OInv, OutboxFits, OpenFits, Open
<1> HIDE DEF chosen
<1>6. PICK n : /\ n \in Nat /\ n \notin Ids /\ Ids' = Ids \cup {n}
               /\ rows'[n].owner = d /\ rows'[n].base = head /\ rows'[n].resolves = x
               /\ rows'[n].changes = Restricted(chosen, submitted)
               /\ rows'[n].status = "pending"
               /\ record'[n].answer = "none" /\ record'[n].resolvedRevision = 0
               /\ \A u \in Ids : rows'[u] = rows[u] /\ record'[u] = record[u]
    BY <1>1, <1>2, QueueAppends
<1>7. RowCausal(n)'
    BY <1>1, <1>2, <1>5, <1>6 DEF RowCausal, Decided
<1>8. Open(d)' = {x, n} /\ Pending(d)' = {n}
    BY <1>1, <1>5, <1>6 DEF Open, Pending, Conflicts, RowsOf
<1>9. OpenCausal(d)'
    <2>1. x \in Open(d) /\ x # n
        BY <1>5, <1>6
    <2>2. /\ record[x].answer = "conflict" => record[x].revision >= revision[d]
          /\ rows[x].resolves # 0 => rows[x].base >= revision[d]
        BY <1>2, <2>1 DEF OpenCausal
    <2>3. Sent(rows'[n].changes) = Sent(rows'[x].changes)
        BY <1>4, <1>5, <1>6
    <2> QED
        BY <1>1, <1>2, <1>5, <1>6, <1>8, <2>1, <2>2, <2>3 DEF OpenCausal, Sent
<1>10. FilesCausal(d)'
    <2>1. ASSUME NEW p \in Paths, p \notin submitted PROVE basis'[d][p] = baseline[d][p]
        <3>1. basis[d][p] = baseline[d][p]
            BY <1>5, <2>1, UnsentIsSeen
        <3> QED
            BY <1>3, <2>1, <3>1 DEF Overlay
    <2>2. ASSUME NEW p \in Paths, p \in submitted, ~Moved(p, head, revision[d])
          PROVE  basis'[d][p] = baseline[d][p]
        <3>1. basis'[d][p] = Remote(head)[p]
            BY <1>3, <2>2 DEF Overlay
        <3>2. history[head][p].revision \in Nat
            BY <1>2, VersionType
        <3>3. history[head][p] = history[revision[d]][p]
            BY <1>2, <2>2, <3>2 DEF HistoryFits, Moved
        <3> QED
            BY <1>2, <3>1, <3>3, RemoteContent
    <2>3. \A p \in submitted : p \in Sent(rows'[x].changes)
        BY <1>5, <1>6
    <2> QED
        BY <1>1, <1>8, <2>1, <2>2, <2>3 DEF FilesCausal, Moved, Sent
<1>11. DeviceCausal(d)'
    <2>1. CallCausal(d)'
        BY <1>1 DEF CallCausal
    <2> QED
        BY <1>1, <1>9, <1>10, <2>1 DEF DeviceCausal
<1>12. \A u \in Ids' : u \notin Ids => u = n
    BY <1>6
<1> QED
    BY <1>1, <1>3, <1>5, <1>6, <1>7, <1>11, <1>12, OwnCausal

\* A resolution that came too late: what it sent, its conflict sends.
LEMMA RejectCausal ==
    ASSUME CInv, [Next]_vars, NEW d \in Devices, RejectStale(d)
    PROVE  CInv'
PROOF
<1> PICK u : u = call[d].update
    OBVIOUS
<1> PICK x : x = rows[u].resolves
    OBVIOUS
<1>1. /\ call[d].at = "replied" /\ call[d].answer = "incomplete_resolution"
      /\ rows' = Marked({}, {u}) /\ call' = [call EXCEPT ![d] = Idle]
      /\ UNCHANGED <<head, history, record, journal, revision, baseline, basis>>
    BY DEF RejectStale, serverVars
<1>2. /\ OInv /\ IInv /\ OpenCausal(d) /\ FilesCausal(d) /\ CallCausal(d)
    BY DEF CInv, DeviceCausal, OInv
<1>3. u \in Pending(d) /\ u \in Ids /\ rows[u].owner = d /\ x # 0 /\ journal[d] = {}
    BY <1>1, <1>2, OpenRows DEF OInv, OutboxFits, CallFits, CallCausal
<1>4. x \in Conflicts(d) /\ x \in Ids /\ Open(d) \subseteq {u, x} /\ x # u
    BY <1>2, <1>3, OpenRowsOf, OpenRows
<1>5. Ids' = Ids
    BY <1>1 DEF Ids, Marked
<1>6. \A v \in Ids : /\ rows'[v].owner = rows[v].owner /\ rows'[v].resolves = rows[v].resolves
                     /\ rows'[v].changes = rows[v].changes /\ rows'[v].base = rows[v].base
                     /\ rows'[v].status = IF v = u THEN "resolved" ELSE rows[v].status
    BY <1>1, <1>2, MarkedRows
<1>7. Pending(d)' = {} /\ Conflicts(d)' = {x}
    <2>1. Pending(d) = {u} /\ Conflicts(d) = {x}
        BY <1>2, <1>3, <1>4, OnlyPending DEF OInv, OutboxFits, OpenFits
    <2>2. rows[u].status = "pending"
        BY <1>3, OpenRows
    <2> QED
        BY <1>5, <1>6, <2>1, <2>2 DEF Pending, Conflicts, RowsOf
<1>8. Open(d)' = {x}
    BY <1>7 DEF Open
<1>9. Sent(rows[u].changes) = Sent(rows[x].changes) /\ u \in Open(d) /\ x \in Open(d)
    BY <1>2, <1>3, <1>4 DEF OpenCausal, Open
<1>10. OpenCausal(d)'
    <2>1. /\ record[x].answer = "conflict" => record[x].revision >= revision[d]
          /\ rows[x].resolves # 0 => rows[x].base >= revision[d]
        BY <1>2, <1>9 DEF OpenCausal
    <2>2. rows'[x].resolves = rows[x].resolves /\ rows'[x].base = rows[x].base
        BY <1>4, <1>6
    <2>3. record' = record /\ revision' = revision
        BY <1>1
    <2> QED
        BY <1>7, <1>8, <2>1, <2>2, <2>3 DEF OpenCausal
<1>11. FilesCausal(d)'
    <2>1. ASSUME NEW p \in Paths, basis[d][p] # baseline[d][p]
          PROVE  p \in Sent(rows[x].changes) /\ Moved(p, head, revision[d])
        <3>1. PICK w \in Open(d) :
                /\ p \in Sent(rows[w].changes)
                /\ Moved(p, head, revision[d]) \/ (rows[w].resolves = 0 /\ ~Resolving(w))
            BY <1>2, <2>1 DEF FilesCausal
        <3>2. Resolving(x)
            BY <1>3 DEF Resolving
        <3> QED
            BY <1>3, <1>4, <1>9, <3>1, <3>2
    <2>2. \A p \in Paths : p \in Sent(rows'[x].changes) <=> p \in Sent(rows[x].changes)
        BY <1>4, <1>6
    <2> QED
        BY <1>1, <1>8, <2>1, <2>2 DEF FilesCausal, Moved, Sent
<1>12. DeviceCausal(d)'
    <2>1. call'[d].at = "idle" /\ journal'[d] = {}
        BY <1>1, <1>2, <1>3 DEF IInv, TypeOK, Idle
    <2> QED
        BY <1>10, <1>11, <2>1 DEF DeviceCausal, CallCausal
<1>13. \A e \in Devices : e # d =>
        /\ call'[e] = call[e] /\ journal'[e] = journal[e]
        /\ revision'[e] = revision[e] /\ baseline'[e] = baseline[e] /\ basis'[e] = basis[e]
    BY <1>1, <1>2 DEF IInv, TypeOK
<1>14. \A v \in Ids : /\ record'[v] = record[v]
                      /\ rows[v].owner # d => rows'[v].status = rows[v].status
    BY <1>1, <1>3, <1>6
<1> QED
    BY <1>5, <1>12, <1>13, <1>14, OwnCausal

\* A refused update becomes the conflict, and sends what the older one sends.
LEMMA ConflictCausal ==
    ASSUME CInv, [Next]_vars, NEW d \in Devices, KeepConflict(d)
    PROVE  CInv'
PROOF
<1> PICK u : u = call[d].update
    OBVIOUS
<1> PICK x : x = rows[u].resolves
    OBVIOUS
<1>1. /\ call[d].at = "replied" /\ call[d].answer = "conflict"
      /\ rows' = [v \in Ids |-> IF v = u THEN [rows[v] EXCEPT !.status = "conflict"]
                                ELSE IF v = x THEN [rows[v] EXCEPT !.status = "resolved"]
                                ELSE rows[v]]
      /\ call' = [call EXCEPT ![d] = Idle]
      /\ UNCHANGED <<head, history, record, journal, revision, baseline, basis>>
    BY DEF KeepConflict, serverVars
<1>2. /\ OInv /\ IInv /\ OpenCausal(d) /\ FilesCausal(d)
    BY DEF CInv, DeviceCausal, OInv
<1>3. u \in Pending(d) /\ u \in Ids /\ rows[u].owner = d /\ journal[d] = {} /\ u # x
    BY <1>1, <1>2, OpenRows, RowFacts DEF OInv, OutboxFits, CallFits, ReceiptFits, Row
<1>4. /\ x \in Ids => rows[x].owner = d /\ x # 0
      /\ Open(d) \subseteq {u} \cup ({x} \ {0}) /\ (x # 0 => x \in Conflicts(d))
    BY <1>2, <1>3, OpenRowsOf, OpenRows, RowFacts
<1>5. Ids' = Ids
    BY <1>1 DEF Ids
<1>6. \A v \in Ids : /\ rows'[v].owner = rows[v].owner /\ rows'[v].resolves = rows[v].resolves
                     /\ rows'[v].changes = rows[v].changes /\ rows'[v].base = rows[v].base
                     /\ rows'[v].status = IF v = u THEN "conflict"
                                          ELSE IF v = x THEN "resolved" ELSE rows[v].status
    BY <1>1, <1>2, RowFacts DEF Row
<1>7. Pending(d)' = {} /\ Conflicts(d)' = {u}
    <2>1. Pending(d) = {u} /\ \A y \in Conflicts(d) : y = x
        BY <1>2, <1>3, OnlyPending DEF OInv, OutboxFits, OpenFits
    <2> QED
        BY <1>3, <1>5, <1>6, <2>1 DEF Pending, Conflicts, RowsOf
<1>8. Open(d)' = {u}
    BY <1>7 DEF Open
<1>9. u \in Open(d) /\ (x # 0 => Sent(rows[u].changes) = Sent(rows[x].changes))
    BY <1>2, <1>3 DEF OpenCausal, Open
<1>10. OpenCausal(d)'
    <2>1. /\ record[u].answer = "conflict" => record[u].revision >= revision[d]
          /\ rows[u].resolves # 0 => rows[u].base >= revision[d]
        BY <1>2, <1>9 DEF OpenCausal
    <2> QED
        BY <1>1, <1>3, <1>6, <1>7, <1>8, <2>1 DEF OpenCausal
<1>11. FilesCausal(d)'
    <2>1. Resolving(u)' => Resolving(u)
        BY <1>5, <1>6 DEF Resolving
    <2>2. ASSUME NEW p \in Paths, basis[d][p] # baseline[d][p]
          PROVE  /\ p \in Sent(rows[u].changes)
                 /\ \/ Moved(p, head, revision[d])
                    \/ /\ rows[u].resolves = 0 /\ ~Resolving(u)
                       /\ Moved(p, revision[d], rows[u].base)
        <3>1. PICK w \in Open(d) :
                /\ p \in Sent(rows[w].changes)
                /\ \/ Moved(p, head, revision[d])
                   \/ /\ rows[w].resolves = 0 /\ ~Resolving(w)
                      /\ Moved(p, revision[d], rows[w].base)
            BY <1>2, <2>2 DEF FilesCausal
        <3>2. CASE w = u
            BY <3>1, <3>2
        <3>3. CASE w # u
            <4>1. w = x /\ x # 0
                BY <1>4, <3>3
            <4>2. Resolving(x)
                BY <1>3 DEF Resolving
            <4> QED
                BY <1>9, <3>1, <4>1, <4>2
        <3> QED
            BY <3>2, <3>3
    <2>3. \A p \in Paths : p \in Sent(rows'[u].changes) <=> p \in Sent(rows[u].changes)
        BY <1>3, <1>6
    <2> QED
        BY <1>1, <1>3, <1>6, <1>8, <2>1, <2>2, <2>3 DEF FilesCausal, Moved, Sent
<1>12. DeviceCausal(d)'
    <2>1. call'[d].at = "idle" /\ journal'[d] = {}
        BY <1>1, <1>2, <1>3 DEF IInv, TypeOK, Idle
    <2> QED
        BY <1>10, <1>11, <2>1 DEF DeviceCausal, CallCausal
<1>13. \A e \in Devices : e # d =>
        /\ call'[e] = call[e] /\ journal'[e] = journal[e]
        /\ revision'[e] = revision[e] /\ baseline'[e] = baseline[e] /\ basis'[e] = basis[e]
    BY <1>1, <1>2 DEF IInv, TypeOK
<1>14. \A v \in Ids : /\ record'[v] = record[v]
                      /\ rows[v].owner # d => rows'[v].status = rows[v].status
    BY <1>1, <1>3, <1>4, <1>6
<1> QED
    BY <1>5, <1>12, <1>13, <1>14, OwnCausal

\* The end of an apply.  A restore leaves everything as it was; a move leaves
\* nothing open but its residual update, which nobody has resolved.
LEMMA CommitCausal ==
    ASSUME CInv, [Next]_vars, NEW d \in Devices, Commit(d)
    PROVE  CInv'
PROOF
<1>1. /\ OInv /\ IInv /\ OInv' /\ IInv' /\ FilesCausal(d) /\ OpenCausal(d) /\ head \in Nat
      /\ Ids = 1..Len(rows) /\ Len(rows) \in Nat
    BY NextOInv, RowFacts DEF CInv, DeviceCausal, OInv, IInv, TypeOK
<1>2. PICK j, n :
        /\ j \in journal[d] /\ n = Len(rows) + 1
        /\ Completes(d, j)
        /\ revision'[d] = j.revision /\ baseline'[d] = j.baseline /\ basis'[d] = j.basis
        /\ \A u \in Ids :
            /\ record'[u] = record[u]
            /\ rows'[u].owner = rows[u].owner /\ rows'[u].resolves = rows[u].resolves
            /\ rows'[u].changes = rows[u].changes
            /\ rows'[u].base = rows[u].base /\ rows'[u].basis = rows[u].basis
            /\ rows'[u].status = IF u \in j.resolved THEN "resolved"
                                 ELSE IF u \in j.done THEN "done" ELSE rows[u].status
        /\ \/ j.residual = NoChanges /\ Ids' = Ids
           \/ /\ j.residual # NoChanges
              /\ n \in Nat /\ n \notin Ids /\ Ids' = Ids \cup {n}
              /\ rows'[n].owner = d /\ rows'[n].resolves = 0 /\ rows'[n].status = "pending"
              /\ record'[n].answer = "none" /\ record'[n].resolvedRevision = 0
              /\ rows'[n].base = j.residualBase /\ rows'[n].changes = j.residual
              /\ rows'[n].basis = j.residualBasis
    BY <1>1, CommitRows
<1>3. /\ call'[d].at = "idle" /\ journal'[d] = {} /\ UNCHANGED <<head, history>>
      /\ \A e \in Devices : e # d =>
            /\ call'[e] = call[e] /\ journal'[e] = journal[e]
            /\ revision'[e] = revision[e] /\ baseline'[e] = baseline[e] /\ basis'[e] = basis[e]
    BY <1>1 DEF Commit, IInv, TypeOK, Idle
<1>4. j \in Journal /\ JournalCausal(d, j) /\ j.baseline = Remote(j.revision)
    BY <1>1, <1>2 DEF CInv, DeviceCausal, IInv, TypeOK, BaselineIsHistory
<1>5. CASE Restores(d, j)
    <2>1. /\ Ids' = Ids /\ revision'[d] = revision[d] /\ baseline'[d] = baseline[d]
          /\ \A u \in Ids : rows'[u].status = rows[u].status
        BY <1>1, <1>2, <1>4, <1>5 DEF Restores, IInv, BaselineIsHistory
    <2>2. Pending(d)' = Pending(d) /\ Conflicts(d)' = Conflicts(d) /\ Open(d)' = Open(d)
        BY <1>2, <2>1 DEF Pending, Conflicts, RowsOf, Open
    <2>3. \A w \in Open(d) : w \in Ids /\ (Resolving(w)' => Resolving(w))
        BY <1>2, <2>1, OpenRows DEF Resolving
    <2>4. OpenCausal(d)'
        <3>1. ASSUME NEW w \in Open(d)
              PROVE  /\ record'[w].answer = "conflict" => record'[w].revision >= revision[d]
                     /\ rows'[w].resolves # 0 => rows'[w].base >= revision[d]
                     /\ w \in Pending(d) /\ rows'[w].resolves # 0 =>
                        Sent(rows'[w].changes) = Sent(rows'[rows'[w].resolves].changes)
            <4>1. w \in Pending(d) /\ rows[w].resolves # 0 => rows[w].resolves \in Ids
                BY <1>1, OpenRowsOf, OpenRows
            <4> QED
                BY <1>1, <1>2, <2>3, <4>1 DEF OpenCausal
        <3> QED
            BY <2>1, <2>2, <3>1 DEF OpenCausal, Sent
    <2>5. FilesCausal(d)'
        <3>1. \A p \in Paths : basis'[d][p] = baseline[d][p] \/ basis'[d][p] = basis[d][p]
            <4>1. Sent(j.residual) = {}
                BY <1>5 DEF Restores, Sent, NoChanges
            <4> QED
                BY <1>2, <1>4, <2>1, <4>1 DEF JournalCausal
        <3>2. \A w \in Open(d) : /\ rows'[w].changes = rows[w].changes
                                 /\ rows'[w].base = rows[w].base
                                 /\ rows'[w].resolves = rows[w].resolves
            BY <1>2, <2>3
        <3> QED
            BY <1>1, <1>3, <2>1, <2>2, <2>3, <3>1, <3>2 DEF FilesCausal, Moved, Sent
    <2>6. DeviceCausal(d)'
        BY <1>3, <2>4, <2>5 DEF DeviceCausal, CallCausal
    <2> QED
        BY <1>2, <1>3, <2>1, <2>6, OwnCausal
<1>6. CASE ~Restores(d, j)
    <2>1. Open(d) \subseteq j.done \cup j.resolved
        BY <1>4, <1>6 DEF JournalCausal
    <2>2. \A u \in Ids : u \in Open(d)' => FALSE
        BY <1>2, <2>1 DEF Open, Pending, Conflicts, RowsOf
    <2>3. Open(d)' = IF j.residual = NoChanges THEN {} ELSE {n}
        BY <1>2, <2>2 DEF Open, Pending, Conflicts, RowsOf
    <2>4. ASSUME j.residual # NoChanges PROVE RowCausal(n)' /\ ~Resolving(n)'
        <3>1. RowCausal(n)'
            BY <1>2, <1>3, <1>4, <2>4 DEF RowCausal, Decided, Causal, Moved, JournalCausal
        <3>2. ASSUME NEW v \in Ids', rows'[v].resolves = n PROVE FALSE
            <4>1. rows'[v].resolves < v
                BY <1>1 DEF OInv, OutboxFits, ReceiptFits
            <4>2. v <= n /\ v \in Nat
                BY <1>1, <1>2, <2>4
            <4> QED
                BY <1>2, <2>4, <3>2, <4>1, <4>2
        <3> QED
            BY <3>1, <3>2 DEF Resolving
    <2>5. OpenCausal(d)'
        BY <1>2, <2>3 DEF OpenCausal
    <2>6. FilesCausal(d)'
        <3>1. ASSUME NEW p \in Paths, j.basis[p] # j.baseline[p]
              PROVE  /\ j.residual # NoChanges /\ p \in Sent(j.residual)
                     /\ Moved(p, head, j.revision) \/ Moved(p, j.revision, j.residualBase)
            <4>1. Sent(NoChanges) = {}
                BY DEF Sent, NoChanges
            <4> QED
                BY <1>4, <1>6, <3>1, <4>1 DEF JournalCausal
        <3>2. j.residual # NoChanges => \A p \in Paths :
                p \in Sent(rows'[n].changes) <=> p \in Sent(j.residual)
            BY <1>2
        <3> QED
            BY <1>2, <1>3, <2>3, <2>4, <3>1, <3>2 DEF FilesCausal, Moved, Sent
    <2>7. DeviceCausal(d)'
        BY <1>3, <2>5, <2>6 DEF DeviceCausal, CallCausal
    <2>8. \A u \in Ids : record'[u] = record[u]
                         /\ (rows[u].owner # d => rows'[u].status = rows[u].status)
        <3>1. \A u \in j.done \cup j.resolved : rows[u].owner = d
            BY <1>2, OpenRows DEF Completes
        <3> QED
            BY <1>2, <3>1
    <2>9. \A u \in Ids' : u \notin Ids =>
            rows'[u].owner = d /\ RowCausal(u)' /\ rows'[u].resolves = 0
        BY <1>2, <2>4
    <2> QED
        BY <1>3, <2>7, <2>8, <2>9, OwnCausal
<1> QED
    BY <1>5, <1>6

\* Nothing is known and nothing is open initially.
LEMMA InitCInv == Init => CInv
PROOF
<1> SUFFICES ASSUME Init PROVE CInv
    OBVIOUS
<1>1. OInv
    BY InitOInv
<1>2. HistoryFits
    BY DEF Init, ServerInit, HistoryFits
<1>3. Ids = {}
    BY DEF Init, Ids
<1>4. ASSUME NEW d \in Devices PROVE DeviceCausal(d)
    <2>1. Open(d) = {} /\ journal[d] = {} /\ call[d].at = "idle"
        BY <1>3 DEF Init, Open, Pending, Conflicts, RowsOf, Idle
    <2>2. \A p \in Paths : basis[d][p] = baseline[d][p]
        BY DEF Init
    <2> QED
        BY <2>1, <2>2 DEF DeviceCausal, OpenCausal, FilesCausal, CallCausal
<1> QED
    BY <1>1, <1>2, <1>3, <1>4 DEF CInv

\* Every step keeps what was seen in order.
LEMMA NextCInv ==
    ASSUME CInv, [Next]_vars
    PROVE  CInv'
PROOF
<1>1. ASSUME NEW d \in Devices, Sync(d) PROVE CInv'
    <2>1. CASE Begin(d) \/ Pull(d) \/ PullRaced(d) \/ RejectChanged(d)
        BY <2>1, ProcessCausal
    <2>2. CASE Queue(d)
        BY <2>2, QueueCausal
    <2>3. CASE Post(d)
        BY <2>3, PostCausal
    <2>4. CASE RejectStale(d)
        BY <2>4, RejectCausal
    <2>5. CASE KeepConflict(d)
        BY <2>5, ConflictCausal
    <2>6. CASE ApplyAcknowledged(d)
        BY <2>6, AcknowledgedCausal
    <2>7. CASE ApplyPulled(d)
        BY <2>7, PulledCausal
    <2>8. CASE \E x \in Conflicts(d) : ReconcileDecided(d, x) \/ ReconcileLosing(d, x)
        BY <2>8, DecidedCausal, LosingCausal
    <2>9. CASE Apply(d)
        BY <2>9, ProcessCausal, CommitCausal DEF Apply
    <2> QED
        BY <1>1, <2>1, <2>2, <2>3, <2>4, <2>5, <2>6, <2>7, <2>8, <2>9 DEF Sync
<1>2. ASSUME NEW d \in Devices, Owner(d) \/ Abort(d) PROVE CInv'
    <2>1. CASE \E p \in Paths, c \in Contents : Edit(d, p, c)
        BY <2>1, IdleCausal DEF Edit, serverVars
    <2>2. CASE \E x \in Conflicts(d), keepLocal \in BOOLEAN : Resolve(d, x, keepLocal)
        BY <2>2, ResolveCausal
    <2>3. CASE \/ \E keepLocal \in BOOLEAN : RecoverChoice(d, keepLocal)
               \/ \E saved \in backups[d] : Restore(d, saved)
        BY <2>3, OwnerCausal
    <2>4. CASE Backup(d)
        BY <2>4, IdleCausal DEF Backup, serverVars
    <2>5. CASE Abort(d)
        BY <2>5, ProcessCausal
    <2> QED
        BY <1>2, <2>1, <2>2, <2>3, <2>4, <2>5 DEF Owner
<1>3. ASSUME NEW d \in Devices, Checkpoint(d) \/ ReportRetired(d) \/ ReportLost(d) PROVE CInv'
    <2>1. CASE CheckpointQueue(d)
        BY <2>1, QueueCausal
    <2>2. CASE CheckpointOpen(d) \/ CheckpointClean(d) \/ ReportRetired(d) \/ ReportLost(d)
        BY <2>2, IdleCausal DEF CheckpointOpen, CheckpointClean, ReportRetired, ReportLost,
                                serverVars, clientVars
    <2> QED
        BY <1>3, <2>1, <2>2 DEF Checkpoint
<1>4. CASE \E x \in Ids, keepCandidate, wholeCandidate \in BOOLEAN :
            PortalResolve(x, keepCandidate, wholeCandidate)
    BY <1>4, PortalCausal
<1>5. CASE UNCHANGED vars
    BY <1>5, IdleCausal DEF vars, serverVars, clientVars
<1> QED
    BY <1>1, <1>2, <1>3, <1>4, <1>5, ManagedAssumption DEF Next

LEMMA CausalInductive == Spec => []CInv
PROOF
<1>1. CInv /\ [Next]_vars => CInv'
    BY NextCInv
<1> QED
    BY <1>1, InitCInv, PTL DEF Spec

\* Only the server writes its records: the other steps leave those there are.
LEMMA RecordsKept ==
    ASSUME OInv, [Next]_vars, NEW u \in Ids, \A d \in Devices : ~Post(d),
           \A x \in Ids, keepCandidate, wholeCandidate \in BOOLEAN :
                ~PortalResolve(x, keepCandidate, wholeCandidate)
    PROVE  record'[u] = record[u]
PROOF
<1>1. CASE \E d, base, changes, resolves, expected : QueueRow(d, base, changes, resolves, expected)
    BY <1>1, QueueAppends
<1>2. CASE \E d \in Devices : Commit(d)
    BY <1>2, NextOInv, CommitRows DEF OInv
<1>3. CASE /\ ~ \E d \in Devices : Commit(d)
           /\ ~ \E d, base, changes, resolves, expected :
                    QueueRow(d, base, changes, resolves, expected)
    <2>1. ASSUME NEW d \in Devices, Sync(d) PROVE record' = record
        <3>1. CASE Begin(d) \/ Pull(d) \/ PullRaced(d) \/ RejectChanged(d) \/ RejectStale(d)
                     \/ KeepConflict(d)
            BY <3>1 DEF Begin, Pull, PullRaced, RejectChanged, RejectStale, KeepConflict, serverVars
        <3>2. CASE ApplyAcknowledged(d) \/ ApplyPulled(d)
            BY <3>2 DEF ApplyAcknowledged, ApplyPulled, serverVars
        <3>3. CASE \E x \in Conflicts(d) : ReconcileDecided(d, x) \/ ReconcileLosing(d, x)
            BY <3>3 DEF ReconcileDecided, ReconcileLosing, serverVars
        <3>4. CASE Apply(d)
            BY <1>3, <3>4 DEF Apply, Recover, PreflightPasses, PreflightFails, WriteFile, serverVars
        <3>5. CASE Queue(d)
            BY <1>3, <3>5 DEF Queue
        <3> QED
            BY <2>1, <3>1, <3>2, <3>3, <3>4, <3>5 DEF Sync
    <2>2. ASSUME NEW d \in Devices, Owner(d) \/ Abort(d) PROVE record' = record
        BY <1>3, <2>2
        DEF Owner, Edit, Resolve, RecoverChoice, Backup, Restore, Abort, serverVars
    <2>3. ASSUME NEW d \in Devices, Checkpoint(d) \/ ReportRetired(d) \/ ReportLost(d)
          PROVE  record' = record
        BY <1>3, <2>3 DEF Checkpoint, CheckpointQueue, CheckpointOpen, CheckpointClean,
                          ReportRetired, ReportLost, serverVars
    <2>4. CASE UNCHANGED vars
        BY <2>4 DEF vars, serverVars
    <2> QED
        BY <2>1, <2>2, <2>3, <2>4, ManagedAssumption DEF Next
<1> QED
    BY <1>1, <1>2, <1>3

\* An update is applied only by a Post of its own.
LEMMA AppliedByPost ==
    ASSUME OInv, [Next]_vars, NEW u \in Ids, record[u].answer = "none",
           record'[u].answer = "applied", rows[u].resolves = 0
    PROVE  PostApplied(rows[u].owner, u)
PROOF
<1>1. DOMAIN record = Ids /\ \A v \in Ids : record[v] \in Record /\ rows[v] \in Row /\ v \in Nat
    BY RowFacts DEF OInv
<1>2. CASE \E x \in Ids, keepCandidate, wholeCandidate \in BOOLEAN :
            PortalResolve(x, keepCandidate, wholeCandidate)
    <2>1. PICK x \in Ids : record' = [record EXCEPT ![x] = Decision(record[x], 0, head + 1)]
        BY <1>2 DEF PortalResolve, PortalDecision
    <2>2. record'[u].answer = record[u].answer
        BY <1>1, <2>1, RecordKeeps
    <2> QED
        BY <2>2
<1>3. CASE \E d \in Devices : Post(d)
    <2>1. PICK d \in Devices : Post(d)
        BY <1>3
    <2>2. PICK v \in Pending(d) :
            PostAgain(d, v) \/ PostUnavailable(d, v) \/ PostStale(d, v) \/ PostConflict(d, v)
              \/ PostApplied(d, v)
        BY <2>1 DEF Post, FirstPending
    <2>3. v \in Ids /\ rows[v].owner = d
        BY OpenRows
    <2>4. record'[u] # record[u]
        OBVIOUS
    <2>5. CASE PostAgain(d, v) \/ PostUnavailable(d, v) \/ PostStale(d, v)
        BY <2>4, <2>5 DEF PostAgain, PostUnavailable, PostStale, serverVars
    <2>6. CASE PostConflict(d, v)
        <3>1. record' = [record EXCEPT ![v] = Receipt(record[v], "conflict", head)]
            BY <2>6 DEF PostConflict, Retained
        <3>2. record'[u].answer = "conflict"
            BY <1>1, <2>3, <2>4, <3>1, RecordKeeps
        <3> QED
            BY <3>2
    <2>7. CASE PostApplied(d, v)
        <3>1. record'[u] = IF u = v THEN Receipt(record[u], "applied", head + 1)
                           ELSE IF u = rows[v].resolves THEN Decision(record[u], v, head + 1)
                           ELSE record[u]
            BY <1>1, <2>7 DEF PostApplied, Accepted
        <3>2. u # v => record'[u].answer = record[u].answer
            BY <1>1, <3>1, RecordKeeps
        <3> QED
            BY <2>3, <2>7, <3>2
    <2> QED
        BY <2>2, <2>5, <2>6, <2>7
<1> QED
    BY <1>2, <1>3, RecordsKept

\* What an applied update replaces, its author has seen: the path has not moved
\* since the update's base, where it held the content the edit descends from.
LEMMA AppliedHasSeen ==
    ASSUME CInv, [Next]_vars, NEW u \in Ids, record[u].answer = "none",
           record'[u].answer = "applied", rows[u].resolves = 0,
           NEW p \in Sent(rows[u].changes)
    PROVE  Remote(head)[p] = rows[u].basis[p]
PROOF
<1>1. /\ OInv /\ HistoryFits /\ RowCausal(u) /\ head \in Nat
      /\ p \in Paths /\ rows[u] \in Row
    BY RowFacts DEF CInv, OInv, IInv, TypeOK, Sent
<1>2. PostApplied(rows[u].owner, u)
    BY <1>1, AppliedByPost
<1>3. ~Moved(p, head, rows[u].base)
    BY <1>2 DEF PostApplied, conflictPaths, conflictPathsAt, Moved
<1>4. history[rows[u].base][p].content = rows[u].basis[p] /\ rows[u].base <= head
    BY <1>1, <1>3 DEF RowCausal, Causal
<1>5. history[head][p] = history[rows[u].base][p]
    <2>1. rows[u].base \in Nat /\ history[head][p].revision \in Nat
        BY <1>1, VersionType DEF Row
    <2> QED
        BY <1>1, <1>3, <1>4, <2>1 DEF HistoryFits, Moved
<1> QED
    BY <1>1, <1>4, <1>5, RemoteContent

\* No update other than an explicit resolution of the owner replaces a content
\* that its author had not seen: not a queued edit, not the residual that an
\* acknowledged update or a decision made elsewhere leaves behind, and not after
\* any crash, lost reply, restore or late recovery.
THEOREM NothingUnseen == Spec => NoBlindOverwrite
PROOF
<1>1. CInv /\ [Next]_vars =>
        [\A u \in Ids :
            /\ record[u].answer = "none" /\ record'[u].answer = "applied"
            /\ rows[u].resolves = 0
            => \A p \in Sent(rows[u].changes) :
                Remote(head)[p] \in {rows[u].basis[p], rows[u].changes[p]}]_vars
    BY AppliedHasSeen
<1> QED
    BY <1>1, CausalInductive, PTL DEF Spec, NoBlindOverwrite
=============================================================================
