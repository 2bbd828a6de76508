--------------------------- MODULE TelemetryOutbox ---------------------------
(***************************************************************************)
(* The companion's durable outbox of monitoring events (telemetry_state.py)*)
(* and its delivery (telemetry.py) to the server's MonitoringStore.  Every *)
(* event is a signed batch of its own, chained to the one before it.  Each *)
(* method of TelemetryState is one SQLite transaction; several commands    *)
(* record and flush at once, and between two transactions of a flush       *)
(* another command may run, a request may be lost, or the process may die. *)
(***************************************************************************)
EXTENDS MonitoringStore, FiniteSets

CONSTANTS
    Flushers,       \* commands that deliver the queue
    QueueEvents,    \* MAX_QUEUE_EVENTS: the capacity of the queue
    IdleDays,       \* age at which a fully delivered stream is given up
    Receipts,       \* how many finished rows are kept
    Durations,      \* how long the activity of an event may have been
    Never,          \* no batch was made yet
    MaxTime,        \* bound: the clock
    MaxRecords,     \* bound: events recorded
    MaxFaults       \* bound: requests or replies lost, commands that die

ASSUME OutboxAssumption == QueueEvents \in Nat /\ IdleDays \in Nat /\ Never \notin Int
ASSUME ReceiptAssumption == Receipts \in Nat /\ Durations \subseteq Nat
\* The margin of the retention (30, 30 and 90 days, and five minutes): the server
\* remembers a batch until its successor is too old to be accepted.
ASSUME MarginAssumption ==
    /\ OfflineDays + OfflineDays + MaxSkew <= RetentionDays
    /\ OfflineDays + IdleDays + MaxSkew <= RetentionDays

VARIABLES
    outbox,         \* telemetry_outbox: the rows by cursor
    meta,           \* telemetry_metadata
    cursor,         \* the autoincremented key
    skew,           \* how far the client's clock is ahead of the server's
    flush,          \* flush[f]: where the flush is, and the row it holds
    late,           \* requests whose sender gave up before they arrived
    events,         \* history: events that reached the queue, delivery reports among them
    reported,       \* history: drops written into delivery reports
    audited,        \* history: batches that the server ever stored
    traced,         \* history: batches whose span the server ever stored
    records, faults \* how much of each bound is used

clientVars == <<outbox, meta, cursor>>
history == <<events, reported, audited, traced>>
bounds == <<records, faults>>
vars == <<now, storeVars, clientVars, skew, flush, late, history, bounds>>

Row == [batch : Batch, audit_sent : BOOLEAN, traces_sent : BOOLEAN,
        status : {"pending", "delivered", "expired"}]
Metadata == [stream : Nat, sequence : Nat, previous : Nat \cup {NoBatch},
             last : Nat \cup {Never}, dropped : Nat, unreported : Nat, sent : Nat]
Step == {"idle", "report", "again", "audit", "audited", "traces", "traced"}
Transport == {"audit", "traces"}

\* The client's clock.
Clock == now + skew

Pending(box) == {c \in DOMAIN box : box[c].status = "pending"}
Finished(box) == DOMAIN box \ Pending(box)
First(box) == CHOOSE c \in Pending(box) : \A d \in Pending(box) : c <= d

Init ==
    /\ now = 0
    /\ StoreInit
    /\ outbox = <<>>
    /\ meta = [stream |-> 0, sequence |-> 0, previous |-> NoBatch, last |-> Never,
               dropped |-> 0, unreported |-> 0, sent |-> 0]
    /\ cursor = 0
    /\ skew \in 0..MaxSkew
    /\ flush = [f \in Flushers |-> [at |-> "idle", rows |-> {}]]
    /\ late = {}
    /\ events = 0
    /\ reported = 0
    /\ audited = {}
    /\ traced = {}
    /\ records = 0
    /\ faults = 0

-----------------------------------------------------------------------------
(* _prune: every transaction begins or ends with it. *)

Overdue(box) == \E c \in Pending(box) : box[c].batch.created < Clock - OfflineDays
\* Fault: the idle stream is given up when the server forgets it, not before.
IdleUntilForgotten(box) ==
    Pending(box) = {} /\ meta.last # Never /\ Clock - meta.last >= RetentionDays

Idle(box) == Pending(box) = {} /\ meta.last # Never /\ Clock - meta.last >= IdleDays

Rotated(m) == [m EXCEPT !.stream = @ + 1, !.sequence = 0, !.previous = NoBatch, !.last = Clock]
Dropped(m, count) == [m EXCEPT !.dropped = @ + count, !.unreported = @ + count]

\* Fault: only the batches that are overdue are abandoned.
AbandonedOverdue(box) == {c \in Pending(box) : box[c].batch.created < Clock - OfflineDays}

\* A chain is abandoned as a whole.
Abandoned(box) == Pending(box)
Expired(box) == [c \in DOMAIN box |->
    IF c \in Abandoned(box) THEN [box[c] EXCEPT !.status = "expired"] ELSE box[c]]

\* Fault: an expiry counts as one drop, however many batches it abandons.
PrunedMetaOnce(box, m) ==
    CASE Overdue(box) -> Rotated(Dropped(m, 1))
      [] ~Overdue(box) /\ Idle(box) -> Rotated(m)
      [] OTHER -> m

PrunedMeta(box, m) ==
    CASE Overdue(box) -> Rotated(Dropped(m, Cardinality(Pending(box))))
      [] ~Overdue(box) /\ Idle(box) -> Rotated(m)
      [] OTHER -> m

\* The last finished rows are kept for the owner's inspection; their age limit
\* is left out.
Receipt(box, c) == Cardinality({d \in Finished(box) : d > c}) < Receipts
WithoutOldReceipts(box) ==
    [c \in {c \in DOMAIN box : c \in Pending(box) \/ Receipt(box, c)} |-> box[c]]

PrunedBox(box) == WithoutOldReceipts(IF Overdue(box) THEN Expired(box) ELSE box)

-----------------------------------------------------------------------------
(* TelemetryState.queue *)

Full(box) == Cardinality(Pending(box)) >= QueueEvents

\* Fault: the batch is numbered by its sequence in the stream.
NumberedBySequence(m, dropped, duration) ==
    [number |-> m.sequence + 1, stream |-> m.stream, sequence |-> m.sequence + 1,
     previous |-> m.previous, dropped |-> dropped, created |-> Clock, duration |-> duration]

NextBatch(m, dropped, duration) ==
    [number |-> cursor + 1, stream |-> m.stream, sequence |-> m.sequence + 1,
     previous |-> m.previous, dropped |-> dropped, created |-> Clock, duration |-> duration]

Queue(box, m, dropped, duration) ==
    /\ outbox' = With(box, cursor + 1,
                      [batch |-> NextBatch(m, dropped, duration), audit_sent |-> FALSE,
                       traces_sent |-> FALSE, status |-> "pending"])
    /\ meta' = [m EXCEPT !.sequence = @ + 1, !.previous = cursor + 1, !.last = Clock,
                         !.unreported = @ - dropped]
    /\ cursor' = cursor + 1
    /\ reported' = reported + dropped
    /\ events' = events + 1

\* Telemetry.record, for an event that a command reports.
Record ==
    LET box == PrunedBox(outbox)
        m == PrunedMeta(outbox, meta)
    IN
    /\ records < MaxRecords
    /\ records' = records + 1
    /\ \/ /\ ~Full(box)
          /\ \E duration \in Durations : Queue(box, m, 0, duration)
       \/ /\ Full(box)
          /\ outbox' = box
          /\ meta' = Dropped(m, 1)
          /\ events' = events + 1
          /\ UNCHANGED <<cursor, reported>>
    /\ UNCHANGED <<now, storeVars, skew, flush, late, audited, traced, faults>>

-----------------------------------------------------------------------------
(* Telemetry.flush *)

At(f, at) == flush[f].at = at
Held(f) == CHOOSE row \in flush[f].rows : TRUE
Go(f, at, rows) == flush' = [flush EXCEPT ![f] = [at |-> at, rows |-> rows]]

\* Where a row that was read is taken up, from what was acknowledged then.
FirstStep(row) == IF row.audit_sent THEN "traces" ELSE "audit"

Prune ==
    /\ outbox' = PrunedBox(outbox)
    /\ meta' = PrunedMeta(outbox, meta)
    /\ UNCHANGED <<cursor, events, reported>>

\* TelemetryState.next
NextRows == IF Pending(outbox') = {} THEN {} ELSE {outbox'[First(outbox')]}

FlushNext(f) ==
    /\ At(f, "idle")
    /\ Prune
    /\ Go(f, "report", NextRows)
    /\ UNCHANGED <<now, storeVars, skew, late, audited, traced, bounds>>

Proceed(f) ==
    IF flush[f].rows = {} THEN Go(f, "again", {}) ELSE Go(f, FirstStep(Held(f)), flush[f].rows)

\* The report of drops, as a batch of its own.
FlushReport(f) ==
    LET box == PrunedBox(outbox)
        m == PrunedMeta(outbox, meta)
    IN
    /\ At(f, "report")
    /\ \/ /\ ~Full(box) /\ m.unreported > 0
          /\ Queue(box, m, m.unreported, 0)
       \/ /\ Full(box) \/ m.unreported = 0
          /\ Prune
    /\ Proceed(f)
    /\ UNCHANGED <<now, storeVars, skew, late, audited, traced, bounds>>

FlushAgain(f) ==
    /\ At(f, "again")
    /\ Prune
    /\ IF NextRows = {} THEN Go(f, "idle", {})
       ELSE \E row \in NextRows : Go(f, FirstStep(row), {row})
    /\ UNCHANGED <<now, storeVars, skew, late, audited, traced, bounds>>

ServeAudit(b) ==
    /\ AcceptAudit(b)
    /\ audited' = IF AuditCode(b) = "accepted" THEN audited \cup {b.number} ELSE audited
    /\ UNCHANGED traced

ServeTraces(b) ==
    /\ AcceptSpans(b)
    /\ traced' = IF SpansCode(b) = "accepted" THEN traced \cup {b.number} ELSE traced
    /\ UNCHANGED audited

\* A reply that does not confirm the batch defers the rest of the queue.
FlushAudit(f) ==
    LET b == Held(f).batch IN
    /\ At(f, "audit")
    /\ ServeAudit(b)
    /\ IF Acknowledged(AuditCode(b)) THEN Go(f, "audited", flush[f].rows) ELSE Go(f, "idle", {})
    /\ UNCHANGED <<now, clientVars, skew, late, events, reported, bounds>>

FlushTraces(f) ==
    LET b == Held(f).batch IN
    /\ At(f, "traces")
    /\ ServeTraces(b)
    /\ IF Acknowledged(SpansCode(b)) THEN Go(f, "traced", flush[f].rows) ELSE Go(f, "idle", {})
    /\ UNCHANGED <<now, clientVars, skew, late, events, reported, bounds>>

\* TelemetryState.acknowledge: row is what the update leaves of the row at c.
Sent(row, transport) ==
    IF transport = "audit" THEN [row EXCEPT !.audit_sent = TRUE] ELSE [row EXCEPT !.traces_sent = TRUE]
\* Fault: one transport is enough.
EitherSent(row) == row.audit_sent \/ row.traces_sent

Complete(row) == row.audit_sent /\ row.traces_sent
Delivered(row) == [row EXCEPT !.status = "delivered"]

\* Fault: the row is updated whatever its status.
AnyRow(c) == c \in DOMAIN outbox

\* Another command may have finished the row, or have abandoned its chain.
Awaiting(c) == c \in Pending(outbox)

Acknowledge(c, transport) ==
    LET row == Sent(outbox[c], transport) IN
    IF ~Awaiting(c) THEN Prune
    ELSE LET box == [outbox EXCEPT ![c] = IF Complete(row) THEN Delivered(row) ELSE row]
             m == IF Complete(row) THEN [meta EXCEPT !.sent = @ + 1] ELSE meta
         IN
         /\ outbox' = PrunedBox(box)
         /\ meta' = PrunedMeta(box, m)
         /\ UNCHANGED <<cursor, events, reported>>

FlushAudited(f) ==
    /\ At(f, "audited")
    /\ Acknowledge(Held(f).batch.number, "audit")
    /\ IF Held(f).traces_sent THEN Go(f, "idle", {}) ELSE Go(f, "traces", flush[f].rows)
    /\ UNCHANGED <<now, storeVars, skew, late, audited, traced, bounds>>

FlushTraced(f) ==
    /\ At(f, "traced")
    /\ Acknowledge(Held(f).batch.number, "traces")
    /\ Go(f, "idle", {})
    /\ UNCHANGED <<now, storeVars, skew, late, audited, traced, bounds>>

-----------------------------------------------------------------------------
(* Faults and clocks *)

\* The command dies, or its request or the reply is lost; the request may
\* still be on its way.
Break(f) ==
    /\ ~At(f, "idle")
    /\ faults < MaxFaults
    /\ faults' = faults + 1
    /\ Go(f, "idle", {})
    /\ \/ /\ flush[f].at \in Transport
          /\ late' = late \cup {[transport |-> flush[f].at, batch |-> Held(f).batch]}
       \/ UNCHANGED late
    /\ UNCHANGED <<now, storeVars, clientVars, skew, history, records>>

Arrive(request) ==
    /\ IF request.transport = "audit" THEN ServeAudit(request.batch) ELSE ServeTraces(request.batch)
    /\ late' = late \ {request}
    /\ UNCHANGED <<now, clientVars, skew, flush, events, reported, bounds>>

Tick ==
    /\ now < MaxTime
    /\ now' = now + 1
    /\ UNCHANGED <<storeVars, clientVars, skew, flush, late, history, bounds>>

\* The client's clock was ahead, and is corrected.
SetClock ==
    /\ skew' \in 0..(skew - 1)
    /\ UNCHANGED <<now, storeVars, clientVars, flush, late, history, bounds>>

FlushStep(f) ==
    \/ FlushReport(f) \/ FlushAgain(f)
    \/ FlushAudit(f) \/ FlushAudited(f)
    \/ FlushTraces(f) \/ FlushTraced(f)

Next ==
    \/ Record
    \/ \E f \in Flushers : FlushNext(f) \/ FlushStep(f) \/ Break(f)
    \/ \E request \in late : Arrive(request)
    \/ Tick
    \/ SetClock

Spec == Init /\ [][Next]_vars

\* Commands keep being run, and a command that was started goes on.
Fairness == \A f \in Flushers : WF_vars(FlushNext(f) \/ FlushStep(f))
FairSpec == Spec /\ Fairness

-----------------------------------------------------------------------------
(* Properties *)

\* The outbox, its metadata and the store have the types of their tables.
TypeOK ==
    /\ now \in Nat /\ cursor \in Nat /\ skew \in 0..MaxSkew
    /\ DOMAIN heads \subseteq Nat /\ \A s \in DOMAIN heads : heads[s] \in StreamHead
    /\ DOMAIN batches \subseteq Nat /\ DOMAIN spans \subseteq Nat
    /\ \A b \in DOMAIN batches : batches[b] \in Nat
    /\ \A b \in DOMAIN spans : spans[b] \in Nat
    /\ rejections \subseteq {"monitoring_chain"}
    /\ DOMAIN outbox \subseteq 1..cursor
    /\ \A c \in DOMAIN outbox : outbox[c] \in Row /\ outbox[c].batch.number = c
    /\ meta \in Metadata
    /\ \A f \in Flushers : /\ flush[f].at \in Step
                           /\ flush[f].rows \subseteq Row /\ Cardinality(flush[f].rows) <= 1
    /\ \A request \in late : request.batch \in Batch
    /\ events \in Nat /\ reported \in Nat
    /\ audited \subseteq Nat /\ traced \subseteq Nat

\* Every event that was recorded is in the queue, was delivered or is counted as
\* dropped, and is so once; every drop is in a report or waits for one.
DropsAccounted ==
    /\ events = meta.sent + Cardinality(Pending(outbox)) + meta.dropped
    /\ meta.dropped = meta.unreported + reported

\* What is pending is the unbroken end of the stream that new events extend: a
\* rotation never leaves a batch of another stream behind in the queue.
Later(c) == {d \in Pending(outbox) : d > c}
OneChain == \A c \in Pending(outbox) :
    /\ outbox[c].batch.stream = meta.stream
    /\ outbox[c].batch.sequence + Cardinality(Later(c)) = meta.sequence
    /\ IF Later(c) = {} THEN meta.previous = c
       ELSE \E d \in Later(c) : /\ outbox[d].batch.previous = c
                                /\ \A e \in Later(c) : d <= e

\* The server never refuses a batch as out of its chain, whatever it has purged,
\* whichever reply was lost and however the client's clock was corrected.
NoBrokenChain == "monitoring_chain" \notin rejections

\* An event that was stored is not stored again: a retry comes while the server
\* remembers the batch, or is too old to be accepted.
StoredOnce == [][/\ (DOMAIN batches' \ DOMAIN batches) \cap audited = {}
                 /\ (DOMAIN spans' \ DOMAIN spans) \cap traced = {}]_vars

\* A row counts as delivered only when both transports have stored it.
DeliveredIsStored == \A c \in DOMAIN outbox :
    /\ outbox[c].audit_sent => c \in audited
    /\ outbox[c].traces_sent => c \in traced
    /\ outbox[c].status = "delivered" => c \in audited \cap traced

\* Once nothing more is recorded the queue becomes empty and stays so: whatever
\* enters it is delivered or expires, and so are the reports of drops.
Emptied == <>[](Pending(outbox) = {} /\ meta.unreported = 0)
=============================================================================
