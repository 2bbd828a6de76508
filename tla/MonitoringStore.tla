--------------------------- MODULE MonitoringStore ---------------------------
(***************************************************************************)
(* The company server's store of monitoring metadata (monitoring-store.ts):*)
(* the heads of the signed event chains, the batches accepted on them and  *)
(* the spans of their events.  A batch is known by its number, which       *)
(* stands for its ID, its hash and its one event.  Records are removed     *)
(* when they were received RetentionDays ago.  The capacity limits of      *)
(* 100000 records are left out.                                            *)
(***************************************************************************)
EXTENDS Integers

CONSTANTS
    OfflineDays,    \* age at which an event is refused, and abandoned by its sender
    RetentionDays,  \* age at which the server forgets what it received
    MaxSkew,        \* how far a client's clock may be ahead
    NoBatch         \* the predecessor of the first batch of a stream

ASSUME DaysAssumption == OfflineDays \in Nat /\ RetentionDays \in Nat /\ MaxSkew \in Nat
ASSUME NoBatchAssumption == NoBatch \notin Nat

VARIABLES
    now,            \* the server's clock
    heads,          \* monitoring_streams: the last batch accepted on each stream
    batches,        \* monitoring_batches: when each batch was received
    spans,          \* monitoring_spans: when the span of each batch's event was received
    rejections      \* monitoring_rejections: the codes of the refusals, those of age left out

storeVars == <<heads, batches, spans, rejections>>

Batch == [number : Nat, stream : Nat, sequence : Nat, previous : Nat \cup {NoBatch},
          dropped : Nat, created : Nat, duration : Nat]
StreamHead == [sequence : Nat, batch : Nat, received : Nat]

StoreInit ==
    /\ heads = <<>>
    /\ batches = <<>>
    /\ spans = <<>>
    /\ rejections = {}

\* Fault: only a timestamp of the future is refused.
TimelyIfPast(b) == b.created <= now + MaxSkew

\* telemetryTime: the range that a client's timestamp must be in.
Timely(b) == b.created >= now - OfflineDays /\ b.created <= now + MaxSkew

Retained(received) == received >= now - RetentionDays
PurgedHeads == [s \in {s \in DOMAIN heads : Retained(heads[s].received)} |-> heads[s]]
Purged(table) == [b \in {b \in DOMAIN table : Retained(table[b])} |-> table[b]]

Extends(b) ==
    IF b.stream \in DOMAIN PurgedHeads
    THEN heads[b.stream].sequence + 1 = b.sequence /\ heads[b.stream].batch = b.previous
    ELSE b.sequence = 1 /\ b.previous = NoBatch

With(table, key, value) == [k \in DOMAIN table \cup {key} |-> IF k = key THEN value ELSE table[k]]

\* Fault: the chain is looked at before the batch is looked up.
ChainFirst(b) ==
    IF ~Timely(b) THEN "monitoring_age"
    ELSE IF ~Extends(b) THEN "monitoring_chain"
    ELSE IF b.number \in DOMAIN Purged(batches) THEN "duplicate"
    ELSE "accepted"

(***************************************************************************)
(* acceptAudit.  A batch that is stored is acknowledged as a duplicate     *)
(* before its place in the chain is looked at.                             *)
(***************************************************************************)
AuditCode(b) ==
    IF ~Timely(b) THEN "monitoring_age"
    ELSE IF b.number \in DOMAIN Purged(batches) THEN "duplicate"
    ELSE IF ~Extends(b) THEN "monitoring_chain"
    ELSE "accepted"

\* span: its activity must not have begun before that range either.
BeganEarly(b) == b.created - b.duration < now - OfflineDays

\* acceptSpans: the same span again is acknowledged without being stored.
SpansCode(b) ==
    IF ~Timely(b) THEN "monitoring_age"
    ELSE IF BeganEarly(b) THEN "monitoring_invalid"
    ELSE IF b.number \in DOMAIN Purged(spans) THEN "duplicate"
    ELSE "accepted"

Acknowledged(code) == code \in {"accepted", "duplicate"}

\* A refusal purges too, when it is recorded.
Reject(code) == rejections' = rejections \cup ({code} \cap {"monitoring_chain"})

AcceptAudit(b) ==
    LET code == AuditCode(b) IN
    /\ heads' = IF code = "accepted"
                THEN With(PurgedHeads, b.stream,
                          [sequence |-> b.sequence, batch |-> b.number, received |-> now])
                ELSE PurgedHeads
    /\ batches' = IF code = "accepted" THEN With(Purged(batches), b.number, now)
                  ELSE Purged(batches)
    /\ spans' = Purged(spans)
    /\ Reject(code)

AcceptSpans(b) ==
    LET code == SpansCode(b) IN
    /\ spans' = IF code = "accepted" THEN With(Purged(spans), b.number, now) ELSE Purged(spans)
    /\ heads' = PurgedHeads
    /\ batches' = Purged(batches)
    /\ Reject(code)
=============================================================================
