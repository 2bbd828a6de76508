------------------------- MODULE TelemetryOutboxProofs -------------------------
(***************************************************************************)
(* Proofs about TelemetryOutbox and MonitoringStore, for all numbers of    *)
(* flushing commands, capacities, clocks and faults, and all ages with the *)
(* margin that MarginAssumption states.  The invariant speaks of an outbox *)
(* box, of metadata m and of a set S of batches that are known outside of  *)
(* the outbox, because a transaction first prunes and then goes on with    *)
(* what the pruning left.                                                  *)
(***************************************************************************)
EXTENDS TelemetryOutbox, FiniteSetTheorems, WellFoundedInduction, TLAPS

\* The batches that are on their way or that a flush holds.
Late == {request.batch : request \in late}
Flying == Late \cup {row.batch : row \in UNION {flush[f].rows : f \in Flushers}}

\* The server's head of stream s is its n-th batch, p, which was created at t; or
\* it was purged, which takes until t is too old for a successor.
HeadIs(s, n, p, t) ==
    IF s \in DOMAIN heads
    THEN heads[s].sequence = n /\ heads[s].batch = p /\ heads[s].received + MaxSkew >= t
    ELSE t + RetentionDays < now + MaxSkew

TooOld(b) == b.created + OfflineDays < now

\* The server will accept b, or refuse it by its age.
Fits(b) ==
    \/ TooOld(b)
    \/ b.stream \notin DOMAIN heads /\ b.sequence = 1 /\ b.previous = NoBatch
    \/ /\ b.stream \in DOMAIN heads
       /\ heads[b.stream].sequence + 1 = b.sequence /\ heads[b.stream].batch = b.previous
       /\ heads[b.stream].received + RetentionDays >= b.created + OfflineDays

Remembered(table, b) ==
    \/ TooOld(b)
    \/ b.number \in DOMAIN table /\ table[b.number] + MaxSkew >= b.created

\* A batch that was stored is remembered as long as it could be sent again.
Stored(b) ==
    /\ b.number \in audited => Remembered(batches, b)
    /\ b.number \in traced => Remembered(spans, b)

Front(box, c) == c \in Pending(box) /\ \A d \in Pending(box) : c <= d
After(box, c) == {d \in Pending(box) : d > c}

\* The rows, and what the acknowledgements in them mean.
RowInv(box, c) ==
    /\ box[c] \in Row /\ box[c].batch.number = c
    /\ Stored(box[c].batch)
    /\ box[c].audit_sent => c \in audited
    /\ box[c].traces_sent => c \in traced
    /\ box[c].status = "delivered" => c \in audited /\ c \in traced
BoxInv(box) == DOMAIN box \subseteq 1..cursor /\ \A c \in DOMAIN box : RowInv(box, c)

\* What is pending is a chain that the metadata extend.
LinkInv(box, m, c) ==
    /\ box[c].batch.stream = m.stream
    /\ box[c].batch.sequence + Cardinality(After(box, c)) = m.sequence
    /\ After(box, c) = {} => m.previous = c /\ m.last = box[c].batch.created
    /\ \A d \in After(box, c) :
          /\ box[d].batch.created <= box[c].batch.created + OfflineDays
          /\ (\A e \in After(box, c) : d <= e) => box[d].batch.previous = c
ChainInv(box, m) ==
    /\ m \in Metadata
    /\ m.sequence = 0 <=> m.previous = NoBatch
    /\ m.sequence # 0 => m.last # Never
    /\ \A c \in Pending(box) : LinkInv(box, m, c)

\* Every event is accounted for, and every drop.
CountInv(box, m) ==
    /\ events = m.sent + Cardinality(Pending(box)) + m.dropped
    /\ m.dropped = m.unreported + reported

\* Where the chain of the outbox and the server's head of it meet.
MeetInv(box, m) ==
    /\ \A s \in DOMAIN heads : s <= m.stream
    /\ \A c \in Pending(box) : c \in audited => Front(box, c)
    /\ Pending(box) = {} =>
          IF m.sequence = 0 THEN m.stream \notin DOMAIN heads
          ELSE HeadIs(m.stream, m.sequence, m.previous, m.last)
    /\ \A c \in Pending(box) : Front(box, c) =>
          IF c \in audited THEN HeadIs(m.stream, box[c].batch.sequence, c, box[c].batch.created)
          ELSE Fits(box[c].batch)

\* A batch outside of the outbox is the front of the queue or of an abandoned
\* chain, or was stored.
KnownInv(b, S, box, m) ==
    /\ b \in Batch /\ b.number \in 1..cursor /\ Stored(b)
    /\ b.stream <= m.stream
    /\ b.stream = m.stream => \A c \in Pending(box) : b.number <= c
    /\ b.number \in DOMAIN box => box[b.number].batch = b
    /\ \A d \in S : d.number = b.number => d = b
    /\ b.number \notin audited =>
          /\ Fits(b)
          /\ b.stream = m.stream => b.number \in Pending(box)
          /\ \A d \in S : d.number \notin audited /\ d.stream = b.stream => d = b
SentInv(S, box, m) == \A b \in S : KnownInv(b, S, box, m)

OutboxInv(S, box, m) ==
    BoxInv(box) /\ ChainInv(box, m) /\ CountInv(box, m) /\ MeetInv(box, m) /\ SentInv(S, box, m)

\* A flush holds at most one row, and what it is about to acknowledge was stored.
FlushInv ==
    /\ DOMAIN flush = Flushers
    /\ \A f \in Flushers :
          /\ flush[f].at \in Step
          /\ flush[f].rows = {} \/ \E x \in Row : flush[f].rows = {x}
          /\ flush[f].at \in {"audit", "audited", "traces", "traced"} => flush[f].rows # {}
          /\ \A row \in flush[f].rows :
                /\ flush[f].at = "audited" => row.batch.number \in audited
                /\ flush[f].at = "traced" => row.batch.number \in traced

\* What is stored is part of what was ever stored.
StoreInv ==
    /\ DOMAIN batches \subseteq audited /\ DOMAIN spans \subseteq traced
    /\ audited \subseteq 1..cursor /\ traced \subseteq 1..cursor

\* The types of the clocks, of the metadata and of the counters.
ClockInv ==
    /\ now \in Nat /\ skew \in Nat /\ skew <= MaxSkew /\ cursor \in Nat /\ meta \in Metadata
    /\ events \in Nat /\ reported \in Nat

\* The types of the server's tables, and that it refused no batch as out of its chain.
HeadsInv == \A s \in DOMAIN heads : s \in Nat /\ heads[s] \in StreamHead
ServerInv ==
    /\ HeadsInv
    /\ \A b \in DOMAIN batches : batches[b] \in Nat
    /\ \A b \in DOMAIN spans : spans[b] \in Nat
    /\ rejections = {}

\* The inductive invariant.
Inv == ClockInv /\ ServerInv /\ OutboxInv(Flying, outbox, meta) /\ FlushInv /\ StoreInv
-----------------------------------------------------------------------------
(* The rows of an outbox *)

\* A set of natural numbers has a least element.
LEMMA Least ==
    ASSUME NEW S \in SUBSET Nat, S # {}
    PROVE  \E x \in S : \A y \in S : x <= y
<1>1. PICK x \in S : \A y \in S : <<y, x>> \notin OpToRel(<, Nat)
  BY NatLessThanWellFounded, WFMin
<1>2. \A y \in S : ~ (y < x)
  BY <1>1 DEF OpToRel
<1>3. ASSUME NEW y \in S PROVE x <= y
  BY <1>2
<1> QED
  BY <1>3

\* The sets of rows that are counted are finite.
LEMMA FiniteRows ==
    ASSUME NEW box, NEW n \in Nat, DOMAIN box \subseteq 1..n
    PROVE  /\ Pending(box) \subseteq 1..n /\ Pending(box) \subseteq Nat
           /\ IsFiniteSet(Pending(box)) /\ Cardinality(Pending(box)) \in Nat
           /\ \A c : IsFiniteSet(After(box, c)) /\ Cardinality(After(box, c)) \in Nat
<1>1. Pending(box) \subseteq 1..n
  BY DEF Pending
<1>2. IsFiniteSet(1..n)
  BY FS_Interval
<1>3. IsFiniteSet(Pending(box))
  BY <1>1, <1>2, FS_Subset
<1>4. ASSUME NEW c PROVE IsFiniteSet(After(box, c))
  BY <1>3, FS_Subset DEF After
<1> QED
  BY <1>1, <1>3, <1>4, FS_CardinalityType

\* What is delivered first is the front of the queue.
LEMMA FirstIsFront ==
    ASSUME NEW box, NEW n \in Nat, DOMAIN box \subseteq 1..n, Pending(box) # {}
    PROVE  Front(box, First(box))
<1>1. \E c \in Pending(box) : \A d \in Pending(box) : c <= d
  BY FiniteRows, Least
<1> QED
  BY <1>1 DEF First, Front

\* Pruning expires what is pending or leaves it alone.
LEMMA PrunedRows ==
    ASSUME NEW box, \A c \in DOMAIN box : box[c] \in Row
    PROVE  /\ DOMAIN PrunedBox(box) \subseteq DOMAIN box
           /\ Pending(PrunedBox(box)) = IF Overdue(box) THEN {} ELSE Pending(box)
           /\ \A c \in DOMAIN PrunedBox(box) :
                 \/ PrunedBox(box)[c] = box[c]
                 \/ PrunedBox(box)[c] = [box[c] EXCEPT !.status = "expired"]
           /\ ~Overdue(box) => \A c \in DOMAIN PrunedBox(box) : PrunedBox(box)[c] = box[c]
<1> DEFINE kept(b) == {c \in DOMAIN b : c \in Pending(b) \/ Receipt(b, c)}
<1>1. ASSUME NEW b
      PROVE  /\ DOMAIN WithoutOldReceipts(b) = kept(b)
             /\ \A c \in kept(b) : WithoutOldReceipts(b)[c] = b[c]
             /\ Pending(WithoutOldReceipts(b)) = Pending(b)
  <2>1. /\ DOMAIN WithoutOldReceipts(b) = kept(b)
        /\ \A c \in kept(b) : WithoutOldReceipts(b)[c] = b[c]
    BY DEF WithoutOldReceipts
  <2>2. Pending(b) \subseteq kept(b)
    BY DEF Pending
  <2> HIDE DEF kept
  <2>3. kept(b) \subseteq DOMAIN b
    BY DEF kept
  <2> QED
    BY <2>1, <2>2, <2>3 DEF Pending
<1>2. CASE Overdue(box)
  <2>1. /\ DOMAIN Expired(box) = DOMAIN box
        /\ \A c \in DOMAIN box : /\ Expired(box)[c].status # "pending"
                                 /\ \/ Expired(box)[c] = box[c]
                                    \/ Expired(box)[c] = [box[c] EXCEPT !.status = "expired"]
    BY DEF Expired, Abandoned, Pending, Row
  <2>2. Pending(Expired(box)) = {}
    BY <2>1 DEF Pending
  <2>3. PrunedBox(box) = WithoutOldReceipts(Expired(box)) /\ kept(Expired(box)) \subseteq DOMAIN box
    BY <1>2, <2>1 DEF PrunedBox
  <2> HIDE DEF kept
  <2> QED
    BY <1>1, <1>2, <2>1, <2>2, <2>3
<1>3. CASE ~Overdue(box)
  <2>1. PrunedBox(box) = WithoutOldReceipts(box) /\ kept(box) \subseteq DOMAIN box
    BY <1>3 DEF PrunedBox
  <2> HIDE DEF kept
  <2> QED
    BY <1>1, <1>3, <2>1
<1> QED
  BY <1>2, <1>3

\* Dropping and rotating change the fields that they name.
LEMMA DroppedMetadata ==
    ASSUME NEW m \in Metadata, NEW n \in Nat, NEW d, d = Dropped(m, n)
    PROVE  /\ d \in Metadata /\ d.dropped = m.dropped + n /\ d.unreported = m.unreported + n
           /\ d.stream = m.stream /\ d.sequence = m.sequence /\ d.previous = m.previous
           /\ d.last = m.last /\ d.sent = m.sent
<1>1. PICK x \in Nat, y \in Nat : x = m.dropped + n /\ y = m.unreported + n
  BY DEF Metadata
<1>2. d = [m EXCEPT !.dropped = x, !.unreported = y]
  BY <1>1 DEF Dropped
<1> QED
  BY <1>1, <1>2 DEF Metadata

LEMMA RotatedMetadata ==
    ASSUME NEW m \in Metadata, Clock \in Nat, NEW r, r = Rotated(m)
    PROVE  /\ r \in Metadata /\ r.stream = m.stream + 1 /\ r.sequence = 0
           /\ r.previous = NoBatch /\ r.last = Clock
           /\ r.dropped = m.dropped /\ r.unreported = m.unreported /\ r.sent = m.sent
<1>1. PICK x \in Nat, t \in Nat : x = m.stream + 1 /\ t = Clock
  BY DEF Metadata
<1>2. r = [m EXCEPT !.stream = x, !.sequence = 0, !.previous = NoBatch, !.last = t]
  BY <1>1 DEF Rotated
<1>3. /\ r.stream = x /\ r.sequence = 0 /\ r.previous = NoBatch /\ r.last = t
      /\ r.dropped = m.dropped /\ r.unreported = m.unreported /\ r.sent = m.sent
  BY <1>2 DEF Metadata
<1>4. [m EXCEPT !.stream = x, !.sequence = 0, !.previous = NoBatch, !.last = t] \in Metadata
  BY DEF Metadata
<1> QED
  BY <1>1, <1>2, <1>3, <1>4

\* A transaction prunes first.
LEMMA PruneKeeps ==
    ASSUME ClockInv, HeadsInv, NEW S, NEW box, NEW m, OutboxInv(S, box, m), m.last = meta.last
    PROVE  /\ OutboxInv(S, PrunedBox(box), PrunedMeta(box, m))
           /\ \A c \in Pending(PrunedBox(box)) :
                 PrunedBox(box)[c].batch.created >= Clock - OfflineDays
           /\ Pending(PrunedBox(box)) = {} /\ PrunedMeta(box, m).sequence # 0 =>
                 Clock - PrunedMeta(box, m).last < IdleDays
<1> DEFINE B == PrunedBox(box)
           M == PrunedMeta(box, m)
<1>0. BoxInv(box) /\ ChainInv(box, m) /\ CountInv(box, m) /\ MeetInv(box, m) /\ SentInv(S, box, m)
  BY DEF OutboxInv
<1>a. /\ cursor \in Nat /\ DOMAIN box \subseteq 1..cursor
      /\ \A c \in DOMAIN box : box[c] \in Row
      /\ m \in Metadata /\ Clock \in Nat /\ OfflineDays \in Nat /\ IdleDays \in Nat
  BY <1>0, OutboxAssumption, DaysAssumption DEF ClockInv, BoxInv, RowInv, ChainInv, Clock
<1>1. /\ cursor \in Nat /\ DOMAIN box \subseteq 1..cursor
      /\ \A c \in DOMAIN box : box[c] \in Row
      /\ m \in Metadata /\ Cardinality(Pending(box)) \in Nat
      /\ Clock \in Nat /\ OfflineDays \in Nat /\ IdleDays \in Nat
  BY <1>a, FiniteRows
<1>2. /\ DOMAIN B \subseteq DOMAIN box
      /\ Pending(B) = IF Overdue(box) THEN {} ELSE Pending(box)
      /\ \A c \in DOMAIN B :
            B[c] = box[c] \/ B[c] = [box[c] EXCEPT !.status = "expired"]
      /\ ~Overdue(box) => \A c \in DOMAIN B : B[c] = box[c]
  BY <1>1, PrunedRows
<1>3. \A c \in DOMAIN B : B[c].batch = box[c].batch
  BY <1>1, <1>2 DEF Row
<1>4. BoxInv(B)
  <2>1. ASSUME NEW c \in DOMAIN B PROVE RowInv(B, c)
    BY <1>0, <1>2, <1>3 DEF BoxInv, RowInv, Row
  <2> QED
    BY <1>0, <1>2, <2>1 DEF BoxInv
<1>5. ASSUME Overdue(box) \/ Idle(box)
      PROVE  /\ Pending(B) = {}
             /\ M \in Metadata /\ M.stream = m.stream + 1 /\ M.sequence = 0 /\ M.previous = NoBatch
             /\ M.sent = m.sent
             /\ M.dropped = m.dropped + Cardinality(Pending(box))
             /\ M.unreported = m.unreported + Cardinality(Pending(box))
  <2>1. CASE Overdue(box)
    <3>1. M = Rotated(Dropped(m, Cardinality(Pending(box))))
      BY <2>1, Zenon DEF PrunedMeta
    <3> DEFINE d == Dropped(m, Cardinality(Pending(box)))
    <3>2. /\ d \in Metadata /\ d.stream = m.stream /\ d.sent = m.sent
          /\ d.dropped = m.dropped + Cardinality(Pending(box))
          /\ d.unreported = m.unreported + Cardinality(Pending(box))
      BY <1>1, DroppedMetadata
    <3> HIDE DEF d
    <3>3. /\ Rotated(d) \in Metadata /\ Rotated(d).stream = d.stream + 1 /\ Rotated(d).sequence = 0
          /\ Rotated(d).previous = NoBatch /\ Rotated(d).sent = d.sent
          /\ Rotated(d).dropped = d.dropped /\ Rotated(d).unreported = d.unreported
      BY <1>1, <3>2, RotatedMetadata
    <3>4. M = Rotated(d)
      BY <3>1 DEF d
    <3> HIDE DEF M
    <3> QED
      BY <1>2, <2>1, <3>2, <3>3, <3>4
  <2>2. CASE ~Overdue(box) /\ Idle(box)
    <3>1. Pending(box) = {} /\ Cardinality(Pending(box)) = 0
      BY <2>2, FS_EmptySet DEF Idle
    <3>2. M = Rotated(m)
      BY <2>2, Zenon DEF PrunedMeta
    <3>3. m.dropped \in Nat /\ m.unreported \in Nat
      BY <1>1 DEF Metadata
    <3> QED
      BY <1>1, <1>2, <2>2, <3>1, <3>2, <3>3, RotatedMetadata
  <2> QED
    BY <1>5, <2>1, <2>2
<1>6. ASSUME ~Overdue(box), ~Idle(box)
      PROVE  M = m /\ Pending(B) = Pending(box) /\ \A c : After(B, c) = After(box, c)
  BY <1>2, <1>6 DEF PrunedMeta, After
<1> HIDE DEF B, M
<1>7. ChainInv(B, M)
  <2>1. CASE Overdue(box) \/ Idle(box)
    BY <1>5, <2>1 DEF ChainInv
  <2>2. CASE ~Overdue(box) /\ ~Idle(box)
    <3>1. M = m /\ Pending(B) = Pending(box) /\ \A c : After(B, c) = After(box, c)
      BY <1>6, <2>2
    <3>2. ASSUME NEW c \in Pending(B) PROVE LinkInv(B, M, c)
      <4>1. LinkInv(box, m, c) /\ B[c] = box[c] /\ \A d \in After(B, c) : B[d] = box[d]
        BY <1>0, <1>2, <2>2, <3>1 DEF ChainInv, After, Pending
      <4> QED
        BY <3>1, <4>1 DEF LinkInv
    <3> QED
      BY <1>0, <3>1, <3>2 DEF ChainInv
  <2> QED
    BY <2>1, <2>2
<1>8. CountInv(B, M)
  <2>1. CASE Overdue(box) \/ Idle(box)
    <3>1. Cardinality(Pending(B)) = 0
      BY <1>5, <2>1, FS_EmptySet
    <3> QED
      <4>1. /\ m.sent \in Nat /\ m.dropped \in Nat /\ m.unreported \in Nat
            /\ M.sent = m.sent /\ M.dropped = m.dropped + Cardinality(Pending(box))
            /\ M.unreported = m.unreported + Cardinality(Pending(box))
        BY <1>1, <1>5, <2>1 DEF Metadata
      <4> QED
        BY <1>0, <1>1, <3>1, <4>1 DEF CountInv, ClockInv
  <2>2. CASE ~Overdue(box) /\ ~Idle(box)
    BY <1>0, <1>6, <2>2 DEF CountInv
  <2> QED
    BY <2>1, <2>2
<1>9. MeetInv(B, M)
  <2>1. CASE Overdue(box) \/ Idle(box)
    <3>1. m.stream \in Nat /\ \A s \in DOMAIN heads : s \in Nat /\ s <= m.stream
      BY <1>0, <1>1 DEF MeetInv, Metadata, HeadsInv
    <3>2. \A s \in DOMAIN heads : s <= M.stream
      BY <1>5, <2>1, <3>1
    <3> QED
      BY <1>5, <2>1, <3>1, <3>2 DEF MeetInv
  <2>2. CASE ~Overdue(box) /\ ~Idle(box)
    <3>1. M = m /\ Pending(B) = Pending(box) /\ \A c \in Pending(box) : B[c] = box[c]
      BY <1>2, <1>6, <2>2 DEF Pending
    <3> QED
      BY <1>0, <3>1 DEF MeetInv, Front
  <2> QED
    BY <2>1, <2>2
<1>10. SentInv(S, B, M)
  <2> SUFFICES ASSUME NEW b \in S PROVE KnownInv(b, S, B, M)
    BY DEF SentInv
  <2>1. KnownInv(b, S, box, m) /\ b.stream \in Nat /\ m.stream \in Nat
    BY <1>0, <1>1 DEF SentInv, KnownInv, Batch, Metadata
  <2>2. b.number \in DOMAIN B => B[b.number].batch = b
    BY <1>2, <1>3, <2>1 DEF KnownInv
  <2>3. CASE Overdue(box) \/ Idle(box)
    <3>1. Pending(B) = {} /\ M.stream = m.stream + 1
      BY <1>5, <2>3
    <3>2. b.stream <= M.stream /\ b.stream # M.stream
      BY <2>1, <3>1 DEF KnownInv
    <3> QED
      BY <2>1, <2>2, <3>1, <3>2 DEF KnownInv
  <2>4. CASE ~Overdue(box) /\ ~Idle(box)
    BY <1>6, <2>1, <2>2, <2>4 DEF KnownInv
  <2> QED
    BY <2>3, <2>4
<1>11. \A c \in Pending(B) : B[c].batch.created >= Clock - OfflineDays
  <2> SUFFICES ASSUME NEW c \in Pending(B) PROVE B[c].batch.created >= Clock - OfflineDays
    OBVIOUS
  <2>1. ~Overdue(box) /\ c \in Pending(box) /\ c \in DOMAIN B /\ c \in DOMAIN box
    BY <1>2 DEF Pending
  <2>2. B[c].batch.created \in Nat /\ B[c].batch = box[c].batch
    BY <1>1, <1>3, <2>1 DEF Row, Batch
  <2> QED
    BY <1>1, <2>1, <2>2 DEF Overdue
<1>12. ASSUME Pending(B) = {}, M.sequence # 0 PROVE Clock - M.last < IdleDays
  <2>1. ~Overdue(box) /\ ~Idle(box)
    BY <1>5, <1>12
  <2>2. M = m /\ Pending(box) = {}
    BY <1>6, <1>12, <2>1
  <2>3. m.last # Never /\ m.last \in Nat
    BY <1>0, <1>1, <1>12, <2>2 DEF ChainInv, Metadata
  <2> QED
    BY <1>1, <2>1, <2>2, <2>3 DEF Idle
<1> QED
  BY <1>4, <1>7, <1>8, <1>9, <1>10, <1>11, <1>12 DEF OutboxInv, B, M

-----------------------------------------------------------------------------
(* What transactions do to the outbox *)

\* A batch that is queued extends the chain.
LEMMA QueueKeeps ==
    ASSUME ClockInv, HeadsInv, StoreInv, NEW S, NEW box, NEW m, OutboxInv(S, box, m),
           \A c \in Pending(box) : box[c].batch.created >= Clock - OfflineDays,
           Pending(box) = {} /\ m.sequence # 0 => Clock - m.last < IdleDays,
           NEW dropped \in Nat, dropped <= m.unreported,
           NEW duration \in Nat, Queue(box, m, dropped, duration),
           Flying' \subseteq S, UNCHANGED <<now, storeVars, skew, audited, traced>>
    PROVE  OutboxInv(Flying, outbox, meta)' /\ StoreInv'
<1>0. BoxInv(box) /\ ChainInv(box, m) /\ CountInv(box, m) /\ MeetInv(box, m) /\ SentInv(S, box, m)
  BY DEF OutboxInv
<1>a. /\ cursor \in Nat /\ Clock \in Nat /\ m \in Metadata /\ DOMAIN box \subseteq 1..cursor
      /\ OfflineDays \in Nat /\ IdleDays \in Nat /\ MaxSkew \in Nat /\ RetentionDays \in Nat
  BY <1>0, OutboxAssumption, DaysAssumption DEF ClockInv, BoxInv, ChainInv, Clock
<1>b. PICK n \in Nat : n = cursor + 1
  BY <1>a
<1>c. n \notin DOMAIN box /\ n \notin audited /\ n \notin traced
  BY <1>a, <1>b DEF StoreInv
<1>d. cursor' = n /\ UNCHANGED <<heads, batches, spans, audited, traced, now>>
  BY <1>b DEF Queue, storeVars
<1>1. /\ cursor \in Nat /\ Clock \in Nat /\ m \in Metadata /\ DOMAIN box \subseteq 1..cursor
      /\ n \in Nat /\ n = cursor + 1
      /\ n \notin DOMAIN box /\ n \notin audited /\ n \notin traced
      /\ cursor' = n /\ UNCHANGED <<heads, batches, spans, audited, traced, now>>
      /\ OfflineDays \in Nat /\ IdleDays \in Nat /\ MaxSkew \in Nat /\ RetentionDays \in Nat
  BY <1>a, <1>b, <1>c, <1>d
<1>e. PICK b : b = NextBatch(m, dropped, duration)
  OBVIOUS
<1>2. /\ meta' \in Metadata /\ meta'.stream = m.stream /\ meta'.sequence = m.sequence + 1
      /\ meta'.previous = n /\ meta'.last = Clock
      /\ meta'.dropped = m.dropped /\ meta'.unreported = m.unreported - dropped
      /\ meta'.sent = m.sent
  <2>1. PICK x \in Nat, y \in Nat, t \in Nat :
            x = m.sequence + 1 /\ y = m.unreported - dropped /\ t = Clock
    <3>1. m.sequence + 1 \in Nat /\ m.unreported - dropped \in Nat
      BY <1>1 DEF Metadata
    <3> QED
      BY <1>1, <3>1
  <2>2. meta' = [m EXCEPT !.sequence = x, !.previous = n, !.last = t, !.unreported = y]
    BY <1>1, <2>1 DEF Queue
  <2>3. /\ meta'.stream = m.stream /\ meta'.sequence = x /\ meta'.previous = n /\ meta'.last = t
        /\ meta'.dropped = m.dropped /\ meta'.unreported = y /\ meta'.sent = m.sent
    BY <1>1, <2>2 DEF Metadata
  <2>4. [m EXCEPT !.sequence = x, !.previous = n, !.last = t, !.unreported = y] \in Metadata
    BY <1>1 DEF Metadata
  <2> QED
    BY <2>1, <2>2, <2>3, <2>4
<1>3. /\ b \in Batch /\ b.number = n /\ b.stream = m.stream /\ b.sequence = m.sequence + 1
      /\ b.previous = m.previous /\ b.created = Clock
  BY <1>1, <1>e DEF NextBatch, Batch, Metadata
<1>4. /\ DOMAIN outbox' = DOMAIN box \cup {n}
      /\ \A c \in DOMAIN box : outbox'[c] = box[c]
      /\ outbox'[n] = [batch |-> b, audit_sent |-> FALSE, traces_sent |-> FALSE,
                       status |-> "pending"]
  BY <1>1, <1>e DEF Queue, With
<1>5. outbox'[n] \in Row /\ outbox'[n].batch = b /\ outbox'[n].status = "pending"
      /\ ~outbox'[n].audit_sent /\ ~outbox'[n].traces_sent
  BY <1>3, <1>4 DEF Row
<1>6. Pending(outbox') = Pending(box) \cup {n} /\ n \notin Pending(box)
  BY <1>1, <1>4, <1>5 DEF Pending
<1>7. /\ IsFiniteSet(Pending(box)) /\ Cardinality(Pending(box)) \in Nat
      /\ Pending(box) \subseteq 1..cursor
      /\ \A c : IsFiniteSet(After(box, c)) /\ Cardinality(After(box, c)) \in Nat
  BY <1>1, FiniteRows
<1>8. BoxInv(outbox)'
  <2>1. DOMAIN outbox' \subseteq 1..cursor'
    BY <1>1, <1>4
  <2>2. ASSUME NEW c \in DOMAIN box PROVE RowInv(outbox, c)'
    <3>1. RowInv(box, c) /\ outbox'[c] = box[c]
      BY <1>0, <1>4 DEF BoxInv
    <3> QED
      BY <1>1, <3>1 DEF RowInv, Stored, Remembered, TooOld
  <2>3. RowInv(outbox, n)'
    BY <1>1, <1>3, <1>5 DEF RowInv, Stored
  <2> QED
    BY <1>4, <2>1, <2>2, <2>3 DEF BoxInv
<1>9. ChainInv(outbox, meta)'
  <2>1. After(outbox', n) = {} /\ Cardinality(After(outbox', n)) = 0
    <3>1. After(outbox', n) = {}
      BY <1>1, <1>6, <1>7 DEF After
    <3> QED
      BY <3>1, FS_EmptySet
  <2>2. LinkInv(outbox, meta, n)'
    <3>1. m.sequence + 1 + 0 = m.sequence + 1
      BY <1>1 DEF Metadata
    <3> QED
      BY <1>2, <1>3, <1>5, <2>1, <3>1 DEF LinkInv, After
  <2>3. ASSUME NEW c \in Pending(box) PROVE LinkInv(outbox, meta, c)'
    <3>1. LinkInv(box, m, c) /\ c \in DOMAIN box /\ outbox'[c] = box[c] /\ c \in 1..cursor
      BY <1>0, <1>4, <1>7 DEF ChainInv, Pending
    <3>2. box[c].batch.sequence \in Nat /\ box[c].batch.created \in Nat /\ m.sequence \in Nat
      BY <1>0, <1>1, <3>1 DEF BoxInv, RowInv, Row, Batch, Metadata
    <3>3. After(outbox', c) = After(box, c) \cup {n} /\ n \notin After(box, c)
      BY <1>1, <1>6, <3>1 DEF After
    <3>4. Cardinality(After(outbox', c)) = Cardinality(After(box, c)) + 1
      BY <1>7, <3>3, FS_AddElement
    <3>5. box[c].batch.sequence + Cardinality(After(outbox', c)) = meta'.sequence
      BY <1>2, <1>7, <3>1, <3>2, <3>4 DEF LinkInv
    <3>6. ASSUME NEW d \in After(outbox', c)
          PROVE  /\ outbox'[d].batch.created <= box[c].batch.created + OfflineDays
                 /\ (\A e \in After(outbox', c) : d <= e) => outbox'[d].batch.previous = c
      <4>1. CASE d = n
        <5>1. Clock <= box[c].batch.created + OfflineDays
          BY <1>1, <3>2
        <5>2. (\A e \in After(outbox', c) : d <= e) => After(box, c) = {}
          <6>1. \A e \in After(box, c) : e \in 1..cursor
            BY <1>7 DEF After
          <6>2. ASSUME NEW e \in After(box, c), d <= e PROVE FALSE
            BY <1>1, <4>1, <6>1, <6>2
          <6> QED
            BY <3>3, <6>2
        <5> QED
          BY <1>3, <1>5, <3>1, <4>1, <5>1, <5>2 DEF LinkInv
      <4>2. CASE d \in After(box, c)
        <5>1. outbox'[d] = box[d]
          BY <1>4, <4>2 DEF After, Pending
        <5> QED
          BY <3>1, <3>3, <4>2, <5>1 DEF LinkInv
      <4> QED
        BY <3>3, <3>6, <4>1, <4>2
    <3> QED
      BY <1>2, <3>1, <3>3, <3>5, <3>6 DEF LinkInv, After
  <2>4. meta'.sequence # 0 /\ meta'.previous # NoBatch /\ meta'.last # Never
    BY <1>1, <1>2, NoBatchAssumption, OutboxAssumption DEF Metadata
  <2> QED
    BY <1>2, <1>6, <2>2, <2>3, <2>4 DEF ChainInv
<1>10. CountInv(outbox, meta)'
  <2>1. Cardinality(Pending(outbox')) = Cardinality(Pending(box)) + 1
    BY <1>6, <1>7, FS_AddElement
  <2>2. events' = events + 1 /\ reported' = reported + dropped
    BY DEF Queue
  <2>3. /\ events \in Nat /\ reported \in Nat
        /\ m.sent \in Nat /\ m.dropped \in Nat /\ m.unreported \in Nat
    BY <1>1 DEF ClockInv, Metadata
  <2>4. events = m.sent + Cardinality(Pending(box)) + m.dropped /\ m.dropped = m.unreported + reported
    BY <1>0 DEF CountInv
  <2>5. /\ events' = meta'.sent + Cardinality(Pending(outbox')) + meta'.dropped
        /\ meta'.dropped = meta'.unreported + reported'
    BY <1>2, <1>7, <2>1, <2>2, <2>3, <2>4
  <2> QED
    BY <2>5 DEF CountInv, Pending
<1>11. MeetInv(outbox, meta)'
  <2>1. ASSUME NEW c \in Pending(box)
        PROVE  /\ Front(box, c) <=> Front(outbox, c)'
               /\ ~Front(outbox, n)'
               /\ outbox'[c] = box[c]
    BY <1>1, <1>4, <1>6, <1>7 DEF Front, Pending
  <2>2. CASE Pending(box) = {}
    <3>1. Fits(b)
      <4>1. CASE m.sequence = 0
        BY <1>0, <1>3, <2>2, <4>1 DEF MeetInv, ChainInv, Fits
      <4>2. CASE m.sequence # 0
        <5>1. HeadIs(m.stream, m.sequence, m.previous, m.last) /\ m.last # Never
          BY <1>0, <2>2, <4>2 DEF MeetInv, ChainInv
        <5>2. m.last \in Nat /\ Clock < m.last + IdleDays
          BY <1>1, <2>2, <4>2, <5>1 DEF Metadata
        <5>3. CASE m.stream \in DOMAIN heads
          <6>a. heads[m.stream].received \in Nat
            BY <5>3 DEF HeadsInv, StreamHead
          <6>1. heads[m.stream].received + MaxSkew >= m.last /\ heads[m.stream].received \in Nat
            BY <5>1, <5>3, <6>a DEF HeadIs
          <6>2. heads[m.stream].received + RetentionDays >= Clock + OfflineDays
            BY <1>1, <5>2, <6>1, MarginAssumption
          <6> QED
            BY <1>3, <5>1, <5>3, <6>2 DEF HeadIs, Fits
        <5>4. CASE m.stream \notin DOMAIN heads
          <6>1. m.last + RetentionDays < now + MaxSkew /\ now \in Nat
            BY <5>1, <5>4 DEF HeadIs, ClockInv
          <6>2. Clock + OfflineDays < now
            BY <1>1, <5>2, <6>1, MarginAssumption
          <6> QED
            BY <1>3, <6>2 DEF Fits, TooOld
        <5> QED
          BY <5>3, <5>4
      <4> QED
        BY <4>1, <4>2
    <3>2. Fits(outbox[n].batch)'
      BY <1>1, <1>5, <3>1 DEF Fits, TooOld
    <3>3. Pending(outbox') = {n} /\ Front(outbox, n)'
      BY <1>1, <1>6, <2>2 DEF Front, Pending
    <3> QED
      BY <1>0, <1>1, <1>2, <3>2, <3>3 DEF MeetInv, Pending
  <2>3. CASE Pending(box) # {}
    <3>1. ~Front(outbox, n)'
      BY <2>1, <2>3
    <3>2. \A s \in DOMAIN heads' : s <= meta'.stream
      BY <1>0, <1>1, <1>2 DEF MeetInv
    <3>3. \A c \in Pending(outbox') : c \in audited' => Front(outbox, c)'
      BY <1>0, <1>1, <1>6, <2>1 DEF MeetInv
    <3>4. ASSUME NEW c \in Pending(outbox'), Front(outbox, c)'
          PROVE  IF c \in audited'
                 THEN HeadIs(meta.stream, outbox[c].batch.sequence, c, outbox[c].batch.created)'
                 ELSE Fits(outbox[c].batch)'
      <4>1. c \in Pending(box) /\ Front(box, c) /\ outbox'[c] = box[c]
        BY <1>6, <2>1, <3>1, <3>4
      <4> QED
        BY <1>0, <1>1, <1>2, <4>1 DEF MeetInv, HeadIs, Fits, TooOld
    <3> QED
      BY <1>6, <3>2, <3>3, <3>4 DEF MeetInv, Pending
  <2> QED
    BY <2>2, <2>3
<1>12. SentInv(Flying, outbox, meta)'
  <2> SUFFICES ASSUME NEW k \in Flying' PROVE KnownInv(k, Flying, outbox, meta)'
    BY DEF SentInv
  <2>1. KnownInv(k, S, box, m)
    BY <1>0 DEF SentInv
  <2>2. k.number \in 1..cursor /\ k.number # n /\ k.number \in 1..cursor'
    BY <1>1, <2>1 DEF KnownInv
  <2>3. k.stream = meta'.stream => \A c \in Pending(outbox') : k.number <= c
    BY <1>1, <1>2, <1>6, <2>1, <2>2 DEF KnownInv
  <2>4. k.number \in DOMAIN outbox' => outbox'[k.number].batch = k
    BY <1>4, <2>1, <2>2 DEF KnownInv
  <2>5. Stored(k)' /\ (k.number \notin audited' => Fits(k)')
    BY <1>1, <2>1 DEF KnownInv, Stored, Remembered, TooOld, Fits
  <2>6. k \in Batch /\ k.stream <= meta'.stream /\ \A d \in Flying' : d.number = k.number => d = k
    BY <1>2, <2>1 DEF KnownInv
  <2>7. k.number \notin audited' =>
            /\ k.stream = meta'.stream => k.number \in Pending(outbox')
            /\ \A d \in Flying' : d.number \notin audited' /\ d.stream = k.stream => d = k
    BY <1>1, <1>2, <1>6, <2>1 DEF KnownInv
  <2> QED
    BY <2>2, <2>3, <2>4, <2>5, <2>6, <2>7 DEF KnownInv, Pending
<1>13. StoreInv'
  BY <1>1 DEF StoreInv
<1> QED
  BY <1>8, <1>9, <1>10, <1>11, <1>12, <1>13 DEF OutboxInv

\* The place of a row in the chain depends on the batches and on what follows it.
LEMMA SameLink ==
    ASSUME NEW old, NEW box, NEW m, NEW c, LinkInv(old, m, c), box[c].batch = old[c].batch,
           After(box, c) = After(old, c),
           \A e \in After(old, c) : box[e].batch = old[e].batch
    PROVE  LinkInv(box, m, c)
BY DEF LinkInv

\* What is left of the outbox and of the metadata, before they are pruned.
AckBox(c, row) == [outbox EXCEPT ![c] = IF Complete(row) THEN Delivered(row) ELSE row]
AckMeta(row) == IF Complete(row) THEN [meta EXCEPT !.sent = @ + 1] ELSE meta

\* An acknowledgement of one transport marks the row; that of the second one
\* makes the next row the front of the queue.
LEMMA AcknowledgedRowKeeps ==
    ASSUME ClockInv, HeadsInv, NEW S, OutboxInv(S, outbox, meta),
           NEW b \in S, b.number \in Pending(outbox), NEW transport \in {"audit", "traces"},
           IF transport = "audit" THEN b.number \in audited ELSE b.number \in traced,
           NEW row, row = Sent(outbox[b.number], transport),
           NEW box, box = AckBox(b.number, row), NEW m, m = AckMeta(row)
    PROVE  OutboxInv(S, box, m) /\ m.last = meta.last
<1>0. /\ BoxInv(outbox) /\ ChainInv(outbox, meta) /\ CountInv(outbox, meta)
      /\ MeetInv(outbox, meta) /\ SentInv(S, outbox, meta)
  BY DEF OutboxInv
<1>1. PICK c : c = b.number
  OBVIOUS
<1>2. /\ c \in DOMAIN outbox /\ c \in Pending(outbox) /\ outbox[c] \in Row /\ RowInv(outbox, c)
      /\ outbox[c].batch = b /\ b \in Batch /\ KnownInv(b, S, outbox, meta)
      /\ cursor \in Nat /\ DOMAIN outbox \subseteq 1..cursor /\ meta \in Metadata
      /\ outbox[c].status = "pending"
  BY <1>0, <1>1 DEF Pending, BoxInv, RowInv, SentInv, KnownInv, ClockInv
<1>3. /\ row \in Row /\ row.batch = b /\ row.status = "pending"
      /\ row.audit_sent => c \in audited
      /\ row.traces_sent => c \in traced
  <2>1. row \in Row /\ row.batch = b /\ row.status = "pending"
    BY <1>1, <1>2 DEF Sent, Row
  <2>2. /\ row.audit_sent => c \in audited
        /\ row.traces_sent => c \in traced
    BY <1>1, <1>2 DEF Sent, Row, RowInv
  <2> QED
    BY <2>1, <2>2
<1>4. Front(outbox, c)
  BY <1>0, <1>1, <1>2 DEF ChainInv, LinkInv, KnownInv, Front
<1>5. /\ IsFiniteSet(Pending(outbox)) /\ Cardinality(Pending(outbox)) \in Nat
      /\ Pending(outbox) \subseteq 1..cursor
      /\ \A d : IsFiniteSet(After(outbox, d)) /\ Cardinality(After(outbox, d)) \in Nat
  BY <1>2, FiniteRows
<1>6. /\ DOMAIN box = DOMAIN outbox /\ \A d \in DOMAIN outbox : d # c => box[d] = outbox[d]
      /\ box[c] = IF Complete(row) THEN Delivered(row) ELSE row
  BY <1>1, <1>2 DEF AckBox
<1>7. CASE ~Complete(row)
  <2>1. m = meta /\ box[c] = row /\ \A d \in DOMAIN box : box[d].batch = outbox[d].batch
    BY <1>1, <1>2, <1>3, <1>6, <1>7 DEF AckMeta
  <2>2. Pending(box) = Pending(outbox) /\ \A d : After(box, d) = After(outbox, d)
    BY <1>2, <1>3, <1>6, <2>1 DEF Pending, After
  <2>3. BoxInv(box)
    <3>1. ASSUME NEW d \in DOMAIN box, d # c PROVE RowInv(box, d)
      BY <1>0, <1>6, <3>1 DEF BoxInv, RowInv
    <3>2. RowInv(box, c)
      BY <1>2, <1>3, <2>1 DEF RowInv
    <3> QED
      BY <1>2, <1>6, <3>1, <3>2 DEF BoxInv
  <2>4. ChainInv(box, m)
    <3>1. ASSUME NEW d \in Pending(box) PROVE LinkInv(box, m, d)
      <4>1. LinkInv(outbox, meta, d) /\ d \in DOMAIN box /\ After(outbox, d) \subseteq DOMAIN box
        BY <1>0, <1>6, <2>2 DEF ChainInv, After, Pending
      <4>2. /\ box[d].batch = outbox[d].batch /\ After(box, d) = After(outbox, d)
            /\ \A e \in After(outbox, d) : box[e].batch = outbox[e].batch
        BY <2>1, <2>2, <4>1
      <4>3. m = meta
        BY <2>1
      <4> QED
        BY <4>1, <4>2, <4>3, SameLink
    <3> QED
      BY <1>0, <2>1, <3>1 DEF ChainInv
  <2>5. MeetInv(box, m)
    <3>1. \A d \in Pending(box) : d \in DOMAIN box
      BY DEF Pending
    <3> QED
      BY <1>0, <2>1, <2>2, <3>1 DEF MeetInv, Front
  <2>6. SentInv(S, box, m)
    BY <1>0, <1>6, <2>1, <2>2 DEF SentInv, KnownInv
  <2> QED
    BY <1>0, <2>1, <2>2, <2>3, <2>4, <2>5, <2>6 DEF OutboxInv, CountInv
<1>8. CASE Complete(row)
  <2>1. row.audit_sent /\ row.traces_sent /\ c \in audited /\ c \in traced
    BY <1>3, <1>8 DEF Complete
  <2>2. /\ box[c] \in Row /\ box[c].batch = b /\ box[c].status = "delivered"
        /\ \A d \in DOMAIN box : box[d].batch = outbox[d].batch
    BY <1>1, <1>2, <1>3, <1>6, <1>8 DEF Delivered, Row
  <2>3. Pending(box) = Pending(outbox) \ {c}
    BY <1>2, <1>6, <2>2 DEF Pending
  <2>4. /\ m \in Metadata /\ m.stream = meta.stream /\ m.sequence = meta.sequence
        /\ m.previous = meta.previous /\ m.last = meta.last /\ m.dropped = meta.dropped
        /\ m.unreported = meta.unreported /\ m.sent = meta.sent + 1
    <3>1. PICK x \in Nat : x = meta.sent + 1
      BY <1>2 DEF Metadata
    <3>2. m = [meta EXCEPT !.sent = x]
      BY <1>8, <3>1 DEF AckMeta
    <3> QED
      BY <1>2, <3>1, <3>2 DEF Metadata
  <2>5. ASSUME NEW d \in Pending(box)
        PROVE  /\ d \in Pending(outbox) /\ d # c /\ box[d] = outbox[d] /\ c < d
               /\ d \in DOMAIN box /\ After(box, d) = After(outbox, d)
    <3>1. d \in Pending(outbox) /\ d # c /\ d \in DOMAIN outbox
      BY <2>3 DEF Pending
    <3>2. c \in 1..cursor /\ d \in 1..cursor /\ c <= d
      BY <1>2, <1>4, <1>5, <3>1 DEF Front
    <3>3. c < d /\ ~(c > d)
      BY <1>2, <3>1, <3>2
    <3>4. After(box, d) = After(outbox, d)
      BY <2>3, <3>3 DEF After
    <3> QED
      BY <1>6, <3>1, <3>3, <3>4
  <2>6. BoxInv(box)
    <3>1. ASSUME NEW d \in DOMAIN box, d # c PROVE RowInv(box, d)
      BY <1>0, <1>6, <3>1 DEF BoxInv, RowInv
    <3>2. RowInv(box, c)
      BY <1>2, <2>1, <2>2 DEF RowInv
    <3> QED
      BY <1>2, <1>6, <3>1, <3>2 DEF BoxInv
  <2>7. ChainInv(box, m)
    <3>1. ASSUME NEW d \in Pending(box) PROVE LinkInv(box, m, d)
      <4>1. /\ LinkInv(outbox, meta, d) /\ box[d] = outbox[d] /\ After(box, d) = After(outbox, d)
            /\ \A e \in After(outbox, d) : box[e].batch = outbox[e].batch
        BY <1>0, <1>6, <2>2, <2>5 DEF ChainInv, After, Pending
      <4> QED
        BY <2>4, <4>1 DEF LinkInv
    <3> QED
      BY <1>0, <2>4, <3>1 DEF ChainInv
  <2>8. CountInv(box, m)
    <3>1. Cardinality(Pending(box)) = Cardinality(Pending(outbox)) - 1
      <4>1. Cardinality(Pending(outbox) \ {c}) = Cardinality(Pending(outbox)) - 1
        BY <1>2, <1>5, FS_RemoveElement, Zenon
      <4> QED
        BY <2>3, <4>1
    <3>2. meta.sent \in Nat /\ meta.dropped \in Nat
      BY <1>2 DEF Metadata
    <3> QED
      BY <1>0, <1>5, <2>4, <3>1, <3>2 DEF CountInv
  <2>9. MeetInv(box, m)
    <3>1. /\ HeadIs(meta.stream, b.sequence, c, b.created) /\ LinkInv(outbox, meta, c)
          /\ b.sequence \in Nat /\ b.created \in Nat /\ meta.sequence \in Nat
      BY <1>0, <1>2, <1>4, <2>1 DEF MeetInv, ChainInv, Batch, Metadata
    <3>2. CASE Pending(box) = {}
      <4>1. After(outbox, c) = {} /\ Cardinality(After(outbox, c)) = 0
        <5>1. After(outbox, c) = {}
          <6>1. Pending(outbox) = {c}
            BY <1>2, <2>3, <3>2
          <6>2. ~(c > c)
            BY <1>2, <1>5
          <6> QED
            BY <6>1, <6>2 DEF After
        <5> QED
          BY <5>1, FS_EmptySet
      <4>2. meta.previous = c /\ meta.last = b.created /\ meta.sequence = b.sequence
        BY <1>2, <3>1, <4>1 DEF LinkInv
      <4>3. meta.sequence # 0
        BY <1>0, <1>2, <1>5, <4>2, NoBatchAssumption DEF ChainInv
      <4> QED
        BY <1>0, <2>4, <3>1, <3>2, <4>2, <4>3 DEF MeetInv
    <3>3. CASE Pending(box) # {}
      <4>1. \A d \in Pending(box) : d \notin audited
        <5>1. ASSUME NEW d \in Pending(box), d \in audited PROVE FALSE
          <6>1. d \in Pending(outbox) /\ c < d /\ c \in 1..cursor /\ d \in 1..cursor
            BY <1>2, <1>5, <2>5
          <6>2. d <= c
            BY <1>0, <1>2, <5>1, <6>1 DEF MeetInv, Front
          <6> QED
            BY <6>1, <6>2
        <5> QED
          BY <5>1
      <4>2. ASSUME NEW d \in Pending(box), Front(box, d) PROVE Fits(box[d].batch)
        <5>1. /\ d \in Pending(outbox) /\ box[d] = outbox[d] /\ c < d
              /\ c \in 1..cursor /\ d \in 1..cursor
          BY <1>2, <1>5, <2>5
        <5>2. After(outbox, c) = After(outbox, d) \cup {d} /\ d \notin After(outbox, d)
          <6>1. \A e \in Pending(outbox) : e > c <=> (e = d \/ e > d)
            <7>1. ASSUME NEW e \in Pending(outbox), e > c PROVE e = d \/ e > d
              <8>1. e \in 1..cursor /\ e # c
                BY <1>5, <5>1, <7>1
              <8>2. d <= e
                BY <2>3, <4>2, <8>1 DEF Front
              <8> QED
                BY <5>1, <8>1, <8>2
            <7>2. ASSUME NEW e \in Pending(outbox), e = d \/ e > d PROVE e > c
              BY <1>5, <5>1, <7>2
            <7> QED
              BY <7>1, <7>2
          <6>2. ~(d > d)
            BY <1>2, <5>1
          <6> QED
            BY <5>1, <6>1, <6>2 DEF After
        <5>3. Cardinality(After(outbox, c)) = Cardinality(After(outbox, d)) + 1
          BY <1>5, <5>2, FS_AddElement
        <5>4. /\ LinkInv(outbox, meta, d) /\ outbox[d].batch \in Batch
              /\ outbox[d].batch.sequence \in Nat /\ outbox[d].batch.created \in Nat
          BY <1>0, <5>1 DEF ChainInv, BoxInv, RowInv, Row, Batch, Pending
        <5>5. /\ outbox[d].batch.sequence = b.sequence + 1
              /\ outbox[d].batch.stream = meta.stream
          BY <1>2, <1>5, <3>1, <5>3, <5>4 DEF LinkInv
        <5>6. /\ outbox[d].batch.previous = c
              /\ outbox[d].batch.created <= b.created + OfflineDays
          <6>1. d \in After(outbox, c) /\ \A e \in After(outbox, c) : d <= e
            BY <1>5, <5>1, <5>2 DEF After
          <6> QED
            BY <1>2, <3>1, <6>1 DEF LinkInv
        <5>7. CASE meta.stream \in DOMAIN heads
          <6>1. /\ heads[meta.stream].received \in Nat
                /\ heads[meta.stream].sequence = b.sequence /\ heads[meta.stream].batch = c
                /\ heads[meta.stream].received + MaxSkew >= b.created
            BY <3>1, <5>7 DEF HeadIs, HeadsInv, StreamHead
          <6>2. heads[meta.stream].received + RetentionDays >= outbox[d].batch.created + OfflineDays
            BY <3>1, <5>4, <5>6, <6>1, MarginAssumption, DaysAssumption
          <6> QED
            BY <5>1, <5>5, <5>6, <5>7, <6>1, <6>2 DEF Fits
        <5>8. CASE meta.stream \notin DOMAIN heads
          <6>1. b.created + RetentionDays < now + MaxSkew /\ now \in Nat
            BY <3>1, <5>8 DEF HeadIs, ClockInv
          <6>2. outbox[d].batch.created + OfflineDays < now
            BY <3>1, <5>4, <5>6, <6>1, MarginAssumption, DaysAssumption
          <6> QED
            BY <5>1, <6>2 DEF Fits, TooOld
        <5> QED
          BY <5>7, <5>8
      <4> QED
        BY <1>0, <2>4, <3>3, <4>1, <4>2 DEF MeetInv
    <3> QED
      BY <3>2, <3>3
  <2>10. SentInv(S, box, m)
    <3> SUFFICES ASSUME NEW k \in S PROVE KnownInv(k, S, box, m)
      BY DEF SentInv
    <3>1. KnownInv(k, S, outbox, meta)
      BY <1>0 DEF SentInv
    <3>2. k.number \notin audited /\ k.stream = m.stream => k.number \in Pending(box)
      BY <2>1, <2>3, <2>4, <3>1 DEF KnownInv
    <3>3. k.stream = m.stream => \A d \in Pending(box) : k.number <= d
      BY <2>3, <2>4, <3>1 DEF KnownInv
    <3>4. k.number \in DOMAIN box => box[k.number].batch = k
      BY <1>6, <2>2, <3>1 DEF KnownInv
    <3> QED
      BY <2>4, <3>1, <3>2, <3>3, <3>4 DEF KnownInv
  <2> QED
    BY <2>4, <2>6, <2>7, <2>8, <2>9, <2>10 DEF OutboxInv
<1> QED
  BY <1>7, <1>8

\* A flush takes up the front of the queue.
LEMMA FrontTaken ==
    ASSUME ClockInv, NEW S, NEW box, NEW m, OutboxInv(S, box, m), NEW c, Front(box, c)
    PROVE  OutboxInv(S \cup {box[c].batch}, box, m)
<1>0. BoxInv(box) /\ ChainInv(box, m) /\ CountInv(box, m) /\ MeetInv(box, m) /\ SentInv(S, box, m)
  BY DEF OutboxInv
<1>1. PICK b : b = box[c].batch
  OBVIOUS
<1>2. /\ c \in Pending(box) /\ c \in DOMAIN box /\ RowInv(box, c) /\ LinkInv(box, m, c)
      /\ b \in Batch /\ b.number = c /\ b.stream = m.stream /\ Stored(b)
      /\ m.stream \in Nat /\ c \in 1..cursor
  BY <1>0, <1>1 DEF Front, Pending, BoxInv, ChainInv, RowInv, LinkInv, Row, Metadata
<1>3. ASSUME NEW k \in S, k.number = c PROVE k = b
  BY <1>0, <1>1, <1>2, <1>3 DEF SentInv, KnownInv
<1>4. ASSUME NEW k \in S, k.number \notin audited, k.stream = b.stream PROVE k = b
  <2>1. k.number \in Pending(box) /\ \A d \in Pending(box) : k.number <= d
    BY <1>0, <1>2, <1>4 DEF SentInv, KnownInv
  <2>2. k.number <= c /\ c <= k.number /\ k.number \in 1..cursor
    BY <1>0, <1>2, <2>1 DEF Front, SentInv, KnownInv
  <2> QED
    BY <1>2, <1>3, <2>2 DEF ClockInv
<1>5. KnownInv(b, S \cup {b}, box, m)
  <2>1. b.number \notin audited => Fits(b)
    BY <1>0, <1>1, <1>2 DEF MeetInv
  <2> QED
    BY <1>1, <1>2, <1>3, <1>4, <2>1 DEF KnownInv, Front
<1>6. ASSUME NEW k \in S PROVE KnownInv(k, S \cup {b}, box, m)
  <2>1. KnownInv(k, S, box, m)
    BY <1>0 DEF SentInv
  <2>2. b.number = k.number => b = k
    BY <1>2, <1>3
  <2>3. k.number \notin audited /\ b.number \notin audited /\ b.stream = k.stream => b = k
    BY <1>4
  <2> QED
    BY <2>1, <2>2, <2>3 DEF KnownInv
<1> QED
  BY <1>0, <1>1, <1>5, <1>6 DEF OutboxInv, SentInv


-----------------------------------------------------------------------------
(* The server *)

\* What was received so lately that it is retained is kept, and a head that is not
\* kept was received too long ago.
Kept(old, new) == \A n \in DOMAIN old : Retained(old[n]) => n \in DOMAIN new /\ new[n] = old[n]
SameHead(s, old, new) ==
    \/ s \in DOMAIN old /\ s \in DOMAIN new /\ new[s] = old[s]
    \/ s \notin DOMAIN new /\ (s \in DOMAIN old => ~Retained(old[s].received))

\* An instant that is before another one is before every later one.
LEMMA StillEarlier ==
    ASSUME NEW t \in Nat, NEW r \in Nat, NEW e \in Nat, NEW x \in Nat, NEW y \in Nat,
           t + r < x + e, x <= y
    PROVE  t + r < y + e
OBVIOUS

\* With the margin of the retention, what is forgotten does not matter any more.
LEMMA HeadAges ==
    ASSUME ClockInv, ServerInv, now' \in Nat, now <= now', NEW s, SameHead(s, heads, heads'),
           NEW n, NEW p, NEW t \in Nat, HeadIs(s, n, p, t)
    PROVE  HeadIs(s, n, p, t)'
<1>1. now \in Nat /\ RetentionDays \in Nat /\ MaxSkew \in Nat
  BY DaysAssumption DEF ClockInv
<1>2. CASE s \in DOMAIN heads /\ s \in DOMAIN heads' /\ heads'[s] = heads[s]
  BY <1>2 DEF HeadIs
<1>3. CASE s \notin DOMAIN heads'
  <2>1. CASE s \in DOMAIN heads
    <3>1. heads[s].received \in Nat /\ heads[s].received + MaxSkew >= t
      BY <2>1 DEF ServerInv, HeadsInv, StreamHead, HeadIs
    <3>2. heads[s].received < now - RetentionDays
      BY <1>1, <1>3, <2>1, <3>1 DEF SameHead, Retained
    <3>3. t + RetentionDays < now' + MaxSkew
      BY <1>1, <3>1, <3>2
    <3> QED
      BY <1>3, <3>3 DEF HeadIs
  <2>2. CASE s \notin DOMAIN heads
    <3>1. t + RetentionDays < now + MaxSkew
      BY <2>2 DEF HeadIs
    <3>2. t + RetentionDays < now' + MaxSkew
      BY <1>1, <3>1, StillEarlier
    <3> QED
      BY <1>3, <3>2 DEF HeadIs
  <2> QED
    BY <2>1, <2>2
<1> QED
  BY <1>2, <1>3 DEF SameHead

\* A batch that the server would accept stays so, or becomes too old.
LEMMA FitAges ==
    ASSUME ClockInv, ServerInv, now' \in Nat, now <= now', NEW b \in Batch,
           SameHead(b.stream, heads, heads'), Fits(b)
    PROVE  Fits(b)'
<1>1. now \in Nat /\ RetentionDays \in Nat /\ OfflineDays \in Nat /\ b.created \in Nat
  BY DaysAssumption DEF ClockInv, Batch
<1>2. CASE TooOld(b)
  <2>1. b.created + OfflineDays < now'
    BY <1>1, <1>2 DEF TooOld
  <2> QED
    BY <2>1 DEF Fits, TooOld
<1>3. CASE b.stream \notin DOMAIN heads /\ b.sequence = 1 /\ b.previous = NoBatch
  BY <1>3 DEF Fits, SameHead
<1>4. CASE /\ b.stream \in DOMAIN heads
           /\ heads[b.stream].sequence + 1 = b.sequence /\ heads[b.stream].batch = b.previous
           /\ heads[b.stream].received + RetentionDays >= b.created + OfflineDays
  <2>1. CASE b.stream \in DOMAIN heads' /\ heads'[b.stream] = heads[b.stream]
    BY <1>4, <2>1 DEF Fits
  <2>2. CASE ~Retained(heads[b.stream].received)
    <3>1. heads[b.stream].received \in Nat
      BY <1>4 DEF ServerInv, HeadsInv, StreamHead
    <3>2. heads[b.stream].received < now - RetentionDays
      BY <1>1, <2>2, <3>1 DEF Retained
    <3>3. b.created + OfflineDays < now'
      BY <1>1, <1>4, <3>1, <3>2
    <3> QED
      BY <3>3 DEF Fits, TooOld
  <2> QED
    BY <1>4, <2>1, <2>2 DEF SameHead
<1> QED
  BY <1>2, <1>3, <1>4 DEF Fits

\* An entry outlasts the age at which its batch could be sent again.
LEMMA MemoryAges ==
    ASSUME now \in Nat, now' \in Nat, now <= now', NEW b \in Batch, NEW old, NEW new,
           \A n \in DOMAIN old : old[n] \in Nat, Kept(old, new), Remembered(old, b)
    PROVE  TooOld(b)' \/ (b.number \in DOMAIN new /\ new[b.number] + MaxSkew >= b.created)
<1>1. RetentionDays \in Nat /\ OfflineDays \in Nat /\ MaxSkew \in Nat /\ b.created \in Nat
  BY DaysAssumption DEF Batch
<1>2. CASE TooOld(b)
  <2>1. b.created + OfflineDays < now'
    BY <1>1, <1>2 DEF TooOld
  <2> QED
    BY <2>1 DEF TooOld
<1>3. CASE /\ b.number \in DOMAIN old /\ old[b.number] + MaxSkew >= b.created
           /\ Retained(old[b.number])
  BY <1>3 DEF Kept
<1>4. CASE /\ b.number \in DOMAIN old /\ old[b.number] + MaxSkew >= b.created
           /\ ~Retained(old[b.number])
  <2>1. old[b.number] \in Nat /\ old[b.number] < now - RetentionDays
    BY <1>1, <1>4 DEF Retained
  <2>2. b.created + OfflineDays < now'
    BY <1>1, <1>4, <2>1, MarginAssumption, OutboxAssumption
  <2> QED
    BY <2>2 DEF TooOld
<1> QED
  BY <1>2, <1>3, <1>4 DEF Remembered

\* A batch that is timely and is not remembered was not stored.
LEMMA RetryIsRemembered ==
    ASSUME now \in Nat, NEW b \in Batch, Timely(b), NEW table,
           \A n \in DOMAIN table : table[n] \in Nat, Remembered(table, b)
    PROVE  b.number \in DOMAIN Purged(table)
<1>1. RetentionDays \in Nat /\ OfflineDays \in Nat /\ MaxSkew \in Nat /\ b.created \in Nat
  BY DaysAssumption DEF Batch
<1>2. ~TooOld(b)
  BY <1>1 DEF Timely, TooOld
<1>3. b.number \in DOMAIN table /\ table[b.number] + MaxSkew >= b.created
  BY <1>2 DEF Remembered
<1>4. table[b.number] \in Nat /\ b.created >= now - OfflineDays
  BY <1>3 DEF Timely
<1>5. table[b.number] >= now - RetentionDays
  BY <1>1, <1>3, <1>4, MarginAssumption, OutboxAssumption
<1> QED
  BY <1>3, <1>5 DEF Purged, Retained

\* Purging and storing keep what is retained.
LEMMA PurgeKept ==
    ASSUME NEW table
    PROVE  /\ DOMAIN Purged(table) \subseteq DOMAIN table
           /\ Kept(table, Purged(table))
           /\ \A k \in DOMAIN Purged(table) : Purged(table)[k] = table[k]
<1>1. /\ DOMAIN Purged(table) = {k \in DOMAIN table : Retained(table[k])}
      /\ \A k \in DOMAIN Purged(table) : Purged(table)[k] = table[k]
  BY DEF Purged
<1> HIDE DEF Purged
<1> QED
  BY <1>1 DEF Kept

LEMMA WithKept ==
    ASSUME NEW table, NEW n, NEW v, NEW new, new = With(Purged(table), n, v),
           n \notin DOMAIN Purged(table)
    PROVE  /\ DOMAIN new \subseteq DOMAIN table \cup {n} /\ n \in DOMAIN new /\ new[n] = v
           /\ Kept(table, new)
           /\ \A k \in DOMAIN new : k = n \/ (k \in DOMAIN table /\ new[k] = table[k])
<1>1. /\ DOMAIN Purged(table) = {k \in DOMAIN table : Retained(table[k])}
      /\ \A k \in DOMAIN Purged(table) : Purged(table)[k] = table[k]
  BY DEF Purged
<1>2. PICK old : old = Purged(table)
  OBVIOUS
<1>3. /\ DOMAIN new = DOMAIN old \cup {n} /\ new[n] = v
      /\ \A k \in DOMAIN old : k # n => new[k] = old[k]
  BY <1>2 DEF With
<1> QED
  BY <1>1, <1>2, <1>3 DEF Kept

\* The same of the heads of the streams.
LEMMA HeadsKept ==
    /\ DOMAIN PurgedHeads \subseteq DOMAIN heads
    /\ \A s : SameHead(s, heads, PurgedHeads)
    /\ \A s \in DOMAIN PurgedHeads : PurgedHeads[s] = heads[s]
<1>1. /\ DOMAIN PurgedHeads = {s \in DOMAIN heads : Retained(heads[s].received)}
      /\ \A s \in DOMAIN PurgedHeads : PurgedHeads[s] = heads[s]
  BY DEF PurgedHeads
<1> HIDE DEF PurgedHeads
<1> QED
  BY <1>1 DEF SameHead

LEMMA WithHeadsKept ==
    ASSUME NEW n, NEW v, NEW new, new = With(PurgedHeads, n, v)
    PROVE  /\ n \in DOMAIN new /\ new[n] = v
           /\ \A s : s # n => SameHead(s, heads, new)
           /\ \A s \in DOMAIN new : s = n \/ (s \in DOMAIN heads /\ new[s] = heads[s])
<1>1. /\ DOMAIN PurgedHeads = {s \in DOMAIN heads : Retained(heads[s].received)}
      /\ \A s \in DOMAIN PurgedHeads : PurgedHeads[s] = heads[s]
  BY DEF PurgedHeads
<1>2. PICK old : old = PurgedHeads
  OBVIOUS
<1>3. /\ DOMAIN new = DOMAIN old \cup {n} /\ new[n] = v
      /\ \A s \in DOMAIN old : s # n => new[s] = old[s]
  BY <1>2 DEF With
<1> QED
  BY <1>1, <1>2, <1>3 DEF SameHead

\* What the server remembers of a batch outlasts a step.
LEMMA StoredAges ==
    ASSUME ClockInv, ServerInv, now' \in Nat, now <= now', NEW b \in Batch, Stored(b),
           Kept(batches, batches'), Kept(spans, spans'),
           b.number \in audited' => b.number \in audited \/ Remembered(batches, b)',
           b.number \in traced' => b.number \in traced \/ Remembered(spans, b)'
    PROVE  Stored(b)'
<1>1. ASSUME b.number \in audited, b.number \in audited' PROVE Remembered(batches, b)'
  <2>1. Remembered(batches, b) /\ now \in Nat /\ \A n \in DOMAIN batches : batches[n] \in Nat
    BY <1>1 DEF Stored, ServerInv, ClockInv
  <2>2. TooOld(b)' \/ (b.number \in DOMAIN batches' /\ batches'[b.number] + MaxSkew >= b.created)
    BY <2>1, MemoryAges
  <2> QED
    BY <2>2 DEF Remembered
<1>2. ASSUME b.number \in traced, b.number \in traced' PROVE Remembered(spans, b)'
  <2>1. Remembered(spans, b) /\ now \in Nat /\ \A n \in DOMAIN spans : spans[n] \in Nat
    BY <1>2 DEF Stored, ServerInv, ClockInv
  <2>2. TooOld(b)' \/ (b.number \in DOMAIN spans' /\ spans'[b.number] + MaxSkew >= b.created)
    BY <2>1, MemoryAges
  <2> QED
    BY <2>2 DEF Remembered
<1> QED
  BY <1>1, <1>2 DEF Stored

\* What a step of the server has to keep of the outbox.
LEMMA OutboxStays ==
    ASSUME OutboxInv(Flying, outbox, meta), Flying' \subseteq Flying,
           UNCHANGED <<outbox, meta, cursor, events, reported>>,
           audited \subseteq audited', traced \subseteq traced',
           \A c \in DOMAIN outbox : Stored(outbox[c].batch)',
           \A k \in Flying : Stored(k)' /\ (k.number \notin audited' => Fits(k)'),
           MeetInv(outbox, meta)'
    PROVE  OutboxInv(Flying, outbox, meta)'
<1>0. BoxInv(outbox) /\ ChainInv(outbox, meta) /\ CountInv(outbox, meta) /\ SentInv(Flying, outbox, meta)
  BY DEF OutboxInv
<1>1. BoxInv(outbox)'
  <2>1. ASSUME NEW c \in DOMAIN outbox PROVE RowInv(outbox, c)'
    <3>1. RowInv(outbox, c) /\ Stored(outbox[c].batch)'
      BY <1>0 DEF BoxInv
    <3> QED
      BY <3>1 DEF RowInv
  <2> QED
    BY <1>0, <2>1 DEF BoxInv
<1>2. ChainInv(outbox, meta)' /\ CountInv(outbox, meta)'
  BY <1>0 DEF ChainInv, LinkInv, CountInv, Pending, After
<1>3. SentInv(Flying, outbox, meta)'
  <2> SUFFICES ASSUME NEW k \in Flying' PROVE KnownInv(k, Flying, outbox, meta)'
    BY DEF SentInv
  <2>1. KnownInv(k, Flying, outbox, meta) /\ Stored(k)' /\ (k.number \notin audited' => Fits(k)')
    BY <1>0 DEF SentInv
  <2> HIDE DEF Flying
  <2>2. /\ k \in Batch /\ k.number \in 1..cursor' /\ k.stream <= meta'.stream
        /\ k.stream = meta'.stream => \A c \in Pending(outbox') : k.number <= c
        /\ k.number \in DOMAIN outbox' => outbox'[k.number].batch = k
        /\ \A d \in Flying' : d.number = k.number => d = k
    BY <2>1 DEF KnownInv, Pending
  <2>3. k.number \notin audited' =>
            /\ k.stream = meta'.stream => k.number \in Pending(outbox')
            /\ \A d \in Flying' : d.number \notin audited' /\ d.stream = k.stream => d = k
    BY <2>1 DEF KnownInv, Pending
  <2> QED
    BY <2>1, <2>2, <2>3 DEF KnownInv, Pending
<1> QED
  BY <1>1, <1>2, <1>3 DEF OutboxInv

\* A step that stores no batch keeps the outbox' chain and the server's in step.
LEMMA MeetingAges ==
    ASSUME ClockInv, ServerInv, OutboxInv(Flying, outbox, meta), now' \in Nat, now <= now',
           UNCHANGED <<outbox, meta, audited>>, \A s : SameHead(s, heads, heads')
    PROVE  MeetInv(outbox, meta)' /\ \A k \in Flying : k.number \notin audited' => Fits(k)'
<1>0. /\ BoxInv(outbox) /\ ChainInv(outbox, meta) /\ MeetInv(outbox, meta)
      /\ SentInv(Flying, outbox, meta)
  BY DEF OutboxInv
<1>1. ASSUME NEW k \in Flying, k.number \notin audited PROVE Fits(k)'
  <2>1. k \in Batch /\ Fits(k)
    BY <1>0, <1>1 DEF SentInv, KnownInv
  <2> QED
    BY <2>1, FitAges
<1>2. \A s \in DOMAIN heads' : s <= meta'.stream
  BY <1>0 DEF MeetInv, SameHead
<1>3. \A c \in Pending(outbox') : c \in audited' => Front(outbox, c)'
  BY <1>0 DEF MeetInv, Front, Pending
<1>4. ASSUME Pending(outbox) = {}
      PROVE  IF meta.sequence = 0 THEN meta.stream \notin DOMAIN heads'
             ELSE HeadIs(meta.stream, meta.sequence, meta.previous, meta.last)'
  <2>1. CASE meta.sequence = 0
    BY <1>0, <1>4, <2>1 DEF MeetInv, SameHead
  <2>2. CASE meta.sequence # 0
    <3>1. HeadIs(meta.stream, meta.sequence, meta.previous, meta.last) /\ meta.last \in Nat
      BY <1>0, <1>4, <2>2 DEF MeetInv, ChainInv, Metadata
    <3>2. PICK s, n, p, t : /\ t \in Nat /\ s = meta.stream /\ n = meta.sequence
                            /\ p = meta.previous /\ t = meta.last
      BY <3>1
    <3>3. HeadIs(s, n, p, t)'
      BY <3>1, <3>2, HeadAges
    <3> QED
      BY <2>2, <3>2, <3>3
  <2> QED
    BY <2>1, <2>2
<1>5. ASSUME NEW c \in Pending(outbox), Front(outbox, c)
      PROVE  IF c \in audited
             THEN HeadIs(meta.stream, outbox[c].batch.sequence, c, outbox[c].batch.created)'
             ELSE Fits(outbox[c].batch)'
  <2>1. PICK b \in Batch : b = outbox[c].batch
    BY <1>0, <1>5 DEF BoxInv, RowInv, Row, Pending
  <2>2. CASE c \in audited
    <3>1. PICK s, n, t \in Nat : s = meta.stream /\ n = b.sequence /\ t = b.created
      BY <1>0, <2>1 DEF ChainInv, Metadata, Batch
    <3>2. HeadIs(s, n, c, t)
      BY <1>0, <1>5, <2>1, <2>2, <3>1 DEF MeetInv
    <3>3. HeadIs(s, n, c, t)'
      BY <3>2, HeadAges
    <3> QED
      BY <2>1, <2>2, <3>1, <3>3
  <2>3. CASE c \notin audited
    <3>1. Fits(b)
      BY <1>0, <1>5, <2>1, <2>3 DEF MeetInv
    <3>2. Fits(b)'
      BY <3>1, FitAges
    <3> QED
      BY <2>1, <2>3, <3>2
  <2> QED
    BY <2>2, <2>3
<1>6. Pending(outbox') = Pending(outbox)
  BY DEF Pending
<1>7. MeetInv(outbox, meta)'
  BY <1>2, <1>3, <1>4, <1>5, <1>6 DEF MeetInv, Front, Pending
<1> QED
  BY <1>1, <1>7

\* The batches that are known outside of the server.
LEMMA KnownBatches ==
    ASSUME OutboxInv(Flying, outbox, meta), NEW b \in Flying
    PROVE  /\ b \in Batch /\ b.number \in 1..cursor /\ Stored(b) /\ KnownInv(b, Flying, outbox, meta)
           /\ \A k \in Flying : k \in Batch /\ Stored(k) /\ (k.number = b.number => k = b)
           /\ \A c \in DOMAIN outbox :
                 /\ outbox[c].batch \in Batch /\ Stored(outbox[c].batch)
                 /\ outbox[c].batch.number = b.number => outbox[c].batch = b
BY DEF OutboxInv, SentInv, KnownInv, BoxInv, RowInv, Row

\* The server finds a batch that is timely and not remembered to extend its chain:
\* its retention forgets neither the batch nor the head before that matters.
LEMMA NeverOutOfChain ==
    ASSUME ClockInv, ServerInv, StoreInv, NEW b \in Batch, Stored(b),
           b.number \notin audited => Fits(b)
    PROVE  /\ AuditCode(b) # "monitoring_chain"
           /\ AuditCode(b) = "accepted" => b.number \notin audited /\ Timely(b)
           /\ AuditCode(b) = "duplicate" => b.number \in audited
<1>1. /\ now \in Nat /\ RetentionDays \in Nat /\ OfflineDays \in Nat /\ b.created \in Nat
      /\ \A n \in DOMAIN batches : batches[n] \in Nat
  BY DaysAssumption DEF ClockInv, ServerInv, Batch
<1>2. ASSUME Timely(b), b.number \notin DOMAIN Purged(batches) PROVE b.number \notin audited
  BY <1>1, <1>2, RetryIsRemembered DEF Stored
<1>3. ASSUME Timely(b), b.number \notin audited PROVE Extends(b)
  <2>1. Fits(b) /\ ~TooOld(b)
    BY <1>1, <1>3 DEF Timely, TooOld
  <2>2. CASE b.stream \notin DOMAIN heads /\ b.sequence = 1 /\ b.previous = NoBatch
    BY <2>2 DEF Extends, PurgedHeads
  <2>3. CASE /\ b.stream \in DOMAIN heads
             /\ heads[b.stream].sequence + 1 = b.sequence /\ heads[b.stream].batch = b.previous
             /\ heads[b.stream].received + RetentionDays >= b.created + OfflineDays
    <3>1. heads[b.stream].received \in Nat /\ b.created >= now - OfflineDays
      BY <1>3, <2>3 DEF ServerInv, HeadsInv, StreamHead, Timely
    <3>2. heads[b.stream].received >= now - RetentionDays
      BY <1>1, <2>3, <3>1
    <3>3. b.stream \in DOMAIN PurgedHeads
      BY <2>3, <3>2 DEF PurgedHeads, Retained
    <3> QED
      BY <2>3, <3>3 DEF Extends
  <2> QED
    BY <2>1, <2>2, <2>3 DEF Fits
<1>4. DOMAIN Purged(batches) \subseteq audited
  BY DEF Purged, StoreInv
<1> QED
  BY <1>2, <1>3, <1>4 DEF AuditCode

\* An audit request, in time or late, whatever was stored or purged before it.
LEMMA AuditKeeps ==
    ASSUME Inv, NEW b \in Flying, AcceptAudit(b), Flying' \subseteq Flying,
           audited' = IF AuditCode(b) = "accepted" THEN audited \cup {b.number} ELSE audited,
           UNCHANGED <<now, skew, outbox, meta, cursor, events, reported, traced>>
    PROVE  /\ ClockInv' /\ ServerInv' /\ OutboxInv(Flying, outbox, meta)' /\ StoreInv'
           /\ audited \subseteq audited'
           /\ Acknowledged(AuditCode(b)) => b.number \in audited'
           /\ (DOMAIN batches' \ DOMAIN batches) \cap audited = {}
           /\ DOMAIN spans' \subseteq DOMAIN spans
<1>0. ClockInv /\ ServerInv /\ OutboxInv(Flying, outbox, meta) /\ StoreInv
  BY DEF Inv
<1>1. /\ b \in Batch /\ b.number \in 1..cursor /\ Stored(b) /\ KnownInv(b, Flying, outbox, meta)
      /\ \A k \in Flying : k \in Batch /\ Stored(k) /\ (k.number = b.number => k = b)
      /\ \A c \in DOMAIN outbox : /\ outbox[c].batch \in Batch /\ Stored(outbox[c].batch)
                                  /\ outbox[c].batch.number = b.number => outbox[c].batch = b
  BY <1>0, KnownBatches
<1>2. /\ AuditCode(b) # "monitoring_chain"
      /\ AuditCode(b) = "accepted" => b.number \notin audited /\ Timely(b)
      /\ AuditCode(b) = "duplicate" => b.number \in audited
  BY <1>0, <1>1, NeverOutOfChain DEF KnownInv
<1>3. rejections' = {}
  <2>1. AuditCode(b) \in {"monitoring_age", "duplicate", "accepted"}
    BY <1>2 DEF AuditCode
  <2>2. Reject(AuditCode(b))
    BY DEF AcceptAudit
  <2> QED
    BY <1>0, <2>1, <2>2 DEF Reject, ServerInv, Acknowledged
<1>4. ClockInv' /\ now' \in Nat /\ now <= now'
  BY <1>0 DEF ClockInv
<1>5. spans' = Purged(spans) /\ Kept(spans, spans') /\ DOMAIN spans' \subseteq DOMAIN spans
  BY PurgeKept DEF AcceptAudit
<1>6. \A n \in DOMAIN spans' : spans'[n] \in Nat
  BY <1>0, <1>5, PurgeKept DEF ServerInv
<1>7. CASE AuditCode(b) # "accepted"
  <2>1. heads' = PurgedHeads /\ batches' = Purged(batches) /\ audited' = audited
    BY <1>7 DEF AcceptAudit
  <2>2. Kept(batches, batches') /\ DOMAIN batches' \subseteq DOMAIN batches
    BY <2>1, PurgeKept
  <2>3. \A s : SameHead(s, heads, heads')
    BY <2>1, HeadsKept
  <2>4. ServerInv' /\ StoreInv'
    <3>1. HeadsInv'
      BY <1>0, <2>1, HeadsKept DEF ServerInv, HeadsInv
    <3>2. \A n \in DOMAIN batches' : batches'[n] \in Nat
      BY <1>0, <2>1, PurgeKept DEF ServerInv
    <3> QED
      BY <1>0, <1>3, <1>5, <1>6, <2>1, <2>2, <3>1, <3>2 DEF ServerInv, StoreInv
  <2>5. MeetInv(outbox, meta)' /\ \A k \in Flying : k.number \notin audited' => Fits(k)'
    BY <1>0, <1>4, <2>1, <2>3, MeetingAges
  <2>6. ASSUME NEW k \in Batch, Stored(k) PROVE Stored(k)'
    BY <1>0, <1>4, <1>5, <2>1, <2>2, <2>6, StoredAges
  <2>7. OutboxInv(Flying, outbox, meta)'
    <3>1. \A c \in DOMAIN outbox : Stored(outbox[c].batch)'
      BY <1>1, <2>6
    <3>2. \A k \in Flying : Stored(k)'
      BY <1>1, <2>6
    <3> QED
      BY <1>0, <2>1, <2>5, <3>1, <3>2, OutboxStays
  <2> QED
    BY <1>2, <1>4, <1>5, <1>7, <2>1, <2>2, <2>4, <2>7 DEF Acknowledged
<1>8. CASE AuditCode(b) = "accepted"
  <2>1. /\ b.number \notin audited /\ Timely(b) /\ audited' = audited \cup {b.number}
        /\ b.number \notin DOMAIN Purged(batches) /\ b.number \notin DOMAIN batches
    BY <1>0, <1>2, <1>8 DEF Purged, StoreInv
  <2>2. PICK h : h = [sequence |-> b.sequence, batch |-> b.number, received |-> now]
    OBVIOUS
  <2>3. h \in StreamHead /\ h.sequence = b.sequence /\ h.batch = b.number /\ h.received = now
    BY <1>0, <1>1, <2>2 DEF StreamHead, Batch, ClockInv
  <2>4. heads' = With(PurgedHeads, b.stream, h) /\ batches' = With(Purged(batches), b.number, now)
    BY <1>8, <2>2 DEF AcceptAudit
  <2>5. /\ Kept(batches, batches') /\ DOMAIN batches' \subseteq DOMAIN batches \cup {b.number}
        /\ b.number \in DOMAIN batches' /\ batches'[b.number] = now
        /\ \A n \in DOMAIN batches' : batches'[n] \in Nat
    <3>1. /\ Kept(batches, batches') /\ DOMAIN batches' \subseteq DOMAIN batches \cup {b.number}
          /\ b.number \in DOMAIN batches' /\ batches'[b.number] = now
      BY <2>1, <2>4, WithKept
    <3>2. ASSUME NEW n \in DOMAIN batches' PROVE batches'[n] \in Nat
      <4>1. n = b.number \/ (n \in DOMAIN batches /\ batches'[n] = batches[n])
        BY <2>1, <2>4, WithKept
      <4> QED
        BY <1>0, <3>1, <4>1 DEF ServerInv, ClockInv
    <3> QED
      BY <3>1, <3>2
  <2>6. /\ \A s : s # b.stream => SameHead(s, heads, heads')
        /\ b.stream \in DOMAIN heads' /\ heads'[b.stream] = h
        /\ \A s \in DOMAIN heads' : s # b.stream => s \in DOMAIN heads /\ heads'[s] = heads[s]
    BY <2>4, WithHeadsKept
  <2>7. HeadsInv'
    BY <1>0, <1>1, <2>3, <2>6 DEF ServerInv, HeadsInv, Batch
  <2>8. ServerInv' /\ StoreInv'
    BY <1>0, <1>1, <1>3, <1>5, <1>6, <2>1, <2>5, <2>7 DEF ServerInv, StoreInv
  <2>9. Remembered(batches, b)'
    BY <1>0, <1>1, <2>1, <2>5 DEF Remembered, Timely, ClockInv
  <2>10. ASSUME NEW k \in Batch, Stored(k), k.number = b.number => k = b PROVE Stored(k)'
    <3>1. k.number \in audited' => k.number \in audited \/ Remembered(batches, k)'
      BY <2>1, <2>9, <2>10
    <3> QED
      BY <1>0, <1>4, <1>5, <2>5, <2>10, <3>1, StoredAges
  <2>11. ASSUME NEW k \in Flying, k.number \notin audited' PROVE Fits(k)'
    <3>1. k \in Batch /\ Fits(k) /\ k.stream # b.stream
      BY <1>0, <1>1, <2>1, <2>11 DEF OutboxInv, SentInv, KnownInv
    <3> QED
      BY <1>0, <1>4, <2>6, <3>1, FitAges
  <2>12. MeetInv(outbox, meta)'
    <3>0. BoxInv(outbox) /\ ChainInv(outbox, meta) /\ MeetInv(outbox, meta)
      BY <1>0 DEF OutboxInv
    <3>1. Pending(outbox') = Pending(outbox) /\ b.stream \in Nat /\ b.created \in Nat
      BY <1>1 DEF Pending, Batch
    <3>2. b.stream = meta.stream => Front(outbox, b.number) /\ outbox[b.number].batch = b
      BY <1>1, <2>1 DEF KnownInv, Front, Pending
    <3>3. \A s \in DOMAIN heads' : s <= meta'.stream
      BY <1>1, <2>6, <3>0 DEF MeetInv, KnownInv
    <3>4. ASSUME NEW c \in Pending(outbox), c \in audited' PROVE Front(outbox, c)
      <4>1. CASE c \in audited
        BY <3>0, <4>1 DEF MeetInv
      <4>2. CASE c = b.number
        <5>1. c \in DOMAIN outbox /\ outbox[c].batch.number = c /\ LinkInv(outbox, meta, c)
          BY <3>0 DEF BoxInv, RowInv, ChainInv, Pending
        <5>2. b.stream = meta.stream
          BY <1>1, <4>2, <5>1 DEF LinkInv
        <5> QED
          BY <3>2, <4>2, <5>2
      <4> QED
        BY <2>1, <3>4, <4>1, <4>2
    <3>5. ASSUME Pending(outbox) = {}
          PROVE  IF meta.sequence = 0 THEN meta.stream \notin DOMAIN heads'
                 ELSE HeadIs(meta.stream, meta.sequence, meta.previous, meta.last)'
      <4>1. SameHead(meta.stream, heads, heads')
        BY <2>6, <3>2, <3>5 DEF Front
      <4>2. CASE meta.sequence = 0
        BY <3>0, <3>5, <4>1, <4>2 DEF MeetInv, SameHead
      <4>3. CASE meta.sequence # 0
        <5>1. HeadIs(meta.stream, meta.sequence, meta.previous, meta.last) /\ meta.last \in Nat
          BY <3>0, <3>5, <4>3 DEF MeetInv, ChainInv, Metadata
        <5>2. PICK s, n, p, t : /\ t \in Nat /\ s = meta.stream /\ n = meta.sequence
                                /\ p = meta.previous /\ t = meta.last
          BY <5>1
        <5>3. HeadIs(s, n, p, t)'
          BY <1>0, <1>4, <4>1, <5>1, <5>2, HeadAges
        <5> QED
          BY <4>3, <5>2, <5>3
      <4> QED
        BY <4>2, <4>3
    <3>6. ASSUME NEW c \in Pending(outbox), Front(outbox, c)
          PROVE  IF c \in audited'
                 THEN HeadIs(meta.stream, outbox[c].batch.sequence, c, outbox[c].batch.created)'
                 ELSE Fits(outbox[c].batch)'
      <4>0. /\ c \in DOMAIN outbox /\ outbox[c].batch \in Batch /\ outbox[c].batch.stream = meta.stream
            /\ outbox[c].batch.number = c /\ c \in 1..cursor
        BY <3>0 DEF BoxInv, RowInv, Row, ChainInv, LinkInv, Pending
      <4>1. CASE c = b.number
        <5>1. outbox[c].batch = b /\ b.stream = meta.stream
          BY <1>1, <4>0, <4>1
        <5>2. PICK s, n, t \in Nat : s = meta.stream /\ n = b.sequence /\ t = b.created
          BY <1>1, <5>1 DEF Batch
        <5>3. now' + MaxSkew >= t
          BY <2>1, <5>2 DEF Timely
        <5>4. HeadIs(s, n, c, t)'
          BY <2>3, <2>6, <4>1, <5>1, <5>2, <5>3 DEF HeadIs
        <5> QED
          BY <2>1, <4>1, <5>1, <5>2, <5>4
      <4>2. CASE c # b.number
        <5>1. b.stream # meta.stream
          <6>1. ASSUME b.stream = meta.stream PROVE FALSE
            <7>1. b.number \in 1..cursor /\ b.number <= c /\ c <= b.number
              BY <1>1, <3>2, <3>6, <6>1 DEF Front
            <7> QED
              BY <4>0, <4>2, <7>1
          <6> QED
            BY <6>1
        <5>2. SameHead(meta.stream, heads, heads') /\ (c \in audited' <=> c \in audited)
          BY <2>1, <2>6, <4>2, <5>1
        <5>3. PICK k \in Batch : k = outbox[c].batch
          BY <4>0
        <5>4. CASE c \in audited
          <6>1. PICK s, n, t \in Nat : s = meta.stream /\ n = k.sequence /\ t = k.created
            BY <3>0, <5>3 DEF ChainInv, Metadata, Batch
          <6>2. HeadIs(s, n, c, t)
            BY <3>0, <3>6, <5>3, <5>4, <6>1 DEF MeetInv
          <6>3. HeadIs(s, n, c, t)'
            BY <1>0, <1>4, <5>2, <6>1, <6>2, HeadAges
          <6> QED
            BY <5>2, <5>3, <5>4, <6>1, <6>3
        <5>5. CASE c \notin audited
          <6>1. Fits(k) /\ k.stream = meta.stream
            BY <3>0, <3>6, <4>0, <5>3, <5>5 DEF MeetInv
          <6>2. Fits(k)'
            BY <1>0, <1>4, <5>2, <6>1, FitAges
          <6> QED
            BY <5>2, <5>3, <5>5, <6>2
        <5> QED
          BY <5>4, <5>5
      <4> QED
        BY <4>1, <4>2
    <3> QED
      BY <3>1, <3>3, <3>4, <3>5, <3>6 DEF MeetInv, Front, Pending
  <2>13. OutboxInv(Flying, outbox, meta)'
    <3>1. \A c \in DOMAIN outbox : Stored(outbox[c].batch)'
      BY <1>1, <2>10
    <3>2. \A k \in Flying : Stored(k)'
      BY <1>1, <2>10
    <3>3. audited \subseteq audited' /\ traced \subseteq traced'
      BY <2>1
    <3> QED
      BY <1>0, <2>11, <2>12, <3>1, <3>2, <3>3, OutboxStays
  <2> QED
    BY <1>2, <1>4, <1>5, <2>1, <2>5, <2>8, <2>13 DEF Acknowledged
<1> QED
  BY <1>7, <1>8

\* A trace request.
LEMMA SpansKeep ==
    ASSUME Inv, NEW b \in Flying, AcceptSpans(b), Flying' \subseteq Flying,
           traced' = IF SpansCode(b) = "accepted" THEN traced \cup {b.number} ELSE traced,
           UNCHANGED <<now, skew, outbox, meta, cursor, events, reported, audited>>
    PROVE  /\ ClockInv' /\ ServerInv' /\ OutboxInv(Flying, outbox, meta)' /\ StoreInv'
           /\ traced \subseteq traced'
           /\ Acknowledged(SpansCode(b)) => b.number \in traced'
           /\ (DOMAIN spans' \ DOMAIN spans) \cap traced = {}
           /\ DOMAIN batches' \subseteq DOMAIN batches
<1>0. ClockInv /\ ServerInv /\ OutboxInv(Flying, outbox, meta) /\ StoreInv
  BY DEF Inv
<1>1. /\ b \in Batch /\ b.number \in 1..cursor /\ Stored(b)
      /\ \A k \in Flying : k \in Batch /\ Stored(k) /\ (k.number = b.number => k = b)
      /\ \A c \in DOMAIN outbox : /\ outbox[c].batch \in Batch /\ Stored(outbox[c].batch)
                                  /\ outbox[c].batch.number = b.number => outbox[c].batch = b
  BY <1>0, KnownBatches
<1>2. /\ SpansCode(b) \in {"monitoring_age", "monitoring_invalid", "duplicate", "accepted"}
      /\ SpansCode(b) = "accepted" => Timely(b) /\ b.number \notin DOMAIN Purged(spans)
      /\ SpansCode(b) = "duplicate" => b.number \in DOMAIN Purged(spans)
  BY DEF SpansCode
<1>3. rejections' = {}
  BY <1>0, <1>2 DEF AcceptSpans, Reject, ServerInv, Acknowledged
<1>4. ClockInv' /\ now' \in Nat /\ now <= now'
  BY <1>0 DEF ClockInv
<1>5. /\ heads' = PurgedHeads /\ batches' = Purged(batches)
      /\ Kept(batches, batches') /\ DOMAIN batches' \subseteq DOMAIN batches
      /\ \A s : SameHead(s, heads, heads')
  BY PurgeKept, HeadsKept DEF AcceptSpans
<1>6. HeadsInv' /\ \A n \in DOMAIN batches' : batches'[n] \in Nat
  <2>1. HeadsInv'
    BY <1>0, <1>5, HeadsKept DEF ServerInv, HeadsInv
  <2>2. \A n \in DOMAIN batches' : batches'[n] \in Nat
    BY <1>0, <1>5, PurgeKept DEF ServerInv
  <2> QED
    BY <2>1, <2>2
<1>7. MeetInv(outbox, meta)' /\ \A k \in Flying : k.number \notin audited' => Fits(k)'
  BY <1>0, <1>4, <1>5, MeetingAges
<1>8. /\ Kept(spans, spans') /\ DOMAIN spans' \subseteq DOMAIN spans \cup {b.number}
      /\ \A n \in DOMAIN spans' : spans'[n] \in Nat
      /\ SpansCode(b) # "accepted" => DOMAIN spans' \subseteq DOMAIN spans
      /\ SpansCode(b) = "accepted" => b.number \in DOMAIN spans' /\ spans'[b.number] = now
  <2>1. CASE SpansCode(b) # "accepted"
    <3>1. spans' = Purged(spans)
      BY <2>1 DEF AcceptSpans
    <3> QED
      BY <1>0, <2>1, <3>1, PurgeKept DEF ServerInv
  <2>2. CASE SpansCode(b) = "accepted"
    <3>1. spans' = With(Purged(spans), b.number, now)
      BY <2>2 DEF AcceptSpans
    <3>2. /\ Kept(spans, spans') /\ DOMAIN spans' \subseteq DOMAIN spans \cup {b.number}
          /\ b.number \in DOMAIN spans' /\ spans'[b.number] = now
      BY <1>2, <2>2, <3>1, WithKept
    <3>3. ASSUME NEW n \in DOMAIN spans' PROVE spans'[n] \in Nat
      <4>1. n = b.number \/ (n \in DOMAIN spans /\ spans'[n] = spans[n])
        BY <1>2, <2>2, <3>1, WithKept
      <4> QED
        BY <1>0, <3>2, <4>1 DEF ServerInv, ClockInv
    <3> QED
      BY <2>2, <3>2, <3>3
  <2> QED
    BY <2>1, <2>2
<1>9. ASSUME SpansCode(b) = "accepted" PROVE b.number \notin traced /\ Remembered(spans, b)'
  <2>1. b.number \notin traced
    <3>1. now \in Nat /\ \A n \in DOMAIN spans : spans[n] \in Nat
      BY <1>0 DEF ClockInv, ServerInv
    <3> QED
      BY <1>1, <1>2, <1>9, <3>1, RetryIsRemembered DEF Stored
  <2>2. spans'[b.number] + MaxSkew >= b.created
    BY <1>2, <1>8, <1>9 DEF Timely
  <2> QED
    BY <1>8, <1>9, <2>1, <2>2 DEF Remembered
<1>10. ASSUME NEW k \in Batch, Stored(k), k.number = b.number => k = b PROVE Stored(k)'
  <2>1. k.number \in traced' => k.number \in traced \/ Remembered(spans, k)'
    BY <1>9, <1>10
  <2> QED
    BY <1>0, <1>4, <1>5, <1>8, <1>10, <2>1, StoredAges
<1>11. OutboxInv(Flying, outbox, meta)'
  <2>1. \A c \in DOMAIN outbox : Stored(outbox[c].batch)'
    BY <1>1, <1>10
  <2>2. \A k \in Flying : Stored(k)'
    BY <1>1, <1>10
  <2>3. audited \subseteq audited' /\ traced \subseteq traced'
    OBVIOUS
  <2> QED
    BY <1>0, <1>7, <2>1, <2>2, <2>3, OutboxStays
<1>12. DOMAIN Purged(spans) \subseteq traced
  BY <1>0, PurgeKept DEF StoreInv
<1>13. ServerInv' /\ StoreInv'
  BY <1>0, <1>1, <1>3, <1>5, <1>6, <1>8 DEF ServerInv, StoreInv
<1> QED
  BY <1>2, <1>4, <1>5, <1>8, <1>9, <1>11, <1>12, <1>13 DEF Acknowledged

-----------------------------------------------------------------------------
(* The steps of the client *)

\* What a transaction leaves is what is in the outbox then.
LEMMA OutboxWritten ==
    ASSUME NEW S, NEW box, NEW m, OutboxInv(S, box, m), outbox' = box, meta' = m,
           Flying' \subseteq S,
           UNCHANGED <<now, heads, batches, spans, audited, traced, cursor, events, reported>>
    PROVE  OutboxInv(Flying, outbox, meta)'
<1>0. BoxInv(box) /\ ChainInv(box, m) /\ CountInv(box, m) /\ MeetInv(box, m) /\ SentInv(S, box, m)
  BY DEF OutboxInv
<1>1. \A b : /\ Fits(b) <=> Fits(b)'
             /\ Stored(b) <=> Stored(b)'
  BY DEF Fits, Stored, Remembered, TooOld
<1>2. BoxInv(outbox)'
  <2>1. ASSUME NEW c \in DOMAIN box PROVE RowInv(outbox, c)'
    <3>1. RowInv(box, c) /\ Stored(box[c].batch)'
      BY <1>0, <1>1 DEF BoxInv, RowInv
    <3> QED
      BY <3>1 DEF RowInv
  <2> QED
    BY <1>0, <2>1 DEF BoxInv
<1>3. ChainInv(outbox, meta)' /\ CountInv(outbox, meta)'
  BY <1>0 DEF ChainInv, LinkInv, CountInv, Pending, After
<1>4. MeetInv(outbox, meta)'
  <2>1. \A s, n, p, t : HeadIs(s, n, p, t) <=> HeadIs(s, n, p, t)'
    BY DEF HeadIs
  <2> QED
    BY <1>0, <1>1, <2>1 DEF MeetInv, Front, Pending
<1>5. SentInv(Flying, outbox, meta)'
  <2> SUFFICES ASSUME NEW k \in Flying' PROVE KnownInv(k, Flying, outbox, meta)'
    BY DEF SentInv
  <2>1. KnownInv(k, S, box, m) /\ Stored(k)' /\ (k.number \notin audited' => Fits(k)')
    BY <1>0, <1>1 DEF SentInv, KnownInv
  <2> HIDE DEF Flying
  <2>2. /\ k \in Batch /\ k.number \in 1..cursor' /\ k.stream <= meta'.stream
        /\ k.stream = meta'.stream => \A c \in Pending(outbox') : k.number <= c
        /\ k.number \in DOMAIN outbox' => outbox'[k.number].batch = k
        /\ \A d \in Flying' : d.number = k.number => d = k
    BY <2>1 DEF KnownInv
  <2>3. k.number \notin audited' =>
            /\ k.stream = meta'.stream => k.number \in Pending(outbox')
            /\ \A d \in Flying' : d.number \notin audited' /\ d.stream = k.stream => d = k
    BY <2>1 DEF KnownInv
  <2> QED
    BY <2>1, <2>2, <2>3 DEF KnownInv, Pending
<1> QED
  BY <1>2, <1>3, <1>4, <1>5 DEF OutboxInv

\* What a flush may hold.
Holds(at, rows) ==
    /\ at \in Step
    /\ rows = {} \/ \E x \in Row : rows = {x}
    /\ at \in {"audit", "audited", "traces", "traced"} => rows # {}
    /\ \A row \in rows : /\ at = "audited" => row.batch.number \in audited
                         /\ at = "traced" => row.batch.number \in traced

\* A flush goes on with rows that it held, or that it has read.
LEMMA GoKeeps ==
    ASSUME FlushInv, NEW f \in Flushers, NEW at, NEW rows, Go(f, at, rows), Holds(at, rows)',
           audited \subseteq audited', traced \subseteq traced'
    PROVE  /\ FlushInv'
           /\ \A S : /\ Late' \subseteq S /\ Flying \subseteq S
                     /\ \A row \in rows : row.batch \in S
                     => Flying' \subseteq S
<1>1. /\ DOMAIN flush' = Flushers
      /\ flush'[f].at = at /\ flush'[f].rows = rows
      /\ \A g \in Flushers : g # f => flush'[g] = flush[g]
  BY DEF FlushInv, Go
<1>2. FlushInv'
  <2>1. ASSUME NEW g \in Flushers, g # f PROVE Holds(flush[g].at, flush[g].rows)'
    BY <1>1, <2>1 DEF FlushInv, Holds
  <2>2. Holds(flush[f].at, flush[f].rows)'
    BY <1>1
  <2> QED
    BY <1>1, <2>1, <2>2 DEF FlushInv, Holds
<1>3. ASSUME NEW S, Late' \subseteq S, Flying \subseteq S, \A row \in rows : row.batch \in S
      PROVE  Flying' \subseteq S
  <2>1. ASSUME NEW g \in Flushers, NEW row \in flush'[g].rows PROVE row.batch \in S
    <3>1. CASE g = f
      BY <1>1, <1>3, <2>1, <3>1
    <3>2. CASE g # f
      BY <1>1, <1>3, <2>1, <3>2 DEF Flying, Late
    <3> QED
      BY <3>1, <3>2
  <2> QED
    BY <1>3, <2>1 DEF Flying, Late
<1> QED
  BY <1>2, <1>3

\* The row that a flush holds.
LEMMA HeldRow ==
    ASSUME FlushInv, NEW f \in Flushers
    PROVE  /\ \A row \in flush[f].rows : row \in Row /\ row.batch \in Flying
           /\ Late \subseteq Flying
           /\ Holds(flush[f].at, flush[f].rows)
           /\ flush[f].rows # {} => /\ Held(f) \in Row /\ flush[f].rows = {Held(f)}
                                    /\ Held(f).batch \in Flying
BY DEF FlushInv, Held, Flying, Late, Holds

\* A transaction that the flush makes changes the outbox and what it holds.
LEMMA ClientStep ==
    ASSUME Inv, UNCHANGED <<now, storeVars, skew, audited, traced>>, FlushInv',
           OutboxInv(Flying, outbox, meta)', StoreInv',
           cursor' \in Nat, events' \in Nat, reported' \in Nat
    PROVE  Inv'
<1>1. ClockInv'
  BY DEF Inv, ClockInv, OutboxInv, ChainInv
<1>2. ServerInv'
  BY DEF Inv, ServerInv, HeadsInv, storeVars
<1> QED
  BY <1>1, <1>2 DEF Inv

\* The invariant of what pruning leaves.
LEMMA Pruned ==
    ASSUME Inv
    PROVE  /\ OutboxInv(Flying, PrunedBox(outbox), PrunedMeta(outbox, meta))
           /\ \A c \in Pending(PrunedBox(outbox)) :
                 PrunedBox(outbox)[c].batch.created >= Clock - OfflineDays
           /\ Pending(PrunedBox(outbox)) = {} /\ PrunedMeta(outbox, meta).sequence # 0 =>
                 Clock - PrunedMeta(outbox, meta).last < IdleDays
BY PruneKeeps DEF Inv, ServerInv

\* What TelemetryState.next returns.
LEMMA NextKeeps ==
    ASSUME ClockInv, NEW S, NEW box, NEW m, OutboxInv(S, box, m), NEW rows,
           rows = IF Pending(box) = {} THEN {} ELSE {box[First(box)]}
    PROVE  /\ rows = {} \/ \E x \in Row : rows = {x}
           /\ OutboxInv(S \cup {row.batch : row \in rows}, box, m)
<1>1. CASE Pending(box) = {}
  <2>1. rows = {} /\ S \cup {row.batch : row \in rows} = S
    BY <1>1
  <2> QED
    BY <2>1
<1>2. CASE Pending(box) # {}
  <2>1. BoxInv(box) /\ DOMAIN box \subseteq 1..cursor /\ cursor \in Nat
    BY DEF OutboxInv, BoxInv, ClockInv
  <2>2. PICK c : c = First(box) /\ Front(box, c) /\ c \in DOMAIN box
    BY <1>2, <2>1, FirstIsFront DEF Front, Pending
  <2>3. rows = {box[c]} /\ box[c] \in Row /\ {row.batch : row \in rows} = {box[c].batch}
    BY <1>2, <2>1, <2>2 DEF BoxInv, RowInv
  <2> QED
    BY <2>2, <2>3, FrontTaken
<1> QED
  BY <1>1, <1>2

\* A flush that prunes, and goes on with what next returns.
LEMMA FlushNextKeeps ==
    ASSUME Inv, NEW f \in Flushers, FlushNext(f) \/ FlushAgain(f)
    PROVE  Inv'
<1>1. PICK box, m : /\ box = PrunedBox(outbox) /\ m = PrunedMeta(outbox, meta)
                    /\ OutboxInv(Flying, box, m)
  BY Pruned
<1>2. /\ outbox' = box /\ meta' = m
      /\ UNCHANGED <<cursor, events, reported, now, storeVars, skew, late, audited, traced>>
  BY <1>1 DEF FlushNext, FlushAgain, Prune
<1>3. PICK rows : rows = IF Pending(box) = {} THEN {} ELSE {box[First(box)]}
  OBVIOUS
<1>4. NextRows = rows
  BY <1>2, <1>3 DEF NextRows, Pending, First
<1>5. /\ rows = {} \/ \E x \in Row : rows = {x}
      /\ OutboxInv(Flying \cup {row.batch : row \in rows}, box, m)
  BY <1>1, <1>3, NextKeeps DEF Inv
<1>6. PICK at : Go(f, at, rows) /\ Holds(at, rows)'
  <2>1. CASE FlushNext(f)
    <3>1. Go(f, "report", rows)
      BY <1>4, <2>1 DEF FlushNext
    <3> QED
      BY <1>5, <3>1 DEF Holds, Step
  <2>2. CASE FlushAgain(f) /\ rows = {}
    <3>1. Go(f, "idle", rows)
      BY <1>4, <2>2 DEF FlushAgain
    <3> QED
      BY <1>5, <3>1 DEF Holds, Step
  <2>3. CASE FlushAgain(f) /\ rows # {}
    <3>1. PICK row \in rows : Go(f, FirstStep(row), {row})
      BY <1>4, <2>3 DEF FlushAgain
    <3>2. rows = {row} /\ FirstStep(row) \in {"audit", "traces"}
      BY <1>5, <3>1 DEF FirstStep
    <3> QED
      BY <1>5, <3>1, <3>2 DEF Holds, Step
  <2> QED
    BY <2>1, <2>2, <2>3
<1>7. FlushInv' /\ Flying' \subseteq Flying \cup {row.batch : row \in rows}
  <2>1. Late' \subseteq Flying
    BY <1>2 DEF Flying, Late
  <2>2. audited \subseteq audited' /\ traced \subseteq traced' /\ FlushInv
    BY <1>2 DEF Inv
  <2>3. FlushInv' /\ \A S : /\ Late' \subseteq S /\ Flying \subseteq S
                            /\ \A row \in rows : row.batch \in S
                            => Flying' \subseteq S
    BY <1>6, <2>2, GoKeeps
  <2>4. PICK S : S = Flying \cup {row.batch : row \in rows}
    OBVIOUS
  <2>5. Late' \subseteq S /\ Flying \subseteq S /\ \A row \in rows : row.batch \in S
    BY <2>1, <2>4
  <2> QED
    BY <2>3, <2>4, <2>5
<1>8. OutboxInv(Flying, outbox, meta)'
  BY <1>2, <1>5, <1>7, OutboxWritten DEF storeVars
<1>9. StoreInv' /\ cursor' \in Nat /\ events' \in Nat /\ reported' \in Nat
  BY <1>2 DEF Inv, StoreInv, ClockInv, storeVars
<1> QED
  BY <1>2, <1>7, <1>8, <1>9, ClientStep

\* A queue that is full drops the event.
LEMMA DropKeeps ==
    ASSUME Inv, NEW box, NEW m, OutboxInv(Flying, box, m),
           outbox' = box, meta' = Dropped(m, 1), events' = events + 1,
           UNCHANGED <<now, heads, batches, spans, audited, traced, cursor, reported, flush, late>>
    PROVE  OutboxInv(Flying, outbox, meta)'
<1>0. BoxInv(box) /\ ChainInv(box, m) /\ CountInv(box, m) /\ MeetInv(box, m) /\ SentInv(Flying, box, m)
  BY DEF OutboxInv
<1>1. m \in Metadata /\ ClockInv /\ DOMAIN box \subseteq 1..cursor /\ cursor \in Nat
  BY <1>0 DEF Inv, ClockInv, ChainInv, BoxInv
<1>2. PICK d : d = Dropped(m, 1)
  OBVIOUS
<1>3. /\ d \in Metadata /\ d.dropped = m.dropped + 1 /\ d.unreported = m.unreported + 1
      /\ d.stream = m.stream /\ d.sequence = m.sequence /\ d.previous = m.previous
      /\ d.last = m.last /\ d.sent = m.sent
  BY <1>1, <1>2, DroppedMetadata
<1>4. ChainInv(box, d)
  BY <1>0, <1>3 DEF ChainInv, LinkInv
<1>5. MeetInv(box, d)
  BY <1>0, <1>3 DEF MeetInv
<1>6. SentInv(Flying, box, d)
  BY <1>0, <1>3 DEF SentInv, KnownInv
<1>7. CountInv(outbox, meta)'
  <2>1. /\ events \in Nat /\ reported \in Nat /\ Cardinality(Pending(box)) \in Nat
        /\ m.sent \in Nat /\ m.dropped \in Nat /\ m.unreported \in Nat
    BY <1>1, FiniteRows DEF ClockInv, Metadata
  <2>2. /\ events + 1 = d.sent + Cardinality(Pending(box)) + d.dropped
        /\ d.dropped = d.unreported + reported
    BY <1>0, <1>3, <2>1 DEF CountInv
  <2> QED
    BY <1>2, <2>2 DEF CountInv, Pending
<1>8. \A b : /\ Fits(b) <=> Fits(b)'
             /\ Stored(b) <=> Stored(b)'
  BY DEF Fits, Stored, Remembered, TooOld
<1>9. BoxInv(outbox)'
  <2>1. ASSUME NEW c \in DOMAIN box PROVE RowInv(outbox, c)'
    <3>1. RowInv(box, c) /\ Stored(box[c].batch)'
      BY <1>0, <1>8 DEF BoxInv, RowInv
    <3> QED
      BY <3>1 DEF RowInv
  <2> QED
    BY <1>0, <2>1 DEF BoxInv
<1>10. ChainInv(outbox, meta)'
  BY <1>2, <1>4 DEF ChainInv, LinkInv, Pending, After
<1>11. MeetInv(outbox, meta)'
  <2>1. \A s, n, p, t : HeadIs(s, n, p, t) <=> HeadIs(s, n, p, t)'
    BY DEF HeadIs
  <2> QED
    BY <1>2, <1>5, <1>8, <2>1 DEF MeetInv, Front, Pending
<1>12. SentInv(Flying, outbox, meta)'
  <2>1. Flying' = Flying
    BY DEF Flying, Late
  <2>2. ASSUME NEW k \in Flying PROVE KnownInv(k, Flying, outbox, meta)'
    <3>1. KnownInv(k, Flying, box, d) /\ Stored(k)' /\ (k.number \notin audited' => Fits(k)')
      BY <1>6, <1>8 DEF SentInv, KnownInv
    <3> HIDE DEF Flying
    <3> QED
      BY <1>2, <2>1, <3>1 DEF KnownInv, Pending
  <2> QED
    BY <2>1, <2>2 DEF SentInv
<1> QED
  BY <1>7, <1>9, <1>10, <1>11, <1>12 DEF OutboxInv

\* Telemetry.record: the event is queued, or dropped and counted.
LEMMA RecordKeeps ==
    ASSUME Inv, Record
    PROVE  Inv'
<1>1. PICK box, m : /\ box = PrunedBox(outbox) /\ m = PrunedMeta(outbox, meta)
                    /\ OutboxInv(Flying, box, m)
                    /\ \A c \in Pending(box) : box[c].batch.created >= Clock - OfflineDays
                    /\ Pending(box) = {} /\ m.sequence # 0 => Clock - m.last < IdleDays
  BY Pruned
<1>2. UNCHANGED <<now, storeVars, skew, flush, late, audited, traced, faults>>
  BY DEF Record
<1>3. ClockInv /\ HeadsInv /\ StoreInv /\ FlushInv /\ m \in Metadata
  BY <1>1 DEF Inv, ServerInv, OutboxInv, ChainInv
<1>4. FlushInv' /\ Flying' \subseteq Flying
  BY <1>2, <1>3 DEF FlushInv, Flying, Late
<1>5. CASE \E duration \in Durations : Queue(box, m, 0, duration)
  <2>0. PICK duration \in Nat : Queue(box, m, 0, duration)
    BY <1>5, ReceiptAssumption
  <2>1. 0 \in Nat /\ 0 <= m.unreported
    BY <1>3 DEF Metadata
  <2>2. OutboxInv(Flying, outbox, meta)' /\ StoreInv'
    BY <1>1, <1>2, <1>3, <1>4, <2>0, <2>1, QueueKeeps
  <2>3. cursor' \in Nat /\ events' \in Nat /\ reported' \in Nat
    BY <1>3, <2>0 DEF Queue, ClockInv
  <2> QED
    BY <1>2, <1>4, <2>2, <2>3, ClientStep
<1>6. CASE /\ outbox' = box
           /\ meta' = Dropped(m, 1)
           /\ events' = events + 1
           /\ UNCHANGED <<cursor, reported>>
  <2>1. OutboxInv(Flying, outbox, meta)'
    BY <1>1, <1>2, <1>6, DropKeeps DEF storeVars
  <2>2. StoreInv' /\ cursor' \in Nat /\ events' \in Nat /\ reported' \in Nat
    BY <1>2, <1>3, <1>6 DEF StoreInv, ClockInv, storeVars
  <2> QED
    BY <1>2, <1>4, <2>1, <2>2, ClientStep
<1> QED
  BY <1>1, <1>5, <1>6 DEF Record

\* After the report of drops the flush goes on with the row it holds.
LEMMA ProceedKeeps ==
    ASSUME Inv, NEW f \in Flushers, Proceed(f), UNCHANGED <<late, audited, traced>>
    PROVE  FlushInv' /\ Flying' \subseteq Flying
<1>1. /\ \A row \in flush[f].rows : row \in Row /\ row.batch \in Flying
      /\ Late \subseteq Flying /\ FlushInv
      /\ Holds(flush[f].at, flush[f].rows)
  BY HeldRow DEF Inv
<1>2. PICK at, rows : Go(f, at, rows) /\ Holds(at, rows)' /\ rows \subseteq flush[f].rows
  <2>1. CASE flush[f].rows = {}
    <3>1. Go(f, "again", {})
      BY <2>1 DEF Proceed
    <3>2. Holds("again", {})'
      BY DEF Holds, Step
    <3> QED
      BY <3>1, <3>2
  <2>2. CASE flush[f].rows # {}
    <3>1. Go(f, FirstStep(Held(f)), flush[f].rows) /\ FirstStep(Held(f)) \in {"audit", "traces"}
      BY <2>2 DEF Proceed, FirstStep
    <3>2. PICK at, rows : at = FirstStep(Held(f)) /\ rows = flush[f].rows
      OBVIOUS
    <3>3. Holds(at, rows)'
      BY <1>1, <2>2, <3>1, <3>2 DEF Holds, Step
    <3> QED
      BY <3>1, <3>2, <3>3
  <2> QED
    BY <2>1, <2>2
<1>3. FlushInv' /\ \A S : /\ Late' \subseteq S /\ Flying \subseteq S
                          /\ \A row \in rows : row.batch \in S
                          => Flying' \subseteq S
  <2>1. audited \subseteq audited' /\ traced \subseteq traced'
    OBVIOUS
  <2> QED
    BY <1>1, <1>2, <2>1, GoKeeps
<1> QED
  <2>1. PICK S : S = Flying
    OBVIOUS
  <2>2. Late' \subseteq S /\ Flying \subseteq S /\ \A row \in rows : row.batch \in S
    BY <1>1, <1>2, <2>1 DEF Late
  <2> QED
    BY <1>3, <2>1, <2>2

\* The report of drops is queued, if there is one and room for it.
LEMMA FlushReportKeeps ==
    ASSUME Inv, NEW f \in Flushers, FlushReport(f)
    PROVE  Inv'
<1>1. PICK box, m : /\ box = PrunedBox(outbox) /\ m = PrunedMeta(outbox, meta)
                    /\ OutboxInv(Flying, box, m)
                    /\ \A c \in Pending(box) : box[c].batch.created >= Clock - OfflineDays
                    /\ Pending(box) = {} /\ m.sequence # 0 => Clock - m.last < IdleDays
  BY Pruned
<1>2. UNCHANGED <<now, storeVars, skew, late, audited, traced>> /\ Proceed(f)
  BY DEF FlushReport
<1>3. ClockInv /\ HeadsInv /\ StoreInv /\ m \in Metadata
  BY <1>1 DEF Inv, ServerInv, OutboxInv, ChainInv
<1>4. FlushInv' /\ Flying' \subseteq Flying
  BY <1>2, ProceedKeeps
<1>5. CASE Queue(box, m, m.unreported, 0)
  <2>1. m.unreported \in Nat /\ m.unreported <= m.unreported
    BY <1>3 DEF Metadata
  <2>2. OutboxInv(Flying, outbox, meta)' /\ StoreInv'
    BY <1>1, <1>2, <1>3, <1>4, <1>5, <2>1, QueueKeeps
  <2>3. cursor' \in Nat /\ events' \in Nat /\ reported' \in Nat
    BY <1>3, <1>5, <2>1 DEF Queue, ClockInv
  <2> QED
    BY <1>2, <1>4, <2>2, <2>3, ClientStep
<1>6. CASE Prune
  <2>1. /\ outbox' = box /\ meta' = m /\ UNCHANGED <<cursor, events, reported>>
    BY <1>1, <1>6 DEF Prune
  <2>2. OutboxInv(Flying, outbox, meta)'
    BY <1>1, <1>2, <1>4, <2>1, OutboxWritten DEF storeVars
  <2>3. StoreInv' /\ cursor' \in Nat /\ events' \in Nat /\ reported' \in Nat
    BY <1>2, <1>3, <2>1 DEF StoreInv, ClockInv, storeVars
  <2> QED
    BY <1>2, <1>4, <2>2, <2>3, ClientStep
<1> QED
  BY <1>1, <1>5, <1>6 DEF FlushReport

\* TelemetryState.acknowledge, of a batch that the transport has stored.
LEMMA AcknowledgeKeeps ==
    ASSUME Inv, NEW b \in Flying, NEW transport \in {"audit", "traces"},
           IF transport = "audit" THEN b.number \in audited ELSE b.number \in traced,
           Acknowledge(b.number, transport), FlushInv', Flying' \subseteq Flying,
           UNCHANGED <<now, storeVars, skew, audited, traced>>
    PROVE  Inv'
<1>0. ClockInv /\ HeadsInv /\ OutboxInv(Flying, outbox, meta) /\ StoreInv
  BY DEF Inv, ServerInv
<1>1. UNCHANGED <<cursor, events, reported>>
  BY DEF Acknowledge, Prune
<1>2. OutboxInv(Flying, outbox', meta')
  <2>1. CASE b.number \notin Pending(outbox)
    <3>1. outbox' = PrunedBox(outbox) /\ meta' = PrunedMeta(outbox, meta)
      BY <2>1 DEF Acknowledge, Awaiting, Prune
    <3> QED
      BY <3>1, Pruned
  <2>2. CASE b.number \in Pending(outbox)
    <3>1. PICK row : row = Sent(outbox[b.number], transport)
      OBVIOUS
    <3>2. PICK box : box = AckBox(b.number, row)
      OBVIOUS
    <3>3. PICK m : m = AckMeta(row)
      OBVIOUS
    <3>4. outbox' = PrunedBox(box) /\ meta' = PrunedMeta(box, m)
      BY <2>2, <3>1, <3>2, <3>3 DEF Acknowledge, Awaiting, AckBox, AckMeta
    <3>5. OutboxInv(Flying, box, m) /\ m.last = meta.last
      BY <1>0, <2>2, <3>1, <3>2, <3>3, AcknowledgedRowKeeps
    <3>6. OutboxInv(Flying, PrunedBox(box), PrunedMeta(box, m))
      BY <1>0, <3>5, PruneKeeps
    <3> QED
      BY <3>4, <3>6
  <2> QED
    BY <2>1, <2>2
<1>3. OutboxInv(Flying, outbox, meta)'
  <2>1. PICK box, m : box = outbox' /\ m = meta' /\ OutboxInv(Flying, box, m)
    BY <1>2
  <2> QED
    BY <1>1, <2>1, OutboxWritten DEF storeVars
<1>4. StoreInv' /\ cursor' \in Nat /\ events' \in Nat /\ reported' \in Nat
  BY <1>0, <1>1 DEF StoreInv, ClockInv, storeVars
<1> QED
  BY <1>3, <1>4, ClientStep

\* Both acknowledgements of a flush.
LEMMA FlushAcknowledgeKeeps ==
    ASSUME Inv, NEW f \in Flushers, FlushAudited(f) \/ FlushTraced(f)
    PROVE  Inv'
<1>0. FlushInv
  BY DEF Inv
<1>1. flush[f].rows # {} /\ flush[f].at \in {"audited", "traced"}
  BY <1>0 DEF FlushAudited, FlushTraced, At, FlushInv
<1>2. /\ Held(f) \in Row /\ flush[f].rows = {Held(f)} /\ Held(f).batch \in Flying
      /\ Late \subseteq Flying
  BY <1>0, <1>1, HeldRow
<1>3. UNCHANGED <<now, storeVars, skew, late, audited, traced>>
  BY DEF FlushAudited, FlushTraced
<1>4. PICK at, rows : Go(f, at, rows) /\ Holds(at, rows)' /\ rows \subseteq flush[f].rows
  <2>1. ASSUME Go(f, "idle", {}) PROVE \E at, rows :
            Go(f, at, rows) /\ Holds(at, rows)' /\ rows \subseteq flush[f].rows
    <3>1. Holds("idle", {})'
      BY DEF Holds, Step
    <3> QED
      BY <2>1, <3>1
  <2>2. ASSUME Go(f, "traces", flush[f].rows) PROVE \E at, rows :
            Go(f, at, rows) /\ Holds(at, rows)' /\ rows \subseteq flush[f].rows
    <3>1. PICK rows : rows = flush[f].rows
      OBVIOUS
    <3>2. Holds("traces", rows)'
      BY <1>2, <3>1 DEF Holds, Step
    <3> QED
      BY <2>2, <3>1, <3>2
  <2> QED
    BY <2>1, <2>2 DEF FlushAudited, FlushTraced
<1>5. FlushInv' /\ Flying' \subseteq Flying
  <2>1. audited \subseteq audited' /\ traced \subseteq traced'
    BY <1>3
  <2>2. FlushInv' /\ \A S : /\ Late' \subseteq S /\ Flying \subseteq S
                            /\ \A row \in rows : row.batch \in S
                            => Flying' \subseteq S
    BY <1>0, <1>4, <2>1, GoKeeps
  <2>3. PICK S : S = Flying
    OBVIOUS
  <2>4. Late' \subseteq S /\ Flying \subseteq S /\ \A row \in rows : row.batch \in S
    BY <1>2, <1>3, <1>4, <2>3 DEF Late
  <2> QED
    BY <2>2, <2>3, <2>4
<1>6. PICK b \in Flying : b = Held(f).batch
  BY <1>2
<1>7. CASE FlushAudited(f)
  <2>1. Acknowledge(b.number, "audit") /\ b.number \in audited
    BY <1>0, <1>2, <1>6, <1>7 DEF FlushAudited, At, FlushInv
  <2> QED
    BY <1>3, <1>5, <2>1, AcknowledgeKeeps
<1>8. CASE FlushTraced(f)
  <2>1. Acknowledge(b.number, "traces") /\ b.number \in traced
    BY <1>0, <1>2, <1>6, <1>8 DEF FlushTraced, At, FlushInv
  <2> QED
    BY <1>3, <1>5, <2>1, AcknowledgeKeeps
<1> QED
  BY <1>7, <1>8

-----------------------------------------------------------------------------
(* The steps of the server, of the faults and of the clocks *)

\* No table of the server gets an entry again that it had before.
NothingTwice ==
    /\ (DOMAIN batches' \ DOMAIN batches) \cap audited = {}
    /\ (DOMAIN spans' \ DOMAIN spans) \cap traced = {}

\* The audit request of a flush, and its reply.
LEMMA FlushAuditKeeps ==
    ASSUME Inv, NEW f \in Flushers, FlushAudit(f)
    PROVE  Inv' /\ NothingTwice
<1>0. FlushInv
  BY DEF Inv
<1>1. /\ Held(f) \in Row /\ flush[f].rows = {Held(f)} /\ Held(f).batch \in Flying
      /\ Late \subseteq Flying
  BY <1>0, HeldRow DEF FlushAudit, At, FlushInv
<1>2. PICK b \in Flying : b = Held(f).batch
  BY <1>1
<1>3. /\ AcceptAudit(b)
      /\ audited' = IF AuditCode(b) = "accepted" THEN audited \cup {b.number} ELSE audited
      /\ UNCHANGED <<now, skew, late, outbox, meta, cursor, events, reported, traced>>
  BY <1>2 DEF FlushAudit, ServeAudit, clientVars
<1>4. PICK at, rows : /\ Go(f, at, rows) /\ rows \subseteq flush[f].rows
                      /\ \/ at = "idle" /\ rows = {}
                         \/ at = "audited" /\ rows = flush[f].rows /\ Acknowledged(AuditCode(b))
  BY <1>2 DEF FlushAudit
<1>5. Flying' \subseteq Flying
  <2>1. \A g \in Flushers : g # f => flush'[g] = flush[g]
    BY <1>0, <1>4 DEF Go, FlushInv
  <2>2. flush'[f].rows \subseteq flush[f].rows
    BY <1>0, <1>4 DEF Go, FlushInv
  <2>3. \A g \in Flushers : flush'[g].rows \subseteq flush[g].rows
    BY <2>1, <2>2
  <2> QED
    BY <1>3, <2>3 DEF Flying, Late
<1>6. /\ ClockInv' /\ ServerInv' /\ OutboxInv(Flying, outbox, meta)' /\ StoreInv'
      /\ audited \subseteq audited'
      /\ Acknowledged(AuditCode(b)) => b.number \in audited'
      /\ (DOMAIN batches' \ DOMAIN batches) \cap audited = {}
      /\ DOMAIN spans' \subseteq DOMAIN spans
  BY <1>3, <1>5, AuditKeeps
<1>7. FlushInv'
  <2>1. Holds(at, rows)'
    BY <1>1, <1>2, <1>4, <1>6 DEF Holds, Step
  <2>2. audited \subseteq audited' /\ traced \subseteq traced'
    BY <1>3, <1>6
  <2> QED
    BY <1>0, <1>4, <2>1, <2>2, GoKeeps
<1> QED
  BY <1>6, <1>7 DEF Inv, NothingTwice

\* The trace request of a flush, and its reply.
LEMMA FlushTracesKeeps ==
    ASSUME Inv, NEW f \in Flushers, FlushTraces(f)
    PROVE  Inv' /\ NothingTwice
<1>0. FlushInv
  BY DEF Inv
<1>1. /\ Held(f) \in Row /\ flush[f].rows = {Held(f)} /\ Held(f).batch \in Flying
      /\ Late \subseteq Flying
  BY <1>0, HeldRow DEF FlushTraces, At, FlushInv
<1>2. PICK b \in Flying : b = Held(f).batch
  BY <1>1
<1>3. /\ AcceptSpans(b)
      /\ traced' = IF SpansCode(b) = "accepted" THEN traced \cup {b.number} ELSE traced
      /\ UNCHANGED <<now, skew, late, outbox, meta, cursor, events, reported, audited>>
  BY <1>2 DEF FlushTraces, ServeTraces, clientVars
<1>4. PICK at, rows : /\ Go(f, at, rows) /\ rows \subseteq flush[f].rows
                      /\ \/ at = "idle" /\ rows = {}
                         \/ at = "traced" /\ rows = flush[f].rows /\ Acknowledged(SpansCode(b))
  BY <1>2 DEF FlushTraces
<1>5. Flying' \subseteq Flying
  <2>1. \A g \in Flushers : g # f => flush'[g] = flush[g]
    BY <1>0, <1>4 DEF Go, FlushInv
  <2>2. flush'[f].rows \subseteq flush[f].rows
    BY <1>0, <1>4 DEF Go, FlushInv
  <2>3. \A g \in Flushers : flush'[g].rows \subseteq flush[g].rows
    BY <2>1, <2>2
  <2> QED
    BY <1>3, <2>3 DEF Flying, Late
<1>6. /\ ClockInv' /\ ServerInv' /\ OutboxInv(Flying, outbox, meta)' /\ StoreInv'
      /\ traced \subseteq traced'
      /\ Acknowledged(SpansCode(b)) => b.number \in traced'
      /\ (DOMAIN spans' \ DOMAIN spans) \cap traced = {}
      /\ DOMAIN batches' \subseteq DOMAIN batches
  BY <1>3, <1>5, SpansKeep
<1>7. FlushInv'
  <2>1. Holds(at, rows)'
    BY <1>1, <1>2, <1>4, <1>6 DEF Holds, Step
  <2>2. audited \subseteq audited' /\ traced \subseteq traced'
    BY <1>3, <1>6
  <2> QED
    BY <1>0, <1>4, <2>1, <2>2, GoKeeps
<1> QED
  BY <1>6, <1>7 DEF Inv, NothingTwice

\* A request whose sender gave up.
LEMMA ArriveKeeps ==
    ASSUME Inv, NEW request \in late, Arrive(request)
    PROVE  Inv' /\ NothingTwice
<1>1. PICK b \in Flying : b = request.batch
  BY DEF Flying, Late
<1>2. UNCHANGED <<now, skew, outbox, meta, cursor, flush, events, reported>>
  BY DEF Arrive, clientVars
<1>3. Flying' \subseteq Flying
  BY <1>2 DEF Arrive, Flying, Late
<1>4. CASE ServeAudit(b)
  <2>1. /\ AcceptAudit(b) /\ traced' = traced
        /\ audited' = IF AuditCode(b) = "accepted" THEN audited \cup {b.number} ELSE audited
    BY <1>4 DEF ServeAudit
  <2>2. /\ ClockInv' /\ ServerInv' /\ OutboxInv(Flying, outbox, meta)' /\ StoreInv'
        /\ audited \subseteq audited'
        /\ (DOMAIN batches' \ DOMAIN batches) \cap audited = {}
        /\ DOMAIN spans' \subseteq DOMAIN spans
    BY <1>2, <1>3, <2>1, AuditKeeps
  <2>3. FlushInv'
    BY <1>2, <2>1, <2>2 DEF Inv, FlushInv
  <2> QED
    BY <2>2, <2>3 DEF Inv, NothingTwice
<1>5. CASE ServeTraces(b)
  <2>1. /\ AcceptSpans(b) /\ audited' = audited
        /\ traced' = IF SpansCode(b) = "accepted" THEN traced \cup {b.number} ELSE traced
    BY <1>5 DEF ServeTraces
  <2>2. /\ ClockInv' /\ ServerInv' /\ OutboxInv(Flying, outbox, meta)' /\ StoreInv'
        /\ traced \subseteq traced'
        /\ (DOMAIN spans' \ DOMAIN spans) \cap traced = {}
        /\ DOMAIN batches' \subseteq DOMAIN batches
    BY <1>2, <1>3, <2>1, SpansKeep
  <2>3. FlushInv'
    BY <1>2, <2>1, <2>2 DEF Inv, FlushInv
  <2> QED
    BY <2>2, <2>3 DEF Inv, NothingTwice
<1> QED
  BY <1>1, <1>4, <1>5 DEF Arrive

\* A command that dies, or a request or reply that is lost.
LEMMA BreakKeeps ==
    ASSUME Inv, NEW f \in Flushers, Break(f)
    PROVE  Inv'
<1>0. FlushInv /\ OutboxInv(Flying, outbox, meta) /\ ClockInv /\ StoreInv
  BY DEF Inv
<1>1. /\ UNCHANGED <<now, storeVars, outbox, meta, cursor, skew, events, reported, audited, traced>>
      /\ Go(f, "idle", {})
  BY DEF Break, clientVars, history
<1>2. Late' \subseteq Flying
  <2>1. Late \subseteq Flying /\ (flush[f].at \in Transport => Held(f).batch \in Flying)
    BY <1>0, HeldRow DEF FlushInv, Transport
  <2> QED
    BY <2>1 DEF Break, Late
<1>3. FlushInv' /\ Flying' \subseteq Flying
  <2>1. Holds("idle", {})'
    BY DEF Holds, Step
  <2>2. audited \subseteq audited' /\ traced \subseteq traced'
    BY <1>1
  <2>3. PICK at, rows : at = "idle" /\ rows = {} /\ Go(f, at, rows) /\ Holds(at, rows)'
    BY <1>1, <2>1
  <2>4. FlushInv' /\ \A S : /\ Late' \subseteq S /\ Flying \subseteq S
                            /\ \A row \in rows : row.batch \in S
                            => Flying' \subseteq S
    BY <1>0, <2>2, <2>3, GoKeeps
  <2>5. PICK S : S = Flying
    OBVIOUS
  <2>6. Late' \subseteq S /\ Flying \subseteq S /\ \A row \in rows : row.batch \in S
    BY <1>2, <2>3, <2>5
  <2> QED
    BY <2>4, <2>5, <2>6
<1>4. OutboxInv(Flying, outbox, meta)'
  <2>1. PICK box, m : box = outbox /\ m = meta
    OBVIOUS
  <2> QED
    BY <1>0, <1>1, <1>3, <2>1, OutboxWritten DEF storeVars
<1>5. StoreInv' /\ cursor' \in Nat /\ events' \in Nat /\ reported' \in Nat
  BY <1>0, <1>1 DEF StoreInv, ClockInv, storeVars
<1> QED
  BY <1>1, <1>3, <1>4, <1>5, ClientStep

\* Time passes; what is retained for long enough outlasts it.
LEMMA TickKeeps ==
    ASSUME Inv, Tick
    PROVE  Inv'
<1>0. ClockInv /\ ServerInv /\ OutboxInv(Flying, outbox, meta)
  BY DEF Inv
<1>1. /\ UNCHANGED <<heads, batches, spans, rejections, outbox, meta, cursor, skew, flush, late>>
      /\ UNCHANGED <<events, reported, audited, traced>>
      /\ now' = now + 1
  BY DEF Tick, storeVars, clientVars, history
<1>2. now' \in Nat /\ now <= now' /\ ClockInv'
  BY <1>0, <1>1 DEF ClockInv
<1>3. ServerInv' /\ StoreInv' /\ FlushInv' /\ Flying' = Flying
  BY <1>1 DEF Inv, ServerInv, HeadsInv, StoreInv, FlushInv, Flying, Late
<1>4. \A s : SameHead(s, heads, heads')
  BY <1>1 DEF SameHead
<1>5. Kept(batches, batches') /\ Kept(spans, spans')
  BY <1>1 DEF Kept
<1>6. MeetInv(outbox, meta)' /\ \A k \in Flying : k.number \notin audited' => Fits(k)'
  BY <1>0, <1>1, <1>2, <1>4, MeetingAges
<1>7. ASSUME NEW k \in Batch, Stored(k) PROVE Stored(k)'
  BY <1>0, <1>1, <1>2, <1>5, <1>7, StoredAges
<1>8. OutboxInv(Flying, outbox, meta)'
  <2>1. \A c \in DOMAIN outbox : Stored(outbox[c].batch)'
    BY <1>0, <1>1, <1>7 DEF OutboxInv, BoxInv, RowInv, Row
  <2>2. \A k \in Flying : Stored(k)'
    BY <1>0, <1>7 DEF OutboxInv, SentInv, KnownInv
  <2>3. audited \subseteq audited' /\ traced \subseteq traced' /\ Flying' \subseteq Flying
    BY <1>1, <1>3
  <2> QED
    BY <1>0, <1>1, <1>6, <2>1, <2>2, <2>3, OutboxStays
<1> QED
  BY <1>2, <1>3, <1>8 DEF Inv

\* Nothing of the invariant depends on the client's clock or on the bounds.
LEMMA StutterKeeps ==
    ASSUME Inv, UNCHANGED <<now, storeVars, outbox, meta, cursor, flush, late>>,
           UNCHANGED <<events, reported, audited, traced>>, skew' \in Nat, skew' <= MaxSkew
    PROVE  Inv'
<1>0. OutboxInv(Flying, outbox, meta)
  BY DEF Inv
<1>1. ClockInv' /\ ServerInv' /\ StoreInv' /\ FlushInv' /\ Flying' \subseteq Flying
  BY DEF Inv, ClockInv, ServerInv, HeadsInv, StoreInv, FlushInv, Flying, Late, storeVars
<1>2. OutboxInv(Flying, outbox, meta)'
  <2>1. PICK box, m : box = outbox /\ m = meta
    OBVIOUS
  <2> QED
    BY <1>0, <1>1, <2>1, OutboxWritten DEF storeVars
<1> QED
  BY <1>1, <1>2 DEF Inv

\* The correction of the client's clock.
LEMMA SetClockKeeps ==
    ASSUME Inv, SetClock
    PROVE  Inv'
<1>1. skew \in Nat /\ skew <= MaxSkew /\ MaxSkew \in Nat
  BY DaysAssumption DEF Inv, ClockInv
<1>2. skew' \in Nat /\ skew' <= MaxSkew
  BY <1>1 DEF SetClock
<1> QED
  BY <1>2, StutterKeeps DEF SetClock, clientVars, history

-----------------------------------------------------------------------------
(* The theorems *)

LEMMA InitInv ==
    ASSUME Init
    PROVE  Inv
<1>1. /\ outbox = <<>> /\ heads = <<>> /\ batches = <<>> /\ spans = <<>> /\ rejections = {}
      /\ DOMAIN outbox = {} /\ DOMAIN heads = {} /\ DOMAIN batches = {} /\ DOMAIN spans = {}
      /\ cursor = 0 /\ now = 0 /\ events = 0 /\ reported = 0 /\ audited = {} /\ traced = {}
  BY DEF Init, StoreInit
<1>2. meta = [stream |-> 0, sequence |-> 0, previous |-> NoBatch, last |-> Never,
              dropped |-> 0, unreported |-> 0, sent |-> 0]
  BY DEF Init
<1>3. ClockInv
  BY <1>1, <1>2, DaysAssumption DEF Init, ClockInv, Metadata
<1>4. ServerInv /\ StoreInv
  BY <1>1 DEF ServerInv, HeadsInv, StoreInv
<1>5. FlushInv
  BY DEF Init, FlushInv, Step
<1>6. Flying = {}
  BY DEF Init, Flying, Late
<1>7. Pending(outbox) = {} /\ Cardinality(Pending(outbox)) = 0
  BY <1>1, FS_EmptySet DEF Pending
<1>8. OutboxInv(Flying, outbox, meta)
  BY <1>1, <1>2, <1>3, <1>6, <1>7
  DEF OutboxInv, BoxInv, ChainInv, CountInv, MeetInv, SentInv, ClockInv
<1> QED
  BY <1>3, <1>4, <1>5, <1>8 DEF Inv

\* Every step keeps the invariant.
LEMMA NextInv ==
    ASSUME Inv, [Next]_vars
    PROVE  Inv' /\ NothingTwice
<1>1. CASE Record
  BY <1>1, RecordKeeps DEF NothingTwice, Record, storeVars
<1>2. ASSUME NEW f \in Flushers, FlushNext(f) \/ FlushAgain(f)
      PROVE  Inv' /\ NothingTwice
  BY <1>2, FlushNextKeeps DEF NothingTwice, FlushNext, FlushAgain, storeVars
<1>3. ASSUME NEW f \in Flushers, FlushReport(f)
      PROVE  Inv' /\ NothingTwice
  BY <1>3, FlushReportKeeps DEF NothingTwice, FlushReport, storeVars
<1>4. ASSUME NEW f \in Flushers, FlushAudited(f) \/ FlushTraced(f)
      PROVE  Inv' /\ NothingTwice
  BY <1>4, FlushAcknowledgeKeeps DEF NothingTwice, FlushAudited, FlushTraced, storeVars
<1>5. ASSUME NEW f \in Flushers, FlushAudit(f) \/ FlushTraces(f)
      PROVE  Inv' /\ NothingTwice
  BY <1>5, FlushAuditKeeps, FlushTracesKeeps
<1>6. ASSUME NEW f \in Flushers, Break(f)
      PROVE  Inv' /\ NothingTwice
  BY <1>6, BreakKeeps DEF NothingTwice, Break, storeVars
<1>7. ASSUME NEW b \in late, Arrive(b)
      PROVE  Inv' /\ NothingTwice
  BY <1>7, ArriveKeeps
<1>8. CASE Tick
  BY <1>8, TickKeeps DEF NothingTwice, Tick, storeVars
<1>9. CASE SetClock
  BY <1>9, SetClockKeeps DEF NothingTwice, SetClock, storeVars
<1>10. CASE UNCHANGED vars
  <2>1. skew' \in Nat /\ skew' <= MaxSkew
    BY <1>10 DEF vars, Inv, ClockInv
  <2>2. Inv'
    BY <1>10, <2>1, StutterKeeps DEF vars, clientVars, history
  <2> QED
    BY <1>10, <2>2 DEF NothingTwice, vars, storeVars
<1> QED
  BY <1>1, <1>2, <1>3, <1>4, <1>5, <1>6, <1>7, <1>8, <1>9, <1>10 DEF Next, FlushStep

\* The invariant holds whichever commands record and deliver, whatever is lost,
\* late or interrupted, and however the client's clock is corrected.
THEOREM Invariant == Spec => []Inv
<1> QED
  BY InitInv, NextInv, PTL DEF Spec

\* The outbox (telemetry_state.py), its metadata and the store (monitoring-store.ts)
\* keep the types of their tables.
THEOREM TypeCorrect == Spec => []TypeOK
<1>1. Inv => TypeOK
  <2> SUFFICES ASSUME Inv PROVE TypeOK
    OBVIOUS
  <2>1. /\ now \in Nat /\ cursor \in Nat /\ skew \in 0..MaxSkew /\ meta \in Metadata
        /\ events \in Nat /\ reported \in Nat
    BY DaysAssumption DEF Inv, ClockInv
  <2>2. /\ DOMAIN heads \subseteq Nat /\ \A s \in DOMAIN heads : heads[s] \in StreamHead
        /\ DOMAIN batches \subseteq Nat /\ DOMAIN spans \subseteq Nat
        /\ \A b \in DOMAIN batches : batches[b] \in Nat
        /\ \A b \in DOMAIN spans : spans[b] \in Nat
        /\ rejections \subseteq {"monitoring_chain"}
        /\ audited \subseteq Nat /\ traced \subseteq Nat
    <3>1. audited \subseteq Nat /\ traced \subseteq Nat
      BY <2>1 DEF Inv, StoreInv
    <3>2. DOMAIN batches \subseteq Nat /\ DOMAIN spans \subseteq Nat
      BY <3>1 DEF Inv, StoreInv
    <3>3. DOMAIN heads \subseteq Nat /\ \A s \in DOMAIN heads : heads[s] \in StreamHead
      BY DEF Inv, ServerInv, HeadsInv
    <3> QED
      BY <3>1, <3>2, <3>3 DEF Inv, ServerInv
  <2>3. /\ DOMAIN outbox \subseteq 1..cursor
        /\ \A c \in DOMAIN outbox : outbox[c] \in Row /\ outbox[c].batch.number = c
    BY DEF Inv, OutboxInv, BoxInv, RowInv
  <2>4. ASSUME NEW f \in Flushers
        PROVE  /\ flush[f].at \in Step
               /\ flush[f].rows \subseteq Row /\ Cardinality(flush[f].rows) <= 1
    <3>1. flush[f].at \in Step /\ (flush[f].rows = {} \/ \E x \in Row : flush[f].rows = {x})
      BY DEF Inv, FlushInv
    <3>2. Cardinality(flush[f].rows) \in {0, 1}
      BY <3>1, FS_EmptySet, FS_Singleton
    <3> QED
      BY <3>1, <3>2
  <2>5. \A request \in late : request.batch \in Batch
    BY DEF Inv, OutboxInv, SentInv, KnownInv, Flying, Late
  <2> QED
    BY <2>1, <2>2, <2>3, <2>4, <2>5 DEF TypeOK
<1> QED
  BY <1>1, Invariant, PTL

\* No event and no drop is lost or counted twice (_prune, queue and acknowledge of
\* telemetry_state.py), whatever the capacity and the ages.
THEOREM DropsCorrect == Spec => []DropsAccounted
<1>1. Inv => DropsAccounted
  BY DEF Inv, OutboxInv, CountInv, DropsAccounted
<1> QED
  BY <1>1, Invariant, PTL

\* What waits in the outbox is the unbroken end of the current stream (queue and
\* _prune of telemetry_state.py).
THEOREM ChainCorrect == Spec => []OneChain
<1>1. Inv => OneChain
  <2> SUFFICES ASSUME Inv, NEW c \in Pending(outbox)
               PROVE  /\ outbox[c].batch.stream = meta.stream
                      /\ outbox[c].batch.sequence + Cardinality(Later(c)) = meta.sequence
                      /\ IF Later(c) = {} THEN meta.previous = c
                         ELSE \E d \in Later(c) : /\ outbox[d].batch.previous = c
                                                  /\ \A e \in Later(c) : d <= e
    BY DEF OneChain
  <2>1. LinkInv(outbox, meta, c) /\ Later(c) = After(outbox, c)
    BY DEF Inv, OutboxInv, ChainInv, After, Later
  <2>2. ASSUME Later(c) # {}
        PROVE  \E d \in Later(c) : outbox[d].batch.previous = c /\ \A e \in Later(c) : d <= e
    <3>1. DOMAIN outbox \subseteq 1..cursor /\ cursor \in Nat
      BY DEF Inv, ClockInv, OutboxInv, BoxInv
    <3>2. Later(c) \subseteq Nat
      BY <3>1, FiniteRows DEF Later
    <3>3. PICK d \in Later(c) : \A e \in Later(c) : d <= e
      BY <2>2, <3>2, Least
    <3> QED
      BY <2>1, <3>3 DEF LinkInv
  <2> QED
    BY <2>1, <2>2 DEF LinkInv
<1> QED
  BY <1>1, Invariant, PTL

\* acceptAudit (monitoring-store.ts) never answers monitoring_chain to a companion.
THEOREM NeverBroken == Spec => []NoBrokenChain
<1>1. Inv => NoBrokenChain
  BY DEF Inv, ServerInv, NoBrokenChain
<1> QED
  BY <1>1, Invariant, PTL

\* acknowledge (telemetry_state.py) counts a row as delivered, and marks a transport,
\* only after the server stored it.
THEOREM DeliveredCorrect == Spec => []DeliveredIsStored
<1>1. Inv => DeliveredIsStored
  BY DEF Inv, OutboxInv, BoxInv, RowInv, DeliveredIsStored
<1> QED
  BY <1>1, Invariant, PTL

\* No retry makes the server (monitoring-store.ts) store a batch or a span again.
THEOREM StoredOnceCorrect == Spec => StoredOnce
<1>1. Inv /\ [Next]_vars => [/\ (DOMAIN batches' \ DOMAIN batches) \cap audited = {}
                              /\ (DOMAIN spans' \ DOMAIN spans) \cap traced = {}]_vars
  BY NextInv DEF NothingTwice
<1> QED
  BY <1>1, Invariant, PTL DEF Spec, StoredOnce
=============================================================================
