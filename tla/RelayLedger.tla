----------------------------- MODULE RelayLedger -----------------------------
(***************************************************************************)
(* PublicRelayLedger (relay-ledger.ts): the durable record of inference    *)
(* requests that enforces the daily budget, the execution slots and        *)
(* at-most-once admission.  Every method is one storage transaction, so    *)
(* one action; callers retry, race, crash and disagree about the time, so  *)
(* methods come in any order and with any clock reading.                   *)
(***************************************************************************)
EXTENDS Integers, FiniteSets, FiniteSetsExt

CONSTANTS
    Requests,       \* request IDs, each with its owner
    Birth,          \* Birth[q]: the timestamp embedded in the ID (UUIDv7)
    Generations,    \* the provider's generation IDs
    NoGeneration,   \* no generation ID is known
    Reservations,   \* the amounts a request may reserve
    Costs,          \* the costs that may be observed
    Times,          \* bound: the clock readings of callers
    DayLength, MaxAge, FutureTolerance, Retention, MinAge,
    Budget, Slots, MaxRecords, PurgeBatch,
    Uncharged       \* the charge of a request whose usage is unknown

ASSUME RequestAssumption == IsFiniteSet(Requests) /\ Birth \in [Requests -> Nat]
ASSUME GenerationAssumption == NoGeneration \notin Generations
ASSUME AmountAssumption == Reservations \subseteq Nat \ {0} /\ Costs \subseteq Nat
ASSUME TimeAssumption ==
    /\ Times \subseteq Nat
    /\ DayLength \in Nat \ {0}
    /\ {MaxAge, FutureTolerance, Retention, MinAge} \subseteq Nat
\* A day is over before any of its receipts is purged (90 days of retention).
ASSUME RetentionAssumption == DayLength <= Retention
ASSUME LimitAssumption == {Budget, Slots, MaxRecords, PurgeBatch} \subseteq Nat \ {0}
ASSUME ChargeAssumption == Uncharged \notin Nat

VARIABLES
    rows,           \* table relay_requests, by request
    frozen,         \* relay_settings.frozen
    clockFloor,     \* relay_settings.clock_floor_ms
    historySince,   \* relay_settings.history_complete_since, 0 for null
    purged          \* history: the receipts that retention has deleted

vars == <<rows, frozen, clockFloor, historySince, purged>>

(***************************************************************************)
(* A receipt.  state is "absent" where the table has no row; "failed"      *)
(* stands for failed, cancelled and timeout, which the ledger treats       *)
(* alike.  usage_state is 'known' when source is not "none".               *)
(***************************************************************************)
Never == -1
Row == [state : {"absent", "registered", "completed", "failed"}, created : Nat,
        reservation : Nat, generation : Generations \cup {NoGeneration},
        source : {"none", "response", "generation"}, cost : Nat, retireAfter : Nat \cup {Never}]
NoRow == [state |-> "absent", created |-> 0, reservation |-> 0, generation |-> NoGeneration,
          source |-> "none", cost |-> 0, retireAfter |-> Never]

Present(row) == row.state # "absent"
Known(row) == row.source # "none"
Terminal(row) == Known(row) /\ row.state \in {"completed", "failed"}

Init ==
    /\ rows = [q \in Requests |-> NoRow]
    /\ frozen = FALSE
    /\ clockFloor = 0
    /\ historySince = 0
    /\ purged = [q \in Requests |-> NoRow]

\* Fault: the caller's reading is trusted.
WallClock(now) == now

\* The persistent clock never goes back, whatever the caller's reading is.
Clock(now) == IF now > clockFloor THEN now ELSE clockFloor

relayDay(t) == t \div DayLength

relayRequestAdmissible(q, t) == t - MaxAge <= Birth[q] /\ Birth[q] <= t + FutureTolerance

Deadline(q, t) ==
    IF t + Retention > Birth[q] + MaxAge + 1 THEN t + Retention ELSE Birth[q] + MaxAge + 1

----------------------------------------------------------------------------
(***************************************************************************)
(* summary(), over the table that admission sees.                          *)
(***************************************************************************)
KnownCost(table, day) ==
    SumFunctionOnSet([q \in Requests |-> table[q].cost],
                     {q \in Requests : /\ Present(table[q]) /\ Known(table[q])
                                       /\ relayDay(table[q].created) = day})

\* Fault: a reservation is released when the execution ends, though its usage is unknown.
ReservedWhileActive(table, day) ==
    SumFunctionOnSet([q \in Requests |-> table[q].reservation],
                     {q \in Requests : /\ Present(table[q]) /\ ~Known(table[q])
                                       /\ table[q].state = "registered"})

Reserved(table, day) ==
    SumFunctionOnSet([q \in Requests |-> table[q].reservation],
                     {q \in Requests : Present(table[q]) /\ ~Known(table[q])})

Active(table) == {q \in Requests : table[q].state = "registered"}

Available(table, day) == Budget - KnownCost(table, day) - Reserved(table, day)

----------------------------------------------------------------------------
(***************************************************************************)
(* purgeKnown: the receipts whose retention is over, in order of their     *)
(* deadlines and no more than a batch, with the coverage boundary.         *)
(***************************************************************************)
Due(t) ==
    {q \in Requests : /\ Terminal(rows[q])
                      /\ rows[q].retireAfter # Never /\ rows[q].retireAfter <= t}

Batches(t) ==
    {S \in SUBSET Due(t) :
        /\ Cardinality(S) = IF Cardinality(Due(t)) < PurgeBatch THEN Cardinality(Due(t))
                            ELSE PurgeBatch
        /\ \A q \in S, p \in Due(t) \ S : rows[q].retireAfter <= rows[p].retireAfter}

Without(S) == [q \in Requests |-> IF q \in S THEN NoRow ELSE rows[q]]

\* Fault: the boundary follows the order of purging, not of creation.
LastPurged(S) ==
    historySince' \in {historySince : q \in Requests \ S} \cup {rows[q].created + 1 : q \in S}

Coverage(S) ==
    /\ historySince' \in {historySince} \cup {rows[q].created + 1 : q \in S}
    /\ historySince' >= historySince
    /\ \A q \in S : historySince' > rows[q].created

Purging(S) ==
    /\ purged' = [q \in Requests |-> IF q \in S THEN rows[q] ELSE purged[q]]
    /\ Coverage(S)

purge(now) ==
    \E S \in Batches(Clock(now)) :
        /\ Purging(S)
        /\ rows' = Without(S)
        /\ clockFloor' = Clock(now)
        /\ UNCHANGED frozen

(***************************************************************************)
(* A method that finds nothing to do has still moved the clock.            *)
(***************************************************************************)
ClockOnly(now) ==
    /\ clockFloor' = Clock(now)
    /\ UNCHANGED <<rows, frozen, historySince, purged>>

----------------------------------------------------------------------------
(***************************************************************************)
(* register: a retained receipt is the answer to every repetition; a new   *)
(* ID must be admissible, and is admitted after a purge if nothing is      *)
(* frozen, exhausted or full.                                              *)
(***************************************************************************)
Repeated(q, r, now) == Present(rows[q]) /\ ClockOnly(now)

Expired(q, r, now) ==
    ~Present(rows[q]) /\ ~relayRequestAdmissible(q, Clock(now)) /\ ClockOnly(now)

Admits(table, r, t) ==
    /\ ~frozen
    /\ r <= Available(table, relayDay(t))
    /\ Cardinality({q \in Requests : Present(table[q])}) < MaxRecords
    /\ Cardinality(Active(table)) < Slots

Registered(q, r, now) ==
    LET t == Clock(now)
    IN  /\ ~Present(rows[q]) /\ relayRequestAdmissible(q, t)
        /\ \E S \in Batches(t) :
            /\ Purging(S)
            /\ rows' = IF Admits(Without(S), r, t)
                       THEN [Without(S) EXCEPT ![q] =
                                [NoRow EXCEPT !.state = "registered", !.created = t,
                                              !.reservation = r]]
                       ELSE Without(S)
        /\ clockFloor' = t
        /\ UNCHANGED frozen

register(q, r, now) == Repeated(q, r, now) \/ Expired(q, r, now) \/ Registered(q, r, now)

checkpoint(q, g, now) ==
    /\ rows' = IF rows[q].state = "registered" /\ rows[q].generation = NoGeneration
               THEN [rows EXCEPT ![q].generation = g] ELSE rows
    /\ clockFloor' = Clock(now)
    /\ UNCHANGED <<frozen, historySince, purged>>

----------------------------------------------------------------------------
(***************************************************************************)
(* finish: the outcome of the execution, once.  An observation has usage   *)
(* only if the response was complete (Uncharged: it has none); matches     *)
(* says whether its model, provider and token counts agree with the row.   *)
(***************************************************************************)
Observation == [state : {"completed", "failed"}, generation : Generations \cup {NoGeneration},
                usage : Costs \cup {Uncharged}, matches : BOOLEAN]
HasUsage(o) == o.usage # Uncharged
Observations == {o \in Observation : HasUsage(o) => o.state = "completed"}

\* The row has no finish_value and the observation is of the same generation.
Finishing(q, o) ==
    /\ rows[q].state = "registered"
    /\ rows[q].generation \in {NoGeneration, o.generation}

Overrun(q, cost) == frozen' = (frozen \/ cost > rows[q].reservation)

\* The usage was settled by reconciliation: it stays, the outcome is added.
FinishSettled(q, o, now) ==
    /\ Finishing(q, o) /\ rows[q].source = "generation"
    /\ o.matches /\ (HasUsage(o) => o.usage = rows[q].cost)
    /\ rows' = [rows EXCEPT ![q].state = o.state,
                            ![q].retireAfter = Deadline(q, Clock(now))]
    /\ IF HasUsage(o) THEN Overrun(q, o.usage) ELSE UNCHANGED frozen
    /\ clockFloor' = Clock(now)
    /\ UNCHANGED <<historySince, purged>>

FinishResponse(q, o, now) ==
    /\ Finishing(q, o) /\ rows[q].source = "none"
    /\ rows' = [rows EXCEPT ![q].state = o.state, ![q].generation = o.generation,
                            ![q].source = IF HasUsage(o) THEN "response" ELSE "none",
                            ![q].cost = IF HasUsage(o) THEN o.usage ELSE 0,
                            ![q].retireAfter = IF HasUsage(o) THEN Deadline(q, Clock(now)) ELSE Never]
    /\ IF HasUsage(o) THEN Overrun(q, o.usage) ELSE UNCHANGED frozen
    /\ clockFloor' = Clock(now)
    /\ UNCHANGED <<historySince, purged>>

FinishRefused(q, o, now) ==
    /\ \/ ~Finishing(q, o)
       \/ rows[q].source = "generation" /\ ~(o.matches /\ (HasUsage(o) => o.usage = rows[q].cost))
    /\ ClockOnly(now)

finish(q, o, now) ==
    FinishSettled(q, o, now) \/ FinishResponse(q, o, now) \/ FinishRefused(q, o, now)

(***************************************************************************)
(* reconcile: the provider's own accounting of an aged generation.  Any    *)
(* overrun it shows freezes admission, even if the receipt is settled.     *)
(***************************************************************************)
Reconcilable(q, g, t) ==
    Present(rows[q]) /\ rows[q].generation = g /\ t - rows[q].created >= MinAge

ReconcileRefused(q, g, c, matches, now) ==
    /\ ~(Reconcilable(q, g, Clock(now)) /\ matches)
    /\ ClockOnly(now)

ReconcileAgain(q, g, c, matches, now) ==
    /\ Reconcilable(q, g, Clock(now)) /\ matches /\ Known(rows[q])
    /\ Overrun(q, c)
    /\ clockFloor' = Clock(now)
    /\ UNCHANGED <<rows, historySince, purged>>

\* Fault: a settled receipt is given its deadline while it still executes.
SettleWithDeadline(q, g, c, matches, now) ==
    /\ Reconcilable(q, g, Clock(now)) /\ matches /\ ~Known(rows[q])
    /\ rows' = [rows EXCEPT ![q].source = "generation", ![q].cost = c,
                            ![q].retireAfter = Deadline(q, Clock(now))]
    /\ Overrun(q, c)
    /\ clockFloor' = Clock(now)
    /\ UNCHANGED <<historySince, purged>>

Settle(q, g, c, matches, now) ==
    /\ Reconcilable(q, g, Clock(now)) /\ matches /\ ~Known(rows[q])
    /\ rows' = [rows EXCEPT ![q].source = "generation", ![q].cost = c,
                            ![q].retireAfter = IF rows[q].state = "registered" THEN Never
                                               ELSE Deadline(q, Clock(now))]
    /\ Overrun(q, c)
    /\ clockFloor' = Clock(now)
    /\ UNCHANGED <<historySince, purged>>

reconcile(q, g, c, matches, now) ==
    \/ ReconcileRefused(q, g, c, matches, now)
    \/ ReconcileAgain(q, g, c, matches, now)
    \/ Settle(q, g, c, matches, now)

Next ==
    \E now \in Times :
        \/ ClockOnly(now) \* retentionNext
        \/ purge(now)
        \/ \E q \in Requests :
            \/ \E r \in Reservations : register(q, r, now)
            \/ \E g \in Generations : checkpoint(q, g, now)
            \/ \E o \in Observations : finish(q, o, now)
            \/ \E g \in Generations, c \in Costs, matches \in BOOLEAN :
                reconcile(q, g, c, matches, now)

Spec == Init /\ [][Next]_vars

----------------------------------------------------------------------------
(***************************************************************************)
(* Properties.                                                             *)
(***************************************************************************)

\* Every variable keeps its type, and a receipt is coherent whichever of outcome
\* and usage arrives first: it has a deadline exactly when it has both, and one
\* that retention deleted had both.
TypeOK ==
    /\ rows \in [Requests -> Row]
    /\ frozen \in BOOLEAN
    /\ clockFloor \in Nat
    /\ historySince \in Nat
    /\ purged \in [Requests -> Row]
    /\ \A q \in Requests : rows[q].retireAfter # Never <=> Terminal(rows[q])
    /\ \A q \in Requests : Present(purged[q]) => Terminal(purged[q])

Forgotten(q) == Present(purged[q])

\* What q costs on this day as far as it is known, its purged receipt included,
\* and what it may yet cost while its usage is unknown.
Bears(q, day) ==
    (IF Present(rows[q]) /\ relayDay(rows[q].created) = day
     THEN IF Known(rows[q]) THEN rows[q].cost ELSE rows[q].reservation ELSE 0)
    + (IF Forgotten(q) /\ relayDay(purged[q].created) = day THEN purged[q].cost ELSE 0)

Committed(day) == SumFunctionOnSet([q \in Requests |-> Bears(q, day)], Requests)

\* While nothing was seen to overrun its reservation, no day's requests cost
\* more than the budget: not even when usage arrives days later, the clock of
\* a caller is wrong, or retention deletes what the summary adds up.
BudgetHeld ==
    ~frozen => \A day \in {relayDay(t) : t \in Times} : Committed(day) <= Budget

\* summary()'s history_complete_since is honest: every receipt that retention
\* deleted was created before it, so the history after it has no gap.
CoverageHonest == \A q \in Requests : Forgotten(q) => purged[q].created < historySince

\* The ledger as the lifecycle of its requests.
Phase(q) ==
    IF rows[q].state = "registered" THEN "executing"
    ELSE IF Present(rows[q]) THEN "ended"
    ELSE IF Forgotten(q) THEN "forgotten" ELSE "fresh"

Charge(q) ==
    IF Known(rows[q]) THEN rows[q].cost
    ELSE IF ~Present(rows[q]) /\ Forgotten(q) THEN purged[q].cost ELSE Uncharged

Lifecycle == INSTANCE RelayLifecycle
    WITH phase <- [q \in Requests |-> Phase(q)], charge <- [q \in Requests |-> Charge(q)]

\* The ledger implements the lifecycle: no replay, purge, late outcome, repeated
\* settlement or clock that runs backwards admits a request twice, gives away
\* a slot, changes a settled cost or forgets an outstanding reservation.
ImplementsLifecycle == Lifecycle!Spec
=============================================================================
