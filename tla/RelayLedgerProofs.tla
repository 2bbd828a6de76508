-------------------------- MODULE RelayLedgerProofs --------------------------
(***************************************************************************)
(* Proofs about RelayLedger for every set of requests, every limit and     *)
(* every clock: type correctness, the honest coverage boundary, the budget *)
(* of a day, and that the ledger implements RelayLifecycle.                *)
(***************************************************************************)
EXTENDS RelayLedger, FiniteSetTheorems, TLAPS

(***************************************************************************)
(* The invariant that makes retention safe: a receipt is kept until its ID *)
(* is no longer admissible, and the clock that decided so never goes back. *)
(***************************************************************************)
Retained ==
    \A q \in Requests :
        rows[q].retireAfter # Never => rows[q].retireAfter > Birth[q] + MaxAge

NeverAgain ==
    \A q \in Requests :
        Forgotten(q) => ~Present(rows[q]) /\ clockFloor > Birth[q] + MaxAge

Blank == \A q \in Requests : ~Present(rows[q]) => rows[q] = NoRow

\* A receipt outlives the second of its creation by the whole retention: whoever
\* adds up a day adds up all of it.
Dated ==
    \A q \in Requests :
        /\ Present(rows[q]) => rows[q].created <= clockFloor
        /\ rows[q].retireAfter # Never => rows[q].retireAfter >= rows[q].created + Retention
        /\ Forgotten(q) => purged[q].created + Retention <= clockFloor

RInv == TypeOK /\ Retained /\ NeverAgain /\ Blank /\ CoverageHonest /\ Dated

IInv == RInv /\ BudgetHeld

\* The empty receipt is a receipt.
LEMMA NoRowIsRow == NoRow \in Row /\ ~Present(NoRow) /\ ~Known(NoRow) /\ ~Terminal(NoRow)
BY DEF NoRow, Row, Never, Present, Known, Terminal

\* The persistent clock is a time, and never goes back.
LEMMA ClockAdvances ==
    ASSUME TypeOK, NEW now \in Times
    PROVE  Clock(now) \in Nat /\ Clock(now) >= clockFloor
BY TimeAssumption DEF TypeOK, Clock

\* A deadline is a time after the ID has expired.
LEMMA DeadlineLater ==
    ASSUME NEW q \in Requests, NEW t \in Nat
    PROVE  /\ Deadline(q, t) \in Nat /\ Deadline(q, t) # Never
           /\ Deadline(q, t) > Birth[q] + MaxAge
<1>1. Birth[q] \in Nat /\ MaxAge \in Nat /\ Retention \in Nat
  BY RequestAssumption, TimeAssumption
<1> QED
  BY <1>1 DEF Deadline, Never

----------------------------------------------------------------------------
(***************************************************************************)
(* The budget.  Sums over finite sets first: the library's theorems about  *)
(* induction take an operator, so induction is by a minimal subset.        *)
(***************************************************************************)
\* A nonempty set of subsets of a finite set has a minimal member: the form in
\* which the lemmas below do induction.
LEMMA MinimalSubset ==
    ASSUME NEW S, IsFiniteSet(S), NEW B \in SUBSET SUBSET S, B # {}
    PROVE  \E T \in B : \A U \in SUBSET T : U # T => U \notin B
<1>1. IsWellFoundedOn(StrictSubsetOrdering(S), FiniteSubsetsOf(S)) /\ B \subseteq FiniteSubsetsOf(S)
  BY FS_StrictSubsetOrderingWellFounded, FS_FiniteSubsetsOfFinite
<1>2. PICK T \in B : \A U \in B : <<U, T>> \notin StrictSubsetOrdering(S)
  BY <1>1, WFMin
<1>3. ASSUME NEW U \in SUBSET T, U # T, U \in B PROVE FALSE
  <2>1. <<U, T>> \in (SUBSET S) \X (SUBSET S)
    BY <1>3
  <2> QED
    BY <1>2, <1>3, <2>1 DEF StrictSubsetOrdering
<1> QED
  BY <1>3

\* The element that a fold takes out of a set, and what the fold computes.
Pick(T) == CHOOSE x \in T : TRUE
IsFold(g, f, S) ==
    g = [T \in SUBSET S |-> IF T = {} THEN 0 ELSE f[Pick(T)] + g[T \ {Pick(T)}]]

\* A sum is what the function that the library's fold chooses gives for the whole set.
LEMMA SumIsFold ==
    ASSUME NEW f, NEW S
    PROVE  SumFunctionOnSet(f, S) = (CHOOSE g : IsFold(g, f, S))[S]
BY DEF SumFunctionOnSet, FoldFunctionOnSet, MapThenFoldSet, IsFold, Pick

\* A nonempty set holds the element its fold takes first.
LEMMA PickIn == ASSUME NEW T, T # {} PROVE Pick(T) \in T
BY DEF Pick

\* One step of such a function.
LEMMA FoldStep ==
    ASSUME NEW g, NEW f, NEW S, IsFold(g, f, S), NEW T \in SUBSET S
    PROVE  g[T] = IF T = {} THEN 0 ELSE f[Pick(T)] + g[T \ {Pick(T)}]
<1> DEFINE h == [U \in SUBSET S |-> IF U = {} THEN 0 ELSE f[Pick(U)] + g[U \ {Pick(U)}]]
<1>1. g = h
  BY DEF IsFold
<1>2. h[T] = IF T = {} THEN 0 ELSE f[Pick(T)] + g[T \ {Pick(T)}]
  OBVIOUS
<1> HIDE DEF h
<1> QED
  BY <1>1, <1>2

\* Two of them agree on the sets both are defined for.
LEMMA FoldUnique ==
    ASSUME NEW S, IsFiniteSet(S), NEW T \in SUBSET S, NEW f, NEW g, NEW h,
           IsFold(g, f, S), IsFold(h, f, T)
    PROVE  g[T] = h[T]
<1> DEFINE B == {U \in SUBSET T : g[U] # h[U]}
<1>1. SUFFICES ASSUME B # {} PROVE FALSE
  OBVIOUS
<1>2. IsFiniteSet(T)
  BY FS_Subset
<1>3. PICK U \in B : \A V \in SUBSET U : V # U => V \notin B
  <2>1. B \in SUBSET SUBSET T
    OBVIOUS
  <2> HIDE DEF B
  <2> QED
    BY <1>1, <1>2, <2>1, MinimalSubset
<1>4. U # {} => Pick(U) \in U
  BY PickIn
<1>5. U # {} => g[U \ {Pick(U)}] = h[U \ {Pick(U)}]
  BY <1>3, <1>4
<1>6. U \in SUBSET S /\ U \in SUBSET T
  OBVIOUS
<1>7. g[U] = IF U = {} THEN 0 ELSE f[Pick(U)] + g[U \ {Pick(U)}]
  BY <1>6, FoldStep
<1>8. h[U] = IF U = {} THEN 0 ELSE f[Pick(U)] + h[U \ {Pick(U)}]
  BY <1>6, FoldStep
<1> QED
  BY <1>5, <1>7, <1>8

\* There is one for every finite set, so the library's choice is one.
LEMMA FoldExists ==
    ASSUME NEW S, IsFiniteSet(S), NEW f
    PROVE  \E g : IsFold(g, f, S)
<1> DEFINE B == {U \in SUBSET S : ~\E g : IsFold(g, f, U)}
<1>1. SUFFICES ASSUME B # {} PROVE FALSE
  OBVIOUS
<1>2. PICK T \in B : \A U \in SUBSET T : U # T => U \notin B
  <2>1. B \in SUBSET SUBSET S
    OBVIOUS
  <2> HIDE DEF B
  <2> QED
    BY <1>1, <2>1, MinimalSubset
<1> DEFINE G(U) == CHOOSE g : IsFold(g, f, U)
           h == [U \in SUBSET T |->
                    IF U = {} THEN 0 ELSE f[Pick(U)] + G(U \ {Pick(U)})[U \ {Pick(U)}]]
<1>3. ASSUME NEW U \in SUBSET T, U # T PROVE IsFold(G(U), f, U) /\ IsFiniteSet(U)
  BY <1>2, <1>3, FS_Subset
<1>4. ASSUME NEW U \in SUBSET T, U # T PROVE h[U] = G(U)[U]
  <2>1. U \in SUBSET U
    OBVIOUS
  <2>2. G(U)[U] = IF U = {} THEN 0 ELSE f[Pick(U)] + G(U)[U \ {Pick(U)}]
    <3> HIDE DEF G
    <3> QED
      BY <1>3, <1>4, <2>1, FoldStep
  <2>3. ASSUME U # {} PROVE G(U)[U \ {Pick(U)}] = G(U \ {Pick(U)})[U \ {Pick(U)}]
    <3>1. Pick(U) \in U
      BY <2>3, PickIn
    <3>2. U \ {Pick(U)} \in SUBSET T /\ U \ {Pick(U)} # T /\ U \ {Pick(U)} \in SUBSET U
      BY <3>1
    <3>3. IsFold(G(U \ {Pick(U)}), f, U \ {Pick(U)}) /\ IsFold(G(U), f, U) /\ IsFiniteSet(U)
      BY <1>3, <1>4, <3>2
    <3> HIDE DEF G
    <3> QED
      BY <3>2, <3>3, FoldUnique
  <2> HIDE DEF G
  <2> QED
    BY <2>2, <2>3
<1>5. ASSUME NEW U \in SUBSET T, U # {}
      PROVE  h[U] = f[Pick(U)] + h[U \ {Pick(U)}]
  <2>1. Pick(U) \in U
    BY <1>5, PickIn
  <2>2. U \ {Pick(U)} \in SUBSET T /\ U \ {Pick(U)} # T
    BY <2>1
  <2>3. h[U \ {Pick(U)}] = G(U \ {Pick(U)})[U \ {Pick(U)}]
    BY <1>4, <2>2
  <2>4. h[U] = f[Pick(U)] + G(U \ {Pick(U)})[U \ {Pick(U)}]
    BY <1>5
  <2> HIDE DEF h, G
  <2> QED
    BY <2>3, <2>4
<1>6. h[{}] = 0
  OBVIOUS
<1>7. h = [U \in SUBSET T |-> h[U]]
  OBVIOUS
<1> HIDE DEF h
<1>8. IsFold(h, f, T)
  <2>1. \A U \in SUBSET T : h[U] = IF U = {} THEN 0 ELSE f[Pick(U)] + h[U \ {Pick(U)}]
    BY <1>5, <1>6
  <2> QED
    BY <1>7, <2>1 DEF IsFold
<1> QED
  BY <1>8

\* A sum takes out one element after the other.
LEMMA SumStep ==
    ASSUME NEW f, NEW S, IsFiniteSet(S)
    PROVE  SumFunctionOnSet(f, S) =
             IF S = {} THEN 0 ELSE f[Pick(S)] + SumFunctionOnSet(f, S \ {Pick(S)})
<1> DEFINE G(T) == CHOOSE g : IsFold(g, f, T)
           T == S \ {Pick(S)}
<1>1. T \in SUBSET S /\ IsFiniteSet(T) /\ S \in SUBSET S
  BY FS_Subset
<1>2. IsFold(G(S), f, S) /\ IsFold(G(T), f, T)
  BY <1>1, FoldExists
<1>3. SumFunctionOnSet(f, S) = G(S)[S] /\ SumFunctionOnSet(f, T) = G(T)[T]
  BY SumIsFold
<1> HIDE DEF G
<1>4. G(S)[T] = G(T)[T]
  BY <1>1, <1>2, FoldUnique
<1>5. G(S)[S] = IF S = {} THEN 0 ELSE f[Pick(S)] + G(S)[T]
  BY <1>1, <1>2, FoldStep
<1> QED
  BY <1>3, <1>4, <1>5

\* A sum of numbers is a number.
LEMMA SumNat ==
    ASSUME NEW S, IsFiniteSet(S), NEW f, \A x \in S : f[x] \in Nat
    PROVE  SumFunctionOnSet(f, S) \in Nat
<1> DEFINE B == {U \in SUBSET S : SumFunctionOnSet(f, U) \notin Nat}
<1>1. SUFFICES ASSUME B # {} PROVE FALSE
  OBVIOUS
<1>2. PICK T \in B : \A U \in SUBSET T : U # T => U \notin B
  <2>1. B \in SUBSET SUBSET S
    OBVIOUS
  <2> HIDE DEF B
  <2> QED
    BY <1>1, <2>1, MinimalSubset
<1>3. IsFiniteSet(T)
  BY FS_Subset
<1>4. SumFunctionOnSet(f, T) = IF T = {} THEN 0 ELSE f[Pick(T)] + SumFunctionOnSet(f, T \ {Pick(T)})
  BY <1>3, SumStep
<1>5. T # {} => Pick(T) \in T
  BY PickIn
<1>6. T # {} => SumFunctionOnSet(f, T \ {Pick(T)}) \in Nat
  BY <1>2, <1>5
<1> QED
  BY <1>4, <1>5, <1>6

\* The order does not matter: any element may be taken out first.
LEMMA SumRemove ==
    ASSUME NEW S, IsFiniteSet(S), NEW f, \A x \in S : f[x] \in Nat, NEW a \in S
    PROVE  SumFunctionOnSet(f, S) = f[a] + SumFunctionOnSet(f, S \ {a})
<1> DEFINE B == {U \in SUBSET S : \E x \in U :
                    SumFunctionOnSet(f, U) # f[x] + SumFunctionOnSet(f, U \ {x})}
<1>1. SUFFICES ASSUME B # {} PROVE FALSE
  OBVIOUS
<1>2. PICK T \in B : \A U \in SUBSET T : U # T => U \notin B
  <2>1. B \in SUBSET SUBSET S
    OBVIOUS
  <2> HIDE DEF B
  <2> QED
    BY <1>1, <2>1, MinimalSubset
<1>3. PICK x \in T : SumFunctionOnSet(f, T) # f[x] + SumFunctionOnSet(f, T \ {x})
  OBVIOUS
<1> DEFINE p == Pick(T)
<1>4. p \in T
  BY PickIn
<1> HIDE DEF p
<1>5. IsFiniteSet(T)
  BY FS_Subset
<1>6. SumFunctionOnSet(f, T) = f[p] + SumFunctionOnSet(f, T \ {p})
  BY <1>5, SumStep DEF p
<1>7. p # x
  BY <1>3, <1>6
<1>8. SumFunctionOnSet(f, T \ {p}) = f[x] + SumFunctionOnSet(f, (T \ {p}) \ {x})
  BY <1>2, <1>4, <1>7
<1>9. SumFunctionOnSet(f, T \ {x}) = f[p] + SumFunctionOnSet(f, (T \ {p}) \ {x})
  <2>1. SumFunctionOnSet(f, T \ {x}) = f[p] + SumFunctionOnSet(f, (T \ {x}) \ {p})
    BY <1>2, <1>4, <1>7
  <2>2. (T \ {x}) \ {p} = (T \ {p}) \ {x}
    OBVIOUS
  <2> QED
    BY <2>1, <2>2
<1>11. SumFunctionOnSet(f, (T \ {p}) \ {x}) \in Nat
  <2>1. IsFiniteSet((T \ {p}) \ {x})
    BY <1>5, FS_Subset
  <2> QED
    BY <2>1, SumNat
<1>12. f[x] \in Nat /\ f[p] \in Nat
  BY <1>4
<1> QED
  BY <1>3, <1>6, <1>8, <1>9, <1>11, <1>12

\* Smaller summands, smaller sum.
LEMMA SumBound ==
    ASSUME NEW S, IsFiniteSet(S), NEW f, NEW g,
           \A x \in S : f[x] \in Nat /\ g[x] \in Nat /\ f[x] <= g[x]
    PROVE  SumFunctionOnSet(f, S) <= SumFunctionOnSet(g, S)
<1> DEFINE B == {U \in SUBSET S : ~(SumFunctionOnSet(f, U) <= SumFunctionOnSet(g, U))}
<1>1. SUFFICES ASSUME B # {} PROVE FALSE
  OBVIOUS
<1>2. PICK T \in B : \A U \in SUBSET T : U # T => U \notin B
  <2>1. B \in SUBSET SUBSET S
    OBVIOUS
  <2> HIDE DEF B
  <2> QED
    BY <1>1, <2>1, MinimalSubset
<1>3. IsFiniteSet(T) /\ IsFiniteSet(T \ {Pick(T)})
  BY FS_Subset
<1>4. /\ SumFunctionOnSet(f, T) =
           IF T = {} THEN 0 ELSE f[Pick(T)] + SumFunctionOnSet(f, T \ {Pick(T)})
      /\ SumFunctionOnSet(g, T) =
           IF T = {} THEN 0 ELSE g[Pick(T)] + SumFunctionOnSet(g, T \ {Pick(T)})
  BY <1>3, SumStep
<1>5. T # {} => Pick(T) \in T
  BY PickIn
<1>6. T # {} => SumFunctionOnSet(f, T \ {Pick(T)}) <= SumFunctionOnSet(g, T \ {Pick(T)})
  BY <1>2, <1>5
<1>7. SumFunctionOnSet(f, T \ {Pick(T)}) \in Nat /\ SumFunctionOnSet(g, T \ {Pick(T)}) \in Nat
  BY <1>3, SumNat
<1> QED
  BY <1>4, <1>5, <1>6, <1>7

\* The sum of two sums.
LEMMA SumPlus ==
    ASSUME NEW S, IsFiniteSet(S), NEW f, NEW g, NEW h,
           \A x \in S : f[x] \in Nat /\ g[x] \in Nat /\ h[x] = f[x] + g[x]
    PROVE  SumFunctionOnSet(h, S) = SumFunctionOnSet(f, S) + SumFunctionOnSet(g, S)
<1> DEFINE B == {U \in SUBSET S :
                    SumFunctionOnSet(h, U) # SumFunctionOnSet(f, U) + SumFunctionOnSet(g, U)}
<1>1. SUFFICES ASSUME B # {} PROVE FALSE
  OBVIOUS
<1>2. PICK T \in B : \A U \in SUBSET T : U # T => U \notin B
  <2>1. B \in SUBSET SUBSET S
    OBVIOUS
  <2> HIDE DEF B
  <2> QED
    BY <1>1, <2>1, MinimalSubset
<1>3. IsFiniteSet(T) /\ IsFiniteSet(T \ {Pick(T)})
  BY FS_Subset
<1>4. /\ SumFunctionOnSet(f, T) =
           IF T = {} THEN 0 ELSE f[Pick(T)] + SumFunctionOnSet(f, T \ {Pick(T)})
      /\ SumFunctionOnSet(g, T) =
           IF T = {} THEN 0 ELSE g[Pick(T)] + SumFunctionOnSet(g, T \ {Pick(T)})
      /\ SumFunctionOnSet(h, T) =
           IF T = {} THEN 0 ELSE h[Pick(T)] + SumFunctionOnSet(h, T \ {Pick(T)})
  BY <1>3, SumStep
<1>5. T # {} => Pick(T) \in T
  BY PickIn
<1>6. T # {} => SumFunctionOnSet(h, T \ {Pick(T)})
                  = SumFunctionOnSet(f, T \ {Pick(T)}) + SumFunctionOnSet(g, T \ {Pick(T)})
  BY <1>2, <1>5
<1>7. SumFunctionOnSet(f, T \ {Pick(T)}) \in Nat /\ SumFunctionOnSet(g, T \ {Pick(T)}) \in Nat
  BY <1>3, SumNat
<1> QED
  BY <1>4, <1>5, <1>6, <1>7

\* Summands that are zero may be left out.
LEMMA SumSupport ==
    ASSUME NEW S, IsFiniteSet(S), NEW f, NEW g, NEW R \in SUBSET S,
           \A x \in S : f[x] \in Nat,
           \A x \in S : g[x] = IF x \in R THEN f[x] ELSE 0
    PROVE  SumFunctionOnSet(g, S) = SumFunctionOnSet(f, R)
<1> DEFINE B == {U \in SUBSET S : SumFunctionOnSet(g, U) # SumFunctionOnSet(f, U \cap R)}
<1>1. SUFFICES ASSUME B # {} PROVE FALSE
  <2>1. S \cap R = R
    OBVIOUS
  <2> QED
    BY <2>1
<1>2. PICK T \in B : \A U \in SUBSET T : U # T => U \notin B
  <2>1. B \in SUBSET SUBSET S
    OBVIOUS
  <2> HIDE DEF B
  <2> QED
    BY <1>1, <2>1, MinimalSubset
<1> DEFINE p == Pick(T)
<1>3. IsFiniteSet(T) /\ IsFiniteSet(T \ {p}) /\ IsFiniteSet(T \cap R)
  BY FS_Subset
<1>4. SumFunctionOnSet(g, T) = IF T = {} THEN 0 ELSE g[p] + SumFunctionOnSet(g, T \ {p})
  BY <1>3, SumStep
<1>5. T # {} => p \in T
  BY PickIn
<1> HIDE DEF p
<1>6. T # {} => SumFunctionOnSet(g, T \ {p}) = SumFunctionOnSet(f, (T \ {p}) \cap R)
  BY <1>2, <1>5
<1>7. SumFunctionOnSet(f, {}) = 0
  BY SumStep, FS_EmptySet
<1>8. CASE T = {}
  BY <1>4, <1>7, <1>8
<1>9. CASE T # {} /\ p \in R
  <2>1. p \in T \cap R /\ (T \cap R) \ {p} = (T \ {p}) \cap R
    BY <1>5, <1>9
  <2>2. SumFunctionOnSet(f, T \cap R) = f[p] + SumFunctionOnSet(f, (T \cap R) \ {p})
    BY <1>3, <2>1, SumRemove
  <2> QED
    BY <1>4, <1>5, <1>6, <1>9, <2>1, <2>2
<1>10. CASE T # {} /\ p \notin R
  <2>1. (T \ {p}) \cap R = T \cap R
    BY <1>10
  <2>2. IsFiniteSet(T \cap R) /\ \A x \in T \cap R : f[x] \in Nat
    BY <1>3
  <2>3. SumFunctionOnSet(f, T \cap R) \in Nat
    BY <2>2, SumNat
  <2>4. g[p] = 0
    BY <1>5, <1>10
  <2> QED
    BY <1>4, <1>6, <1>10, <2>1, <2>3, <2>4
<1> QED
  BY <1>8, <1>9, <1>10
\* Nothing costs more on any day after the step than before it.
Lighter ==
    \A q \in Requests, day \in Nat : Bears(q, day) \in Nat /\ Bears(q, day)' \in Nat
                                     /\ Bears(q, day)' <= Bears(q, day)

\* A day is a number, and no two instants of one day are a retention apart.
LEMMA DayPasses ==
    ASSUME NEW a \in Nat, NEW b \in Nat, a + Retention <= b
    PROVE  relayDay(a) \in Nat /\ relayDay(a) # relayDay(b)
<1> DEFINE k == a \div DayLength
<1>1. DayLength \in Nat \ {0} /\ Retention \in Nat /\ DayLength <= Retention
  BY TimeAssumption, RetentionAssumption
<1>2. k \in Nat /\ a < DayLength * k + DayLength
  BY <1>1
<1>3. ASSUME b \div DayLength = k PROVE FALSE
  <2>1. DayLength * k <= b /\ b < DayLength * k + DayLength /\ DayLength * k <= a
    BY <1>1, <1>3
  <2>2. DayLength * k \in Nat
    BY <1>1, <1>2
  <2> HIDE DEF k
  <2> QED
    BY <1>1, <2>1, <2>2
<1> QED
  BY <1>2, <1>3 DEF relayDay

\* What a request bears is a number, whatever it went through.
LEMMA BearsNat ==
    ASSUME TypeOK, TypeOK', NEW q \in Requests, NEW day
    PROVE  Bears(q, day) \in Nat /\ Bears(q, day)' \in Nat
<1>1. {rows[q], purged[q], rows'[q], purged'[q]} \subseteq Row
  BY DEF TypeOK
<1>2. \A row \in Row : row.cost \in Nat /\ row.reservation \in Nat
  BY DEF Row
<1> QED
  BY <1>1, <1>2 DEF Bears

\* A step that makes nothing heavier keeps within the budget.
LEMMA LighterHolds ==
    ASSUME TypeOK, BudgetHeld, frozen => frozen', frozen' \/ Lighter
    PROVE  BudgetHeld'
<1> SUFFICES ASSUME ~frozen', NEW day \in {relayDay(t) : t \in Times}
             PROVE  Committed(day)' <= Budget
  BY DEF BudgetHeld
<1>1. Committed(day) <= Budget /\ Lighter
  BY DEF BudgetHeld
<1>2. day \in Nat
  BY TimeAssumption DEF relayDay
<1> DEFINE f == [q \in Requests |-> Bears(q, day)]
           g == [q \in Requests |-> Bears(q, day)']
<1>3. \A q \in Requests : g[q] \in Nat /\ f[q] \in Nat /\ g[q] <= f[q]
  BY <1>1, <1>2 DEF Lighter
<1>4. Committed(day) = SumFunctionOnSet(f, Requests)
      /\ Committed(day)' = SumFunctionOnSet(g, Requests)
  BY DEF Committed
<1> HIDE DEF f, g
<1>5. SumFunctionOnSet(g, Requests) <= SumFunctionOnSet(f, Requests)
  BY <1>3, RequestAssumption, SumBound
<1>6. SumFunctionOnSet(g, Requests) \in Nat /\ SumFunctionOnSet(f, Requests) \in Nat
  BY <1>3, RequestAssumption, SumNat
<1> QED
  BY <1>1, <1>4, <1>5, <1>6, LimitAssumption

\* An empty ledger owes nothing.
LEMMA InitBudget == Init => BudgetHeld
<1> SUFFICES ASSUME Init, NEW day PROVE Committed(day) <= Budget
  BY DEF BudgetHeld
<1> DEFINE f == [q \in Requests |-> Bears(q, day)]
<1>1. \A q \in Requests : f[q] = 0
  BY NoRowIsRow DEF Init, Bears, Forgotten
<1>2. \A q \in Requests : f[q] = IF q \in {} THEN f[q] ELSE 0
  BY <1>1
<1>3. Committed(day) = SumFunctionOnSet(f, Requests)
  BY DEF Committed
<1> HIDE DEF f
<1>4. SumFunctionOnSet(f, Requests) = SumFunctionOnSet(f, {})
  BY <1>1, <1>2, RequestAssumption, SumSupport
<1>5. SumFunctionOnSet(f, {}) = 0
  BY FS_EmptySet, SumStep
<1> QED
  BY <1>3, <1>4, <1>5, LimitAssumption

\* The invariant holds initially.
LEMMA InitIInv == Init => IInv
<1> SUFFICES ASSUME Init PROVE IInv
  OBVIOUS
<1>1. TypeOK
  BY NoRowIsRow DEF Init, TypeOK, NoRow, Never
<1>2. Retained /\ NeverAgain /\ Blank /\ CoverageHonest /\ Dated
  BY NoRowIsRow DEF Init, Retained, NeverAgain, Blank, CoverageHonest, Dated, Forgotten, NoRow,
                    Never
<1> QED
  BY <1>1, <1>2, InitBudget DEF IInv, RInv

----------------------------------------------------------------------------
(***************************************************************************)
(* A step that changes one receipt and purges none.                        *)
(***************************************************************************)
Owes(row) == IF Known(row) THEN row.cost ELSE row.reservation

OneRow(q, now) ==
    /\ rows' \in [Requests -> Row]
    /\ \A p \in Requests \ {q} : rows'[p] = rows[p]
    /\ Present(rows[q]) /\ Present(rows'[q])
    /\ rows'[q].retireAfter # Never <=> Terminal(rows'[q])
    /\ rows'[q].retireAfter \in {Never, rows[q].retireAfter, Deadline(q, Clock(now))}
    /\ rows[q].state # "registered" => rows'[q].state # "registered"
    /\ Known(rows[q]) => Known(rows'[q]) /\ rows'[q].cost = rows[q].cost
    /\ rows'[q].created = rows[q].created
    /\ frozen => frozen'
    /\ frozen' \/ Owes(rows'[q]) <= Owes(rows[q])
    /\ purged' = purged /\ historySince' = historySince
    /\ frozen' \in BOOLEAN /\ clockFloor' = Clock(now)

\* Such a step preserves the invariant.
LEMMA OneRowInvariant ==
    ASSUME IInv, NEW q \in Requests, NEW now \in Times, OneRow(q, now)
    PROVE  IInv'
<1> USE DEF IInv, RInv
<1>1. Clock(now) \in Nat /\ Clock(now) >= clockFloor
  BY ClockAdvances
<1>2. TypeOK'
  BY <1>1 DEF OneRow, TypeOK
<1>3. Retained'
  BY <1>1, DeadlineLater DEF OneRow, Retained
<1>4. NeverAgain'
  <2> SUFFICES ASSUME NEW p \in Requests, Forgotten(p)'
               PROVE  ~Present(rows'[p]) /\ clockFloor' > Birth[p] + MaxAge
    BY DEF NeverAgain
  <2>1. Forgotten(p) /\ ~Present(rows[p]) /\ clockFloor > Birth[p] + MaxAge
    BY DEF OneRow, Forgotten, NeverAgain
  <2>2. p # q /\ rows'[p] = rows[p]
    BY <2>1 DEF OneRow
  <2>3. Birth[p] \in Nat /\ MaxAge \in Nat /\ clockFloor \in Nat
    BY RequestAssumption, TimeAssumption DEF TypeOK
  <2> QED
    BY <1>1, <2>1, <2>2, <2>3 DEF OneRow
<1>5. Blank'
  BY DEF OneRow, Blank
<1>6. CoverageHonest'
  BY DEF OneRow, CoverageHonest, Forgotten
<1>7. Dated'
  <2> SUFFICES ASSUME NEW p \in Requests
               PROVE  /\ Present(rows'[p]) => rows'[p].created <= clockFloor'
                      /\ rows'[p].retireAfter # Never
                         => rows'[p].retireAfter >= rows'[p].created + Retention
                      /\ Forgotten(p)' => purged'[p].created + Retention <= clockFloor'
    BY DEF Dated
  <2>1. /\ {rows[p].created, purged[p].created, clockFloor, Retention} \subseteq Nat
        /\ Clock(now) >= clockFloor /\ Clock(now) \in Nat /\ clockFloor' = Clock(now)
    BY <1>1, TimeAssumption DEF TypeOK, Row, OneRow
  <2>2. Forgotten(p)' => purged'[p].created + Retention <= clockFloor'
    BY <2>1 DEF Dated, OneRow, Forgotten
  <2>3. /\ rows'[p].created = rows[p].created
        /\ Present(rows[p]) <=> Present(rows'[p])
        /\ \/ rows'[p].retireAfter \in {Never, rows[p].retireAfter}
           \/ (p = q /\ rows'[p].retireAfter = Deadline(q, Clock(now)))
    <3>1. CASE p = q
      BY <3>1 DEF OneRow
    <3>2. CASE p # q
      BY <3>2 DEF OneRow
    <3> QED
      BY <3>1, <3>2
  <2>4. Deadline(q, Clock(now)) >= Clock(now) + Retention
    BY <2>1, RequestAssumption, TimeAssumption DEF Deadline
  <2>5. Present(rows[q]) /\ Deadline(q, Clock(now)) \in Nat
    BY <2>1, DeadlineLater DEF OneRow
  <2> QED
    BY <2>1, <2>2, <2>3, <2>4, <2>5 DEF Dated
<1>8. BudgetHeld'
  <2>1. ASSUME ~frozen' PROVE Lighter
    <3> SUFFICES ASSUME NEW p \in Requests, NEW day \in Nat
                 PROVE  Bears(p, day)' <= Bears(p, day)
      BY <1>2, BearsNat DEF Lighter
    <3>1. /\ rows'[p].created = rows[p].created /\ purged'[p] = purged[p]
          /\ Present(rows[p]) <=> Present(rows'[p])
          /\ Owes(rows'[p]) <= Owes(rows[p])
      <4>1. rows[p] \in Row
        BY DEF TypeOK
      <4>2. Owes(rows[p]) \in Nat
        BY <4>1 DEF Owes, Row
      <4>3. CASE p = q
        BY <2>1, <4>3 DEF OneRow
      <4>4. CASE p # q
        BY <4>2, <4>4 DEF OneRow
      <4> QED
        BY <4>3, <4>4
    <3>2. /\ rows[p] \in Row /\ rows'[p] \in Row /\ purged[p] \in Row
      BY <1>2 DEF TypeOK
    <3>3. {Owes(rows[p]), Owes(rows'[p]), purged[p].cost} \subseteq Nat
      BY <3>2 DEF Owes, Row
    <3>4. \/ Bears(p, day)' = Bears(p, day)
          \/ \E n \in Nat : /\ Bears(p, day) = Owes(rows[p]) + n
                           /\ Bears(p, day)' = Owes(rows'[p]) + n
      BY <3>1, <3>3 DEF Bears, Owes, Forgotten
    <3>5. ASSUME NEW n \in Nat, NEW a, NEW b,
                 a = Owes(rows[p]) + n, b = Owes(rows'[p]) + n
          PROVE  b <= a
      BY <3>1, <3>3, <3>5
    <3>6. Bears(p, day) \in Nat
      BY <1>2, BearsNat
    <3> QED
      BY <3>4, <3>5, <3>6
  <2> QED
    BY <2>1, <1>2, LighterHolds DEF OneRow
<1> QED
  BY <1>2, <1>3, <1>4, <1>5, <1>6, <1>7, <1>8

\* Such a step advances one request of the lifecycle, and touches no other.
LEMMA OneRowRefines ==
    ASSUME IInv, NEW q \in Requests, NEW now \in Times, OneRow(q, now)
    PROVE  Lifecycle!Next
<1> USE DEF IInv, RInv
<1>1. \A p \in Requests \ {q} : Lifecycle!Stay(p)
  BY DEF Lifecycle!Stay, Phase, Charge, OneRow, Forgotten
<1>2. Lifecycle!Advance(q) \/ Lifecycle!Stay(q)
  <2>1. Phase(q) \in {"executing", "ended"} /\ Phase(q)' \in {Phase(q), "ended"}
    BY DEF Phase, OneRow
  <2>2. Charge(q) = IF Known(rows[q]) THEN rows[q].cost ELSE Uncharged
    BY DEF Charge, OneRow
  <2>3. Charge(q)' = IF Known(rows'[q]) THEN rows'[q].cost ELSE Uncharged
    BY DEF Charge, OneRow
  <2>4. rows'[q].cost \in Nat
    BY DEF OneRow, Row
  <2>5. \/ Charge(q)' = Charge(q)
        \/ Charge(q) = Uncharged /\ Charge(q)' \in Nat
    BY <2>2, <2>3, <2>4 DEF OneRow
  <2> QED
    BY <2>1, <2>5 DEF Lifecycle!Advance
<1> QED
  BY <1>1, <1>2 DEF Lifecycle!Next

----------------------------------------------------------------------------
(***************************************************************************)
(* A step that purges the receipts of S and may admit fresh requests.      *)
(***************************************************************************)
Fresh(q) == ~Present(rows[q]) /\ ~Forgotten(q)

PurgeRow(S, now) ==
    /\ S \in Batches(Clock(now)) /\ Purging(S)
    /\ rows' \in [Requests -> Row]
    /\ \A p \in Requests :
        \/ rows'[p] = Without(S)[p]
        \/ /\ Fresh(p) /\ rows'[p].state = "registered" /\ rows'[p].created = Clock(now)
           /\ ~Known(rows'[p]) /\ rows'[p].retireAfter = Never
    /\ frozen' = frozen /\ clockFloor' = Clock(now)

\* What is purged is terminal, and its ID has expired.
LEMMA PurgedIsDue ==
    ASSUME IInv, NEW now \in Times, NEW S \in Batches(Clock(now))
    PROVE  /\ S \subseteq Requests
           /\ \A q \in S : Terminal(rows[q]) /\ Clock(now) > Birth[q] + MaxAge
<1> USE DEF IInv, RInv
<1>1. S \subseteq Requests /\ S \subseteq Due(Clock(now))
  BY DEF Batches, Due
<1>2. ASSUME NEW q \in S
      PROVE  Terminal(rows[q]) /\ Clock(now) > Birth[q] + MaxAge
  <2>1. Terminal(rows[q]) /\ rows[q].retireAfter # Never /\ rows[q].retireAfter <= Clock(now)
    BY <1>1 DEF Due
  <2>2. rows[q].retireAfter > Birth[q] + MaxAge
    BY <1>1, <2>1 DEF Retained
  <2>3. rows[q].retireAfter \in Int /\ Birth[q] \in Nat /\ MaxAge \in Nat /\ Clock(now) \in Nat
    BY <1>1, ClockAdvances, RequestAssumption, TimeAssumption DEF TypeOK, Row, Never
  <2> QED
    BY <2>1, <2>2, <2>3
<1> QED
  BY <1>1, <1>2

\* Such a step preserves the invariant, but for the budget.
LEMMA PurgeRowInvariant ==
    ASSUME IInv, NEW now \in Times, NEW S, PurgeRow(S, now)
    PROVE  RInv'
<1> USE DEF IInv, RInv
<1>1. Clock(now) \in Nat /\ Clock(now) >= clockFloor
  BY ClockAdvances
<1>2. /\ S \subseteq Requests
      /\ \A q \in S : Terminal(rows[q]) /\ Clock(now) > Birth[q] + MaxAge
  BY PurgedIsDue DEF PurgeRow
<1>3. \A p \in Requests : Without(S)[p] = IF p \in S THEN NoRow ELSE rows[p]
  BY DEF Without
<1>4. \A p \in Requests : purged'[p] = IF p \in S THEN rows[p] ELSE purged[p]
  BY DEF PurgeRow, Purging
<1>5. historySince' \in Nat /\ historySince' >= historySince
      /\ \A q \in S : historySince' > rows[q].created
  <2>1. \A q \in S : rows[q].created + 1 \in Nat
    BY <1>2 DEF TypeOK, Row
  <2> QED
    BY <2>1 DEF PurgeRow, Purging, Coverage, TypeOK
<1>6. TypeOK'
  <2>1. purged' \in [Requests -> Row]
    BY <1>2 DEF TypeOK, PurgeRow, Purging
  <2>2. \A p \in Requests : Present(purged'[p]) => Terminal(purged'[p])
    BY <1>2, <1>4 DEF TypeOK
  <2>3. \A p \in Requests : rows'[p].retireAfter # Never <=> Terminal(rows'[p])
    <3> SUFFICES ASSUME NEW p \in Requests
                 PROVE  rows'[p].retireAfter # Never <=> Terminal(rows'[p])
      OBVIOUS
    <3>1. CASE rows'[p] = NoRow
      BY <3>1, NoRowIsRow DEF NoRow
    <3>2. CASE rows'[p] = rows[p]
      BY <3>2 DEF TypeOK
    <3>3. CASE ~Known(rows'[p]) /\ rows'[p].retireAfter = Never
      BY <3>3 DEF Terminal
    <3> QED
      BY <1>3, <3>1, <3>2, <3>3 DEF PurgeRow
  <2> QED
    BY <1>1, <1>5, <2>1, <2>2, <2>3 DEF TypeOK, PurgeRow
<1>7. Retained'
  BY <1>3 DEF Retained, PurgeRow, NoRow
<1>8. NeverAgain'
  <2> SUFFICES ASSUME NEW p \in Requests, Present(purged'[p])
               PROVE  ~Present(rows'[p]) /\ clockFloor' > Birth[p] + MaxAge
    BY DEF NeverAgain, Forgotten
  <2>1. Birth[p] \in Nat /\ MaxAge \in Nat /\ clockFloor \in Nat
    BY RequestAssumption, TimeAssumption DEF TypeOK
  <2>2. CASE p \in S
    <3>1. Present(rows[p])
      BY <1>2, <2>2 DEF Terminal, Present
    <3>2. rows'[p] = NoRow
      BY <1>3, <2>2, <3>1 DEF PurgeRow, Fresh
    <3> QED
      BY <1>2, <2>2, <3>2, NoRowIsRow DEF PurgeRow
  <2>3. CASE p \notin S
    <3>1. Forgotten(p)
      BY <1>4, <2>3 DEF Forgotten
    <3>2. rows'[p] = rows[p]
      BY <1>3, <2>3, <3>1 DEF PurgeRow, Fresh
    <3>3. ~Present(rows[p]) /\ clockFloor > Birth[p] + MaxAge
      BY <3>1 DEF NeverAgain
    <3> QED
      BY <1>1, <2>1, <3>2, <3>3 DEF PurgeRow
  <2> QED
    BY <2>2, <2>3
<1>9. Blank'
  BY <1>3 DEF Blank, PurgeRow, Present
<1>10. CoverageHonest'
  <2> SUFFICES ASSUME NEW p \in Requests, Present(purged'[p])
               PROVE  purged'[p].created < historySince'
    BY DEF CoverageHonest, Forgotten
  <2>1. CASE p \in S
    BY <1>4, <1>5, <2>1
  <2>2. CASE p \notin S
    <3>1. purged'[p] = purged[p] /\ purged[p].created < historySince
      BY <1>4, <2>2 DEF CoverageHonest, Forgotten
    <3>2. purged[p].created \in Nat /\ historySince \in Nat
      BY DEF TypeOK, Row
    <3> QED
      BY <1>5, <3>1, <3>2
  <2> QED
    BY <2>1, <2>2
<1>11. Dated'
  <2> SUFFICES ASSUME NEW p \in Requests
               PROVE  /\ Present(rows'[p]) => rows'[p].created <= clockFloor'
                      /\ rows'[p].retireAfter # Never
                         => rows'[p].retireAfter >= rows'[p].created + Retention
                      /\ Present(purged'[p]) => purged'[p].created + Retention <= clockFloor'
    BY DEF Dated, Forgotten
  <2>1. /\ {rows[p].created, purged[p].created, clockFloor, Retention, Clock(now)} \subseteq Nat
        /\ clockFloor' = Clock(now) /\ rows[p].retireAfter \in Int
    BY <1>1, TimeAssumption DEF TypeOK, Row, PurgeRow, Never
  <2>2. ASSUME p \in S PROVE rows[p].created + Retention <= Clock(now)
    <3>1. rows[p].retireAfter # Never /\ rows[p].retireAfter <= Clock(now)
      BY <2>2 DEF PurgeRow, Batches, Due
    <3> QED
      BY <2>1, <3>1 DEF Dated
  <2>3. Present(purged'[p]) => purged'[p].created + Retention <= clockFloor'
    <3>1. CASE p \in S
      BY <1>4, <2>1, <2>2, <3>1
    <3>2. CASE p \notin S
      BY <1>1, <1>4, <2>1, <3>2 DEF Dated, Forgotten
    <3> QED
      BY <3>1, <3>2
  <2>4. CASE rows'[p] = NoRow
    BY <2>3, <2>4, NoRowIsRow DEF NoRow
  <2>5. CASE rows'[p] = rows[p]
    BY <1>1, <2>1, <2>3, <2>5 DEF Dated
  <2>6. CASE rows'[p].created = Clock(now) /\ rows'[p].retireAfter = Never
    BY <1>1, <2>1, <2>3, <2>6
  <2> QED
    BY <1>3, <2>4, <2>5, <2>6 DEF PurgeRow
<1> QED
  BY <1>6, <1>7, <1>8, <1>9, <1>10, <1>11

\* What is purged goes from the table to the history, with its cost.
LEMMA PurgeLighter ==
    ASSUME IInv, NEW now \in Times, NEW S, PurgeRow(S, now), TypeOK',
           NEW p \in Requests, rows'[p] = Without(S)[p], NEW day
    PROVE  Bears(p, day)' <= Bears(p, day)
<1> USE DEF IInv, RInv
<1>1. /\ rows'[p] = IF p \in S THEN NoRow ELSE rows[p]
      /\ purged'[p] = IF p \in S THEN rows[p] ELSE purged[p]
  BY DEF PurgeRow, Purging, Without
<1>2. CASE p \notin S
  BY <1>1, <1>2, BearsNat DEF Bears, Forgotten
<1>3. CASE p \in S
  <2>1. Present(rows[p]) /\ Known(rows[p]) /\ ~Present(rows'[p])
    BY <1>1, <1>3, PurgedIsDue, NoRowIsRow DEF PurgeRow, Terminal, Present
  <2>2. rows[p].cost \in Nat /\ purged[p].cost \in Nat
    BY DEF TypeOK, Row
  <2> QED
    BY <1>1, <1>3, <2>1, <2>2 DEF Bears, Forgotten
<1> QED
  BY <1>2, <1>3

\* The purged are forgotten; every other request but the admitted stays.
LEMMA PurgeForgets ==
    ASSUME IInv, NEW now \in Times, NEW S, PurgeRow(S, now),
           NEW p \in Requests, rows'[p] = Without(S)[p]
    PROVE  Lifecycle!Stay(p) \/ Lifecycle!Forget(p)
<1> USE DEF IInv, RInv
<1>1. /\ S \subseteq Requests
      /\ \A q \in S : Terminal(rows[q]) /\ Clock(now) > Birth[q] + MaxAge
  BY PurgedIsDue DEF PurgeRow
<1>2. purged'[p] = IF p \in S THEN rows[p] ELSE purged[p]
  BY DEF PurgeRow, Purging
<1>3. rows'[p] = IF p \in S THEN NoRow ELSE rows[p]
  BY DEF Without
<1>4. CASE p \notin S
  BY <1>2, <1>3, <1>4 DEF Lifecycle!Stay, Phase, Charge, Forgotten
<1>5. CASE p \in S
  <2>1. /\ Terminal(rows[p]) /\ Present(rows[p]) /\ Known(rows[p])
        /\ rows[p].state # "registered" /\ rows[p].cost \in Nat
    BY <1>1, <1>5 DEF Terminal, Present, TypeOK, Row
  <2>2. Phase(p) = "ended" /\ Charge(p) = rows[p].cost
    BY <2>1 DEF Phase, Charge
  <2>3. Phase(p)' = "forgotten" /\ Charge(p)' = rows[p].cost
    BY <1>2, <1>3, <1>5, <2>1, NoRowIsRow DEF Phase, Charge, Forgotten, NoRow
  <2> QED
    BY <2>1, <2>2, <2>3, ChargeAssumption DEF Lifecycle!Forget
<1> QED
  BY <1>4, <1>5

\* The lifecycle's executing requests are the ledger's active ones, and a purge
\* leaves them alone.
LEMMA ActiveIsExecuting ==
    ASSUME IInv, NEW now \in Times, NEW S \in Batches(Clock(now))
    PROVE  Active(Without(S)) = Lifecycle!Executing
<1>1. \A q \in S : rows[q].state # "registered"
  BY PurgedIsDue DEF Terminal
<1>2. \A p \in Requests :
        Without(S)[p].state = "registered" <=> rows[p].state = "registered"
  BY <1>1 DEF Without, NoRow
<1>3. \A p \in Requests : rows[p].state = "registered" <=> Phase(p) = "executing"
  BY DEF Phase
<1> QED
  BY <1>2, <1>3 DEF Active, Lifecycle!Executing

----------------------------------------------------------------------------
(***************************************************************************)
(* The actions.                                                            *)
(***************************************************************************)

\* A step that only moves the clock keeps the invariant, and the lifecycle.
LEMMA ClockStep ==
    ASSUME IInv, NEW now \in Times, ClockOnly(now)
    PROVE  IInv' /\ UNCHANGED <<[q \in Requests |-> Phase(q)], [q \in Requests |-> Charge(q)]>>
<1> USE DEF IInv, RInv
<1>1. Clock(now) \in Nat /\ Clock(now) >= clockFloor
  BY ClockAdvances
<1>2. TypeOK' /\ Retained' /\ Blank' /\ CoverageHonest'
  BY <1>1 DEF ClockOnly, TypeOK, Retained, Blank, CoverageHonest, Forgotten
<1>3. NeverAgain'
  BY <1>1, RequestAssumption, TimeAssumption DEF ClockOnly, NeverAgain, Forgotten, TypeOK
<1>4. Dated'
  BY <1>1, TimeAssumption DEF ClockOnly, Dated, Forgotten, TypeOK, Row
<1>5. BudgetHeld'
  BY DEF ClockOnly, BudgetHeld, Committed, Bears, Forgotten
<1> QED
  BY <1>2, <1>3, <1>4, <1>5 DEF ClockOnly, Phase, Charge, Forgotten

Keeps == IInv' /\ (Lifecycle!Next \/ UNCHANGED <<[q \in Requests |-> Phase(q)],
                                                 [q \in Requests |-> Charge(q)]>>)

\* A purge without an admission keeps the whole invariant.
LEMMA PurgeHolds ==
    ASSUME IInv, NEW now \in Times, NEW S, PurgeRow(S, now), rows' = Without(S)
    PROVE  IInv'
<1>1. RInv' /\ TypeOK' /\ TypeOK
  BY PurgeRowInvariant DEF RInv, IInv
<1>2. Lighter
  <2>1. ASSUME NEW q \in Requests, NEW day PROVE Bears(q, day)' <= Bears(q, day)
    BY <1>1, PurgeLighter
  <2> QED
    BY <1>1, <2>1, BearsNat DEF Lighter
<1>3. BudgetHeld'
  BY <1>1, <1>2, LighterHolds DEF IInv, PurgeRow
<1> QED
  BY <1>1, <1>3 DEF IInv

\* purge
LEMMA PurgeStep ==
    ASSUME IInv, NEW now \in Times, purge(now)
    PROVE  Keeps
<1>1. PICK S \in Batches(Clock(now)) :
        /\ Purging(S) /\ rows' = Without(S)
        /\ clockFloor' = Clock(now) /\ frozen' = frozen
  BY DEF purge
<1>2. PurgeRow(S, now)
  <2>1. Without(S) \in [Requests -> Row]
    BY NoRowIsRow DEF Without, IInv, RInv, TypeOK
  <2> QED
    BY <1>1, <2>1 DEF PurgeRow
<1>3. \A p \in Requests : Lifecycle!Stay(p) \/ Lifecycle!Forget(p)
  BY <1>1, <1>2, PurgeForgets
<1>4. IInv'
  BY <1>1, <1>2, PurgeHolds
<1>5. CASE Requests = {}
  BY <1>4, <1>5 DEF Keeps
<1>6. CASE Requests # {}
  BY <1>3, <1>4, <1>6 DEF Keeps, Lifecycle!Next
<1> QED
  BY <1>5, <1>6

\* What the summary counts of one request: its cost, if it is known and of the
\* day, and its reservation, whatever the day, as long as it is not.
KnownOf(table, q, day) ==
    IF Present(table[q]) /\ Known(table[q]) /\ relayDay(table[q].created) = day
    THEN table[q].cost ELSE 0
ReservedOf(table, q) ==
    IF Present(table[q]) /\ ~Known(table[q]) THEN table[q].reservation ELSE 0

\* The summary adds up what it counts of each.
LEMMA SummaryAddsUp ==
    ASSUME NEW table \in [Requests -> Row], NEW day
    PROVE  /\ KnownCost(table, day)
                = SumFunctionOnSet([q \in Requests |-> KnownOf(table, q, day)], Requests)
           /\ Reserved(table, day)
                = SumFunctionOnSet([q \in Requests |-> ReservedOf(table, q)], Requests)
<1>1. \A q \in Requests : table[q].cost \in Nat /\ table[q].reservation \in Nat
  BY DEF Row
<1>2. KnownCost(table, day)
        = SumFunctionOnSet([q \in Requests |-> KnownOf(table, q, day)], Requests)
  <2> DEFINE f == [q \in Requests |-> table[q].cost]
             g == [q \in Requests |-> KnownOf(table, q, day)]
             R == {q \in Requests : /\ Present(table[q]) /\ Known(table[q])
                                    /\ relayDay(table[q].created) = day}
  <2>1. /\ \A q \in Requests : f[q] \in Nat
        /\ \A q \in Requests : g[q] = IF q \in R THEN f[q] ELSE 0
        /\ R \in SUBSET Requests
    BY <1>1 DEF KnownOf
  <2>2. KnownCost(table, day) = SumFunctionOnSet(f, R)
    BY DEF KnownCost
  <2> HIDE DEF f, g, R
  <2>3. SumFunctionOnSet(g, Requests) = SumFunctionOnSet(f, R)
    BY <2>1, RequestAssumption, SumSupport
  <2> QED
    BY <2>2, <2>3 DEF g
<1>3. Reserved(table, day)
        = SumFunctionOnSet([q \in Requests |-> ReservedOf(table, q)], Requests)
  <2> DEFINE f == [q \in Requests |-> table[q].reservation]
             g == [q \in Requests |-> ReservedOf(table, q)]
             R == {q \in Requests : Present(table[q]) /\ ~Known(table[q])}
  <2>1. /\ \A q \in Requests : f[q] \in Nat
        /\ \A q \in Requests : g[q] = IF q \in R THEN f[q] ELSE 0
        /\ R \in SUBSET Requests
    BY <1>1 DEF ReservedOf
  <2>2. Reserved(table, day) = SumFunctionOnSet(f, R)
    BY DEF Reserved
  <2> HIDE DEF f, g, R
  <2>3. SumFunctionOnSet(g, Requests) = SumFunctionOnSet(f, R)
    BY <2>1, RequestAssumption, SumSupport
  <2> QED
    BY <2>2, <2>3 DEF g
<1> QED
  BY <1>2, <1>3

\* The heart of it: an admission leaves the day of the admitted request within
\* the budget, as the summary misses nothing of that day, and makes no other day
\* heavier.
LEMMA AdmissionWithinBudget ==
    ASSUME IInv, NEW q \in Requests, NEW r \in Reservations, NEW now \in Times, NEW S,
           PurgeRow(S, now), ~Present(rows[q]), Admits(Without(S), r, Clock(now)),
           rows' = [Without(S) EXCEPT ![q] =
                      [NoRow EXCEPT !.state = "registered", !.created = Clock(now),
                                    !.reservation = r]]
    PROVE  BudgetHeld'
<1> DEFINE t == Clock(now)
           table == Without(S)
<1>0. PICK today : today = relayDay(t)
  OBVIOUS
<1>1. RInv' /\ TypeOK' /\ TypeOK /\ Dated' /\ t \in Nat /\ clockFloor' = t
  BY PurgeRowInvariant, ClockAdvances DEF RInv, IInv, PurgeRow
<1>2. table \in [Requests -> Row]
  BY <1>1, NoRowIsRow DEF Without, TypeOK
<1>3. r \in Nat /\ Budget \in Nat
  BY AmountAssumption, LimitAssumption
<1>4. /\ rows'[q].state = "registered" /\ rows'[q].created = t /\ rows'[q].reservation = r
      /\ Present(rows'[q]) /\ ~Known(rows'[q]) /\ ~Present(table[q])
      /\ \A p \in Requests \ {q} : rows'[p] = table[p]
  BY <1>2, NoRowIsRow DEF NoRow, Present, Known, Without
<1>5. \A p \in Requests : Forgotten(p)' => relayDay(purged'[p].created) # today
  <2> SUFFICES ASSUME NEW p \in Requests, Forgotten(p)'
               PROVE  relayDay(purged'[p].created) # today
    OBVIOUS
  <2>1. purged'[p].created \in Nat /\ purged'[p].created + Retention <= t
    BY <1>1 DEF TypeOK, Row, Dated, Forgotten
  <2> QED
    BY <1>0, <1>1, <2>1, DayPasses
<1>6. ASSUME NEW day, day # today
      PROVE  \A p \in Requests : Bears(p, day)' <= Bears(p, day)
  <2>1. ASSUME NEW p \in Requests \ {q} PROVE Bears(p, day)' <= Bears(p, day)
    BY <1>1, <1>4, PurgeLighter
  <2>2. Bears(q, day)' <= Bears(q, day)
    <3>1. ~Forgotten(q)' \/ (Forgotten(q) /\ purged'[q] = purged[q])
      BY <1>4, PurgedIsDue DEF PurgeRow, Purging, Forgotten, Terminal, Present
    <3>2. purged'[q].cost \in Nat
      BY <1>1 DEF TypeOK, Row
    <3> QED
      BY <1>0, <1>1, <1>4, <1>6, <3>1, <3>2, BearsNat DEF Bears
  <2> QED
    BY <2>1, <2>2
<1> DEFINE b(day) == [p \in Requests |-> Bears(p, day)]
           b2(day) == [p \in Requests |-> Bears(p, day)']
           k == [p \in Requests |-> KnownOf(table, p, today)]
           v == [p \in Requests |-> ReservedOf(table, p)]
           w == [p \in Requests |-> k[p] + v[p]]
<1>7. \A p \in Requests : /\ k[p] \in Nat /\ v[p] \in Nat /\ w[p] = k[p] + v[p]
                          /\ b2(today)[p] \in Nat
  BY <1>1, <1>2, BearsNat DEF KnownOf, ReservedOf, Row
<1>8. w[q] = 0 /\ b2(today)[q] = r
  <2>1. Bears(q, today)' = r + 0
    <3>1. relayDay(rows'[q].created) = today
      BY <1>0, <1>4
    <3> QED
      BY <1>3, <1>4, <1>5, <3>1 DEF Bears
  <2> QED
    BY <1>3, <1>4, <2>1 DEF KnownOf, ReservedOf
<1>9. ASSUME NEW p \in Requests \ {q} PROVE b2(today)[p] <= w[p]
  <2>1. Bears(p, today)' = IF Present(table[p]) /\ relayDay(table[p].created) = today
                           THEN Owes(table[p]) ELSE 0
    <3>1. Owes(table[p]) \in Nat
      BY <1>2 DEF Owes, Row
    <3> QED
      BY <1>4, <1>5, <3>1 DEF Bears, Owes
  <2>2. table[p].cost \in Nat /\ table[p].reservation \in Nat
    BY <1>2 DEF Row
  <2> QED
    BY <2>1, <2>2 DEF Owes, KnownOf, ReservedOf
<1>10. SumFunctionOnSet(b2(today), Requests) <= r + SumFunctionOnSet(w, Requests)
  <2> HIDE DEF b2, k, v, w
  <2>1. IsFiniteSet(Requests \ {q}) /\ IsFiniteSet(Requests)
    BY RequestAssumption, FS_Subset
  <2>2. SumFunctionOnSet(b2(today), Requests)
          = b2(today)[q] + SumFunctionOnSet(b2(today), Requests \ {q})
    BY <1>7, <2>1, SumRemove
  <2>3. \A p \in Requests : w[p] \in Nat
    BY <1>7
  <2>4. SumFunctionOnSet(w, Requests) = w[q] + SumFunctionOnSet(w, Requests \ {q})
    BY <2>1, <2>3, SumRemove
  <2>5. SumFunctionOnSet(b2(today), Requests \ {q}) <= SumFunctionOnSet(w, Requests \ {q})
    BY <1>7, <1>9, <2>1, <2>3, SumBound
  <2>6. SumFunctionOnSet(b2(today), Requests \ {q}) \in Nat
        /\ SumFunctionOnSet(w, Requests \ {q}) \in Nat
    BY <1>7, <2>1, <2>3, SumNat
  <2> QED
    BY <1>3, <1>8, <2>2, <2>4, <2>5, <2>6
<1>11. SumFunctionOnSet(w, Requests) = KnownCost(table, today) + Reserved(table, today)
  <2>1. /\ KnownCost(table, today) = SumFunctionOnSet(k, Requests)
        /\ Reserved(table, today) = SumFunctionOnSet(v, Requests)
    BY <1>2, SummaryAddsUp
  <2> HIDE DEF k, v, w
  <2> QED
    BY <1>7, <2>1, RequestAssumption, SumPlus
<1>12. SumFunctionOnSet(b2(today), Requests) <= Budget
  <2>1. r <= Budget - KnownCost(table, today) - Reserved(table, today)
    BY <1>0 DEF Admits, Available
  <2>2. KnownCost(table, today) \in Nat /\ Reserved(table, today) \in Nat
    <3>1. /\ KnownCost(table, today) = SumFunctionOnSet(k, Requests)
          /\ Reserved(table, today) = SumFunctionOnSet(v, Requests)
      BY <1>2, SummaryAddsUp
    <3> HIDE DEF k, v, w
    <3> QED
      BY <1>7, <3>1, RequestAssumption, SumNat
  <2>3. SumFunctionOnSet(b2(today), Requests) \in Nat
    <3> HIDE DEF b2, k, v, w
    <3> QED
      BY <1>7, RequestAssumption, SumNat
  <2> HIDE DEF b2, k, v, w
  <2> QED
    BY <1>3, <1>10, <1>11, <2>1, <2>2, <2>3
<1> SUFFICES ASSUME ~frozen', NEW day \in {relayDay(u) : u \in Times}
             PROVE  Committed(day)' <= Budget
  BY DEF BudgetHeld
<1>13. Committed(day)' = SumFunctionOnSet(b2(day), Requests)
       /\ Committed(day) = SumFunctionOnSet(b(day), Requests)
  BY DEF Committed
<1>14. CASE day = today
  BY <1>12, <1>13, <1>14
<1>15. CASE day # today
  <2>1. \A p \in Requests : /\ b(day)[p] \in Nat /\ b2(day)[p] \in Nat
                            /\ b2(day)[p] <= b(day)[p]
    BY <1>1, <1>6, <1>15, BearsNat
  <2>2. Committed(day) <= Budget
    BY DEF BudgetHeld, IInv, PurgeRow
  <2> HIDE DEF b, b2
  <2>3. SumFunctionOnSet(b2(day), Requests) <= SumFunctionOnSet(b(day), Requests)
    BY <2>1, RequestAssumption, SumBound
  <2>4. SumFunctionOnSet(b2(day), Requests) \in Nat /\ SumFunctionOnSet(b(day), Requests) \in Nat
    BY <2>1, RequestAssumption, SumNat
  <2> QED
    BY <1>3, <1>13, <2>2, <2>3, <2>4
<1> QED
  BY <1>14, <1>15

\* register
LEMMA RegisterStep ==
    ASSUME IInv, NEW q \in Requests, NEW r \in Reservations, NEW now \in Times,
           register(q, r, now)
    PROVE  Keeps
<1>1. CASE Repeated(q, r, now) \/ Expired(q, r, now)
  BY <1>1, ClockStep DEF Repeated, Expired, Keeps
<1>2. CASE Registered(q, r, now)
  <2> DEFINE t == Clock(now)
             admitted == [NoRow EXCEPT !.state = "registered", !.created = t, !.reservation = r]
  <2>1. PICK S \in Batches(t) :
          /\ Purging(S)
          /\ rows' = IF Admits(Without(S), r, t) THEN [Without(S) EXCEPT ![q] = admitted]
                     ELSE Without(S)
    BY <1>2 DEF Registered
  <2>2. /\ ~Present(rows[q]) /\ relayRequestAdmissible(q, t)
        /\ clockFloor' = t /\ frozen' = frozen
    BY <1>2 DEF Registered
  <2>3. t \in Nat /\ t >= clockFloor
    BY ClockAdvances DEF IInv, RInv
  <2>4. Without(S) \in [Requests -> Row]
    BY NoRowIsRow DEF Without, IInv, RInv, TypeOK
  <2>5. Fresh(q)
    <3>1. Birth[q] \in Nat /\ MaxAge \in Nat /\ clockFloor \in Nat
      BY RequestAssumption, TimeAssumption DEF IInv, RInv, TypeOK
    <3>2. Birth[q] + MaxAge >= clockFloor
      BY <2>2, <2>3, <3>1 DEF relayRequestAdmissible
    <3> QED
      BY <2>2, <3>1, <3>2 DEF Fresh, IInv, RInv, NeverAgain
  <2>6. /\ admitted \in Row /\ admitted.state = "registered" /\ admitted.source = "none"
        /\ admitted.retireAfter = Never
    BY <2>3, AmountAssumption DEF NoRow, Row, Never
  <2>7. PurgeRow(S, now)
    BY <2>1, <2>2, <2>4, <2>5, <2>6 DEF PurgeRow, Known
  <2>8. CASE ~Admits(Without(S), r, t)
    <3>1. \A p \in Requests : Lifecycle!Stay(p) \/ Lifecycle!Forget(p)
      BY <2>1, <2>7, <2>8, PurgeForgets
    <3>2. Lifecycle!Next
      BY <3>1 DEF Lifecycle!Next
    <3> QED
      BY <2>1, <2>7, <2>8, <3>2, PurgeHolds DEF Keeps
  <2>9. CASE Admits(Without(S), r, t)
    <3>1. rows' = [Without(S) EXCEPT ![q] = admitted]
      BY <2>1, <2>9
    <3>2. \A p \in Requests \ {q} : Lifecycle!Stay(p) \/ Lifecycle!Forget(p)
      BY <2>4, <2>7, <3>1, PurgeForgets
    <3>3. Cardinality(Lifecycle!Executing) < Slots
      BY <2>9, ActiveIsExecuting DEF Admits
    <3>4. Phase(q) = "fresh"
      BY <2>5 DEF Phase, Fresh, Present
    <3>5. rows'[q] = admitted
      BY <2>4, <3>1
    <3>6. Phase(q)' = "executing"
      BY <2>6, <3>5 DEF Phase
    <3>7. Charge(q)' = Uncharged
      BY <2>6, <3>5 DEF Charge, Known, Present
    <3>8. Lifecycle!Admit(q)
      BY <3>3, <3>4, <3>6, <3>7 DEF Lifecycle!Admit, Cardinality, Lifecycle!Cardinality
    <3>9. Lifecycle!Next
      BY <3>2, <3>8 DEF Lifecycle!Next
    <3>10. BudgetHeld'
      <4>1. rows' = [Without(S) EXCEPT ![q] =
                        [NoRow EXCEPT !.state = "registered", !.created = Clock(now),
                                      !.reservation = r]]
        BY <3>1
      <4>2. Admits(Without(S), r, Clock(now)) /\ ~Present(rows[q])
        BY <2>2, <2>9
      <4> QED
        BY <2>7, <4>1, <4>2, AdmissionWithinBudget
    <3> QED
      BY <2>7, <3>9, <3>10, PurgeRowInvariant DEF Keeps, IInv
  <2> QED
    BY <2>8, <2>9
<1> QED
  BY <1>1, <1>2 DEF register

\* checkpoint
LEMMA CheckpointStep ==
    ASSUME IInv, NEW q \in Requests, NEW g \in Generations, NEW now \in Times,
           checkpoint(q, g, now)
    PROVE  Keeps
<1> USE DEF IInv, RInv
<1>1. CASE rows[q].state = "registered" /\ rows[q].generation = NoGeneration
  <2>1. rows' = [rows EXCEPT ![q].generation = g]
    BY <1>1 DEF checkpoint
  <2>2. OneRow(q, now)
    <3>1. rows \in [Requests -> Row] /\ frozen \in BOOLEAN
          /\ (rows[q].retireAfter # Never <=> Terminal(rows[q]))
      BY DEF TypeOK
    <3>2. rows' \in [Requests -> Row]
      BY <2>1, <3>1 DEF Row
    <3>3. /\ rows'[q].state = rows[q].state /\ rows'[q].source = rows[q].source
          /\ rows'[q].cost = rows[q].cost /\ rows'[q].retireAfter = rows[q].retireAfter
          /\ rows'[q].created = rows[q].created /\ rows'[q].reservation = rows[q].reservation
      BY <2>1, <3>1 DEF Row
    <3>4. \A p \in Requests \ {q} : rows'[p] = rows[p]
      BY <2>1, <3>1
    <3>5. Owes(rows'[q]) <= Owes(rows[q])
      BY <3>1, <3>3 DEF Owes, Known, Row
    <3> QED
      BY <1>1, <3>1, <3>2, <3>3, <3>4, <3>5 DEF OneRow, checkpoint, Present, Known, Terminal
  <2> QED
    BY <2>2, OneRowInvariant, OneRowRefines DEF Keeps
<1>2. CASE ~(rows[q].state = "registered" /\ rows[q].generation = NoGeneration)
  <2>1. ClockOnly(now)
    BY <1>2 DEF checkpoint, ClockOnly
  <2> QED
    BY <2>1, ClockStep DEF Keeps
<1> QED
  BY <1>1, <1>2

\* finish
LEMMA FinishStep ==
    ASSUME IInv, NEW q \in Requests, NEW o \in Observations, NEW now \in Times,
           finish(q, o, now)
    PROVE  Keeps
<1> USE DEF IInv, RInv
<1>1. /\ rows \in [Requests -> Row] /\ frozen \in BOOLEAN
      /\ (rows[q].retireAfter # Never <=> Terminal(rows[q]))
      /\ o.state \in {"completed", "failed"}
      /\ o.generation \in Generations \cup {NoGeneration}
      /\ o.usage \in Costs \cup {Uncharged}
  BY DEF TypeOK, Observations, Observation
<1>2. /\ Deadline(q, Clock(now)) \in Nat /\ Deadline(q, Clock(now)) # Never
  BY ClockAdvances, DeadlineLater
<1>3. CASE FinishRefused(q, o, now)
  BY <1>3, ClockStep DEF FinishRefused, Keeps
<1>4. CASE FinishSettled(q, o, now)
  <2>1. rows' = [rows EXCEPT ![q].state = o.state, ![q].retireAfter = Deadline(q, Clock(now))]
        /\ rows[q].source = "generation" /\ rows[q].state = "registered"
    BY <1>4 DEF FinishSettled, Finishing
  <2>2. rows' \in [Requests -> Row]
    <3>1. rows[q] \in Row
      BY <1>1
    <3>2. [rows[q] EXCEPT !.state = o.state, !.retireAfter = Deadline(q, Clock(now))] \in Row
      BY <1>1, <1>2, <3>1 DEF Row
    <3> QED
      BY <1>1, <2>1, <3>2
  <2>3. /\ rows'[q].state = o.state /\ rows'[q].source = rows[q].source
        /\ rows'[q].cost = rows[q].cost /\ rows'[q].retireAfter = Deadline(q, Clock(now))
        /\ rows'[q].created = rows[q].created
    BY <1>1, <2>1 DEF Row
  <2>4. \A p \in Requests \ {q} : rows'[p] = rows[p]
    BY <1>1, <2>1
  <2>5. frozen' \in BOOLEAN /\ (frozen => frozen')
    BY <1>1, <1>4 DEF FinishSettled, Overrun
  <2>6. purged' = purged /\ historySince' = historySince /\ clockFloor' = Clock(now)
    BY <1>4 DEF FinishSettled
  <2>7. Owes(rows'[q]) <= Owes(rows[q])
    BY <1>1, <2>1, <2>3 DEF Owes, Known, Row
  <2>8. OneRow(q, now)
    BY <1>1, <1>2, <2>1, <2>2, <2>3, <2>4, <2>5, <2>6, <2>7
    DEF OneRow, Present, Known, Terminal
  <2> QED
    BY <2>8, OneRowInvariant, OneRowRefines DEF Keeps
<1>5. CASE FinishResponse(q, o, now)
  <2> DEFINE usage == IF HasUsage(o) THEN "response" ELSE "none"
             cost == IF HasUsage(o) THEN o.usage ELSE 0
             until == IF HasUsage(o) THEN Deadline(q, Clock(now)) ELSE Never
  <2>1. /\ rows' = [rows EXCEPT ![q].state = o.state, ![q].generation = o.generation,
                                ![q].source = usage, ![q].cost = cost, ![q].retireAfter = until]
        /\ rows[q].source = "none" /\ rows[q].state = "registered"
    BY <1>5 DEF FinishResponse, Finishing
  <2>2. usage \in {"none", "response"} /\ cost \in Nat /\ until \in Nat \cup {Never}
    BY <1>1, <1>2, AmountAssumption DEF HasUsage
  <2>3. rows' \in [Requests -> Row]
    <3>1. rows[q] \in Row
      BY <1>1
    <3>2. [rows[q] EXCEPT !.state = o.state, !.generation = o.generation, !.source = usage,
                          !.cost = cost, !.retireAfter = until] \in Row
      <4> HIDE DEF usage, cost, until
      <4> QED
        BY <1>1, <2>2, <3>1 DEF Row
    <3> QED
      BY <1>1, <2>1, <3>2
  <2>4. /\ rows'[q].state = o.state /\ rows'[q].source = usage
        /\ rows'[q].cost = cost /\ rows'[q].retireAfter = until
        /\ rows'[q].created = rows[q].created /\ rows'[q].reservation = rows[q].reservation
    BY <1>1, <2>1 DEF Row
  <2>5. \A p \in Requests \ {q} : rows'[p] = rows[p]
    BY <1>1, <2>1
  <2>6. /\ frozen' \in BOOLEAN /\ (frozen => frozen')
        /\ frozen' \/ ~HasUsage(o) \/ ~(o.usage > rows[q].reservation)
    BY <1>1, <1>5 DEF FinishResponse, Overrun
  <2>7. purged' = purged /\ historySince' = historySince /\ clockFloor' = Clock(now)
    BY <1>5 DEF FinishResponse
  <2>8. frozen' \/ Owes(rows'[q]) <= Owes(rows[q])
    <3>1. rows[q].reservation \in Nat /\ (HasUsage(o) => o.usage \in Nat)
      BY <1>1, AmountAssumption DEF Row, HasUsage
    <3>2. Owes(rows[q]) = rows[q].reservation
      BY <2>1 DEF Owes, Known
    <3>3. Owes(rows'[q]) = IF HasUsage(o) THEN o.usage ELSE rows[q].reservation
      BY <2>4 DEF Owes, Known
    <3> QED
      BY <2>6, <3>1, <3>2, <3>3
  <2>9. OneRow(q, now)
    BY <1>1, <1>2, <2>1, <2>2, <2>3, <2>4, <2>5, <2>6, <2>7, <2>8
    DEF OneRow, Present, Known, Terminal
  <2> QED
    BY <2>9, OneRowInvariant, OneRowRefines DEF Keeps
<1> QED
  BY <1>3, <1>4, <1>5 DEF finish

\* reconcile
LEMMA ReconcileStep ==
    ASSUME IInv, NEW q \in Requests, NEW g \in Generations, NEW c \in Costs,
           NEW matches \in BOOLEAN, NEW now \in Times, reconcile(q, g, c, matches, now)
    PROVE  Keeps
<1> USE DEF IInv, RInv
<1>1. /\ rows \in [Requests -> Row] /\ frozen \in BOOLEAN
      /\ (rows[q].retireAfter # Never <=> Terminal(rows[q]))
      /\ c \in Nat
  BY AmountAssumption DEF TypeOK
<1>2. /\ Deadline(q, Clock(now)) \in Nat /\ Deadline(q, Clock(now)) # Never
  BY ClockAdvances, DeadlineLater
<1>3. CASE ReconcileRefused(q, g, c, matches, now)
  BY <1>3, ClockStep DEF ReconcileRefused, Keeps
<1>4. CASE ReconcileAgain(q, g, c, matches, now)
  <2>1. Owes(rows[q]) \in Nat
    BY <1>1 DEF Owes, Row
  <2>2. OneRow(q, now)
    BY <1>1, <1>4, <2>1 DEF ReconcileAgain, Reconcilable, OneRow, Overrun
  <2> QED
    BY <2>2, OneRowInvariant, OneRowRefines DEF Keeps
<1>5. CASE Settle(q, g, c, matches, now)
  <2> DEFINE until == IF rows[q].state = "registered" THEN Never ELSE Deadline(q, Clock(now))
  <2>1. /\ rows' = [rows EXCEPT ![q].source = "generation", ![q].cost = c, ![q].retireAfter = until]
        /\ Present(rows[q]) /\ ~Known(rows[q])
    BY <1>5 DEF Settle, Reconcilable
  <2>2. until \in Nat \cup {Never}
    BY <1>2
  <2>3. rows' \in [Requests -> Row]
    <3>1. rows[q] \in Row
      BY <1>1
    <3>2. [rows[q] EXCEPT !.source = "generation", !.cost = c, !.retireAfter = until] \in Row
      <4> HIDE DEF until
      <4> QED
        BY <1>1, <2>2, <3>1 DEF Row
    <3> QED
      BY <1>1, <2>1, <3>2
  <2>4. /\ rows'[q].state = rows[q].state /\ rows'[q].source = "generation"
        /\ rows'[q].cost = c /\ rows'[q].retireAfter = until
        /\ rows'[q].created = rows[q].created /\ rows[q].reservation \in Nat
    BY <1>1, <2>1 DEF Row
  <2>5. \A p \in Requests \ {q} : rows'[p] = rows[p]
    BY <1>1, <2>1
  <2>6. frozen' \in BOOLEAN /\ (frozen => frozen')
        /\ (frozen' \/ ~(c > rows[q].reservation))
    BY <1>1, <1>5 DEF Settle, Overrun
  <2>7. purged' = purged /\ historySince' = historySince /\ clockFloor' = Clock(now)
    BY <1>5 DEF Settle
  <2>8. rows[q].state \in {"absent", "registered", "completed", "failed"}
    BY <1>1 DEF Row
  <2>9. frozen' \/ Owes(rows'[q]) <= Owes(rows[q])
    BY <1>1, <2>1, <2>4, <2>6 DEF Owes, Known
  <2>10. OneRow(q, now)
    BY <1>1, <1>2, <2>1, <2>2, <2>3, <2>4, <2>5, <2>6, <2>7, <2>8, <2>9
    DEF OneRow, Present, Known, Terminal
  <2> QED
    BY <2>10, OneRowInvariant, OneRowRefines DEF Keeps
<1> QED
  BY <1>3, <1>4, <1>5 DEF reconcile

\* Every step keeps the invariant and is a step of the lifecycle.
LEMMA NextStep ==
    ASSUME IInv, [Next]_vars
    PROVE  Keeps
<1>1. CASE UNCHANGED vars
  BY <1>1 DEF vars, Keeps, IInv, RInv, TypeOK, Retained, NeverAgain, Blank, CoverageHonest,
              Dated, BudgetHeld, Committed, Bears, Forgotten, Phase, Charge
<1>2. ASSUME NEW now \in Times, ClockOnly(now)
      PROVE  Keeps
  BY <1>2, ClockStep DEF Keeps
<1> QED
  BY <1>1, <1>2, PurgeStep, RegisterStep, CheckpointStep, FinishStep, ReconcileStep DEF Next

----------------------------------------------------------------------------
(***************************************************************************)
(* The theorems.                                                           *)
(***************************************************************************)

\* The strengthened invariant holds in every reachable state.
LEMMA Invariant == Spec => []IInv
<1>1. IInv /\ [Next]_vars => IInv'
  BY NextStep DEF Keeps
<1> QED
  BY <1>1, InitIInv, PTL DEF Spec

\* Every receipt keeps its type, and has a deadline exactly when both its
\* outcome and its usage are known (finish and reconcile in either order).
THEOREM TypeCorrect == Spec => []TypeOK
BY Invariant, PTL DEF IInv, RInv

\* While no overrun was seen, what the requests of a day cost and may yet cost is
\* within the budget, for all requests, reservations, costs, clocks and limits,
\* and however many receipts retention has deleted meanwhile (admission adds up
\* what the table holds, which is all of the current day).
THEOREM BudgetCorrect == Spec => []BudgetHeld
BY Invariant, PTL DEF IInv

\* The coverage boundary that summary() reports covers all that purge deleted.
THEOREM CoverageCorrect == Spec => []CoverageHonest
BY Invariant, PTL DEF IInv, RInv

\* For any requests, clocks, limits and interleaving of the ledger's methods, no
\* request is admitted twice, no slot is given away, no settled cost changes and
\* no outstanding reservation is forgotten.
THEOREM LifecycleImplemented == Spec => ImplementsLifecycle
<1>1. Init => Lifecycle!Init
  BY NoRowIsRow DEF Init, Lifecycle!Init, Phase, Charge, Forgotten, NoRow, Known, Present
<1>2. IInv /\ [Next]_vars
      => [Lifecycle!Next]_<<[q \in Requests |-> Phase(q)], [q \in Requests |-> Charge(q)]>>
  BY NextStep DEF Keeps
<1> QED
  BY <1>1, <1>2, Invariant, PTL DEF Spec, ImplementsLifecycle, Lifecycle!Spec
=============================================================================
