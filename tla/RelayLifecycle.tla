---------------------------- MODULE RelayLifecycle ----------------------------
(***************************************************************************)
(* What the relay ledger promises about one inference request: it is       *)
(* admitted at most once, occupies one of the execution slots until its    *)
(* outcome is known, is charged one cost that never changes, and may be    *)
(* forgotten only when both are settled.  A forgotten request stays        *)
(* forgotten: its ID is never admitted again.                              *)
(***************************************************************************)
EXTENDS Naturals, FiniteSets

CONSTANTS
    Requests,       \* request IDs, each with its owner
    Slots,          \* how many requests may execute at once
    Uncharged       \* the charge of a request whose usage is unknown

VARIABLES
    phase,          \* phase[q]: how far the execution of q has come
    charge          \* charge[q]: the cost accounted for q, or Uncharged

Executing == {q \in Requests : phase[q] = "executing"}

Init ==
    /\ phase = [q \in Requests |-> "fresh"]
    /\ charge = [q \in Requests |-> Uncharged]

Admit(q) ==
    /\ phase[q] = "fresh" /\ phase'[q] = "executing"
    /\ Cardinality(Executing) < Slots
    /\ charge'[q] = Uncharged

\* The outcome, the usage, or both become known.
Advance(q) ==
    /\ phase[q] \in {"executing", "ended"}
    /\ phase'[q] \in {phase[q], "ended"}
    /\ charge'[q] = charge[q] \/ (charge[q] = Uncharged /\ charge'[q] \in Nat)

Forget(q) ==
    /\ phase[q] = "ended" /\ phase'[q] = "forgotten"
    /\ charge[q] # Uncharged /\ charge'[q] = charge[q]

Stay(q) == phase'[q] = phase[q] /\ charge'[q] = charge[q]

\* One transaction may forget many requests and then admit or advance one.
Next ==
    \E q \in Requests :
        /\ Admit(q) \/ Advance(q) \/ Stay(q) \/ Forget(q)
        /\ \A p \in Requests \ {q} : Stay(p) \/ Forget(p)

Spec == Init /\ [][Next]_<<phase, charge>>
=============================================================================
