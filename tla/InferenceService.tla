--------------------------- MODULE InferenceService ---------------------------
(***************************************************************************)
(* What Hermes is promised by the bridge and the relay together: a request *)
(* body is executed at most once, however often it is sent; an execution   *)
(* gets one record, which does not change; and what a call is told of its  *)
(* execution is true from then on.                                         *)
(***************************************************************************)
CONSTANTS
    Calls,          \* calls of Hermes
    Bodies,         \* request bodies, up to their canonical form
    Outcomes,       \* how an execution may end
    Open            \* a call that was not told anything

VARIABLES
    executions,     \* a body, the call it is executed for, and its record
    answer          \* answer[c]: what call c was told

Init == executions = {} /\ answer = [c \in Calls |-> Open]

\* An execution begins while its call waits for it.
Execute(c, b) ==
    /\ answer[c] = Open
    /\ \A e \in executions : e.call # c /\ e.body # b
    /\ executions' = executions \cup {[body |-> b, call |-> c, record |-> "registered"]}
    /\ UNCHANGED answer

\* Its outcome is recorded, or is lost.
Record(e) ==
    /\ e \in executions /\ e.record = "registered"
    /\ \E outcome \in Outcomes \cup {"lost"} :
          executions' = (executions \ {e}) \cup {[e EXCEPT !.record = outcome]}
    /\ UNCHANGED answer

\* A call that succeeded was executed to the end, one that failed was not and
\* never will be; of the others nothing is known.
True(c, told) ==
    /\ told = "ok" => \E e \in executions : e.call = c /\ e.record \in {"completed", "lost"}
    /\ told = "failed" => \A e \in executions : e.call # c

Tell(c) ==
    /\ answer[c] = Open
    /\ \E told \in {"ok", "failed", "unknown", "cancelled"} :
          /\ True(c, told)
          /\ answer' = [answer EXCEPT ![c] = told]
    /\ UNCHANGED executions

Next ==
    \/ \E c \in Calls : Tell(c) \/ \E b \in Bodies : Execute(c, b)
    \/ \E e \in executions : Record(e)

Spec == Init /\ [][Next]_<<executions, answer>>
=============================================================================
