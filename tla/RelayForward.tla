----------------------------- MODULE RelayForward -----------------------------
(***************************************************************************)
(* forwardRelay (relay-forward.ts): one admitted inference request is      *)
(* forwarded to the provider and its answer to the caller.  The function   *)
(* runs on one event loop, so a step goes from one await to the next; the  *)
(* timer, the caller's abort signal and the cancellation of the stream     *)
(* come in between.  Whoever is first records the outcome.                 *)
(***************************************************************************)
EXTENDS Naturals

CONSTANTS
    Request,        \* request IDs
    None            \* no outcome yet

VARIABLES
    job,            \* job[q]: the forwarding of q
    receipt         \* receipt[q]: what the ledger knows of q

forwardVars == <<job, receipt>>

(***************************************************************************)
(* at is the await that the main flow has reached, "saving" the await of   *)
(* the checkpoint of the generation ID before the headers, a part or the   *)
(* end of the answer; dropped that the caller has cancelled the stream;    *)
(* outcome what finish was first called with; sent what the caller was     *)
(* given, a part being the headers of a stream and perhaps some of its     *)
(* body.  receipt is "lost" when the outcome could not be stored: the row *)
(* stays registered, and the forwarding is over.                           *)
(***************************************************************************)
State == {"completed", "failed", "cancelled", "timeout"}
ASSUME NoneAssumption == None \notin State
Receipt == State \cup {"absent", "registered", "lost"}
Saving == [head |-> "saving head", part |-> "saving part", whole |-> "saving whole"]
Job == [at : {"none", "fetch", "saving head", "saving part", "saving whole", "pull", "read", "cancelling", "completing",
              "failing", "closed"},
        stream : BOOLEAN, dropped : BOOLEAN,
        generation : {"unknown", "seen", "saved"}, outcome : State \cup {None},
        sent : {"nothing", "part", "whole", "refused", "broken"}]

NoJob == [at |-> "none", stream |-> FALSE, dropped |-> FALSE,
          generation |-> "unknown", outcome |-> None, sent |-> "nothing"]

ForwardInit ==
    /\ job = [q \in Request |-> NoJob]
    /\ receipt = [q \in Request |-> "absent"]

Set(q, new) == job' = [job EXCEPT ![q] = new] /\ UNCHANGED receipt

\* finish: the first call counts.
Finished(j, state) == [j EXCEPT !.outcome = IF @ = None THEN state ELSE @]

\* The caller may have left before the forwarding begins.
Started(stream) ==
    LET j == [NoJob EXCEPT !.at = "fetch", !.stream = stream]
    IN  {j, [Finished(j, "cancelled") EXCEPT !.at = "failing"]}

\* The abort signal of the request to the provider.
Aborted(j) == j.outcome \in {"timeout", "cancelled"} \/ j.dropped

\* The catch before there is a body; timer and signal have recorded their own
\* outcome before the main flow can see that it was aborted.
Refused(j) == [Finished(j, "failed") EXCEPT !.at = "failing"]

\* The catch while the body is read: the reader is cancelled first.
Failed(j) == [j EXCEPT !.at = "cancelling"]

\* What follows a checkpoint, or is done at once when there is nothing to save.
Continued(j, next) ==
    CASE next = "head"  -> [j EXCEPT !.at = IF j.stream THEN "pull" ELSE "read",
                                     !.sent = IF j.stream THEN "part" ELSE "nothing"]
      [] next = "part"  -> [j EXCEPT !.at = "pull"]
      [] next = "whole" -> [Finished(j, "completed") EXCEPT !.at = "completing"]

\* Fault: an ID that arrives with the body is not worth a checkpoint.
HeaderOnly(j, next) ==
    IF j.generation = "seen" /\ next = "head" THEN [j EXCEPT !.at = Saving[next]]
    ELSE Continued(j, next)

\* checkpoint
Checkpoint(j, next) ==
    IF j.generation = "seen" THEN [j EXCEPT !.at = Saving[next]] ELSE Continued(j, next)

Identified(j) == {j.generation} \cup (IF j.generation = "unknown" THEN {"seen"} ELSE {})

-----------------------------------------------------------------------------

\* The provider answers, with a generation ID in a header or without; or not.
Fetched(q) ==
    /\ job[q].at = "fetch"
    /\ \/ /\ ~Aborted(job[q])
          /\ \E g \in Identified(job[q]) : Set(q, Checkpoint([job[q] EXCEPT !.generation = g], "head"))
       \/ Set(q, Refused(job[q]))

\* Fault: the abort signal is not looked at after the checkpoint.
AbortMissed(j) == FALSE

AbortSeen(j) == Aborted(j)

\* The ledger has stored the generation ID, or failed to.
Checkpointed(q) == \E next \in DOMAIN Saving :
    /\ job[q].at = Saving[next]
    /\ \/ /\ ~AbortSeen(job[q])
          /\ Set(q, Continued([job[q] EXCEPT !.generation = "saved"], next))
       \/ Set(q, IF next = "head" THEN Refused(job[q]) ELSE Failed(job[q]))

\* The caller takes the next part of a stream.
Pull(q) ==
    /\ job[q].at = "pull"
    /\ ~job[q].dropped
    /\ Set(q, IF Aborted(job[q]) THEN Failed(job[q]) ELSE [job[q] EXCEPT !.at = "read"])

\* A chunk of valid frames, the rest of the answer, or anything else.
Read(q) ==
    /\ job[q].at = "read"
    /\ \/ \E g \in Identified(job[q]), next \in {"whole"} \cup (IF job[q].stream THEN {"part"} ELSE {}) :
            /\ ~Aborted(job[q])
            /\ Set(q, Checkpoint([job[q] EXCEPT !.generation = g], next))
       \/ Set(q, Failed(job[q]))

\* The reader is cancelled; that may take forever.
ReaderCancelled(q) ==
    /\ job[q].at = "cancelling"
    /\ Set(q, [Finished(job[q], "failed") EXCEPT !.at = "failing"])

Over(q) == receipt[q] \notin {"absent", "registered"}

\* The main flow waits for the record it makes, not for another's.
Close(q) ==
    /\ job[q].outcome \in {"completed", "failed"} => Over(q)
    /\ \/ /\ job[q].at = "completing"
          /\ Set(q, [job[q] EXCEPT !.at = "closed", !.sent = "whole"])
       \/ /\ job[q].at = "failing"
          /\ Set(q, [job[q] EXCEPT !.at = "closed",
                                   !.sent = IF @ = "nothing" THEN "refused" ELSE "broken"])

-----------------------------------------------------------------------------
(* The others *)

\* Fault: the timer is cleared when the provider has answered.
TimerOfFetch(j) == j.at = "fetch"

TimerRuns(j) == j.at # "none"

Timer(q) ==
    /\ TimerRuns(job[q]) /\ job[q].outcome = None
    /\ Set(q, Finished(job[q], "timeout"))

\* clientAbort; the listener is removed when an outcome is there.
ClientAbort(q) ==
    /\ job[q].at # "none" /\ job[q].outcome = None
    /\ Set(q, Finished(job[q], "cancelled"))

\* cancel of the stream that was returned: no more pulls come, and the reader is
\* cancelled before the outcome is recorded.
StreamCancel(q) ==
    /\ job[q].at # "closed" /\ job[q].sent = "part"
    /\ ~job[q].dropped
    /\ Set(q, [job[q] EXCEPT !.dropped = TRUE])

StreamCancelled(q) ==
    /\ job[q].dropped /\ job[q].outcome = None
    /\ Set(q, Finished(job[q], "cancelled"))

\* Fault: an outcome that could not be stored is stored later.
RecordedAgain(q) ==
    /\ job[q].outcome # None
    /\ \E r \in {job[q].outcome, "lost"} : receipt' = [receipt EXCEPT ![q] = r]
    /\ UNCHANGED job

\* The ledger records the outcome, or cannot.
Recorded(q) ==
    /\ job[q].outcome # None /\ ~Over(q)
    /\ \E r \in {job[q].outcome, "lost"} : receipt' = [receipt EXCEPT ![q] = r]
    /\ UNCHANGED job

ForwardStep(q) ==
    \/ Fetched(q) \/ Checkpointed(q) \/ Pull(q) \/ Read(q) \/ ReaderCancelled(q) \/ Close(q)
    \/ StreamCancelled(q)

-----------------------------------------------------------------------------
(* Properties *)

ForwardTypeOK ==
    /\ job \in [Request -> Job]
    /\ receipt \in [Request -> Receipt]

\* Whoever finishes first, the outcome on record says what the caller was given:
\* a whole answer is a completed request, an error is not.
AnswerRecorded == \A q \in Request :
    /\ job[q].sent = "whole" => receipt[q] \in {"completed", "lost"}
    /\ job[q].sent \in {"refused", "broken"} => receipt[q] # "completed"

\* No output leaves before the generation ID that came with it is stored, as only
\* that ID can tell later what the output cost.
Reconcilable == \A q \in Request :
    job[q].sent = "whole" \/ job[q].at = "pull" => job[q].generation # "seen"
=============================================================================
