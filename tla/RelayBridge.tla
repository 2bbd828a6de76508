------------------------------ MODULE RelayBridge ------------------------------
(***************************************************************************)
(* The bridge between Hermes and the company's relay (relay_bridge.py),    *)
(* composed with the forwarding of the requests (RelayForward).  A call    *)
(* has a handler thread and, while it talks to the company, a thread that  *)
(* watches its client and its deadline; close() stops the bridge from the  *)
(* launcher's thread.  A retried request has the ID of the first attempt.  *)
(***************************************************************************)
EXTENDS RelayForward, FiniteSets

CONSTANTS
    MaxCalls,       \* bound: connections that Hermes opens
    MaxBodies,      \* bound: request bodies, up to their canonical form
    Streaming,      \* the bodies that ask for a stream
    MaxRequests,    \* max_requests: entries of the table of request IDs
    MaxConnections  \* max_connections: handler threads

ASSUME RequestAssumption == Request \subseteq Nat /\ None \notin Nat /\ None \notin {"ok", "failed"}
ASSUME LimitAssumption == {MaxCalls, MaxBodies, MaxRequests, MaxConnections} \subseteq Nat

VARIABLES
    bridge,         \* "open" until it is closed
    call,           \* call[c]
    ids,            \* _ids: the body of a request ID
    digests,        \* _digests: the request ID of a body
    calls,          \* _calls: the calls that close() will cancel
    origin          \* origin[q]: the call that the relay executes q for

bridgeVars == <<bridge, ids, digests, calls>>
vars == <<forwardVars, bridgeVars, call, origin>>

\* Calls, bodies and IDs are numbered in the order of their first use.
Call == 1..MaxCalls
Body == 1..MaxBodies

\* at is where the handler thread is; reason and outcome are the code's, which
\* treats a client that left and a bridge that was closed alike.
CallState ==
    [at : {"free", "enter", "auth", "connect", "response", "stream", "done"},
     body : Body \cup {None}, id : Request \cup {None},
     reason : {None, "relay_timeout", "cancelled"},
     outcome : {None, "ok", "failed", "unknown", "cancelled"}]

NoCall == [at |-> "free", body |-> None, id |-> None, reason |-> None, outcome |-> None]

Init ==
    /\ ForwardInit
    /\ bridge = "open"
    /\ call = [c \in Call |-> NoCall]
    /\ ids = [q \in Request |-> None]
    /\ digests = [b \in Body |-> None]
    /\ calls = {}
    /\ origin = [q \in Request |-> None]

-----------------------------------------------------------------------------
(* Handler threads *)

At(c, place) == call[c].at = place
Talking(c) == call[c].at \in {"auth", "connect", "response", "stream"}
Threads == {c \in Call : call[c].at \notin {"free", "done"}}

Move(c, place) == call' = [call EXCEPT ![c].at = place]

\* The handler leaves the with block, records its outcome and frees its slot.
End(c, outcome) ==
    /\ call' = [call EXCEPT ![c].at = "done", ![c].outcome = outcome, ![c].reason = None]
    /\ calls' = calls \ {c}

\* process_request: a connection over the limit is shut.
Accepts(c) ==
    /\ bridge = "open"
    /\ At(c, "free") /\ \A d \in 1..(c - 1) : ~At(d, "free")
    /\ Cardinality(Threads) < MaxConnections

-----------------------------------------------------------------------------
(* request_id, under its lock *)

Registered == {q \in Request : ids[q] # None}

Reused(b, supplied) == supplied \in Registered /\ ids[supplied] # b

\* Fault: an ID that Hermes names is taken as it is.
Explicit(b, supplied) ==
    IF supplied # None THEN {supplied}
    ELSE IF digests[b] # None THEN {digests[b]}
    ELSE {q \in Request : q = Cardinality(Registered) + 1 /\ q <= MaxRequests}

\* The ID that a body has, or gets while there is room: the one that Hermes
\* names, or a new one.
Entry(b, supplied) ==
    {q \in Request : /\ supplied \in {None, q}
                     /\ \/ digests[b] = q
                        \/ /\ digests[b] = None /\ Cardinality(Registered) < MaxRequests
                           /\ q = Cardinality(Registered) + 1}

\* An ID with another body, a body with another ID, or a full table; nothing is
\* reported of a call that has no ID.
Refuse(c, b, supplied) ==
    /\ Accepts(c)
    /\ Reused(b, supplied) \/ Entry(b, supplied) = {}
    /\ End(c, None)
    /\ UNCHANGED <<forwardVars, bridge, ids, digests, origin>>

Identify(c, b, supplied) ==
    /\ Accepts(c)
    /\ ~Reused(b, supplied)
    /\ \E q \in Entry(b, supplied) :
          /\ ids' = [ids EXCEPT ![q] = b]
          /\ digests' = [digests EXCEPT ![b] = q]
          /\ call' = [call EXCEPT ![c].at = "enter", ![c].body = b, ![c].id = q]
    /\ UNCHANGED <<forwardVars, bridge, calls, origin>>

-----------------------------------------------------------------------------
(* _Call: the conversation with the company *)

Stopped(c) == call[c].reason # None

\* Fault: every answer of the company but a conflict is definite.
OnlyConflictUncertain(status) == IF status = 409 THEN "unknown" ELSE "failed"

ErrorOutcome(status) == IF status = 409 \/ status >= 500 THEN "unknown" ELSE "failed"

\* check, for a call that has been cancelled or is past its deadline
Checked(c) == Stopped(c) /\ End(c, ErrorOutcome(502)) /\ UNCHANGED <<bridge, ids, digests>>

Enter(c) ==
    /\ At(c, "enter")
    /\ Move(c, "auth")
    /\ calls' = calls \cup {c}
    /\ UNCHANGED <<forwardVars, bridge, ids, digests, origin>>

\* auth_headers; without a token the company is not asked.
Authenticate(c) ==
    /\ At(c, "auth")
    /\ \/ Checked(c)
       \/ ~Stopped(c) /\ Move(c, "connect") /\ UNCHANGED bridgeVars
       \/ End(c, "failed") /\ UNCHANGED <<bridge, ids, digests>>
    /\ UNCHANGED <<forwardVars, origin>>

\* The relay does not admit: no access or no budget, or no service; or it knows the
\* request, if there is still access.
Refusals(q) == {403, 503} \cup (IF receipt[q] = "absent" THEN {} ELSE {409})

\* Connect, attach and send, unless cancelled meanwhile: attach then shuts the
\* new socket.  The relay admits a request once.
Send(c) ==
    LET q == call[c].id IN
    /\ At(c, "connect")
    /\ \/ Checked(c) /\ UNCHANGED <<forwardVars, origin>>
       \/ /\ ~Stopped(c)
          /\ receipt[q] = "absent"
          /\ \E j \in Started(call[c].body \in Streaming) : job' = [job EXCEPT ![q] = j]
          /\ receipt' = [receipt EXCEPT ![q] = "registered"]
          /\ origin' = [origin EXCEPT ![q] = c]
          /\ Move(c, "response")
          /\ UNCHANGED bridgeVars
       \/ /\ ~Stopped(c)
          /\ \E status \in Refusals(q) : End(c, ErrorOutcome(status))
          /\ UNCHANGED <<forwardVars, origin, bridge, ids, digests>>

\* The status and headers of the answer, or all of it, or an error.
Respond(c) ==
    LET j == job[call[c].id] IN
    /\ At(c, "response")
    /\ j.sent # "nothing"
    /\ \/ Checked(c)
       \/ /\ ~Stopped(c)
          /\ \/ /\ j.stream /\ j.sent # "refused"
                /\ Move(c, "stream")
                /\ UNCHANGED bridgeVars
             \/ /\ ~j.stream \/ j.sent = "refused"
                /\ End(c, IF j.sent = "whole" THEN "ok" ELSE ErrorOutcome(502))
                /\ UNCHANGED <<bridge, ids, digests>>
    /\ UNCHANGED <<forwardVars, origin>>

\* _stream, up to [DONE], or to its end without it
Relay(c) ==
    LET j == job[call[c].id] IN
    /\ At(c, "stream")
    /\ \/ Checked(c)
       \/ /\ ~Stopped(c) /\ j.sent \in {"whole", "broken"}
          /\ End(c, IF j.sent = "whole" THEN "ok" ELSE ErrorOutcome(502))
          /\ UNCHANGED <<bridge, ids, digests>>
    /\ UNCHANGED <<forwardVars, origin>>

\* A read or write fails; the answer may have been lost on the way.
Broken(c, outcome) ==
    /\ End(c, outcome)
    /\ UNCHANGED <<forwardVars, bridge, ids, digests, origin>>

\* cancel has shut the sockets, or the connection fails on its own; past the
\* deadline it is a timeout all the same.
BreakShut(c) ==
    /\ call[c].at \in {"connect", "response", "stream"}
    /\ Stopped(c)
    /\ \/ Broken(c, "unknown")
       \/ call[c].reason # "relay_timeout" /\ Broken(c, "cancelled")

\* The company or the client breaks off, and the handler is the first to notice.
BreakOff(c) ==
    /\ call[c].at \in {"connect", "response", "stream"}
    /\ ~Stopped(c)
    /\ Broken(c, "unknown")

-----------------------------------------------------------------------------
(* The thread of _watch, and close *)

\* cancel, by the first of them
Cancel(S, reason) ==
    call' = [c \in Call |-> IF c \in S /\ ~Stopped(c) THEN [call[c] EXCEPT !.reason = reason] ELSE call[c]]

\* The client left, which need not happen, or the deadline passed.
WatchClient(c) ==
    /\ c \in calls /\ ~Stopped(c)
    /\ Cancel({c}, "cancelled")
    /\ UNCHANGED <<forwardVars, bridgeVars, origin>>

\* check looks at the deadline itself, with the same result.
WatchDeadline(c) ==
    /\ c \in calls /\ ~Stopped(c)
    /\ Cancel({c}, "relay_timeout")
    /\ UNCHANGED <<forwardVars, bridgeVars, origin>>

\* close: no more connections, and the calls that it finds are cancelled.  A
\* handler that has not entered its call yet goes on without being told.
Stop ==
    /\ bridge = "open"
    /\ bridge' = "closed"
    /\ Cancel(calls, "cancelled")
    /\ UNCHANGED <<forwardVars, ids, digests, calls, origin>>

-----------------------------------------------------------------------------

\* The relay can notice that the caller it answers has left.
Left(q) ==
    /\ origin[q] # None
    /\ At(origin[q], "done") \/ call[origin[q]].reason # None

Forward(q) ==
    /\ \/ ForwardStep(q) \/ Timer(q) \/ Recorded(q)
       \/ Left(q) /\ (ClientAbort(q) \/ StreamCancel(q))
    /\ UNCHANGED <<bridgeVars, call, origin>>

CallStep(c) ==
    \/ Enter(c) \/ Authenticate(c) \/ Send(c) \/ Respond(c) \/ Relay(c)
    \/ BreakShut(c) \/ WatchDeadline(c)

Next ==
    \/ \E c \in Call, b \in Body, supplied \in Request \cup {None} :
          /\ {b, supplied} \subseteq {None} \cup 1..(Cardinality(Registered) + 1)
          /\ Refuse(c, b, supplied) \/ Identify(c, b, supplied)
    \/ \E c \in Call : CallStep(c) \/ WatchClient(c) \/ BreakOff(c)
    \/ Stop
    \/ \E q \in Request : Forward(q)

Spec == Init /\ [][Next]_vars

(***************************************************************************)
(* Handler and watching threads run, and timeouts of both sides pass; a    *)
(* provider, a checkpoint or a reader need never answer.                   *)
(***************************************************************************)
Fairness ==
    /\ \A c \in Call : WF_vars(CallStep(c))
    /\ \A q \in Request : WF_vars((Timer(q) \/ Recorded(q)) /\ UNCHANGED <<bridgeVars, call, origin>>)

FairSpec == Spec /\ Fairness

-----------------------------------------------------------------------------
(* Properties *)

\* The tables have their types; an ID and a body name each other, and the active
\* calls are those that close() would cancel.
TypeOK ==
    /\ ForwardTypeOK
    /\ bridge \in {"open", "closed"}
    /\ call \in [Call -> CallState]
    /\ ids \in [Request -> Body \cup {None}] /\ digests \in [Body -> Request \cup {None}]
    /\ \A q \in Request, b \in Body : ids[q] = b <=> digests[b] = q
    /\ Cardinality(Registered) <= MaxRequests
    /\ calls = {c \in Call : Talking(c)}
    /\ origin \in [Request -> Call \cup {None}]
    /\ Cardinality(Threads) <= MaxConnections

\* What the bridge reports of a call is true of the company's side: an answer
\* that arrived whole is recorded as completed, and a failure that is called
\* definite was never executed.
Reported == \A c \in Call :
    /\ call[c].outcome = "ok" => receipt[call[c].id] \in {"completed", "lost"}
    /\ call[c].outcome = "failed" => origin[call[c].id] # c

\* However often Hermes repeats a body, under the ID of the first attempt, under
\* another or without one, and although there is room for another entry, the
\* provider is asked once.
OneExecution == \A p, q \in Request :
    p # q /\ origin[p] # None /\ origin[q] # None => call[origin[p]].body # call[origin[q]].body

Resting == Threads = {} /\ \A q \in Request : job[q].at # "none" => Over(q)

\* Hermes opens finitely many connections here, so bridge and relay come to rest:
\* every handler ends, also one that close() has missed, and the outcome of every
\* request that was admitted is recorded, or its record refused.
Settled == []<>Resting

-----------------------------------------------------------------------------
(* Bridge and relay as one service *)

Executions ==
    {[body |-> call[origin[q]].body, call |-> origin[q], record |-> receipt[q]] :
        q \in {q \in Request : origin[q] # None}}
Answers == [c \in Call |-> call[c].outcome]

Service == INSTANCE InferenceService
    WITH Calls <- Call, Bodies <- Body, Outcomes <- State, Open <- None,
         executions <- Executions, answer <- Answers

\* Whatever is repeated, times out, breaks off or is closed, bridge and relay are
\* a service that executes a body once and tells no call anything untrue of it.
ImplementsService == Service!Spec
=============================================================================
