--------------------------- MODULE RelayBridgeProofs ---------------------------
(***************************************************************************)
(* Proofs about RelayForward and RelayBridge, for all requests, bodies,    *)
(* calls and limits.  ForwardInv speaks of each forwarding and its         *)
(* receipt, whatever comes first of the answer, the timer and the caller;  *)
(* TableInv and CallInv of the request IDs and of the calls of the bridge. *)
(***************************************************************************)
EXTENDS RelayBridge, FiniteSetTheorems, TLAPS

\* What the progress of a forwarding says of its outcome, of what the caller was
\* given and of the generation ID.
JobInv(j, r) ==
    /\ r \in {"absent", "registered", "lost", j.outcome}
    /\ j.outcome = "completed" <=> j.at = "completing" \/ j.sent = "whole"
    /\ j.outcome = "failed" => j.at \in {"failing", "closed"}
    /\ j.at = "failing" => j.outcome # None
    /\ j.sent = "whole" => j.at = "closed" /\ r \in {"completed", "lost"}
    /\ j.at \in {"pull", "read", "completing"} \/ j.sent = "whole" => j.generation # "seen"
    /\ j.sent \in {"refused", "broken"} => j.at = "closed"

\* Every forwarding is of its type and agrees with its receipt.
ForwardInv ==
    /\ ForwardTypeOK
    /\ \A q \in Request : JobInv(job[q], receipt[q])

-----------------------------------------------------------------------------
(* The forwarding of a request *)

\* The first outcome of a forwarding is a type-correct one.
LEMMA FinishedType ==
    ASSUME NEW j \in Job, NEW state \in State
    PROVE  /\ Finished(j, state) \in Job
           /\ Finished(j, state) = [j EXCEPT !.outcome = Finished(j, state).outcome]
           /\ Finished(j, state).outcome = IF j.outcome = None THEN state ELSE j.outcome
BY DEF Finished, Job

\* A step of the main flow of q that leads to a job with a true receipt.
LEMMA SetKeeps ==
    \A q \in Request, new \in Job :
        ForwardInv /\ Set(q, new) /\ JobInv(new, receipt[q]) => ForwardInv'
BY DEF ForwardInv, ForwardTypeOK, Set

\* A job that the timer, the caller or the main flow finishes.
LEMMA FinishedKeeps ==
    ASSUME NEW j \in Job, NEW r \in Receipt, JobInv(j, r), NEW state \in {"timeout", "cancelled"}
    PROVE  Finished(j, state) \in Job /\ JobInv(Finished(j, state), r)
<1>1. CASE j.outcome = None
  <2>1. Finished(j, state) = [j EXCEPT !.outcome = state]
    BY <1>1 DEF Finished, Job
  <2> QED
    BY <1>1, <2>1, NoneAssumption DEF JobInv, Job, State, Receipt
<1>2. CASE j.outcome # None
  <2>1. Finished(j, state) = j
    BY <1>2 DEF Finished, Job
  <2> QED
    BY <2>1
<1> QED
  BY <1>1, <1>2

\* A job that goes to the catch with an outcome.
LEMMA FailingKeeps ==
    ASSUME NEW j \in Job, NEW r \in Receipt, JobInv(j, r), NEW state \in State \ {"completed"},
           j.at \notin {"completing", "closed"}
    PROVE  /\ [Finished(j, state) EXCEPT !.at = "failing"] \in Job
           /\ JobInv([Finished(j, state) EXCEPT !.at = "failing"], r)
<1> DEFINE new == [j EXCEPT !.outcome = IF @ = None THEN state ELSE @, !.at = "failing"]
<1>1. [Finished(j, state) EXCEPT !.at = "failing"] = new
  BY DEF Finished, Job
<1>2. new \in Job /\ JobInv(new, r)
  <2>1. CASE j.outcome = None
    BY <2>1, NoneAssumption DEF JobInv, Job, State, Receipt
  <2>2. CASE j.outcome # None
    BY <2>2 DEF JobInv, Job, State, Receipt
  <2> QED
    BY <2>1, <2>2
<1> QED
  BY <1>1, <1>2

\* What follows a checkpoint.
LEMMA ContinuedKeeps ==
    ASSUME NEW j \in Job, NEW r \in Receipt, JobInv(j, r), ~Aborted(j), j.generation # "seen",
           j.at \in {"fetch", "read", "saving head", "saving part", "saving whole"},
           NEW next \in DOMAIN Saving
    PROVE  Continued(j, next) \in Job /\ JobInv(Continued(j, next), r)
<1>0. j.outcome = None /\ j.sent \notin {"whole", "refused", "broken"}
  BY DEF Aborted, JobInv, Job, State
<1>1. CASE next = "head"
  <2>1. Continued(j, next) = [j EXCEPT !.at = IF j.stream THEN "pull" ELSE "read",
                                       !.sent = IF j.stream THEN "part" ELSE "nothing"]
    BY <1>1 DEF Continued
  <2> QED
    BY <1>0, <2>1, NoneAssumption DEF JobInv, Job, State, Receipt
<1>2. CASE next = "part"
  <2>1. Continued(j, next) = [j EXCEPT !.at = "pull"]
    BY <1>2 DEF Continued
  <2> QED
    BY <1>0, <2>1, NoneAssumption DEF JobInv, Job, State, Receipt
<1>3. CASE next = "whole"
  <2>1. Continued(j, next) = [Finished(j, "completed") EXCEPT !.at = "completing"]
    BY <1>3 DEF Continued
  <2>2. Continued(j, next) = [j EXCEPT !.outcome = "completed", !.at = "completing"]
    BY <1>0, <2>1 DEF Finished, Job
  <2> QED
    BY <1>0, <2>2, NoneAssumption DEF JobInv, Job, State, Receipt
<1> QED
  BY <1>1, <1>2, <1>3 DEF Saving

\* Where a checkpoint is awaited.
LEMMA SavingType ==
    ASSUME NEW next \in DOMAIN Saving
    PROVE  /\ Saving[next] \in {"saving head", "saving part", "saving whole"}
           /\ next # "head" => Saving[next] \in {"saving part", "saving whole"}
<1>1. next \in {"head", "part", "whole"}
  BY DEF Saving
<1>2. CASE next = "head"
  BY <1>2 DEF Saving
<1>3. CASE next = "part"
  BY <1>3 DEF Saving
<1>4. CASE next = "whole"
  BY <1>4 DEF Saving
<1> QED
  BY <1>1, <1>2, <1>3, <1>4

\* Also when there is a generation ID to be stored first.
LEMMA CheckpointKeeps ==
    ASSUME NEW j \in Job, NEW r \in Receipt, JobInv(j, r), ~Aborted(j),
           j.at \in {"fetch", "read"}, NEW next \in DOMAIN Saving, NEW g \in Identified(j)
    PROVE  /\ Checkpoint([j EXCEPT !.generation = g], next) \in Job
           /\ JobInv(Checkpoint([j EXCEPT !.generation = g], next), r)
<1> DEFINE k == [j EXCEPT !.generation = g]
<1>1. /\ k \in Job /\ k.at = j.at /\ k.outcome = j.outcome /\ k.dropped = j.dropped
      /\ k.sent = j.sent /\ k.generation = g
  BY DEF Identified, Job
<1>2. j.sent \notin {"whole", "refused", "broken"} /\ j.outcome = None
  BY DEF JobInv, Aborted, Job, State
<1> SUFFICES Checkpoint(k, next) \in Job /\ JobInv(Checkpoint(k, next), r)
  OBVIOUS
<1> HIDE DEF k
<1>3. CASE g = "seen"
  <2>1. Checkpoint(k, next) = [k EXCEPT !.at = Saving[next]]
    BY <1>1, <1>3 DEF Checkpoint
  <2>2. Saving[next] \in {"saving head", "saving part", "saving whole"}
    BY SavingType
  <2>3. Checkpoint(k, next) \in Job
    BY <1>1, <2>1, <2>2 DEF Job
  <2>4. /\ Checkpoint(k, next).outcome = None /\ Checkpoint(k, next).sent = k.sent
        /\ Checkpoint(k, next).at \in {"saving head", "saving part", "saving whole"}
    BY <1>1, <1>2, <2>1, <2>2 DEF Job
  <2> QED
    BY <1>1, <1>2, <2>3, <2>4, NoneAssumption DEF JobInv, State
<1>4. CASE g # "seen"
  <2>1. JobInv(k, r)
    BY <1>1, <1>2, <1>4 DEF JobInv, Receipt
  <2>2. Checkpoint(k, next) = Continued(k, next)
    BY <1>1, <1>4 DEF Checkpoint
  <2>3. ~Aborted(k)
    BY <1>1 DEF Aborted
  <2> QED
    BY <1>1, <1>4, <2>1, <2>2, <2>3, ContinuedKeeps
<1> QED
  BY <1>3, <1>4

-----------------------------------------------------------------------------
(* The steps of a forwarding *)

\* The caller may have left before the forwarding begins.
LEMMA StartedKeeps ==
    ASSUME NEW stream \in BOOLEAN, NEW j \in Started(stream)
    PROVE  j \in Job /\ JobInv(j, "registered")
<1> DEFINE k == [NoJob EXCEPT !.at = "fetch", !.stream = stream]
<1>1. k \in Job /\ JobInv(k, "registered") /\ k.at = "fetch"
  BY NoneAssumption DEF NoJob, Job, JobInv, State
<1> HIDE DEF k
<1>2. j = k \/ j = [Finished(k, "cancelled") EXCEPT !.at = "failing"]
  BY DEF Started, k
<1> QED
  BY <1>1, <1>2, FailingKeeps DEF Receipt, State

\* The provider answers.
LEMMA FetchedKeeps ==
    ASSUME ForwardInv, NEW q \in Request, Fetched(q)
    PROVE  ForwardInv'
<1>1. job[q] \in Job /\ receipt[q] \in Receipt /\ JobInv(job[q], receipt[q])
  BY DEF ForwardInv, ForwardTypeOK
<1>2. ASSUME ~Aborted(job[q]), NEW g \in Identified(job[q]),
             Set(q, Checkpoint([job[q] EXCEPT !.generation = g], "head"))
      PROVE  ForwardInv'
  <2>1. "head" \in DOMAIN Saving
    BY DEF Saving
  <2> QED
    BY <1>1, <1>2, <2>1, CheckpointKeeps, SetKeeps DEF Fetched
<1>3. CASE Set(q, Refused(job[q]))
  BY <1>1, <1>3, FailingKeeps, SetKeeps DEF Fetched, Refused, State
<1> QED
  BY <1>2, <1>3 DEF Fetched

\* The reader is going to be cancelled.
LEMMA FailedKeeps ==
    ASSUME NEW j \in Job, NEW r \in Receipt, JobInv(j, r),
           j.at \in {"saving part", "saving whole", "pull", "read"}
    PROVE  Failed(j) \in Job /\ JobInv(Failed(j), r)
<1>1. Failed(j) = [j EXCEPT !.at = "cancelling"]
  BY DEF Failed
<1> QED
  BY <1>1 DEF JobInv, Job

\* The generation ID is stored, or not.
LEMMA CheckpointedKeeps ==
    ASSUME ForwardInv, NEW q \in Request, Checkpointed(q)
    PROVE  ForwardInv'
<1>1. job[q] \in Job /\ receipt[q] \in Receipt /\ JobInv(job[q], receipt[q])
  BY DEF ForwardInv, ForwardTypeOK
<1>2. PICK next \in DOMAIN Saving :
         /\ job[q].at = Saving[next]
         /\ \/ /\ ~AbortSeen(job[q])
               /\ Set(q, Continued([job[q] EXCEPT !.generation = "saved"], next))
            \/ Set(q, IF next = "head" THEN Refused(job[q]) ELSE Failed(job[q]))
  BY DEF Checkpointed
<1>3. job[q].at \in {"saving head", "saving part", "saving whole"}
  BY <1>2, SavingType
<1>4. CASE /\ ~AbortSeen(job[q])
           /\ Set(q, Continued([job[q] EXCEPT !.generation = "saved"], next))
  <2> DEFINE k == [job[q] EXCEPT !.generation = "saved"]
  <2>1. k \in Job /\ JobInv(k, receipt[q]) /\ ~Aborted(k) /\ k.generation # "seen" /\ k.at = job[q].at
    BY <1>1, <1>3, <1>4 DEF AbortSeen, Aborted, JobInv, Job
  <2> HIDE DEF k
  <2>2. Continued(k, next) \in Job /\ JobInv(Continued(k, next), receipt[q])
    BY <1>1, <1>3, <2>1, ContinuedKeeps
  <2>3. Set(q, Continued(k, next))
    BY <1>4 DEF k
  <2> QED
    BY <2>2, <2>3, SetKeeps
<1>5. CASE next = "head" /\ Set(q, Refused(job[q]))
  BY <1>1, <1>3, <1>5, FailingKeeps, SetKeeps DEF Refused, State
<1>6. CASE next # "head" /\ Set(q, Failed(job[q]))
  <2>1. job[q].at \in {"saving part", "saving whole"}
    BY <1>2, <1>6, SavingType
  <2> QED
    BY <1>1, <1>6, <2>1, FailedKeeps, SetKeeps
<1> QED
  BY <1>2, <1>4, <1>5, <1>6

\* The caller takes the next part.
LEMMA PullKeeps ==
    ASSUME ForwardInv, NEW q \in Request, Pull(q)
    PROVE  ForwardInv'
<1>1. job[q] \in Job /\ receipt[q] \in Receipt /\ JobInv(job[q], receipt[q])
  BY DEF ForwardInv, ForwardTypeOK
<1>2. CASE Set(q, Failed(job[q]))
  BY <1>1, <1>2, FailedKeeps, SetKeeps DEF Pull
<1>3. CASE Set(q, [job[q] EXCEPT !.at = "read"])
  <2> DEFINE k == [job[q] EXCEPT !.at = "read"]
  <2>1. k \in Job /\ JobInv(k, receipt[q])
    BY <1>1 DEF Pull, JobInv, Job
  <2> HIDE DEF k
  <2>2. Set(q, k)
    BY <1>3 DEF k
  <2> QED
    BY <2>1, <2>2, SetKeeps
<1> QED
  BY <1>2, <1>3 DEF Pull

\* A chunk, the rest of the answer, or an error.
LEMMA ReadKeeps ==
    ASSUME ForwardInv, NEW q \in Request, Read(q)
    PROVE  ForwardInv'
<1>1. job[q] \in Job /\ receipt[q] \in Receipt /\ JobInv(job[q], receipt[q]) /\ job[q].at = "read"
  BY DEF ForwardInv, ForwardTypeOK, Read
<1>2. ASSUME ~Aborted(job[q]), NEW g \in Identified(job[q]), NEW next \in {"whole", "part"},
             Set(q, Checkpoint([job[q] EXCEPT !.generation = g], next))
      PROVE  ForwardInv'
  <2>1. next \in DOMAIN Saving
    BY DEF Saving
  <2> QED
    BY <1>1, <1>2, <2>1, CheckpointKeeps, SetKeeps
<1>3. CASE Set(q, Failed(job[q]))
  BY <1>1, <1>3, FailedKeeps, SetKeeps
<1> QED
  BY <1>2, <1>3 DEF Read

\* The reader is cancelled, and the request has failed unless it was over.
LEMMA ReaderCancelledKeeps ==
    ASSUME ForwardInv, NEW q \in Request, ReaderCancelled(q)
    PROVE  ForwardInv'
<1>1. job[q] \in Job /\ receipt[q] \in Receipt /\ JobInv(job[q], receipt[q])
  BY DEF ForwardInv, ForwardTypeOK
<1> QED
  BY <1>1, FailingKeeps, SetKeeps DEF ReaderCancelled, State

\* The main flow ends when its outcome is on record.
LEMMA CloseKeeps ==
    ASSUME ForwardInv, NEW q \in Request, Close(q)
    PROVE  ForwardInv'
<1>1. job[q] \in Job /\ receipt[q] \in Receipt /\ JobInv(job[q], receipt[q])
  BY DEF ForwardInv, ForwardTypeOK
<1>2. CASE job[q].at = "completing" /\ Set(q, [job[q] EXCEPT !.at = "closed", !.sent = "whole"])
  <2> DEFINE k == [job[q] EXCEPT !.at = "closed", !.sent = "whole"]
  <2>1. receipt[q] \in {"completed", "lost"}
    BY <1>1, <1>2 DEF Close, Over, JobInv
  <2>2. k \in Job /\ JobInv(k, receipt[q])
    BY <1>1, <1>2, <2>1 DEF JobInv, Job
  <2> HIDE DEF k
  <2>3. Set(q, k)
    BY <1>2 DEF k
  <2> QED
    BY <2>2, <2>3, SetKeeps
<1>3. CASE /\ job[q].at = "failing"
           /\ Set(q, [job[q] EXCEPT !.at = "closed",
                                    !.sent = IF @ = "nothing" THEN "refused" ELSE "broken"])
  <2> DEFINE k == [job[q] EXCEPT !.at = "closed",
                                 !.sent = IF @ = "nothing" THEN "refused" ELSE "broken"]
  <2>1. k \in Job /\ JobInv(k, receipt[q])
    BY <1>1, <1>3 DEF JobInv, Job
  <2> HIDE DEF k
  <2>2. Set(q, k)
    BY <1>3 DEF k
  <2> QED
    BY <2>1, <2>2, SetKeeps
<1> QED
  BY <1>2, <1>3 DEF Close

\* The timer and the caller come in between.
LEMMA InterruptionKeeps ==
    ASSUME ForwardInv, NEW q \in Request,
           Timer(q) \/ ClientAbort(q) \/ StreamCancel(q) \/ StreamCancelled(q)
    PROVE  ForwardInv'
<1>1. job[q] \in Job /\ receipt[q] \in Receipt /\ JobInv(job[q], receipt[q])
  BY DEF ForwardInv, ForwardTypeOK
<1>2. CASE Timer(q) \/ ClientAbort(q) \/ StreamCancelled(q)
  BY <1>1, <1>2, FinishedKeeps, SetKeeps DEF Timer, ClientAbort, StreamCancelled
<1>3. CASE StreamCancel(q)
  <2> DEFINE k == [job[q] EXCEPT !.dropped = TRUE]
  <2>1. k \in Job /\ JobInv(k, receipt[q])
    BY <1>1 DEF JobInv, Job
  <2> HIDE DEF k
  <2>2. Set(q, k)
    BY <1>3 DEF k, StreamCancel
  <2> QED
    BY <2>1, <2>2, SetKeeps
<1> QED
  BY <1>2, <1>3

\* The ledger records the first outcome.
LEMMA RecordedKeeps ==
    ASSUME ForwardInv, NEW q \in Request, Recorded(q)
    PROVE  ForwardInv'
<1>1. \A p \in Request : job[p] \in Job /\ receipt[p] \in Receipt /\ JobInv(job[p], receipt[p])
  BY DEF ForwardInv, ForwardTypeOK
<1>2. PICK r \in {job[q].outcome, "lost"} : receipt' = [receipt EXCEPT ![q] = r] /\ job' = job
  BY DEF Recorded
<1>3. r \in Receipt
  BY <1>1, <1>2 DEF Recorded, Job, Receipt
<1>4. JobInv(job[q], r)
  BY <1>1, <1>2 DEF Recorded, JobInv, Over
<1> QED
  BY <1>1, <1>2, <1>3, <1>4 DEF ForwardInv, ForwardTypeOK

\* A forwarding keeps its invariant, whatever the bridge and the caller do.
LEMMA ForwardKeeps ==
    ASSUME ForwardInv, NEW q \in Request, Forward(q)
    PROVE  ForwardInv'
BY FetchedKeeps, CheckpointedKeeps, PullKeeps, ReadKeeps, ReaderCancelledKeeps, CloseKeeps,
   InterruptionKeeps, RecordedKeeps DEF Forward, ForwardStep

-----------------------------------------------------------------------------
(* The table of request IDs and the calls *)

\* The IDs are used in their order.
TableInv == \E n \in Nat : Registered = 1..n

\* A call keeps the ID that its body was given, and the relay executes a request
\* for a call that has been sent.
CallInv ==
    /\ \A c \in Call :
          /\ call[c].at = "free" => call[c] = NoCall
          /\ c \in Threads => call[c].id # None
          /\ call[c].id # None => call[c].body # None /\ ids[call[c].id] = call[c].body
          /\ call[c].outcome # None => call[c].at = "done" /\ call[c].id # None
    /\ \A q \in Request, c \in Call : origin[q] = c =>
          call[c].id = q /\ call[c].at \in {"response", "stream", "done"}

\* The inductive invariant.
Inv == TypeOK /\ ForwardInv /\ TableInv /\ CallInv /\ Reported

\* Calls, bodies and IDs are numbers, None is not.
LEMMA Numbers == None \notin Call /\ None \notin Body /\ None \notin Request
<1>1. Call \subseteq Nat /\ Body \subseteq Nat
  BY LimitAssumption DEF Call, Body
<1> QED
  BY <1>1, RequestAssumption

\* There are finitely many calls.
LEMMA FiniteCalls ==
    ASSUME NEW S \in SUBSET Call
    PROVE  IsFiniteSet(S) /\ Cardinality(S) \in Nat
<1>1. IsFiniteSet(Call)
  BY FS_Interval, LimitAssumption DEF Call
<1> QED
  BY <1>1, FS_Subset, FS_CardinalityType

\* Fewer calls take fewer threads.
LEMMA FewerThreads ==
    ASSUME NEW S \in SUBSET Call, NEW T \in SUBSET S
    PROVE  Cardinality(T) <= Cardinality(S)
BY FiniteCalls, FS_Subset

\* One more takes one more.
LEMMA OneMoreThread ==
    ASSUME NEW S \in SUBSET Call, NEW c \in Call
    PROVE  Cardinality(S \cup {c}) <= Cardinality(S) + 1
BY FiniteCalls, FS_AddElement

\* The call c goes on or ends; its ID stays.
LEMMA CallKeeps ==
    \A c \in Call, new \in CallState :
        /\ Inv
        /\ call' = [call EXCEPT ![c] = new]
        /\ new.id = call[c].id /\ new.body = call[c].body
        /\ new.at \in {"auth", "connect", "response", "stream", "done"}
        /\ new.at # "done" => c \in Threads
        /\ call[c].at \in {"response", "stream", "done"} => new.at \in {"response", "stream", "done"}
        /\ calls' = IF new.at = "done" THEN calls \ {c} ELSE calls \cup {c}
        /\ new.outcome # None => new.at = "done" /\ new.id # None
        /\ new.outcome = "ok" => receipt[new.id] \in {"completed", "lost"}
        /\ new.outcome = "failed" => origin[new.id] # c
        /\ UNCHANGED <<forwardVars, bridge, ids, digests, origin>>
        => Inv'
<1> SUFFICES ASSUME NEW c \in Call, NEW new \in CallState,
                    Inv,
                    call' = [call EXCEPT ![c] = new],
                    new.id = call[c].id, new.body = call[c].body,
                    new.at \in {"auth", "connect", "response", "stream", "done"},
                    new.at # "done" => c \in Threads,
                    call[c].at \in {"response", "stream", "done"}
                        => new.at \in {"response", "stream", "done"},
                    calls' = IF new.at = "done" THEN calls \ {c} ELSE calls \cup {c},
                    new.outcome # None => new.at = "done" /\ new.id # None,
                    new.outcome = "ok" => receipt[new.id] \in {"completed", "lost"},
                    new.outcome = "failed" => origin[new.id] # c,
                    UNCHANGED <<forwardVars, bridge, ids, digests, origin>>
             PROVE  Inv'
  OBVIOUS
<1>0. TypeOK /\ ForwardInv /\ TableInv /\ CallInv /\ Reported
  BY DEF Inv
<1>1. call' \in [Call -> CallState]
  BY <1>0 DEF TypeOK
<1>2. \A d \in Call : d # c => call'[d] = call[d]
  BY <1>0 DEF TypeOK
<1>3. call'[c] = new
  BY <1>0 DEF TypeOK
<1>4. TypeOK'
  <2>1. Threads' \subseteq Threads
    BY <1>2, <1>3 DEF Threads, At
  <2>2. Cardinality(Threads') <= MaxConnections
    <3>1. Cardinality(Threads') <= Cardinality(Threads)
      BY <2>1, FewerThreads DEF Threads
    <3>2. Cardinality(Threads) \in Nat /\ Cardinality(Threads') \in Nat
      BY FiniteCalls DEF Threads
    <3> QED
      BY <1>0, <3>1, <3>2, LimitAssumption DEF TypeOK
  <2>3. calls' = {d \in Call : Talking(d)'}
    BY <1>0, <1>2, <1>3 DEF TypeOK, Talking
  <2>4. Registered' = Registered /\ ForwardTypeOK'
    BY <1>0 DEF Registered, TypeOK, ForwardTypeOK, forwardVars
  <2> QED
    BY <1>0, <1>1, <2>2, <2>3, <2>4 DEF TypeOK
<1>5. ForwardInv' /\ TableInv'
  BY <1>0 DEF ForwardInv, ForwardTypeOK, TableInv, Registered, forwardVars
<1>6. CallInv'
  BY <1>0, <1>2, <1>3 DEF CallInv, Threads
<1>7. Reported'
  BY <1>0, <1>2, <1>3 DEF Reported, forwardVars
<1> QED
  BY <1>4, <1>5, <1>6, <1>7 DEF Inv

\* The call of a thread that has ended with this outcome.
Ended(c, outcome) == [call[c] EXCEPT !.at = "done", !.outcome = outcome, !.reason = None]

\* A call that ends reports what is true of the company's side.
LEMMA EndKeeps ==
    ASSUME Inv, NEW c \in Call,
           \E outcome \in {None, "ok", "failed", "unknown", "cancelled"} :
               /\ End(c, outcome)
               /\ outcome # None => call[c].id # None
               /\ outcome = "ok" => receipt[call[c].id] \in {"completed", "lost"}
               /\ outcome = "failed" => origin[call[c].id] # c,
           UNCHANGED <<forwardVars, bridge, ids, digests, origin>>
    PROVE  Inv'
<1>1. PICK outcome \in {None, "ok", "failed", "unknown", "cancelled"} :
         /\ End(c, outcome)
         /\ outcome # None => call[c].id # None
         /\ outcome = "ok" => receipt[call[c].id] \in {"completed", "lost"}
         /\ outcome = "failed" => origin[call[c].id] # c
  OBVIOUS
<1> DEFINE new == Ended(c, outcome)
<1>2. call[c] \in CallState /\ call \in [Call -> CallState]
  BY DEF Inv, TypeOK
<1>3. /\ new \in CallState /\ new.id = call[c].id /\ new.body = call[c].body
      /\ new.at = "done" /\ new.outcome = outcome
  BY <1>1, <1>2 DEF Ended, CallState
<1>4. call' = [call EXCEPT ![c] = new] /\ calls' = calls \ {c}
  BY <1>1, <1>2 DEF End, Ended
<1> HIDE DEF new
<1> QED
  BY <1>1, <1>3, <1>4, CallKeeps

\* A call goes on to the next step.
LEMMA MoveKeeps ==
    ASSUME Inv, NEW c \in Call, NEW place \in {"auth", "connect", "response", "stream"},
           Move(c, place), c \in Threads,
           call[c].at \in {"response", "stream"} => place \in {"response", "stream"},
           calls' = calls \cup {c},
           UNCHANGED <<forwardVars, bridge, ids, digests, origin>>
    PROVE  Inv'
<1> DEFINE new == [call[c] EXCEPT !.at = place]
<1>1. call[c] \in CallState /\ call \in [Call -> CallState]
  BY DEF Inv, TypeOK
<1>2. /\ new \in CallState /\ new.id = call[c].id /\ new.body = call[c].body
      /\ new.at = place /\ new.outcome = call[c].outcome
  BY <1>1 DEF CallState
<1>3. call[c].outcome = None
  BY DEF Inv, CallInv, Threads
<1>4. call' = [call EXCEPT ![c] = new]
  BY <1>1 DEF Move
<1>5. call[c].at # "done" /\ None \notin {"ok", "failed"}
  BY RequestAssumption DEF Threads
<1> HIDE DEF new
<1> QED
  BY <1>1, <1>2, <1>3, <1>4, <1>5, CallKeeps

\* What a step of a call that talks to the company may rely on.
LEMMA TalkingFacts ==
    ASSUME Inv, NEW c \in Call, Talking(c)
    PROVE  /\ c \in Threads /\ c \in calls
           /\ call[c].id \in Request /\ call[c].id # None
           /\ call[c].at \in {"auth", "connect"} => origin[call[c].id] # c
BY DEF Inv, TypeOK, CallInv, Talking, Threads, CallState

\* A call that was cancelled or has run out of time ends.
LEMMA CheckedKeeps ==
    ASSUME Inv, NEW c \in Call, Talking(c), Checked(c), UNCHANGED <<forwardVars, origin>>
    PROVE  Inv'
<1>1. End(c, "unknown") /\ call[c].id # None
  BY TalkingFacts DEF Checked, ErrorOutcome
<1> QED
  BY <1>1, EndKeeps DEF Checked

\* The call is entered.
LEMMA EnterKeeps == ASSUME Inv, NEW c \in Call, Enter(c) PROVE Inv'
<1>1. c \in Threads
  BY DEF Enter, At, Threads
<1> QED
  BY <1>1, MoveKeeps DEF Enter, At

\* A token is got, or none.
LEMMA AuthenticateKeeps == ASSUME Inv, NEW c \in Call, Authenticate(c) PROVE Inv'
<1>1. Talking(c) /\ At(c, "auth")
  BY DEF Authenticate, At, Talking, Inv, TypeOK
<1>2. CASE Checked(c)
  BY <1>1, <1>2, CheckedKeeps DEF Authenticate
<1>3. CASE Move(c, "connect") /\ UNCHANGED bridgeVars
  BY <1>1, <1>3, TalkingFacts, MoveKeeps DEF Authenticate, At, bridgeVars
<1>4. CASE End(c, "failed") /\ UNCHANGED <<bridge, ids, digests>>
  BY <1>1, <1>4, TalkingFacts, EndKeeps DEF Authenticate, At
<1> QED
  BY <1>2, <1>3, <1>4 DEF Authenticate

\* An answer arrives.
LEMMA RespondKeeps == ASSUME Inv, NEW c \in Call, Respond(c) PROVE Inv'
<1>1. /\ Talking(c) /\ At(c, "response")
      /\ UNCHANGED <<forwardVars, origin>>
  BY DEF Respond, At, Talking, Inv, TypeOK
<1>2. CASE Checked(c)
  BY <1>1, <1>2, CheckedKeeps
<1>3. CASE Move(c, "stream") /\ UNCHANGED bridgeVars
  BY <1>1, <1>3, TalkingFacts, MoveKeeps DEF At, bridgeVars
<1>4. CASE /\ End(c, IF job[call[c].id].sent = "whole" THEN "ok" ELSE ErrorOutcome(502))
           /\ UNCHANGED <<bridge, ids, digests>>
  <2>1. ErrorOutcome(502) = "unknown"
    BY DEF ErrorOutcome
  <2>2. job[call[c].id].sent = "whole" => receipt[call[c].id] \in {"completed", "lost"}
    BY <1>1, TalkingFacts DEF Inv, ForwardInv, JobInv
  <2> QED
    BY <1>1, <1>4, <2>1, <2>2, TalkingFacts, EndKeeps
<1> QED
  BY <1>2, <1>3, <1>4 DEF Respond

\* The stream ends.
LEMMA RelayKeeps == ASSUME Inv, NEW c \in Call, Relay(c) PROVE Inv'
<1>1. /\ Talking(c) /\ At(c, "stream")
      /\ UNCHANGED <<forwardVars, origin>>
  BY DEF Relay, At, Talking, Inv, TypeOK
<1>2. CASE Checked(c)
  BY <1>1, <1>2, CheckedKeeps
<1>3. CASE /\ End(c, IF job[call[c].id].sent = "whole" THEN "ok" ELSE ErrorOutcome(502))
           /\ UNCHANGED <<bridge, ids, digests>>
  <2>1. ErrorOutcome(502) = "unknown"
    BY DEF ErrorOutcome
  <2>2. job[call[c].id].sent = "whole" => receipt[call[c].id] \in {"completed", "lost"}
    BY <1>1, TalkingFacts DEF Inv, ForwardInv, JobInv
  <2> QED
    BY <1>1, <1>3, <2>1, <2>2, TalkingFacts, EndKeeps
<1> QED
  BY <1>2, <1>3 DEF Relay

\* A connection breaks.
LEMMA BreakKeeps == ASSUME Inv, NEW c \in Call, BreakShut(c) \/ BreakOff(c) PROVE Inv'
<1>1. Talking(c)
  BY DEF BreakShut, BreakOff, Talking
<1>2. PICK outcome \in {"unknown", "cancelled"} : Broken(c, outcome)
  BY DEF BreakShut, BreakOff
<1> QED
  BY <1>1, <1>2, TalkingFacts, EndKeeps DEF Broken

-----------------------------------------------------------------------------
(* Connections and the watching threads *)

\* A connection that is refused ends at once.
LEMMA RefuseKeeps ==
    ASSUME Inv, NEW c \in Call, NEW b \in Body, NEW supplied \in Request \cup {None},
           Refuse(c, b, supplied)
    PROVE  Inv'
<1>1. None # "ok" /\ None # "failed"
  BY RequestAssumption
<1> QED
  BY <1>1, EndKeeps DEF Refuse

\* A body gets the ID it had, or the next one.
LEMMA IdentifyKeeps ==
    ASSUME Inv, NEW c \in Call, NEW b \in Body, NEW supplied \in Request \cup {None},
           Identify(c, b, supplied)
    PROVE  Inv'
<1>0. TypeOK /\ ForwardInv /\ TableInv /\ CallInv /\ Reported
  BY DEF Inv
<1>1. PICK q \in Entry(b, supplied) :
         /\ ids' = [ids EXCEPT ![q] = b]
         /\ digests' = [digests EXCEPT ![b] = q]
         /\ call' = [call EXCEPT ![c].at = "enter", ![c].body = b, ![c].id = q]
  BY DEF Identify
<1>2. PICK n \in Nat : Registered = 1..n
  BY <1>0 DEF TableInv
<1>3. Cardinality(Registered) = n
  BY <1>2, FS_Interval
<1>4. q \in Request /\ Registered \subseteq Request
  BY DEF Entry, Registered
\* The entry is the old one of this body, or a new one at the end.
<1>5. \/ digests[b] = q /\ ids[q] = b
      \/ digests[b] = None /\ ids[q] = None /\ q = n + 1 /\ n < MaxRequests
  <2>1. CASE digests[b] = q
    BY <1>0, <1>4, <2>1 DEF TypeOK
  <2>2. CASE digests[b] = None /\ Cardinality(Registered) < MaxRequests /\ q = n + 1
    <3>1. q \notin Registered
      BY <1>2, <2>2
    <3> QED
      BY <1>3, <1>4, <2>2, <3>1 DEF Registered
  <2> QED
    BY <1>1, <1>3, <2>1, <2>2 DEF Entry
<1>6. At(c, "free") /\ Cardinality(Threads) < MaxConnections /\ call[c] = NoCall
  BY <1>0 DEF Identify, Accepts, At, CallInv
<1>7. UNCHANGED <<forwardVars, bridge, calls, origin>>
  BY DEF Identify
<1> DEFINE new == [NoCall EXCEPT !.at = "enter", !.body = b, !.id = q]
<1>8. call' = [call EXCEPT ![c] = new]
  BY <1>0, <1>1, <1>6 DEF TypeOK
<1>9. /\ new \in CallState /\ new.at = "enter" /\ new.body = b /\ new.id = q
      /\ new.outcome = None
  BY <1>4 DEF NoCall, CallState
<1> HIDE DEF new
<1>10. /\ call' \in [Call -> CallState] /\ call'[c] = new
       /\ \A d \in Call : d # c => call'[d] = call[d]
  BY <1>0, <1>8, <1>9 DEF TypeOK
<1>11. /\ ids' \in [Request -> Body \cup {None}] /\ digests' \in [Body -> Request \cup {None}]
       /\ ids'[q] = b /\ \A p \in Request : p # q => ids'[p] = ids[p]
       /\ digests'[b] = q /\ \A a \in Body : a # b => digests'[a] = digests[a]
  BY <1>0, <1>1, <1>4 DEF TypeOK
<1>12. \A p \in Request, a \in Body : ids'[p] = a <=> digests'[a] = p
  BY <1>0, <1>4, <1>5, <1>11, Numbers DEF TypeOK
<1>13. Registered' = IF digests[b] = q THEN Registered ELSE 1..(n + 1)
  <2>1. Registered' = Registered \cup {q}
    BY <1>4, <1>11, Numbers DEF Registered
  <2>2. CASE digests[b] = q
    BY <1>4, <1>5, <2>1, <2>2, Numbers DEF Registered
  <2>3. CASE digests[b] # q
    BY <1>2, <1>5, <2>1, <2>3
  <2> QED
    BY <2>2, <2>3
<1>14. TableInv' /\ Cardinality(Registered)' <= MaxRequests
  <2>1. CASE digests[b] = q
    BY <1>0, <1>13, <2>1 DEF TableInv, TypeOK
  <2>2. CASE digests[b] # q
    <3>1. Registered' = 1..(n + 1) /\ n + 1 \in Nat /\ n < MaxRequests
      BY <1>5, <1>13, <2>2
    <3>2. Cardinality(Registered') = n + 1
      BY <3>1, FS_Interval
    <3> QED
      BY <3>1, <3>2, LimitAssumption DEF TableInv
  <2> QED
    BY <2>1, <2>2
<1>15. Cardinality(Threads)' <= MaxConnections
  <2>1. Threads' = Threads \cup {c}
    BY <1>9, <1>10 DEF Threads
  <2>2. Cardinality(Threads') <= Cardinality(Threads) + 1
    BY <2>1, OneMoreThread DEF Threads
  <2>3. Cardinality(Threads) \in Nat /\ Cardinality(Threads') \in Nat
    BY FiniteCalls DEF Threads
  <2> QED
    BY <1>6, <2>2, <2>3, LimitAssumption
<1>16. calls' = {d \in Call : Talking(d)'}
  BY <1>0, <1>6, <1>7, <1>9, <1>10 DEF TypeOK, Talking, At
<1>17. TypeOK'
  BY <1>0, <1>7, <1>10, <1>11, <1>12, <1>14, <1>15, <1>16 DEF TypeOK, ForwardTypeOK, forwardVars
<1>18. ForwardInv'
  BY <1>0, <1>7 DEF ForwardInv, ForwardTypeOK, forwardVars
<1>19. CallInv'
  <2>1. \A p \in Request : ids[p] # None => ids'[p] = ids[p]
    BY <1>4, <1>5, <1>11
  <2>2. \A d \in Call : call[d].id \in Request \cup {None}
    BY <1>0 DEF TypeOK, CallState
  <2>3. \A p \in Request : origin[p] # c
    BY <1>0, <1>6 DEF CallInv, At
  <2> QED
    BY <1>0, <1>4, <1>7, <1>9, <1>10, <1>11, <2>1, <2>2, <2>3, Numbers DEF CallInv, Threads
<1>20. Reported'
  BY <1>0, <1>7, <1>9, <1>10, RequestAssumption DEF Reported, forwardVars
<1> QED
  BY <1>14, <1>17, <1>18, <1>19, <1>20 DEF Inv

\* Calls that are cancelled differ only in their reason.
LEMMA CancelledKeeps ==
    ASSUME Inv, NEW S \in SUBSET calls,
           NEW reason \in {"relay_timeout", "cancelled"},
           Cancel(S, reason), bridge' \in {"open", "closed"},
           UNCHANGED <<forwardVars, ids, digests, calls, origin>>
    PROVE  Inv'
<1>0. TypeOK /\ ForwardInv /\ TableInv /\ CallInv /\ Reported
  BY DEF Inv
<1>1. call' \in [Call -> CallState]
  BY <1>0 DEF Cancel, TypeOK, CallState
<1>2. \A c \in Call : /\ call'[c].at = call[c].at /\ call'[c].id = call[c].id
                      /\ call'[c].body = call[c].body /\ call'[c].outcome = call[c].outcome
  BY <1>0 DEF Cancel, TypeOK, CallState
<1>3. \A c \in Call : call[c].at = "free" => call'[c] = call[c]
  BY <1>0 DEF Cancel, TypeOK, Talking
<1>4. TypeOK'
  <2>1. Threads' = Threads /\ calls' = {c \in Call : Talking(c)'} /\ Registered' = Registered
    BY <1>0, <1>2 DEF TypeOK, Threads, Talking, Registered
  <2> QED
    BY <1>0, <1>1, <2>1 DEF TypeOK, ForwardTypeOK, forwardVars
<1>5. ForwardInv' /\ TableInv'
  BY <1>0 DEF ForwardInv, ForwardTypeOK, TableInv, Registered, forwardVars
<1>6. CallInv' /\ Reported'
  BY <1>0, <1>2, <1>3 DEF CallInv, Threads, Reported, forwardVars
<1> QED
  BY <1>4, <1>5, <1>6 DEF Inv

\* The client leaves, or the deadline passes.
LEMMA WatchKeeps ==
    ASSUME Inv, NEW c \in Call, WatchClient(c) \/ WatchDeadline(c)
    PROVE  Inv'
BY CancelledKeeps DEF WatchClient, WatchDeadline, bridgeVars, Inv, TypeOK

\* The bridge is closed.
LEMMA StopKeeps == ASSUME Inv, Stop PROVE Inv'
BY CancelledKeeps DEF Stop

-----------------------------------------------------------------------------
(* The company's side *)

\* A forwarding never takes back a receipt.
LEMMA ReceiptStays ==
    ASSUME ForwardInv, NEW q \in Request, Forward(q), NEW p \in Request, Over(p)
    PROVE  receipt'[p] = receipt[p]
BY DEF Forward, ForwardStep, Fetched, Checkpointed, Pull, Read, ReaderCancelled, Close,
       StreamCancelled, Timer, ClientAbort, StreamCancel, Set, Recorded, ForwardInv, ForwardTypeOK

\* A forwarding leaves the bridge alone.
LEMMA ForwardStepKeeps == ASSUME Inv, NEW q \in Request, Forward(q) PROVE Inv'
<1>0. TypeOK /\ ForwardInv /\ TableInv /\ CallInv /\ Reported
  BY DEF Inv
<1>1. ForwardInv'
  BY <1>0, ForwardKeeps
<1>2. UNCHANGED <<bridgeVars, call, origin>>
  BY DEF Forward
<1>3. TypeOK'
  <2>1. Threads' = Threads /\ Registered' = Registered /\ \A c \in Call : Talking(c)' <=> Talking(c)
    BY <1>2 DEF Threads, Registered, Talking, bridgeVars
  <2> QED
    BY <1>0, <1>1, <1>2, <2>1 DEF TypeOK, ForwardInv, bridgeVars
<1>4. TableInv' /\ CallInv'
  BY <1>0, <1>2 DEF TableInv, CallInv, Registered, Threads, bridgeVars
<1>5. Reported'
  <2>1. \A c \in Call : call[c].outcome # None => call[c].id \in Request
    BY <1>0 DEF CallInv, TypeOK, CallState
  <2>2. None # "ok" /\ None # "failed"
    BY RequestAssumption
  <2>3. \A p \in Request : receipt[p] \in {"completed", "lost"} => receipt'[p] = receipt[p]
    BY <1>0, ReceiptStays DEF Over
  <2> QED
    BY <1>0, <1>2, <2>1, <2>2, <2>3 DEF Reported
<1> QED
  BY <1>1, <1>3, <1>4, <1>5 DEF Inv

\* A call is admitted, unless its request is known or refused.
LEMMA SendKeeps == ASSUME Inv, NEW c \in Call, Send(c) PROVE Inv'
<1>0. TypeOK /\ ForwardInv /\ TableInv /\ CallInv /\ Reported
  BY DEF Inv
<1> DEFINE q == call[c].id
<1>1. Talking(c) /\ At(c, "connect")
  BY <1>0 DEF Send, At, Talking, TypeOK
<1>2. c \in Threads /\ c \in calls /\ q \in Request /\ q # None /\ origin[q] # c
  BY <1>1, TalkingFacts DEF At
<1>3. CASE Checked(c) /\ UNCHANGED <<forwardVars, origin>>
  BY <1>1, <1>3, CheckedKeeps
<1>4. CASE /\ \E status \in Refusals(q) : End(c, ErrorOutcome(status))
           /\ UNCHANGED <<forwardVars, origin, bridge, ids, digests>>
  <2>1. \E outcome \in {"failed", "unknown"} : End(c, outcome)
    BY <1>4 DEF ErrorOutcome, Refusals
  <2> QED
    BY <1>1, <1>2, <1>4, <2>1, EndKeeps
<1>5. CASE /\ receipt[q] = "absent"
           /\ \E j \in Started(call[c].body \in Streaming) : job' = [job EXCEPT ![q] = j]
           /\ receipt' = [receipt EXCEPT ![q] = "registered"]
           /\ origin' = [origin EXCEPT ![q] = c]
           /\ Move(c, "response")
           /\ UNCHANGED bridgeVars
  <2>1. PICK j \in Started(call[c].body \in Streaming) : job' = [job EXCEPT ![q] = j]
    BY <1>5
  <2>2. j \in Job /\ JobInv(j, "registered")
    <3> DEFINE streams == call[c].body \in Streaming
    <3>1. streams \in BOOLEAN /\ j \in Started(streams)
      BY <2>1
    <3> HIDE DEF streams
    <3> QED
      BY <3>1, StartedKeeps
  <2>3. ForwardInv'
    BY <1>0, <1>2, <1>5, <2>1, <2>2 DEF ForwardInv, ForwardTypeOK, Receipt
  <2> DEFINE new == [call[c] EXCEPT !.at = "response"]
  <2>4. call' = [call EXCEPT ![c] = new]
    BY <1>0, <1>5 DEF Move, TypeOK
  <2>5. /\ new \in CallState /\ new.at = "response" /\ new.id = q
        /\ new.body = call[c].body /\ new.outcome = call[c].outcome
    <3>1. call[c] \in CallState
      BY <1>0 DEF TypeOK
    <3> QED
      BY <3>1 DEF CallState
  <2> HIDE DEF new
  <2>6. /\ call' \in [Call -> CallState] /\ call'[c] = new
        /\ \A d \in Call : d # c => call'[d] = call[d]
    BY <1>0, <2>4, <2>5 DEF TypeOK
  <2>7. Threads' = Threads /\ Registered' = Registered /\ \A d \in Call : Talking(d)' <=> Talking(d)
    BY <1>1, <1>2, <1>5, <2>5, <2>6 DEF Threads, Registered, Talking, bridgeVars
  <2>8. origin' \in [Request -> Call \cup {None}] /\ origin'[q] = c
        /\ \A p \in Request : p # q => origin'[p] = origin[p]
    BY <1>0, <1>2, <1>5 DEF TypeOK
  <2>9. TypeOK'
    BY <1>0, <1>1, <1>5, <2>3, <2>6, <2>7, <2>8 DEF TypeOK, ForwardInv, bridgeVars
  <2>10. TableInv'
    BY <1>0, <2>7 DEF TableInv
  <2>11. CallInv'
    <3>1. \A d \in Call : call'[d].id = call[d].id /\ call'[d].body = call[d].body
      BY <2>5, <2>6
    <3>2. call[c].outcome = None
      BY <1>0, <1>1 DEF CallInv, At
    <3>3. UNCHANGED ids /\ call'[c].at # "free" /\ c \in Threads
      BY <1>2, <1>5, <2>5, <2>6 DEF bridgeVars
    <3>4. \A p \in Request, d \in Call : origin'[p] = d =>
             call'[d].id = p /\ call'[d].at \in {"response", "stream", "done"}
      BY <1>0, <1>2, <2>5, <2>6, <2>8 DEF CallInv
    <3> QED
      BY <1>0, <1>2, <2>5, <2>6, <2>7, <3>1, <3>2, <3>3, <3>4 DEF CallInv
  <2>12. Reported'
    <3>1. \A d \in Call : call[d].outcome # None => call[d].id \in Request
      BY <1>0 DEF CallInv, TypeOK, CallState
    <3>2. call[c].outcome = None /\ None # "ok" /\ None # "failed"
      BY <1>0, <1>1, RequestAssumption DEF CallInv, At
    <3>3. \A p \in Request : receipt[p] \in {"completed", "lost"} => receipt'[p] = receipt[p]
      BY <1>0, <1>2, <1>5 DEF TypeOK, ForwardTypeOK
    <3> QED
      BY <1>0, <1>2, <2>5, <2>6, <2>8, <3>1, <3>2, <3>3 DEF Reported
  <2> QED
    BY <2>3, <2>9, <2>10, <2>11, <2>12 DEF Inv
<1> QED
  BY <1>1, <1>3, <1>4, <1>5 DEF Send

-----------------------------------------------------------------------------
(* The theorems *)

\* An open bridge without calls satisfies the invariant.
LEMMA InitInv == Init => Inv
<1> SUFFICES ASSUME Init PROVE Inv
  OBVIOUS
<1>1. ForwardInv
  BY NoneAssumption
     DEF Init, ForwardInit, ForwardInv, ForwardTypeOK, JobInv, NoJob, Job, Receipt, State
<1>2. Registered = {} /\ Threads = {} /\ {c \in Call : Talking(c)} = {}
  BY DEF Init, Registered, Threads, Talking, NoCall
<1>3. TypeOK
  <2>1. \A q \in Request, b \in Body : ids[q] = b <=> digests[b] = q
    BY Numbers DEF Init
  <2>2. NoCall \in CallState
    BY DEF NoCall, CallState
  <2> QED
    BY <1>1, <1>2, <2>1, <2>2, FS_EmptySet, LimitAssumption DEF Init, TypeOK, ForwardInv
<1>4. TableInv
  <2>1. Registered = 1..0
    BY <1>2
  <2> QED
    BY <2>1 DEF TableInv
<1>5. CallInv /\ Reported
  BY <1>2, Numbers, RequestAssumption DEF Init, CallInv, Reported, NoCall
<1> QED
  BY <1>1, <1>3, <1>4, <1>5 DEF Inv

\* Every step of the bridge and of the company keeps the invariant.
LEMMA NextKeeps == Inv /\ [Next]_vars => Inv'
<1> SUFFICES ASSUME Inv, [Next]_vars PROVE Inv'
  OBVIOUS
<1>1. ASSUME NEW c \in Call, NEW b \in Body, NEW supplied \in Request \cup {None},
             Refuse(c, b, supplied) \/ Identify(c, b, supplied)
      PROVE  Inv'
  BY <1>1, RefuseKeeps, IdentifyKeeps
<1>2. ASSUME NEW c \in Call, CallStep(c) \/ WatchClient(c) \/ BreakOff(c) PROVE Inv'
  BY <1>2, EnterKeeps, AuthenticateKeeps, SendKeeps, RespondKeeps, RelayKeeps, BreakKeeps,
     WatchKeeps DEF CallStep
<1>3. CASE Stop
  BY <1>3, StopKeeps
<1>4. ASSUME NEW q \in Request, Forward(q) PROVE Inv'
  BY <1>4, ForwardStepKeeps
<1>5. CASE UNCHANGED vars
  BY <1>5 DEF Inv, TypeOK, ForwardTypeOK, ForwardInv, TableInv, CallInv, Reported, Registered,
              Threads, Talking, vars, forwardVars, bridgeVars
<1> QED
  BY <1>1, <1>2, <1>3, <1>4, <1>5 DEF Next

\* The invariant of the bridge and the forwarding holds in every state.
THEOREM Invariant == Spec => []Inv
BY InitInv, NextKeeps, PTL DEF Spec

\* The tables of the bridge have their types and limits, and close() can reach
\* every call that talks to the company (relay_bridge.py).
THEOREM TypeCorrect == Spec => []TypeOK
<1>1. Inv => TypeOK
  BY DEF Inv
<1> QED
  BY <1>1, Invariant, PTL

\* Whoever is first of answer, timer, caller and stream, the outcome on record
\* says what the caller was given (relay-forward.ts, finish).
THEOREM AnswerRecordedCorrect == Spec => []AnswerRecorded
<1>1. Inv => AnswerRecorded
  BY DEF Inv, ForwardInv, JobInv, AnswerRecorded
<1> QED
  BY <1>1, Invariant, PTL

\* No output leaves before the generation ID that came with it is stored
\* (relay-forward.ts, checkpoint).
THEOREM ReconcilableCorrect == Spec => []Reconcilable
<1>1. Inv => Reconcilable
  BY DEF Inv, ForwardInv, JobInv, Reconcilable
<1> QED
  BY <1>1, Invariant, PTL

\* What the bridge reports of a call is true of the company's side
\* (relay_bridge.py, _Call).
THEOREM ReportedCorrect == Spec => []Reported
<1>1. Inv => Reported
  BY DEF Inv
<1> QED
  BY <1>1, Invariant, PTL

\* However often a body is repeated, the company executes it once
\* (relay_bridge.py, request_id).
THEOREM OneExecutionCorrect == Spec => []OneExecution
<1>1. Inv => OneExecution
  <2> SUFFICES ASSUME Inv, NEW p \in Request, NEW q \in Request, p # q,
                      origin[p] # None, origin[q] # None
               PROVE  call[origin[p]].body # call[origin[q]].body
    BY DEF OneExecution
  <2>1. /\ origin[p] \in Call /\ origin[q] \in Call
        /\ call[origin[p]].id = p /\ call[origin[q]].id = q
    BY DEF Inv, TypeOK, CallInv
  <2>2. /\ ids[p] = call[origin[p]].body /\ call[origin[p]].body \in Body
        /\ ids[q] = call[origin[q]].body /\ call[origin[q]].body \in Body
    BY <2>1, Numbers DEF Inv, TypeOK, CallInv, CallState
  <2> QED
    BY <2>2 DEF Inv, TypeOK
<1> QED
  BY <1>1, Invariant, PTL

-----------------------------------------------------------------------------
(* Bridge and relay as one service *)

\* A forwarding has a receipt and a call from its beginning, and the call that
\* waits for an answer is the one that is answered.
Origins ==
    /\ \A q \in Request :
          \/ origin[q] = None /\ job[q] = NoJob /\ receipt[q] = "absent"
          \/ origin[q] # None /\ receipt[q] # "absent"
    /\ \A c \in Call : call[c].at \in {"response", "stream"} => origin[call[c].id] = c

SInv == Inv /\ Origins

Seen == <<Executions, Answers>>

\* The handler of a call moves on.
LEMMA MoveFacts ==
    ASSUME TypeOK, NEW c \in Call, NEW place, Move(c, place), NEW d \in Call
    PROVE  /\ call'[d].body = call[d].body /\ call'[d].id = call[d].id
           /\ call'[d].outcome = call[d].outcome
           /\ call'[d].at = IF d = c THEN place ELSE call[d].at
BY DEF Move, TypeOK, CallState

\* A forwarding that has not begun does nothing.
LEMMA ForwardBegun ==
    ASSUME ForwardInv, NEW q \in Request, Forward(q)
    PROVE  job[q] # NoJob
<1> SUFFICES ASSUME job[q] = NoJob PROVE FALSE
  OBVIOUS
<1>1. /\ job[q].at = "none" /\ job[q].outcome = None /\ ~job[q].dropped
      /\ job[q].sent = "nothing"
  BY DEF NoJob
<1>2. ~Checkpointed(q)
  BY <1>1, SavingType DEF Checkpointed
<1> QED
  BY <1>1, <1>2 DEF Forward, ForwardStep, Fetched, Pull, Read, ReaderCancelled, Close,
     StreamCancelled, Timer, TimerRuns, ClientAbort, StreamCancel, Recorded

\* A forwarding changes itself only, and its receipt once.
LEMMA ForwardFrame ==
    ASSUME ForwardInv, NEW q \in Request, Forward(q)
    PROVE  /\ \A p \in Request \ {q} : job'[p] = job[p] /\ receipt'[p] = receipt[p]
           /\ receipt' = receipt \/ Recorded(q)
BY DEF Forward, ForwardStep, Fetched, Checkpointed, Pull, Read, ReaderCancelled, Close,
   StreamCancelled, Timer, ClientAbort, StreamCancel, Set, Recorded, ForwardInv, ForwardTypeOK

\* The executions are those of the receipts and of the bodies of their calls.
LEMMA SameExecutions ==
    ASSUME UNCHANGED <<origin, receipt>>,
           \A q \in Request : origin[q] # None => call'[origin[q]].body = call[origin[q]].body
    PROVE  Executions' = Executions
BY DEF Executions

\* A call ends, and is told what became of it.
LEMMA EndMaps ==
    ASSUME SInv, Inv', NEW c \in Call,
           NEW outcome \in {None, "ok", "failed", "unknown", "cancelled"},
           End(c, outcome), call[c].outcome = None,
           outcome = "ok" => call[c].at \in {"response", "stream"},
           UNCHANGED <<origin, receipt>>
    PROVE  [Service!Next]_Seen
<1>1. /\ \A d \in Call : call'[d].body = call[d].body /\ call'[d].id = call[d].id
      /\ \A d \in Call : call'[d].outcome = IF d = c THEN outcome ELSE call[d].outcome
  BY DEF End, SInv, Inv, TypeOK, CallState
<1>2. \A q \in Request : origin[q] # None => origin[q] \in Call
  BY DEF SInv, Inv, TypeOK
<1>3. Executions' = Executions
  BY <1>1, <1>2, SameExecutions
<1>4. CASE outcome = None
  <2>1. Answers' = Answers
    BY <1>1, <1>4 DEF Answers
  <2> QED
    BY <1>3, <2>1 DEF Seen
<1>5. CASE outcome # None
  <2>1. outcome \in {"ok", "failed", "unknown", "cancelled"}
    BY <1>5
  <2>2. Answers[c] = None /\ Answers' = [Answers EXCEPT ![c] = outcome]
    BY <1>1 DEF Answers
  <2>3. ASSUME outcome = "ok"
        PROVE  \E e \in Executions : e.call = c /\ e.record \in {"completed", "lost"}
    <3>1. /\ origin[call[c].id] = c /\ call[c].id \in Request
          /\ receipt[call[c].id] \in {"completed", "lost"}
      <4>1. origin[call[c].id] = c
        BY <2>3 DEF SInv, Origins
      <4>2. call'[c].outcome = "ok" /\ call'[c].id = call[c].id
        BY <1>1, <2>3
      <4>3. receipt[call[c].id] \in {"completed", "lost"}
        BY <4>2 DEF Inv, Reported
      <4>4. call[c].id # None
        BY <4>2, <1>5, <2>3 DEF Inv, CallInv
      <4>5. call[c].id \in Request
        BY <4>4 DEF SInv, Inv, TypeOK, CallState
      <4> QED
        BY <4>1, <4>3, <4>5
    <3>2. origin[call[c].id] # None
      BY <3>1, Numbers
    <3> DEFINE e == [body |-> call[origin[call[c].id]].body, call |-> origin[call[c].id],
                     record |-> receipt[call[c].id]]
    <3>3. e \in Executions
      BY <3>1, <3>2 DEF Executions
    <3> QED
      BY <3>1, <3>3
  <2>4. ASSUME outcome = "failed", NEW e \in Executions PROVE e.call # c
    <3>1. PICK q \in Request : origin[q] # None /\ e.call = origin[q]
      BY <2>4 DEF Executions
    <3>2. call'[c].outcome = "failed"
      BY <1>1, <2>4
    <3>3. origin[call[c].id] # c
      BY <1>1, <3>2 DEF Inv, Reported
    <3> QED
      BY <3>1, <3>3 DEF SInv, Inv, CallInv
  <2>5. Service!True(c, outcome)
    BY <2>3, <2>4 DEF Service!True
  <2>6. Service!Tell(c)
    BY <1>3, <2>1, <2>2, <2>5 DEF Service!Tell
  <2> QED
    BY <2>6 DEF Service!Next
<1> QED
  BY <1>4, <1>5

\* A call that is not over has not been told anything.
LEMMA NotTold ==
    ASSUME Inv, NEW c \in Call, call[c].at # "done"
    PROVE  call[c].outcome = None
BY DEF Inv, CallInv

\* The handler moves on, or a call is cancelled: nothing is told or executed.
LEMMA QuietMaps ==
    ASSUME TypeOK, UNCHANGED <<origin, receipt>>,
           \A d \in Call : call'[d].body = call[d].body /\ call'[d].outcome = call[d].outcome
    PROVE  UNCHANGED Seen
<1>1. Executions' = Executions
  BY SameExecutions DEF TypeOK
<1>2. Answers' = Answers
  BY DEF Answers
<1> QED
  BY <1>1, <1>2 DEF Seen

\* A call comes in: it has not been executed.
LEMMA IdentifyMaps ==
    ASSUME SInv, NEW c \in Call, NEW b \in Body, NEW supplied \in Request \cup {None},
           Identify(c, b, supplied)
    PROVE  UNCHANGED Seen
<1>1. UNCHANGED <<origin, receipt>> /\ call[c].at = "free"
  BY DEF Identify, Accepts, At, forwardVars
<1>2. PICK q \in Request :
         call' = [call EXCEPT ![c].at = "enter", ![c].body = b, ![c].id = q]
  BY DEF Identify, Entry
<1>3. \A p \in Request : origin[p] # None => origin[p] # c /\ origin[p] \in Call
  BY <1>1 DEF SInv, Inv, TypeOK, CallInv
<1>4. \A d \in Call : /\ call'[d].outcome = call[d].outcome
                      /\ d # c => call'[d].body = call[d].body
  BY <1>2 DEF SInv, Inv, TypeOK, CallState
<1>5. Executions' = Executions
  BY <1>1, <1>3, <1>4, SameExecutions
<1>6. Answers' = Answers
  BY <1>4 DEF Answers
<1> QED
  BY <1>5, <1>6 DEF Seen

\* The relay admits a request: its body has not been executed, and neither has
\* another for this call.
LEMMA SendMaps ==
    ASSUME SInv, Inv', NEW c \in Call, Send(c)
    PROVE  [Service!Next]_Seen
<1>1. call[c].at = "connect" /\ call[c].outcome = None /\ Talking(c)
  BY NotTold DEF Send, At, Talking, SInv
<1>2. ASSUME NEW outcome \in {"failed", "unknown"}, End(c, outcome),
             UNCHANGED <<origin, receipt>>
      PROVE  [Service!Next]_Seen
  BY <1>1, <1>2, EndMaps
<1>3. CASE Checked(c) /\ UNCHANGED <<forwardVars, origin>>
  BY <1>2, <1>3 DEF Checked, ErrorOutcome, forwardVars
<1>4. CASE /\ \E status \in Refusals(call[c].id) : End(c, ErrorOutcome(status))
           /\ UNCHANGED <<forwardVars, origin>>
  BY <1>2, <1>4 DEF ErrorOutcome, Refusals, forwardVars
<1>5. ASSUME receipt[call[c].id] = "absent",
             receipt' = [receipt EXCEPT ![call[c].id] = "registered"],
             origin' = [origin EXCEPT ![call[c].id] = c],
             Move(c, "response")
      PROVE  Service!Execute(c, call[c].body)
  <2>1. /\ call[c].id \in Request /\ call[c].body \in Body
        /\ ids[call[c].id] = call[c].body /\ origin[call[c].id] = None
    BY <1>1, <1>5, TalkingFacts, Numbers DEF SInv, Origins, Inv, TypeOK, CallInv, CallState
  <2>2. PICK p \in Request : p = call[c].id
    BY <2>1
  <2>3. ASSUME NEW q \in Request, origin[q] # None
        PROVE  q # p /\ origin[q] # c /\ call[origin[q]].body # call[c].body
    <3>1. origin[q] \in Call /\ call[origin[q]].id = q /\ call[origin[q]].body = ids[q]
      BY <2>3, Numbers DEF SInv, Inv, TypeOK, CallInv
    <3>2. origin[q] # c
      BY <1>1, <2>3 DEF SInv, Inv, CallInv
    <3> QED
      BY <2>1, <2>2, <2>3, <3>1, <3>2 DEF SInv, Inv, TypeOK
  <2>4. \A e \in Executions : e.call # c /\ e.body # call[c].body
    BY <2>3 DEF Executions
  <2>5. /\ \A d \in Call : call'[d].body = call[d].body /\ call'[d].outcome = call[d].outcome
        /\ \A q \in Request \ {p} : origin'[q] = origin[q] /\ receipt'[q] = receipt[q]
        /\ origin'[p] = c /\ receipt'[p] = "registered"
        /\ \A q \in Request : origin[q] # None => origin[q] \in Call
    BY <1>5, <2>2, MoveFacts DEF SInv, Inv, TypeOK, ForwardInv, ForwardTypeOK
  <2>6. Executions' = Executions
                          \cup {[body |-> call[c].body, call |-> c, record |-> "registered"]}
    <3> DEFINE E(q) == [body |-> call[origin[q]].body, call |-> origin[q], record |-> receipt[q]]
    <3>1. \A q \in Request \ {p} : origin[q] # None => E(q)' = E(q)
      BY <2>5
    <3>2. E(p)' = [body |-> call[c].body, call |-> c, record |-> "registered"]
      BY <2>5
    <3>3. c # None
      BY Numbers
    <3>4. Executions = {E(q) : q \in {q \in Request : origin[q] # None}}
          /\ Executions' = {E(q)' : q \in {q \in Request : origin'[q] # None}}
      BY DEF Executions
    <3>5. {q \in Request : origin'[q] # None} = {q \in Request : origin[q] # None} \cup {p}
      BY <2>5, <3>3
    <3>6. p \notin {q \in Request : origin[q] # None}
      BY <2>3
    <3> HIDE DEF E
    <3> QED
      BY <3>1, <3>2, <3>4, <3>5, <3>6
  <2>7. Answers' = Answers /\ Answers[c] = None
    BY <1>1, <2>5 DEF Answers
  <2> QED
    BY <2>4, <2>6, <2>7 DEF Service!Execute
<1>6. CASE /\ receipt[call[c].id] = "absent"
           /\ receipt' = [receipt EXCEPT ![call[c].id] = "registered"]
           /\ origin' = [origin EXCEPT ![call[c].id] = c]
           /\ Move(c, "response")
  <2>1. call[c].body \in Body
    BY <1>1, TalkingFacts, Numbers DEF SInv, Inv, TypeOK, CallInv, CallState
  <2> QED
    BY <1>5, <1>6, <2>1 DEF Service!Next
<1> QED
  BY <1>3, <1>4, <1>6 DEF Send

\* A forwarding goes on: it may be recorded, once.
LEMMA ForwardMaps ==
    ASSUME SInv, NEW q \in Request, Forward(q)
    PROVE  [Service!Next]_Seen
<1>1. UNCHANGED <<call, origin>> /\ Answers' = Answers
  BY DEF Forward, Answers
<1>2. CASE receipt' = receipt
  <2>1. Executions' = Executions
    BY <1>1, <1>2, SameExecutions
  <2> QED
    BY <1>1, <2>1 DEF Seen
<1>3. CASE Recorded(q)
  <2>1. origin[q] # None /\ receipt[q] = "registered"
    BY <1>3, ForwardBegun DEF SInv, Origins, Inv, Over, Recorded
  <2>2. PICK r \in {job[q].outcome, "lost"} : receipt' = [receipt EXCEPT ![q] = r]
    BY <1>3 DEF Recorded
  <2>3. r \in State \cup {"lost"}
    BY <1>3, <2>2 DEF Recorded, SInv, Inv, ForwardInv, ForwardTypeOK, Job
  <2>4. /\ receipt'[q] = r
        /\ \A p \in Request \ {q} : receipt'[p] = receipt[p]
    BY <2>2 DEF SInv, Inv, ForwardInv, ForwardTypeOK
  <2> DEFINE E(p) == [body |-> call[origin[p]].body, call |-> origin[p], record |-> receipt[p]]
             J == {p \in Request : origin[p] # None}
  <2>5. q \in J
    BY <2>1
  <2>6. E(q)' = [E(q) EXCEPT !.record = r] /\ E(q).record = "registered"
    BY <1>1, <2>1, <2>4
  <2>7. \A p \in J \ {q} : E(p)' = E(p) /\ E(p) # E(q)
    BY <1>1, <2>1, <2>4, Numbers DEF SInv, Inv, CallInv, TypeOK
  <2>8. Executions = {E(p) : p \in J} /\ Executions' = {E(p)' : p \in J}
    BY <1>1 DEF Executions
  <2> HIDE DEF E, J
  <2>9. E(q) \in Executions /\ Executions' = (Executions \ {E(q)}) \cup {[E(q) EXCEPT !.record = r]}
    BY <2>5, <2>6, <2>7, <2>8
  <2>10. Service!Record(E(q))
    BY <1>1, <2>3, <2>6, <2>9 DEF Service!Record
  <2> QED
    BY <2>9, <2>10 DEF Service!Next
<1> QED
  BY <1>2, <1>3, ForwardFrame DEF SInv, Inv

\* Nothing is sent or answered, and no other call comes to wait for an answer.
LEMMA OriginsStay ==
    ASSUME Inv, Origins, UNCHANGED <<forwardVars, origin>>,
           \A d \in Call : call'[d].at \in {"response", "stream"} =>
               call[d].at \in {"response", "stream"} /\ call'[d].id = call[d].id
    PROVE  Origins'
BY DEF Origins, forwardVars

\* A forwarding goes on for its call.
LEMMA ForwardOrigins ==
    ASSUME Inv, Origins, NEW q \in Request, Forward(q)
    PROVE  Origins'
<1>1. UNCHANGED <<call, origin>>
  BY DEF Forward
<1>2. origin[q] # None /\ receipt[q] # "absent"
  BY ForwardBegun DEF Origins, Inv
<1>3. \A p \in Request \ {q} : job'[p] = job[p] /\ receipt'[p] = receipt[p]
  BY ForwardFrame DEF Inv
<1>4. receipt'[q] # "absent"
  <2>1. CASE receipt' = receipt
    BY <1>2, <2>1
  <2>2. CASE Recorded(q)
    BY <2>2 DEF Recorded, Inv, ForwardInv, ForwardTypeOK, Job, State
  <2> QED
    BY <2>1, <2>2, ForwardFrame DEF Inv
<1> QED
  BY <1>1, <1>2, <1>3, <1>4 DEF Origins

\* The relay admits a request for the call that waits for its answer.
LEMMA SendOrigins ==
    ASSUME Inv, Origins, NEW c \in Call, Send(c)
    PROVE  Origins'
<1>1. call[c].at = "connect" /\ Talking(c)
  BY DEF Send, At, Talking
<1>2. ASSUME UNCHANGED <<forwardVars, origin>>, NEW outcome, End(c, outcome) PROVE Origins'
  <2>1. \A d \in Call : /\ call'[d].id = call[d].id
                        /\ call'[d].at = IF d = c THEN "done" ELSE call[d].at
    BY <1>2 DEF End, Inv, TypeOK, CallState
  <2> QED
    BY <1>2, <2>1, OriginsStay
<1>3. ASSUME receipt[call[c].id] = "absent",
             \E j : job' = [job EXCEPT ![call[c].id] = j],
             receipt' = [receipt EXCEPT ![call[c].id] = "registered"],
             origin' = [origin EXCEPT ![call[c].id] = c],
             Move(c, "response")
      PROVE  Origins'
  <2>1. call[c].id \in Request /\ origin[call[c].id] = None
    BY <1>1, <1>3, TalkingFacts DEF Origins
  <2>2. PICK p \in Request : p = call[c].id
    BY <2>1
  <2>3. /\ \A q \in Request \ {p} :
              origin'[q] = origin[q] /\ receipt'[q] = receipt[q] /\ job'[q] = job[q]
        /\ origin'[p] = c /\ receipt'[p] = "registered"
        /\ \A d \in Call : /\ call'[d].id = call[d].id
                           /\ call'[d].at = IF d = c THEN "response" ELSE call[d].at
    BY <1>3, <2>2, MoveFacts DEF Inv, TypeOK, ForwardInv, ForwardTypeOK
  <2>4. \A d \in Call \ {c} : call[d].at \in {"response", "stream"} =>
            /\ call[d].id \in Request \ {p} /\ origin[call[d].id] = d
    BY <2>1, <2>2, TalkingFacts, Numbers DEF Origins, Talking
  <2> QED
    BY <2>2, <2>3, <2>4, Numbers DEF Origins
<1> QED
  BY <1>2, <1>3 DEF Send, Checked

\* The calls of the bridge keep the invariant.
LEMMA CallOrigins ==
    ASSUME Inv, Origins, NEW c \in Call,
           \/ Enter(c) \/ Authenticate(c) \/ Respond(c) \/ Relay(c) \/ BreakShut(c) \/ BreakOff(c)
    PROVE  Origins'
<1>1. UNCHANGED <<forwardVars, origin>>
  BY DEF Enter, Authenticate, Respond, Relay, BreakShut, BreakOff, Broken
<1>2. ASSUME NEW outcome, End(c, outcome) PROVE Origins'
  <2>1. \A d \in Call : /\ call'[d].id = call[d].id
                        /\ call'[d].at = IF d = c THEN "done" ELSE call[d].at
    BY <1>2 DEF End, Inv, TypeOK, CallState
  <2> QED
    BY <1>1, <2>1, OriginsStay
<1>3. ASSUME NEW place, Move(c, place),
             place \in {"auth", "connect"} \/ call[c].at = "response"
      PROVE  Origins'
  <2>1. \A d \in Call : /\ call'[d].id = call[d].id
                        /\ call'[d].at = IF d = c THEN place ELSE call[d].at
    BY <1>3, MoveFacts DEF Inv
  <2> QED
    BY <1>1, <1>3, <2>1, OriginsStay
<1>4. CASE Enter(c)
  BY <1>3, <1>4 DEF Enter
<1>5. CASE Authenticate(c)
  BY <1>2, <1>3, <1>5 DEF Authenticate, Checked
<1>6. CASE Respond(c)
  BY <1>2, <1>3, <1>6 DEF Respond, Checked, At
<1>7. CASE Relay(c)
  BY <1>2, <1>7 DEF Relay, Checked
<1>8. CASE BreakShut(c) \/ BreakOff(c)
  BY <1>2, <1>8 DEF BreakShut, BreakOff, Broken
<1> QED
  BY <1>4, <1>5, <1>6, <1>7, <1>8

\* What the calls of the bridge tell.
LEMMA CallMaps ==
    ASSUME SInv, Inv', NEW c \in Call,
           \/ Enter(c) \/ Authenticate(c) \/ Respond(c) \/ Relay(c) \/ BreakShut(c) \/ BreakOff(c)
    PROVE  [Service!Next]_Seen
<1>1. UNCHANGED <<receipt, origin>>
  BY DEF Enter, Authenticate, Respond, Relay, BreakShut, BreakOff, Broken, forwardVars
<1>2. call[c].at # "done" /\ call[c].outcome = None
  BY NotTold DEF Enter, Authenticate, Respond, Relay, BreakShut, BreakOff, At, SInv
<1>3. ASSUME NEW place, Move(c, place) PROVE [Service!Next]_Seen
  BY <1>1, <1>3, MoveFacts, QuietMaps DEF SInv, Inv
<1>4. ASSUME NEW outcome \in {"ok", "failed", "unknown", "cancelled"}, End(c, outcome),
             outcome = "ok" => call[c].at \in {"response", "stream"}
      PROVE  [Service!Next]_Seen
  BY <1>1, <1>2, <1>4, EndMaps
<1>5. \A status \in Nat : ErrorOutcome(status) \in {"failed", "unknown"}
  BY DEF ErrorOutcome
<1>6. CASE Enter(c)
  BY <1>3, <1>6 DEF Enter
<1>7. CASE Authenticate(c)
  BY <1>3, <1>4, <1>5, <1>7 DEF Authenticate, Checked
<1>8. CASE Respond(c)
  BY <1>3, <1>4, <1>5, <1>8 DEF Respond, Checked, At
<1>9. CASE Relay(c)
  BY <1>4, <1>5, <1>9 DEF Relay, Checked, At
<1>10. CASE BreakShut(c) \/ BreakOff(c)
  BY <1>4, <1>10 DEF BreakShut, BreakOff, Broken
<1> QED
  BY <1>6, <1>7, <1>8, <1>9, <1>10

\* Watching threads and the closing of the bridge tell nothing.
LEMMA CancelMaps ==
    ASSUME SInv, \/ \E c \in Call : WatchClient(c) \/ WatchDeadline(c)
                 \/ Stop
    PROVE  Origins' /\ UNCHANGED Seen
<1>1. UNCHANGED <<forwardVars, origin>>
  BY DEF WatchClient, WatchDeadline, Stop
<1>2. PICK S, reason : Cancel(S, reason)
  BY DEF WatchClient, WatchDeadline, Stop
<1>3. \A d \in Call : /\ call'[d].at = call[d].at /\ call'[d].id = call[d].id
                      /\ call'[d].body = call[d].body /\ call'[d].outcome = call[d].outcome
  BY <1>2 DEF Cancel, SInv, Inv, TypeOK, CallState
<1>4. Origins'
  BY <1>1, <1>3, OriginsStay DEF SInv
<1>5. UNCHANGED Seen
  BY <1>1, <1>3, QuietMaps DEF SInv, Inv, forwardVars
<1> QED
  BY <1>4, <1>5

\* A connection is refused, or identified.
LEMMA AcceptMaps ==
    ASSUME SInv, Inv', NEW c \in Call, NEW b \in Body, NEW supplied \in Request \cup {None},
           Refuse(c, b, supplied) \/ Identify(c, b, supplied)
    PROVE  Origins' /\ [Service!Next]_Seen
<1>1. UNCHANGED <<forwardVars, origin>> /\ call[c].at = "free"
  BY DEF Refuse, Identify, Accepts, At
<1>2. CASE Refuse(c, b, supplied)
  <2>1. End(c, None) /\ call[c].outcome = None
    BY <1>1, <1>2, NotTold DEF Refuse, SInv
  <2>2. \A d \in Call : /\ call'[d].id = call[d].id
                        /\ call'[d].at = IF d = c THEN "done" ELSE call[d].at
    BY <2>1 DEF End, SInv, Inv, TypeOK, CallState
  <2>3. Origins'
    BY <1>1, <2>2, OriginsStay DEF SInv
  <2>4. None \in {None, "ok", "failed", "unknown", "cancelled"} /\ None # "ok"
    BY RequestAssumption
  <2> QED
    BY <1>1, <2>1, <2>3, <2>4, EndMaps DEF forwardVars
<1>3. CASE Identify(c, b, supplied)
  <2>1. PICK q \in Request :
           call' = [call EXCEPT ![c].at = "enter", ![c].body = b, ![c].id = q]
    BY <1>3 DEF Identify, Entry
  <2>2. \A d \in Call : /\ d # c => call'[d] = call[d]
                        /\ call'[c].at = "enter"
    BY <2>1 DEF SInv, Inv, TypeOK, CallState
  <2>3. Origins'
    BY <1>1, <2>2, OriginsStay DEF SInv
  <2> QED
    BY <1>3, <2>3, IdentifyMaps
<1> QED
  BY <1>2, <1>3

\* Every step is a step of the service, or none.
LEMMA NextMaps == SInv /\ [Next]_vars => SInv' /\ [Service!Next]_Seen
<1> SUFFICES ASSUME SInv, [Next]_vars PROVE Origins' /\ [Service!Next]_Seen
  BY NextKeeps DEF SInv
<1>0. Inv /\ Origins /\ Inv'
  BY NextKeeps DEF SInv
<1>1. ASSUME NEW c \in Call, NEW b \in Body, NEW supplied \in Request \cup {None},
             Refuse(c, b, supplied) \/ Identify(c, b, supplied)
      PROVE  Origins' /\ [Service!Next]_Seen
  BY <1>0, <1>1, AcceptMaps
<1>2. ASSUME NEW c \in Call, CallStep(c) \/ WatchClient(c) \/ BreakOff(c)
      PROVE  Origins' /\ [Service!Next]_Seen
  BY <1>0, <1>2, CallOrigins, CallMaps, SendOrigins, SendMaps, CancelMaps DEF CallStep
<1>3. CASE Stop
  BY <1>3, CancelMaps
<1>4. ASSUME NEW q \in Request, Forward(q) PROVE Origins' /\ [Service!Next]_Seen
  BY <1>0, <1>4, ForwardOrigins, ForwardMaps
<1>5. CASE UNCHANGED vars
  <2>1. UNCHANGED <<forwardVars, origin, call>>
    BY <1>5 DEF vars
  <2>2. Origins'
    BY <2>1 DEF SInv, Origins, forwardVars
  <2> QED
    BY <2>1, <2>2, QuietMaps DEF SInv, Inv, forwardVars
<1> QED
  BY <1>1, <1>2, <1>3, <1>4, <1>5 DEF Next

\* Bridge and relay are a service that executes a body at most once and tells no
\* call anything untrue of it (relay_bridge.py, _Call and request_id;
\* relay-forward.ts, finish).
THEOREM ServiceImplemented == Spec => ImplementsService
<1>1. Init => SInv /\ Service!Init
  <2> SUFFICES ASSUME Init PROVE Origins /\ Service!Init
    BY InitInv DEF SInv
  <2>1. Origins
    BY DEF Init, ForwardInit, NoCall, Origins
  <2>2. Executions = {} /\ Answers = [c \in Call |-> None]
    BY DEF Init, NoCall, Executions, Answers
  <2> QED
    BY <2>1, <2>2 DEF Service!Init
<1>2. SInv /\ [Next]_vars => SInv' /\ [Service!Next]_<<Executions, Answers>>
  BY NextMaps DEF Seen
<1> QED
  BY <1>1, <1>2, PTL DEF Spec, ImplementsService, Service!Spec
=============================================================================
