---------------------------- MODULE PersonaServer ----------------------------
(***************************************************************************)
(* The company server's persona store, as the companion relies on it: an   *)
(* append-only history of revisions of the allowlisted files, one receipt  *)
(* per update ID, and one record per conflict.  The conflict rule and the  *)
(* merge are the public contract's own code (packages/core/src/index.ts);  *)
(* the handler of POST /v1/sync is a private service, modelled from what   *)
(* sync.py expects of its answers.                                         *)
(***************************************************************************)
EXTENDS Integers, Sequences

CONSTANTS
    FileCount,  \* how many files the allowlist has
    Contents,   \* file contents, the absence of the file among them
    Absent,     \* the content of a file that does not exist
    Unsent      \* marks a path that is not in an update's changes

ASSUME CountAssumption == FileCount \in Nat
ASSUME ContentAssumption == Absent \in Contents /\ Unsent \notin Contents

\* The allowlisted files, numbered in the order of LIMITS.
Paths == 1..FileCount

Files == [Paths -> Contents]
Changes == [Paths -> Contents \cup {Unsent}]
NoChanges == [p \in Paths |-> Unsent]
Sent(changes) == {p \in Paths : changes[p] # Unsent}

FileVersion == [content : Contents, revision : Nat]
Snapshot == [Paths -> FileVersion]
ContentsOf(snapshot) == [p \in Paths |-> snapshot[p].content]

VARIABLES
    head,       \* the current revision
    history,    \* history[r] is the immutable snapshot of revision r
    record      \* record[u] is what the server keeps about update u

serverVars == <<head, history, record>>

(***************************************************************************)
(* answer and revision are the receipt that a retransmission gets back;    *)
(* resolvedBy and resolvedRevision belong to a conflict record, which is   *)
(* unresolved while resolvedRevision is 0.  A decision made in the portal  *)
(* has no row at any device: its resolvedBy is 0.                          *)
(***************************************************************************)
Record == [answer : {"none", "applied", "conflict"}, revision : Nat,
           resolvedBy : Nat, resolvedRevision : Nat]
NoRecord == [answer |-> "none", revision |-> 0, resolvedBy |-> 0, resolvedRevision |-> 0]

ServerInit ==
    /\ head = 0
    /\ history = [r \in {0} |-> [p \in Paths |-> [content |-> Absent, revision |-> 0]]]
    /\ record = <<>>

\* The contents of revision r, as GET /v1/sync/history/r returns them.
Remote(r) == ContentsOf(history[r])

conflictPathsAt(r, base, changes) == {p \in Sent(changes) : history[r][p].revision > base}
conflictPaths(base, changes) == conflictPathsAt(head, base, changes)

applyChanges(changes) ==
    [p \in Paths |-> IF p \in Sent(changes)
                     THEN [content |-> changes[p], revision |-> head + 1]
                     ELSE history[head][p]]

Publish(changes) ==
    /\ head' = head + 1
    /\ history' = [r \in 0..(head + 1) |-> IF r <= head THEN history[r] ELSE applyChanges(changes)]

\* The receipt of an update, and the decision of a conflict, at revision r.
Receipt(kept, answer, r) == [kept EXCEPT !.answer = answer, !.revision = r]
Decision(kept, u, r) == [kept EXCEPT !.resolvedBy = u, !.resolvedRevision = r]

Decided(x) == record[x].resolvedRevision > 0

Accepted(u, resolves) ==
    record' = [x \in DOMAIN record |->
        IF x = u THEN Receipt(record[x], "applied", head + 1)
        ELSE IF x = resolves THEN Decision(record[x], u, head + 1)
        ELSE record[x]]

Retained(u) == record' = [record EXCEPT ![u] = Receipt(@, "conflict", head)]

(***************************************************************************)
(* The owner decides conflict x in the portal: either version of the       *)
(* candidate's paths, or of the conflicting ones only, is committed.       *)
(***************************************************************************)
PortalDecision(x, base, changes, keepCandidate, wholeCandidate) ==
    LET scope == IF wholeCandidate THEN Sent(changes)
                 ELSE conflictPathsAt(record[x].revision, base, changes)
    IN  /\ record[x].answer = "conflict"
        /\ ~Decided(x)
        /\ Publish([p \in Paths |-> IF p \notin scope THEN Unsent
                                    ELSE IF keepCandidate THEN changes[p]
                                    ELSE Remote(head)[p]])
        /\ record' = [record EXCEPT ![x] = Decision(@, 0, head + 1)]
=============================================================================
