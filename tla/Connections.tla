----------------------------- MODULE Connections -----------------------------
(***************************************************************************)
(* Onboarding of GitHub connections (connections.py) over a journal and a  *)
(* table of bindings in SQLite (connection_store.py), a native credential  *)
(* store, and the company's connection directory.  Commands that change    *)
(* something hold connections.lock, so one runs at a time; it may die      *)
(* between any two transactions, calls and credential operations, while    *)
(* administrators change grants and disable connections.  The directory's  *)
(* API is a private service, modelled from what the companion expects.     *)
(***************************************************************************)
EXTENDS Integers, Sequences

CONSTANTS
    Connection,     \* connections that may come to exist in the directory
    None,           \* no connection, no binding, no credential
    MaxRequests,    \* bound: local requests
    MaxGrants,      \* bound: revisions of a connection's grant
    MaxFaults       \* bound: commands that die or fail

ASSUME ConnectionAssumption == None \notin Connection /\ None \notin Nat
ASSUME BoundAssumption == MaxRequests \in Nat /\ MaxGrants \in Nat \ {0} /\ MaxFaults \in Nat

VARIABLES
    pending,        \* connector_pending: the requests, in their order
    binding,        \* connector_bindings
    native,         \* credentials in the native store
    grant,          \* the directory: revision of the grant, 0 while there is no connection
    disabled,       \* the directory: connections disabled, or bindings revoked
    created,        \* the directory: the connection that each create request made
    accepted,       \* the directory: binding mutations it has answered
    remote,         \* the directory: the reported binding of this installation
    command,        \* the command that holds the lock
    tested,         \* history: credential, connection, revision of the tests that succeeded
    faults          \* how much of the bound is used

local == <<pending, binding, native>>
service == <<grant, disabled, created, accepted, remote>>
vars == <<local, service, command, tested, faults>>

Requests == 1..MaxRequests
Kind == {"create", "authorize", "test", "cancel", "forget"}
Phase == {"credential_pending", "authorized", "registered", "binding_pending", "cleanup_pending",
          "cancelling", "local_forgotten", "complete", "cancelled"}
\* A request makes at most one credential, which has its number.  payload is the
\* grant revision of its binding payload, 0 when there is none.
Pending == [kind : Kind, phase : Phase, connection : Connection \cup {None},
            credential : Requests \cup {None}, payload : Nat, cleanup_ids : SUBSET Requests]
Binding == [credential : Requests, grant_revision : Nat]
ASSUME BindingAssumption == None \notin Binding
Step == {"idle", "save", "saved", "token", "post", "register", "authorized", "test", "put",
         "confirm", "finish", "delete", "notify", "withdraw"}

Init ==
    /\ pending = <<>>
    /\ binding = [c \in Connection |-> None]
    /\ native = {}
    /\ grant = [c \in Connection |-> 0]
    /\ disabled = {}
    /\ created = [r \in Requests |-> None]
    /\ accepted = {}
    /\ remote = [c \in Connection |-> [status |-> "none", revision |-> 0]]
    /\ command = [at |-> "idle", request |-> 0]
    /\ tested = {}
    /\ faults = 0

-----------------------------------------------------------------------------

At(step) == command.at = step
Go(step) == command' = [command EXCEPT !.at = step]
End == command' = [at |-> "idle", request |-> 0]
Current == pending[command.request]
Update(row) == pending' = [pending EXCEPT ![command.request] = row]

Open(r) == pending[r].phase \notin {"complete", "cancelled"}
OpenFor(c) == {r \in 1..Len(pending) : Open(r) /\ pending[r].connection = c}
Credential(c) == IF binding[c] = None THEN None ELSE binding[c].credential

\* create_pending
Create(row, step) ==
    /\ At("idle")
    /\ Len(pending) < MaxRequests
    /\ pending' = Append(pending, row)
    /\ command' = [at |-> step, request |-> Len(pending) + 1]
    /\ UNCHANGED <<binding, native, service, tested, faults>>

Request(kind, phase, c, credential) ==
    [kind |-> kind, phase |-> phase, connection |-> c, credential |-> credential,
     payload |-> 0, cleanup_ids |-> {}]

Add == Create(Request("create", "credential_pending", None, Len(pending) + 1), "save")

\* _authorized, without a ready binding; and require_settled
Usable(c) == grant[c] > 0 /\ c \notin disabled
Settled(c) == OpenFor(c) = {}

Authorize(c) ==
    /\ Settled(c)
    /\ Usable(c)
    /\ Create(Request("authorize", "credential_pending", c, Len(pending) + 1), "save")

Test(c) ==
    /\ Settled(c)
    /\ Usable(c)
    /\ binding[c] # None
    /\ Create(Request("test", "authorized", c, Credential(c)), "token")

SaveCredential ==
    /\ At("save")
    /\ native' = native \cup {Current.credential}
    /\ Go("saved")
    /\ UNCHANGED <<pending, binding, service, tested, faults>>

MarkAuthorized ==
    /\ At("saved")
    /\ Update([Current EXCEPT !.phase = "authorized"])
    /\ Go("token")
    /\ UNCHANGED <<binding, native, service, tested, faults>>

-----------------------------------------------------------------------------
(* resume, and the repetition of cancel and forget *)

\* Where a request is taken up; _finish_cancel, _finish_forget and
\* _finish_cleanup all begin with the deletion of credentials.
Resumed(row) ==
    IF row.kind \in {"cancel", "forget"} \/ row.phase = "cleanup_pending" THEN "delete" ELSE "token"

\* Cancelling a request that was cancelled or forgotten before takes it up once more.
Resume(r) ==
    /\ At("idle")
    /\ Open(r) \/ pending[r].kind \in {"cancel", "forget"}
    /\ command' = [at |-> Resumed(pending[r]), request |-> r]
    /\ UNCHANGED <<local, service, tested, faults>>

LoadToken ==
    /\ At("token")
    /\ \/ /\ Current.credential \in native
          /\ Go(IF Current.kind = "create" /\ Current.connection = None THEN "post" ELSE "authorized")
       \/ /\ Current.credential \notin native
          /\ End
    /\ UNCHANGED <<local, service, tested, faults>>

\* The directory makes one connection for one request ID, however often it is sent.
Post ==
    /\ At("post")
    /\ \/ /\ created[command.request] = None
          /\ \E c \in Connection :
               /\ grant[c] = 0
               /\ grant' = [grant EXCEPT ![c] = 1]
               /\ created' = [created EXCEPT ![command.request] = c]
       \/ /\ created[command.request] # None
          /\ UNCHANGED <<grant, created>>
    /\ Go("register")
    /\ UNCHANGED <<local, disabled, accepted, remote, tested, faults>>

Register ==
    /\ At("register")
    /\ Update([Current EXCEPT !.connection = created[command.request], !.phase = "registered"])
    /\ Go("authorized")
    /\ UNCHANGED <<binding, native, service, tested, faults>>

\* An immutable payload survives a lost reply, but not a change of the grant.
PayloadCurrent(row) == row.payload = grant[row.connection]

CheckAuthorized ==
    /\ At("authorized")
    /\ \/ Usable(Current.connection) /\ Go(IF PayloadCurrent(Current) THEN "put" ELSE "test")
       \/ ~Usable(Current.connection) /\ End
    /\ UNCHANGED <<local, service, tested, faults>>

\* GitHub is asked under the grant that was read; the payload is then stored.
TestCapabilities ==
    LET c == Current.connection IN
    /\ At("test")
    /\ tested' = tested \cup {<<Current.credential, c, grant[c]>>}
    /\ Update([Current EXCEPT !.payload = grant[c], !.phase = "binding_pending"])
    /\ Go("put")
    /\ UNCHANGED <<binding, native, service, faults>>

(***************************************************************************)
(* The directory answers a mutation it knows without applying it again,    *)
(* and refuses one that was made for another revision of the grant.        *)
(***************************************************************************)
Mutation == <<command.request, Current.payload>>
Answered == \/ Mutation \in accepted
            \/ Usable(Current.connection) /\ Current.payload = grant[Current.connection]
Report(status) ==
    /\ accepted' = accepted \cup {Mutation}
    /\ remote' = IF Mutation \in accepted THEN remote
                 ELSE [remote EXCEPT ![Current.connection] =
                          [status |-> status, revision |-> Current.payload]]
    /\ UNCHANGED <<grant, disabled, created>>

PutBinding ==
    /\ At("put")
    /\ \/ Answered /\ Report("ready") /\ Go("confirm")
       \/ ~Answered /\ End /\ UNCHANGED service
    /\ UNCHANGED <<local, tested, faults>>

Ready(c) == remote[c] = [status |-> "ready", revision |-> grant[c]]

\* The grant may have changed after the report.
Confirm ==
    LET c == Current.connection IN
    /\ At("confirm")
    /\ \/ Usable(c) /\ Ready(c) /\ Current.payload = grant[c] /\ Go("finish")
       \/ ~(Usable(c) /\ Ready(c) /\ Current.payload = grant[c]) /\ End
    /\ UNCHANGED <<local, service, tested, faults>>

\* Fault: the credential that is replaced is forgotten without being deleted.
NothingReplaced(c, credential) == {}

\* Fault: the absent credential of a first authorization is listed as well.
ReplacedOrAbsent(c, credential) == {Credential(c)} \ {credential}

\* ConnectionStore.finish: what the new binding makes superfluous.
Replaced(c, credential) == {Credential(c)} \ {None, credential}

\* Fault: the revision is the one the directory has by now.
BoundToCurrent(row) == [credential |-> row.credential, grant_revision |-> grant[row.connection]]

Bound(row) == [credential |-> row.credential, grant_revision |-> row.payload]

Finish ==
    LET c == Current.connection IN
    /\ At("finish")
    /\ binding' = [binding EXCEPT ![c] = Bound(Current)]
    /\ Update([Current EXCEPT !.phase = "cleanup_pending",
                              !.cleanup_ids = Replaced(c, Current.credential)])
    /\ Go("delete")
    /\ UNCHANGED <<native, service, tested, faults>>

Delete(k) ==
    /\ At("delete")
    /\ k \in Current.cleanup_ids \cap native
    /\ native' = native \ {k}
    /\ UNCHANGED <<pending, binding, service, command, tested, faults>>

Deleted ==
    /\ At("delete")
    /\ Current.cleanup_ids \cap native = {}
    /\ \/ /\ Current.kind = "forget"
          /\ Update([Current EXCEPT !.phase = "local_forgotten"])
          /\ Go("notify")
       \/ /\ Current.kind = "cancel"
          /\ Update([Current EXCEPT !.phase = "cancelled"])
          /\ End
       \/ /\ Current.kind \notin {"cancel", "forget"}
          /\ Update([Current EXCEPT !.phase = "complete"])
          /\ End
    /\ UNCHANGED <<binding, native, service, tested, faults>>

-----------------------------------------------------------------------------
(* cancel and forget *)

Unused(row) ==
    IF row.connection = None THEN {row.credential}
    ELSE {row.credential} \ {Credential(row.connection)}

\* ConnectionStore.cancel_pending, for a request that is not active yet.
Cancel(r) ==
    /\ At("idle")
    /\ Open(r)
    /\ pending[r].kind \notin {"cancel", "forget"} /\ pending[r].phase # "cleanup_pending"
    /\ pending' = [pending EXCEPT ![r] = [@ EXCEPT !.kind = "cancel", !.phase = "cancelling",
                                                   !.cleanup_ids = Unused(pending[r])]]
    /\ command' = [at |-> "delete", request |-> r]
    /\ UNCHANGED <<binding, native, service, tested, faults>>

CredentialsOf(row) == (row.cleanup_ids \cup {row.credential}) \ {None}

\* ConnectionStore.begin_forget
Forget(c) ==
    LET matching == OpenFor(c)
        detached == [r \in 1..Len(pending) |->
                        IF r \in matching THEN [pending[r] EXCEPT !.phase = "cancelled"] ELSE pending[r]]
        row == [Request("forget", "cleanup_pending", c, None) EXCEPT
                  !.cleanup_ids = ({Credential(c)} \ {None})
                                     \cup UNION {CredentialsOf(pending[r]) : r \in matching}]
    IN
    /\ At("idle")
    /\ \A r \in matching : pending[r].kind # "forget"
    /\ matching # {} \/ binding[c] # None
    /\ Len(pending) < MaxRequests
    /\ pending' = Append(detached, row)
    /\ binding' = [binding EXCEPT ![c] = None]
    /\ command' = [at |-> "delete", request |-> Len(pending) + 1]
    /\ UNCHANGED <<native, service, tested, faults>>

\* A disabled connection needs no report; otherwise the directory is told that
\* this installation has no credential any more.
Notify ==
    LET c == Current.connection IN
    /\ At("notify")
    /\ \/ /\ Usable(c)
          /\ Update([Current EXCEPT !.payload = grant[c]])
          /\ Go("withdraw")
       \/ /\ ~Usable(c)
          /\ Update([Current EXCEPT !.phase = "complete"])
          /\ End
    /\ UNCHANGED <<binding, native, service, tested, faults>>

Withdraw ==
    /\ At("withdraw")
    /\ \/ Answered /\ Report("needs_auth") /\ Update([Current EXCEPT !.phase = "complete"])
       \/ ~Answered /\ UNCHANGED <<pending, service>>
    /\ End
    /\ UNCHANGED <<binding, native, tested, faults>>

-----------------------------------------------------------------------------

\* The command dies, or a service or the native store fails it.
Die ==
    /\ ~At("idle")
    /\ faults < MaxFaults
    /\ faults' = faults + 1
    /\ End
    /\ UNCHANGED <<local, service, tested>>

ChangeGrant(c) ==
    /\ grant[c] \in 1..(MaxGrants - 1)
    /\ grant' = [grant EXCEPT ![c] = @ + 1]
    /\ UNCHANGED <<local, disabled, created, accepted, remote, command, tested, faults>>

Disable(c) ==
    /\ grant[c] > 0
    /\ c \notin disabled
    /\ disabled' = disabled \cup {c}
    /\ UNCHANGED <<local, grant, created, accepted, remote, command, tested, faults>>

CommandStep ==
    \/ SaveCredential \/ MarkAuthorized
    \/ LoadToken \/ Post \/ Register \/ CheckAuthorized \/ TestCapabilities
    \/ PutBinding \/ Confirm \/ Finish
    \/ \E k \in Requests : Delete(k)
    \/ Deleted \/ Notify \/ Withdraw

Next ==
    \/ Add
    \/ \E c \in Connection : Authorize(c) \/ Test(c) \/ Forget(c) \/ ChangeGrant(c) \/ Disable(c)
    \/ \E r \in 1..Len(pending) : Resume(r) \/ Cancel(r)
    \/ CommandStep
    \/ Die

Spec == Init /\ [][Next]_vars

-----------------------------------------------------------------------------
(* Properties *)

\* The journal and the bindings have the types of their tables.
TypeOK ==
    /\ pending \in Seq(Pending) /\ Len(pending) <= MaxRequests
    /\ binding \in [Connection -> Binding \cup {None}]
    /\ native \subseteq Requests
    /\ grant \in [Connection -> 0..MaxGrants] /\ disabled \subseteq Connection
    /\ created \in [Requests -> Connection \cup {None}]
    /\ accepted \subseteq Requests \X Nat
    /\ remote \in [Connection -> [status : {"none", "ready", "needs_auth"}, revision : Nat]]
    /\ command \in [at : Step, request : 0..MaxRequests] /\ command.request <= Len(pending)
    /\ command.request = 0 <=> At("idle")

\* A credential in the native store is in use, or an open request of the journal
\* will use or delete it: none is left behind, wherever a command died.
Traceable == native \subseteq
    {binding[c].credential : c \in {c \in Connection : binding[c] # None}}
        \cup UNION {CredentialsOf(pending[r]) : r \in {r \in 1..Len(pending) : Open(r)}}

\* A binding says what was tested with its credential under the grant it names.
BindingTested == \A c \in Connection : binding[c] # None =>
    <<binding[c].credential, c, binding[c].grant_revision>> \in tested

\* What "forget" removed stays removed: no request that is older than it binds
\* the connection again (docs/CONNECTIONS.md: forget "cancels outstanding
\* activation records").
ForgottenStays == \A f \in 1..Len(pending) : pending[f].kind = "forget" =>
    LET c == pending[f].connection IN binding[c] # None => binding[c].credential > f
=============================================================================
