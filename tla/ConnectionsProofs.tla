--------------------------- MODULE ConnectionsProofs ---------------------------
(***************************************************************************)
(* Proofs about Connections, for all connections and numbers of requests,  *)
(* grants and faults.  The inductive invariant Inv adds to the types what  *)
(* the phase of a request says of its other fields, what the progress of   *)
(* the command says of its request, and where each credential is recorded. *)
(***************************************************************************)
EXTENDS Connections, SequenceTheorems, TLAPS

\* A request that has nothing left to do but to delete credentials and to report.
Final(row) == row.kind \in {"cancel", "forget"} \/ row.phase = "cleanup_pending"

\* What the kind and the phase of a request say of its other fields; a payload
\* stored for a binding was tested with the credential and connection beside it.
RowOK(row, tests) ==
    /\ row.kind # "forget" => row.credential # None
    /\ row.kind \notin {"create", "cancel"} => row.connection # None
    /\ ~Final(row) /\ row.phase # "cancelled" /\ row.phase # "complete" => row.cleanup_ids = {}
    /\ row.kind \in {"create", "authorize", "test"} /\ row.payload # 0 =>
          /\ row.connection # None
          /\ <<row.credential, row.connection, row.payload>> \in tests

RowInv(row) == RowOK(row, tested)

\* Every request of the journal is as its phase says.
JournalInv == \A r \in 1..Len(pending) : RowInv(pending[r])

\* What the step that a command has reached says of the request it works on.
CommandInv == ~At("idle") =>
    /\ Open(command.request) \/ Current.kind \in {"cancel", "forget"}
    /\ Final(Current) <=> command.at \in {"delete", "notify", "withdraw"}
    /\ command.at \in {"authorized", "test", "put", "confirm", "finish"} =>
          Current.connection # None
    /\ command.at \in {"post", "register"} =>
          Current.connection = None /\ Current.kind = "create"
    /\ At("register") => created[command.request] # None
    /\ At("test") => grant[Current.connection] # 0
    /\ command.at \in {"put", "confirm", "finish"} => Current.payload # 0
    /\ command.at \in {"notify", "withdraw"} =>
          Current.kind = "forget" /\ Current.cleanup_ids \cap native = {}

\* A credential is used by a binding, listed for deletion by an open request, or
\* the one that an open request is going to bind.
InUse(k) == \E c \in Connection : binding[c] # None /\ binding[c].credential = k
Listed(k) == \E r \in 1..Len(pending) : Open(r) /\ k \in pending[r].cleanup_ids
Awaited(k) == \E r \in 1..Len(pending) :
    Open(r) /\ ~Final(pending[r]) /\ pending[r].credential = k

\* No credential is left in the native store without a record that leads to it.
CredentialInv == \A k \in native : InUse(k) \/ Listed(k) \/ Awaited(k)

\* The inductive invariant.
Inv == TypeOK /\ JournalInv /\ CommandInv /\ CredentialInv /\ BindingTested


-----------------------------------------------------------------------------
(* The journal *)

\* The request of a command is in the journal.
LEMMA CurrentType ==
    ASSUME TypeOK, ~At("idle")
    PROVE  command.request \in 1..Len(pending) /\ command.request \in Requests /\ Current \in Pending
<1>1. Len(pending) \in Nat
  BY LenProperties DEF TypeOK
<1>2. command.request \in 1..Len(pending) /\ command.request \in Requests
  BY <1>1, BoundAssumption DEF TypeOK, Requests
<1> QED
  BY <1>2, ElementOfSeq DEF TypeOK, Current

\* A request of the journal is rewritten.
LEMMA RewriteFacts ==
    ASSUME TypeOK, NEW r \in 1..Len(pending), NEW row \in Pending
    PROVE  LET new == [pending EXCEPT ![r] = row] IN
           /\ new \in Seq(Pending) /\ Len(new) = Len(pending) /\ new[r] = row
           /\ \A s \in 1..Len(pending) : s # r => new[s] = pending[s]
BY ExceptSeq DEF TypeOK

\* The request of the command is rewritten.
LEMMA UpdateFacts ==
    ASSUME TypeOK, ~At("idle")
    PROVE  \A row \in Pending : Update(row) =>
               /\ pending' \in Seq(Pending) /\ Len(pending') = Len(pending)
               /\ pending'[command.request] = row
               /\ \A s \in 1..Len(pending) : s # command.request => pending'[s] = pending[s]
BY CurrentType, RewriteFacts DEF Update

\* A request is added at the end of the journal.
LEMMA AppendFacts ==
    ASSUME TypeOK, Len(pending) < MaxRequests, NEW row \in Pending
    PROVE  LET new == Append(pending, row) IN
           /\ new \in Seq(Pending) /\ Len(new) = Len(pending) + 1
           /\ Len(pending) + 1 \in Requests
           /\ new[Len(pending) + 1] = row
           /\ \A s \in 1..Len(pending) : new[s] = pending[s]
<1>1. Len(pending) \in Nat
  BY LenProperties DEF TypeOK
<1> QED
  BY <1>1, AppendProperties, BoundAssumption DEF TypeOK, Requests

-----------------------------------------------------------------------------
(* Steps that leave the journal alone *)

\* A credential is saved for the request that awaits it.
LEMMA SaveCredentialKeeps == ASSUME Inv, SaveCredential PROVE Inv'
<1>0. TypeOK /\ JournalInv /\ CommandInv /\ CredentialInv /\ BindingTested
  BY DEF Inv
<1>1. /\ UNCHANGED <<pending, binding>> /\ ~At("idle")
      /\ command.request \in 1..Len(pending) /\ command.request \in Requests
      /\ Current \in Pending /\ RowInv(Current)
  BY <1>0, CurrentType DEF SaveCredential, At, local, JournalInv, Current
<1>a. Current.credential \in Requests
  BY <1>0, <1>1 DEF SaveCredential, At, CommandInv, Final, RowInv, RowOK, Pending
<1>2. TypeOK'
  BY <1>0, <1>1, <1>a, BoundAssumption DEF TypeOK, SaveCredential, At, Go, End, Step, local,
     service
<1>3. JournalInv'
  BY <1>0, <1>1 DEF JournalInv, RowInv, RowOK, SaveCredential
<1>4. CommandInv'
  BY <1>0, <1>1, ConnectionAssumption DEF TypeOK, CommandInv, RowInv, RowOK, Final,
     SaveCredential, At, Go, End, Current, Open, local, service
<1>5. CredentialInv'
  BY <1>0, <1>1 DEF CredentialInv, InUse, Listed, Awaited, Final, Open, SaveCredential,
     local, CommandInv, At, Current
<1>6. BindingTested'
  BY <1>0, <1>1 DEF BindingTested, SaveCredential
<1> QED
  BY <1>2, <1>3, <1>4, <1>5, <1>6 DEF Inv

\* The credential is there, or the command ends.
LEMMA LoadTokenKeeps == ASSUME Inv, LoadToken PROVE Inv'
<1>0. TypeOK /\ JournalInv /\ CommandInv /\ CredentialInv /\ BindingTested
  BY DEF Inv
<1>1. /\ UNCHANGED <<pending, binding>> /\ ~At("idle")
      /\ command.request \in 1..Len(pending) /\ command.request \in Requests
      /\ Current \in Pending /\ RowInv(Current)
  BY <1>0, CurrentType DEF LoadToken, At, local, JournalInv, Current
<1>2. TypeOK'
  BY <1>0, <1>1, BoundAssumption DEF TypeOK, LoadToken, At, Go, End, Step, local, service
<1>3. JournalInv'
  BY <1>0, <1>1 DEF JournalInv, RowInv, RowOK, LoadToken
<1>4. CommandInv'
  BY <1>0, <1>1, ConnectionAssumption DEF TypeOK, CommandInv, RowInv, RowOK, Final,
     LoadToken, At, Go, End, Current, Open, local, service
<1>5. CredentialInv'
  BY <1>0, <1>1 DEF CredentialInv, InUse, Listed, Awaited, Final, Open, LoadToken, local
<1>6. BindingTested'
  BY <1>0, <1>1 DEF BindingTested, LoadToken
<1> QED
  BY <1>2, <1>3, <1>4, <1>5, <1>6 DEF Inv

\* The directory makes a connection.
LEMMA PostKeeps == ASSUME Inv, Post PROVE Inv'
<1>0. TypeOK /\ JournalInv /\ CommandInv /\ CredentialInv /\ BindingTested
  BY DEF Inv
<1>1. /\ UNCHANGED <<pending, binding>> /\ ~At("idle")
      /\ command.request \in 1..Len(pending) /\ command.request \in Requests
      /\ Current \in Pending /\ RowInv(Current)
  BY <1>0, CurrentType DEF Post, At, local, JournalInv, Current
<1>a. /\ grant' \in [Connection -> 0..MaxGrants]
      /\ created' \in [Requests -> Connection \cup {None}]
  <2>1. CASE UNCHANGED <<grant, created>>
    BY <1>0, <2>1 DEF TypeOK
  <2>2. ASSUME NEW c \in Connection, grant' = [grant EXCEPT ![c] = 1],
               created' = [created EXCEPT ![command.request] = c]
        PROVE  /\ grant' \in [Connection -> 0..MaxGrants]
               /\ created' \in [Requests -> Connection \cup {None}]
    BY <1>0, <1>1, <2>2, BoundAssumption DEF TypeOK
  <2> QED
    BY <2>1, <2>2 DEF Post
<1>2. TypeOK'
  BY <1>0, <1>1, <1>a, BoundAssumption DEF TypeOK, Post, At, Go, End, Step, local, service
<1>3. JournalInv'
  BY <1>0, <1>1 DEF JournalInv, RowInv, RowOK, Post
<1>4. CommandInv'
  BY <1>0, <1>1, ConnectionAssumption DEF TypeOK, CommandInv, RowInv, RowOK, Final, Post,
     At, Go, End, Current, Open, local, service
<1>5. CredentialInv'
  BY <1>0, <1>1 DEF CredentialInv, InUse, Listed, Awaited, Final, Open, Post, local
<1>6. BindingTested'
  BY <1>0, <1>1 DEF BindingTested, Post
<1> QED
  BY <1>2, <1>3, <1>4, <1>5, <1>6 DEF Inv

\* The grant is read.
LEMMA CheckAuthorizedKeeps == ASSUME Inv, CheckAuthorized PROVE Inv'
<1>0. TypeOK /\ JournalInv /\ CommandInv /\ CredentialInv /\ BindingTested
  BY DEF Inv
<1>1. /\ UNCHANGED <<pending, binding>> /\ ~At("idle")
      /\ command.request \in 1..Len(pending) /\ command.request \in Requests
      /\ Current \in Pending /\ RowInv(Current)
  BY <1>0, CurrentType DEF CheckAuthorized, At, local, JournalInv, Current
<1>2. TypeOK'
  BY <1>0, <1>1, BoundAssumption DEF TypeOK, CheckAuthorized, At, Go, End, Step, local, service
<1>3. JournalInv'
  BY <1>0, <1>1 DEF JournalInv, RowInv, RowOK, CheckAuthorized
<1>4. CommandInv'
  BY <1>0, <1>1, ConnectionAssumption DEF TypeOK, CommandInv, RowInv, RowOK, Final,
     CheckAuthorized, At, Go, End, Current, Open, local, service, Usable, PayloadCurrent,
     Pending
<1>5. CredentialInv'
  BY <1>0, <1>1 DEF CredentialInv, InUse, Listed, Awaited, Final, Open, CheckAuthorized, local
<1>6. BindingTested'
  BY <1>0, <1>1 DEF BindingTested, CheckAuthorized
<1> QED
  BY <1>2, <1>3, <1>4, <1>5, <1>6 DEF Inv

\* The binding is reported.
LEMMA PutBindingKeeps == ASSUME Inv, PutBinding PROVE Inv'
<1>0. TypeOK /\ JournalInv /\ CommandInv /\ CredentialInv /\ BindingTested
  BY DEF Inv
<1>1. /\ UNCHANGED <<pending, binding>> /\ ~At("idle")
      /\ command.request \in 1..Len(pending) /\ command.request \in Requests
      /\ Current \in Pending /\ RowInv(Current)
  BY <1>0, CurrentType DEF PutBinding, At, local, JournalInv, Current
<1>a. Current.connection \in Connection /\ Current.payload \in Nat
  BY <1>0, <1>1 DEF PutBinding, At, CommandInv, Pending
<1>b. Mutation \in Requests \X Nat
  BY <1>1, <1>a DEF Mutation
<1>c. ASSUME Report("ready") \/ UNCHANGED service
      PROVE  /\ accepted' \subseteq Requests \X Nat
             /\ remote' \in [Connection -> [status : {"none", "ready", "needs_auth"}, revision : Nat]]
             /\ UNCHANGED <<grant, disabled, created>>
  <2>1. CASE UNCHANGED service
    BY <1>0, <2>1 DEF TypeOK, service
  <2>2. CASE Report("ready")
    <3>1. accepted' \subseteq Requests \X Nat /\ UNCHANGED <<grant, disabled, created>>
      BY <1>0, <1>b, <2>2 DEF Report, TypeOK
    <3>2. remote' \in [Connection -> [status : {"none", "ready", "needs_auth"}, revision : Nat]]
      BY <1>0, <1>a, <2>2 DEF Report, TypeOK
    <3> QED
      BY <3>1, <3>2
  <2> QED
    BY <1>c, <2>1, <2>2
<1>d. /\ accepted' \subseteq Requests \X Nat
      /\ remote' \in [Connection -> [status : {"none", "ready", "needs_auth"}, revision : Nat]]
      /\ UNCHANGED <<grant, disabled, created>>
  BY <1>c DEF PutBinding
<1>2. TypeOK'
  BY <1>0, <1>1, <1>d, BoundAssumption DEF TypeOK, PutBinding, At, Go, End, Step, local, service
<1>3. JournalInv'
  BY <1>0, <1>1 DEF JournalInv, RowInv, RowOK, PutBinding
<1>4. CommandInv'
  BY <1>0, <1>1, ConnectionAssumption DEF TypeOK, CommandInv, RowInv, RowOK, Final,
     PutBinding, At, Go, End, Current, Open, local, service, Report
<1>5. CredentialInv'
  BY <1>0, <1>1 DEF CredentialInv, InUse, Listed, Awaited, Final, Open, PutBinding, local
<1>6. BindingTested'
  BY <1>0, <1>1 DEF BindingTested, PutBinding
<1> QED
  BY <1>2, <1>3, <1>4, <1>5, <1>6 DEF Inv

\* The report is confirmed.
LEMMA ConfirmKeeps == ASSUME Inv, Confirm PROVE Inv'
<1>0. TypeOK /\ JournalInv /\ CommandInv /\ CredentialInv /\ BindingTested
  BY DEF Inv
<1>1. /\ UNCHANGED <<pending, binding>> /\ ~At("idle")
      /\ command.request \in 1..Len(pending) /\ command.request \in Requests
      /\ Current \in Pending /\ RowInv(Current)
  BY <1>0, CurrentType DEF Confirm, At, local, JournalInv, Current
<1>2. TypeOK'
  BY <1>0, <1>1, BoundAssumption DEF TypeOK, Confirm, At, Go, End, Step, local, service
<1>3. JournalInv'
  BY <1>0, <1>1 DEF JournalInv, RowInv, RowOK, Confirm
<1>4. CommandInv'
  <2>1. CASE End
    BY <2>1 DEF CommandInv, End, At
  <2>2. CASE Go("finish")
    BY <1>0, <1>1, <2>2 DEF TypeOK, CommandInv, Final, Confirm, At, Go, Current, Open,
       local, service
  <2> QED
    BY <2>1, <2>2 DEF Confirm
<1>5. CredentialInv'
  BY <1>0, <1>1 DEF CredentialInv, InUse, Listed, Awaited, Final, Open, Confirm, local
<1>6. BindingTested'
  BY <1>0, <1>1 DEF BindingTested, Confirm
<1> QED
  BY <1>2, <1>3, <1>4, <1>5, <1>6 DEF Inv

\* A command dies.
LEMMA DieKeeps == ASSUME Inv, Die PROVE Inv'
<1>0. TypeOK /\ JournalInv /\ CommandInv /\ CredentialInv /\ BindingTested
  BY DEF Inv
<1>1. /\ UNCHANGED <<pending, binding>> /\ ~At("idle")
      /\ command.request \in 1..Len(pending) /\ command.request \in Requests
      /\ Current \in Pending /\ RowInv(Current)
  BY <1>0, CurrentType DEF Die, At, local, JournalInv, Current
<1>2. TypeOK'
  BY <1>0, <1>1, BoundAssumption DEF TypeOK, Die, At, Go, End, Step, local, service
<1>3. JournalInv'
  BY <1>0, <1>1 DEF JournalInv, RowInv, RowOK, Die
<1>4. CommandInv'
  BY <1>0, <1>1, ConnectionAssumption DEF TypeOK, CommandInv, RowInv, RowOK, Final, Die, At,
     Go, End, Current, Open, local, service
<1>5. CredentialInv'
  BY <1>0, <1>1 DEF CredentialInv, InUse, Listed, Awaited, Final, Open, Die, local
<1>6. BindingTested'
  BY <1>0, <1>1 DEF BindingTested, Die
<1> QED
  BY <1>2, <1>3, <1>4, <1>5, <1>6 DEF Inv

-----------------------------------------------------------------------------
(* Steps that rewrite the request of the command *)

\* The saved credential is noted.
LEMMA MarkAuthorizedKeeps == ASSUME Inv, MarkAuthorized PROVE Inv'
<1>0. TypeOK /\ JournalInv /\ CommandInv /\ CredentialInv /\ BindingTested
  BY DEF Inv
<1>1. /\ ~At("idle")
      /\ command.request \in 1..Len(pending) /\ command.request \in Requests
      /\ Current \in Pending /\ RowInv(Current)
  BY <1>0, CurrentType DEF MarkAuthorized, At, JournalInv, Current
<1>a. ~Final(Current) /\ Open(command.request)
  BY <1>0 DEF MarkAuthorized, At, CommandInv, Final
<1> DEFINE new == [Current EXCEPT !.phase = "authorized"]
<1>2. new \in Pending
  BY <1>0, <1>1, <1>a DEF Pending, Phase
<1>3. /\ new.kind = Current.kind /\ new.credential = Current.credential
      /\ new.cleanup_ids = Current.cleanup_ids
      /\ new.phase = "authorized" /\ new.connection = Current.connection
      /\ new.payload = Current.payload
  BY <1>1 DEF Pending
<1> HIDE DEF new
<1>4. /\ pending' \in Seq(Pending) /\ Len(pending') = Len(pending)
      /\ pending'[command.request] = new
      /\ \A s \in 1..Len(pending) : s # command.request => pending'[s] = pending[s]
  <2>1. Update(new)
    BY DEF MarkAuthorized, new
  <2> QED
    BY <1>0, <1>1, <1>2, <2>1, UpdateFacts
<1>5. TypeOK'
  BY <1>0, <1>1, <1>4, <1>a, BoundAssumption
     DEF TypeOK, MarkAuthorized, At, Go, End, Step, service
<1>6. JournalInv'
  <2>1. RowOK(new, tested')
    BY <1>0, <1>1, <1>2, <1>3, <1>a, ConnectionAssumption
       DEF RowInv, RowOK, Final, Open, Current, MarkAuthorized
  <2>2. \A s \in 1..Len(pending) : RowOK(pending[s], tested')
    BY <1>0 DEF JournalInv, RowInv, RowOK, MarkAuthorized
  <2> QED
    BY <1>4, <2>1, <2>2 DEF JournalInv, RowInv
<1>7. CommandInv'
  BY <1>0, <1>1, <1>2, <1>3, <1>4, <1>a, ConnectionAssumption
     DEF TypeOK, CommandInv, Final, MarkAuthorized, At, Go, End, Current, Open, service
<1>8. CredentialInv'
  <2>1. \A s \in 1..Len(pending) :
           /\ Open(s)' <=> Open(s)
           /\ pending'[s].credential = pending[s].credential
           /\ pending'[s].cleanup_ids = pending[s].cleanup_ids
           /\ Final(pending'[s]) <=> Final(pending[s])
    BY <1>0, <1>1, <1>3, <1>4, <1>a DEF CommandInv, Open, Final, Current
  <2> QED
    BY <1>0, <1>4, <2>1 DEF CredentialInv, InUse, Listed, Awaited, MarkAuthorized
<1>9. BindingTested'
  BY <1>0 DEF BindingTested, MarkAuthorized
<1> QED
  BY <1>5, <1>6, <1>7, <1>8, <1>9 DEF Inv

\* The connection is noted.
LEMMA RegisterKeeps == ASSUME Inv, Register PROVE Inv'
<1>0. TypeOK /\ JournalInv /\ CommandInv /\ CredentialInv /\ BindingTested
  BY DEF Inv
<1>1. /\ ~At("idle")
      /\ command.request \in 1..Len(pending) /\ command.request \in Requests
      /\ Current \in Pending /\ RowInv(Current)
  BY <1>0, CurrentType DEF Register, At, JournalInv, Current
<1>a. /\ ~Final(Current) /\ Open(command.request) /\ Current.kind = "create"
      /\ Current.connection = None
      /\ created[command.request] \in Connection /\ created[command.request] # None
  BY <1>0, <1>1, ConnectionAssumption DEF Register, At, CommandInv, TypeOK
<1> DEFINE new == [Current EXCEPT !.connection = created[command.request],
   !.phase = "registered"]
<1>2. new \in Pending
  BY <1>0, <1>1, <1>a DEF Pending, Phase
<1>3. /\ new.kind = Current.kind /\ new.credential = Current.credential
      /\ new.cleanup_ids = Current.cleanup_ids
      /\ new.phase = "registered" /\ new.connection = created[command.request]
      /\ new.payload = Current.payload
  BY <1>1 DEF Pending
<1> HIDE DEF new
<1>4. /\ pending' \in Seq(Pending) /\ Len(pending') = Len(pending)
      /\ pending'[command.request] = new
      /\ \A s \in 1..Len(pending) : s # command.request => pending'[s] = pending[s]
  <2>1. Update(new)
    BY DEF Register, new
  <2> QED
    BY <1>0, <1>1, <1>2, <2>1, UpdateFacts
<1>5. TypeOK'
  BY <1>0, <1>1, <1>4, <1>a, BoundAssumption DEF TypeOK, Register, At, Go, End, Step, service
<1>6. JournalInv'
  <2>1. RowOK(new, tested')
    BY <1>0, <1>1, <1>2, <1>3, <1>a, ConnectionAssumption
       DEF RowInv, RowOK, Final, Open, Current, Register
  <2>2. \A s \in 1..Len(pending) : RowOK(pending[s], tested')
    BY <1>0 DEF JournalInv, RowInv, RowOK, Register
  <2> QED
    BY <1>4, <2>1, <2>2 DEF JournalInv, RowInv
<1>7. CommandInv'
  BY <1>0, <1>1, <1>2, <1>3, <1>4, <1>a, ConnectionAssumption
     DEF TypeOK, CommandInv, Final, Register, At, Go, End, Current, Open, service
<1>8. CredentialInv'
  <2>1. \A s \in 1..Len(pending) :
           /\ Open(s)' <=> Open(s)
           /\ pending'[s].credential = pending[s].credential
           /\ pending'[s].cleanup_ids = pending[s].cleanup_ids
           /\ Final(pending'[s]) <=> Final(pending[s])
    BY <1>0, <1>1, <1>3, <1>4, <1>a DEF CommandInv, Open, Final, Current
  <2> QED
    BY <1>0, <1>4, <2>1 DEF CredentialInv, InUse, Listed, Awaited, Register
<1>9. BindingTested'
  BY <1>0 DEF BindingTested, Register
<1> QED
  BY <1>5, <1>6, <1>7, <1>8, <1>9 DEF Inv

\* The capabilities are tested under the grant.
LEMMA TestCapabilitiesKeeps == ASSUME Inv, TestCapabilities PROVE Inv'
<1>0. TypeOK /\ JournalInv /\ CommandInv /\ CredentialInv /\ BindingTested
  BY DEF Inv
<1>1. /\ ~At("idle")
      /\ command.request \in 1..Len(pending) /\ command.request \in Requests
      /\ Current \in Pending /\ RowInv(Current)
  BY <1>0, CurrentType DEF TestCapabilities, At, JournalInv, Current
<1>a. /\ ~Final(Current) /\ Open(command.request)
      /\ Current.connection \in Connection /\ Current.connection # None
      /\ grant[Current.connection] \in Nat /\ grant[Current.connection] # 0
  <2>1. Current.connection \in Connection
    BY <1>0, <1>1 DEF TestCapabilities, At, CommandInv, Pending
  <2>2. ~Final(Current) /\ Open(command.request)
    BY <1>0 DEF TestCapabilities, At, CommandInv, Final
  <2>3. Current.connection # None /\ grant[Current.connection] # 0
    BY <1>0 DEF TestCapabilities, At, CommandInv
  <2> QED
    BY <1>0, <2>1, <2>2, <2>3, BoundAssumption DEF TypeOK
<1> DEFINE new == [Current EXCEPT !.payload = grant[Current.connection],
   !.phase = "binding_pending"]
<1>2. new \in Pending
  BY <1>0, <1>1, <1>a DEF Pending, Phase
<1>3. /\ new.kind = Current.kind /\ new.credential = Current.credential
      /\ new.cleanup_ids = Current.cleanup_ids
      /\ new.phase = "binding_pending" /\ new.connection = Current.connection
      /\ new.payload = grant[Current.connection]
  BY <1>1 DEF Pending
<1> HIDE DEF new
<1>4. /\ pending' \in Seq(Pending) /\ Len(pending') = Len(pending)
      /\ pending'[command.request] = new
      /\ \A s \in 1..Len(pending) : s # command.request => pending'[s] = pending[s]
  <2>1. Update(new)
    BY DEF TestCapabilities, new
  <2> QED
    BY <1>0, <1>1, <1>2, <2>1, UpdateFacts
<1>5. TypeOK'
  BY <1>0, <1>1, <1>4, <1>a, BoundAssumption
     DEF TypeOK, TestCapabilities, At, Go, End, Step, service
<1>6. JournalInv'
  <2>1. RowOK(new, tested')
    BY <1>0, <1>1, <1>2, <1>3, <1>a, ConnectionAssumption
       DEF RowInv, RowOK, Final, Open, Current, TestCapabilities
  <2>2. \A s \in 1..Len(pending) : RowOK(pending[s], tested')
    BY <1>0 DEF JournalInv, RowInv, RowOK, TestCapabilities
  <2> QED
    BY <1>4, <2>1, <2>2 DEF JournalInv, RowInv
<1>7. CommandInv'
  BY <1>0, <1>1, <1>2, <1>3, <1>4, <1>a, ConnectionAssumption
     DEF TypeOK, CommandInv, Final, TestCapabilities, At, Go, End, Current, Open, service
<1>8. CredentialInv'
  <2>1. \A s \in 1..Len(pending) :
           /\ Open(s)' <=> Open(s)
           /\ pending'[s].credential = pending[s].credential
           /\ pending'[s].cleanup_ids = pending[s].cleanup_ids
           /\ Final(pending'[s]) <=> Final(pending[s])
    BY <1>0, <1>1, <1>3, <1>4, <1>a DEF CommandInv, Open, Final, Current
  <2> QED
    BY <1>0, <1>4, <2>1 DEF CredentialInv, InUse, Listed, Awaited, TestCapabilities
<1>9. BindingTested'
  BY <1>0 DEF BindingTested, TestCapabilities
<1> QED
  BY <1>5, <1>6, <1>7, <1>8, <1>9 DEF Inv

\* The binding is committed.
LEMMA FinishKeeps == ASSUME Inv, Finish PROVE Inv'
<1>0. TypeOK /\ JournalInv /\ CommandInv /\ CredentialInv /\ BindingTested
  BY DEF Inv
<1>1. /\ ~At("idle")
      /\ command.request \in 1..Len(pending) /\ command.request \in Requests
      /\ Current \in Pending /\ RowInv(Current)
  BY <1>0, CurrentType DEF Finish, At, JournalInv, Current
<1>a. /\ ~Final(Current) /\ Open(command.request) /\ Current.cleanup_ids = {}
      /\ Current.connection \in Connection /\ Current.connection # None
      /\ Current.payload \in Nat /\ Current.payload # 0
      /\ Current.kind \in {"create", "authorize", "test"}
      /\ Current.credential \in Requests /\ Current.credential # None
  BY <1>0, <1>1 DEF Finish, At, CommandInv, Pending, Kind, RowInv, RowOK, Final, Open, Current
<1>b. Replaced(Current.connection, Current.credential) \in SUBSET Requests
  BY <1>0, <1>a DEF Replaced, Credential, TypeOK, Binding
<1>c. /\ Bound(Current) \in Binding /\ Bound(Current).credential = Current.credential
      /\ Bound(Current).grant_revision = Current.payload
  BY <1>a DEF Bound, Binding
<1>d. binding' \in [Connection -> Binding \cup {None}] /\ binding'[Current.connection] = Bound(Current)
      /\ \A c \in Connection : c # Current.connection => binding'[c] = binding[c]
  BY <1>0, <1>a, <1>c DEF Finish, TypeOK
<1> DEFINE new == [Current EXCEPT !.phase = "cleanup_pending",
   !.cleanup_ids = Replaced(Current.connection, Current.credential)]
<1>2. new \in Pending
  BY <1>0, <1>1, <1>a, <1>b DEF Pending, Phase
<1>3. /\ new.kind = Current.kind /\ new.credential = Current.credential
      /\ new.cleanup_ids = Replaced(Current.connection, Current.credential)
      /\ new.phase = "cleanup_pending" /\ new.connection = Current.connection
      /\ new.payload = Current.payload
  BY <1>1 DEF Pending
<1> HIDE DEF new
<1>4. /\ pending' \in Seq(Pending) /\ Len(pending') = Len(pending)
      /\ pending'[command.request] = new
      /\ \A s \in 1..Len(pending) : s # command.request => pending'[s] = pending[s]
  <2>1. Update(new)
    BY DEF Finish, new
  <2> QED
    BY <1>0, <1>1, <1>2, <2>1, UpdateFacts
<1>5. TypeOK'
  BY <1>0, <1>1, <1>4, <1>a, <1>d, BoundAssumption
     DEF TypeOK, Finish, At, Go, End, Step, service
<1>6. JournalInv'
  <2>1. RowOK(new, tested')
    BY <1>0, <1>1, <1>2, <1>3, <1>a, ConnectionAssumption
       DEF RowInv, RowOK, Final, Open, Current, Finish
  <2>2. \A s \in 1..Len(pending) : RowOK(pending[s], tested')
    BY <1>0 DEF JournalInv, RowInv, RowOK, Finish
  <2> QED
    BY <1>4, <2>1, <2>2 DEF JournalInv, RowInv
<1>7. CommandInv'
  BY <1>0, <1>1, <1>2, <1>3, <1>4, <1>a, ConnectionAssumption
     DEF TypeOK, CommandInv, Final, Finish, At, Go, End, Current, Open, service
<1>8. CredentialInv'
  <2> SUFFICES ASSUME NEW k \in native PROVE InUse(k)' \/ Listed(k)' \/ Awaited(k)'
    BY DEF CredentialInv, Finish
  <2>1. CASE InUse(k)
    <3>1. PICK c \in Connection : binding[c] # None /\ binding[c].credential = k
      BY <2>1 DEF InUse
    <3>2. CASE c # Current.connection
      BY <1>d, <3>1, <3>2 DEF InUse
    <3>3. CASE c = Current.connection /\ k = Current.credential
      BY <1>c, <1>d, <1>a, <3>3, BindingAssumption DEF InUse
    <3>4. CASE c = Current.connection /\ k # Current.credential
      <4>0. k # None
        BY <1>0, <3>1, ConnectionAssumption DEF TypeOK, Binding, Requests
      <4>1. k \in new.cleanup_ids
        BY <1>3, <3>1, <3>4, <4>0 DEF Replaced, Credential
      <4> QED
        BY <1>1, <1>3, <1>4, <4>1 DEF Listed, Open
    <3> QED
      BY <3>2, <3>3, <3>4
  <2>2. CASE Listed(k)
    BY <1>4, <1>a, <2>2 DEF Listed, Open, Current
  <2>3. CASE Awaited(k)
    <3>1. PICK r \in 1..Len(pending) : Open(r) /\ ~Final(pending[r]) /\ pending[r].credential = k
      BY <2>3 DEF Awaited
    <3>2. CASE r = command.request
      BY <1>a, <1>c, <1>d, <3>1, <3>2, BindingAssumption DEF InUse, Current
    <3>3. CASE r # command.request
      BY <1>4, <3>1, <3>3 DEF Awaited, Open
    <3> QED
      BY <3>2, <3>3
  <2> QED
    BY <1>0, <2>1, <2>2, <2>3 DEF CredentialInv
<1>9. BindingTested'
  <2>1. <<Current.credential, Current.connection, Current.payload>> \in tested
    BY <1>1, <1>a DEF RowInv, RowOK
  <2> QED
    BY <1>0, <1>c, <1>d, <2>1 DEF BindingTested, Finish
<1> QED
  BY <1>5, <1>6, <1>7, <1>8, <1>9 DEF Inv

\* Nothing is left to be deleted.
LEMMA DeletedKeeps == ASSUME Inv, Deleted PROVE Inv'
<1>0. TypeOK /\ JournalInv /\ CommandInv /\ CredentialInv /\ BindingTested
  BY DEF Inv
<1>1. /\ ~At("idle")
      /\ command.request \in 1..Len(pending) /\ command.request \in Requests
      /\ Current \in Pending /\ RowInv(Current)
  BY <1>0, CurrentType DEF Deleted, At, JournalInv, Current
<1>a. Final(Current) /\ Current.cleanup_ids \cap native = {}
  BY <1>0 DEF Deleted, At, CommandInv
<1>p. PICK phase \in {"local_forgotten", "cancelled", "complete"} :
         /\ Update([Current EXCEPT !.phase = phase])
         /\ IF phase = "local_forgotten" THEN Current.kind = "forget" /\ Go("notify")
            ELSE Current.kind # "forget" /\ End
  BY DEF Deleted
<1> DEFINE new == [Current EXCEPT !.phase = phase]
<1>2. new \in Pending
  BY <1>0, <1>1, <1>a DEF Pending, Phase
<1>3. /\ new.kind = Current.kind /\ new.credential = Current.credential
      /\ new.cleanup_ids = Current.cleanup_ids
      /\ new.phase = phase /\ new.connection = Current.connection
      /\ new.payload = Current.payload
  BY <1>1 DEF Pending
<1> HIDE DEF new
<1>4. /\ pending' \in Seq(Pending) /\ Len(pending') = Len(pending)
      /\ pending'[command.request] = new
      /\ \A s \in 1..Len(pending) : s # command.request => pending'[s] = pending[s]
  <2>1. Update(new)
    BY <1>p DEF new
  <2> QED
    BY <1>0, <1>1, <1>2, <2>1, UpdateFacts
<1>5. TypeOK'
  BY <1>0, <1>1, <1>4, <1>a, <1>p, BoundAssumption
     DEF TypeOK, Deleted, At, Go, End, Step, service
<1>6. JournalInv'
  <2>1. RowOK(new, tested')
    BY <1>0, <1>1, <1>2, <1>3, <1>a, <1>p, ConnectionAssumption
       DEF RowInv, RowOK, Final, Open, Current, Deleted
  <2>2. \A s \in 1..Len(pending) : RowOK(pending[s], tested')
    BY <1>0 DEF JournalInv, RowInv, RowOK, Deleted
  <2> QED
    BY <1>4, <2>1, <2>2 DEF JournalInv, RowInv
<1>7. CommandInv'
  <2>1. CASE End
    BY <2>1 DEF CommandInv, End, At
  <2>2. CASE Go("notify")
    <3>1. /\ command'.at = "notify" /\ command'.request = command.request /\ Current' = new
      BY <1>0, <1>4, <2>2 DEF TypeOK, Go, Current
    <3>2. new.kind = "forget" /\ new.phase \notin {"complete", "cancelled"}
      BY <1>1, <1>3, <1>a, <1>p, <2>2 DEF End, Go, Open, Current, Deleted, At
    <3> QED
      BY <1>3, <1>4, <1>a, <3>1, <3>2 DEF CommandInv, Final, At, Open, Current, Deleted
  <2> QED
    BY <1>p, <2>1, <2>2
<1>8. CredentialInv'
  <2> SUFFICES ASSUME NEW k \in native PROVE InUse(k)' \/ Listed(k)' \/ Awaited(k)'
    BY DEF CredentialInv, Deleted
  <2>1. CASE InUse(k)
    BY <2>1 DEF InUse, Deleted
  <2>2. CASE Listed(k)
    <3>1. PICK s \in 1..Len(pending) : Open(s) /\ k \in pending[s].cleanup_ids
      BY <2>2 DEF Listed
    <3>2. s # command.request
      BY <1>a, <3>1 DEF Current
    <3> QED
      BY <1>4, <3>1, <3>2 DEF Listed, Open
  <2>3. CASE Awaited(k)
    <3>1. PICK s \in 1..Len(pending) : Open(s) /\ ~Final(pending[s]) /\ pending[s].credential = k
      BY <2>3 DEF Awaited
    <3>2. s # command.request
      BY <1>a, <3>1 DEF Current
    <3> QED
      BY <1>4, <3>1, <3>2 DEF Awaited, Open
  <2> QED
    BY <1>0, <2>1, <2>2, <2>3 DEF CredentialInv
<1>9. BindingTested'
  BY <1>0 DEF BindingTested, Deleted
<1> QED
  BY <1>5, <1>6, <1>7, <1>8, <1>9 DEF Inv

\* The report of a forgotten connection is prepared, or not needed.
LEMMA NotifyKeeps == ASSUME Inv, Notify PROVE Inv'
<1>0. TypeOK /\ JournalInv /\ CommandInv /\ CredentialInv /\ BindingTested
  BY DEF Inv
<1>1. /\ ~At("idle")
      /\ command.request \in 1..Len(pending) /\ command.request \in Requests
      /\ Current \in Pending /\ RowInv(Current)
  BY <1>0, CurrentType DEF Notify, At, JournalInv, Current
<1>a. /\ Final(Current) /\ Current.cleanup_ids \cap native = {}
      /\ Current.kind = "forget"
  BY <1>0 DEF Notify, At, CommandInv
<1>b. Current.connection \in Connection
  BY <1>1, <1>a DEF RowInv, RowOK, Pending
<1>p. PICK payload \in Nat, phase \in Phase :
         /\ Update([Current EXCEPT !.payload = payload, !.phase = phase])
         /\ \/ phase = Current.phase /\ Go("withdraw")
            \/ phase = "complete" /\ End
  <2>1. CASE Update([Current EXCEPT !.payload = grant[Current.connection]]) /\ Go("withdraw")
    <3>1. grant[Current.connection] \in Nat /\ Current.phase \in Phase
      BY <1>0, <1>1, <1>b, BoundAssumption DEF TypeOK, Pending
    <3>2. [Current EXCEPT !.payload = grant[Current.connection]]
             = [Current EXCEPT !.payload = grant[Current.connection], !.phase = Current.phase]
      BY <1>1 DEF Pending
    <3> QED
      BY <2>1, <3>1, <3>2
  <2>2. CASE Update([Current EXCEPT !.phase = "complete"]) /\ End
    <3>1. Current.payload \in Nat /\ "complete" \in Phase
      BY <1>1 DEF Pending, Phase
    <3>2. [Current EXCEPT !.phase = "complete"]
             = [Current EXCEPT !.payload = Current.payload, !.phase = "complete"]
      BY <1>1 DEF Pending
    <3> QED
      BY <2>2, <3>1, <3>2
  <2> QED
    BY <2>1, <2>2 DEF Notify
<1> DEFINE new == [Current EXCEPT !.payload = payload, !.phase = phase]
<1>2. new \in Pending
  BY <1>0, <1>1, <1>a DEF Pending, Phase
<1>3. /\ new.kind = Current.kind /\ new.credential = Current.credential
      /\ new.cleanup_ids = Current.cleanup_ids
      /\ new.phase = phase /\ new.connection = Current.connection
      /\ new.payload = payload
  BY <1>1 DEF Pending
<1> HIDE DEF new
<1>4. /\ pending' \in Seq(Pending) /\ Len(pending') = Len(pending)
      /\ pending'[command.request] = new
      /\ \A s \in 1..Len(pending) : s # command.request => pending'[s] = pending[s]
  <2>1. Update(new)
    BY <1>p DEF new
  <2> QED
    BY <1>0, <1>1, <1>2, <2>1, UpdateFacts
<1>5. TypeOK'
  BY <1>0, <1>1, <1>4, <1>a, <1>p, BoundAssumption
     DEF TypeOK, Notify, At, Go, End, Step, service
<1>6. JournalInv'
  <2>1. RowOK(new, tested')
    BY <1>0, <1>1, <1>2, <1>3, <1>a, <1>p, ConnectionAssumption
       DEF RowInv, RowOK, Final, Open, Current, Notify
  <2>2. \A s \in 1..Len(pending) : RowOK(pending[s], tested')
    BY <1>0 DEF JournalInv, RowInv, RowOK, Notify
  <2> QED
    BY <1>4, <2>1, <2>2 DEF JournalInv, RowInv
<1>7. CommandInv'
  <2>1. CASE End
    BY <2>1 DEF CommandInv, End, At
  <2>2. CASE Go("withdraw")
    <3>1. /\ command'.at = "withdraw" /\ command'.request = command.request /\ Current' = new
      BY <1>0, <1>4, <2>2 DEF TypeOK, Go, Current
    <3>2. new.kind = "forget"
      BY <1>3, <1>a
    <3> QED
      BY <1>3, <1>4, <1>a, <3>1, <3>2 DEF CommandInv, Final, At, Open, Current, Notify
  <2> QED
    BY <1>p, <2>1, <2>2
<1>8. CredentialInv'
  <2> SUFFICES ASSUME NEW k \in native PROVE InUse(k)' \/ Listed(k)' \/ Awaited(k)'
    BY DEF CredentialInv, Notify
  <2>1. CASE InUse(k)
    BY <2>1 DEF InUse, Notify
  <2>2. CASE Listed(k)
    <3>1. PICK s \in 1..Len(pending) : Open(s) /\ k \in pending[s].cleanup_ids
      BY <2>2 DEF Listed
    <3>2. s # command.request
      BY <1>a, <3>1 DEF Current
    <3> QED
      BY <1>4, <3>1, <3>2 DEF Listed, Open
  <2>3. CASE Awaited(k)
    <3>1. PICK s \in 1..Len(pending) : Open(s) /\ ~Final(pending[s]) /\ pending[s].credential = k
      BY <2>3 DEF Awaited
    <3>2. s # command.request
      BY <1>a, <3>1 DEF Current
    <3> QED
      BY <1>4, <3>1, <3>2 DEF Awaited, Open
  <2> QED
    BY <1>0, <2>1, <2>2, <2>3 DEF CredentialInv
<1>9. BindingTested'
  BY <1>0 DEF BindingTested, Notify
<1> QED
  BY <1>5, <1>6, <1>7, <1>8, <1>9 DEF Inv

\* The directory is told that a connection is forgotten here, or refuses it.
LEMMA WithdrawKeeps == ASSUME Inv, Withdraw PROVE Inv'
<1>0. TypeOK /\ JournalInv /\ CommandInv /\ CredentialInv /\ BindingTested
  BY DEF Inv
<1>1. /\ ~At("idle")
      /\ command.request \in 1..Len(pending) /\ command.request \in Requests
      /\ Current \in Pending /\ RowInv(Current)
  BY <1>0, CurrentType DEF Withdraw, At, JournalInv, Current
<1>a. /\ Final(Current) /\ Current.cleanup_ids \cap native = {}
      /\ Current.kind = "forget"
  BY <1>0 DEF Withdraw, At, CommandInv
<1>b. Current.connection \in Connection /\ Current.payload \in Nat
  BY <1>1, <1>a DEF RowInv, RowOK, Pending
<1>c. End /\ UNCHANGED <<binding, native, tested, faults>>
  BY DEF Withdraw
<1>d. command' \in [at : Step, request : 0..MaxRequests] /\ command'.at = "idle" /\ command'.request = 0
  BY <1>c, BoundAssumption DEF End, Step
<1>e. CommandInv'
  BY <1>d DEF CommandInv, At
<1>2. CASE UNCHANGED <<pending, service>>
  <2>1. TypeOK'
    BY <1>0, <1>1, <1>c, <1>d, <1>2 DEF TypeOK, At, service
  <2>2. JournalInv' /\ CredentialInv' /\ BindingTested'
    BY <1>0, <1>c, <1>2
       DEF JournalInv, RowInv, CredentialInv, InUse, Listed, Awaited, Open, BindingTested
  <2> QED
    BY <1>e, <2>1, <2>2 DEF Inv
<1>3. CASE Report("needs_auth") /\ Update([Current EXCEPT !.phase = "complete"])
  <2> DEFINE new == [Current EXCEPT !.phase = "complete"]
  <2>1. new \in Pending
    BY <1>1 DEF Pending, Phase
  <2>2. /\ new.kind = Current.kind /\ new.credential = Current.credential
        /\ new.phase = "complete" /\ new.connection = Current.connection
    BY <1>1 DEF Pending
  <2> HIDE DEF new
  <2>3. /\ pending' \in Seq(Pending) /\ Len(pending') = Len(pending)
        /\ pending'[command.request] = new
        /\ \A s \in 1..Len(pending) : s # command.request => pending'[s] = pending[s]
    <3>1. Update(new)
      BY <1>3 DEF new
    <3> QED
      BY <1>0, <1>1, <2>1, <3>1, UpdateFacts
  <2>4. TypeOK'
    <3>1. Mutation \in Requests \X Nat
      BY <1>1, <1>b DEF Mutation
    <3>2. accepted' \subseteq Requests \X Nat /\ UNCHANGED <<grant, disabled, created>>
      BY <1>0, <1>3, <3>1 DEF Report, TypeOK
    <3>3. remote' \in [Connection -> [status : {"none", "ready", "needs_auth"}, revision : Nat]]
      BY <1>0, <1>b, <1>3 DEF Report, TypeOK
    <3>4. Len(pending') \in Nat
      BY <2>3, LenProperties
    <3> QED
      BY <1>0, <1>c, <1>d, <2>3, <3>2, <3>3, <3>4 DEF TypeOK, At
  <2>5. JournalInv'
    <3>1. RowOK(new, tested')
      BY <1>a, <1>1, <2>2 DEF RowInv, RowOK, Final
    <3> QED
      BY <1>0, <1>c, <2>3, <3>1 DEF JournalInv, RowInv
  <2>6. CredentialInv'
    <3> SUFFICES ASSUME NEW k \in native PROVE InUse(k)' \/ Listed(k)' \/ Awaited(k)'
      BY <1>c DEF CredentialInv
    <3>1. CASE InUse(k)
      BY <1>c, <3>1 DEF InUse
    <3>2. CASE Listed(k)
      BY <1>a, <2>3, <3>2 DEF Listed, Open, Current
    <3>3. CASE Awaited(k)
      BY <1>a, <2>3, <3>3 DEF Awaited, Open, Current
    <3> QED
      BY <1>0, <3>1, <3>2, <3>3 DEF CredentialInv
  <2>7. BindingTested'
    BY <1>0, <1>c DEF BindingTested
  <2> QED
    BY <1>e, <2>4, <2>5, <2>6, <2>7 DEF Inv
<1> QED
  BY <1>2, <1>3 DEF Withdraw

\* A credential is deleted that the request lists.
LEMMA DeleteKeeps == ASSUME Inv, NEW k \in Requests, Delete(k) PROVE Inv'
<1>0. TypeOK /\ JournalInv /\ CommandInv /\ CredentialInv /\ BindingTested
  BY DEF Inv
<1>1. UNCHANGED <<pending, binding, service, command, tested, faults>> /\ native' \subseteq native
  BY DEF Delete
<1>2. TypeOK' /\ JournalInv' /\ BindingTested'
  BY <1>0, <1>1 DEF TypeOK, JournalInv, RowInv, BindingTested, At, service
<1>3. CommandInv'
  BY <1>0, <1>1 DEF CommandInv, At, Open, Current, service, Delete
<1>4. CredentialInv'
  BY <1>0, <1>1 DEF CredentialInv, InUse, Listed, Awaited, Open
<1> QED
  BY <1>2, <1>3, <1>4 DEF Inv

-----------------------------------------------------------------------------
(* Commands begin *)

\* An open request is taken up again.
LEMMA ResumeKeeps == ASSUME Inv, NEW r \in 1..Len(pending), Resume(r) PROVE Inv'
<1>0. TypeOK /\ JournalInv /\ CommandInv /\ CredentialInv /\ BindingTested
  BY DEF Inv
<1>1. /\ UNCHANGED <<local, service, tested, faults>>
      /\ Open(r) \/ pending[r].kind \in {"cancel", "forget"}
  BY DEF Resume
<1>2. Len(pending) \in Nat /\ r # 0 /\ r \in 0..MaxRequests /\ pending[r] \in Pending
  BY <1>0, LenProperties, ElementOfSeq, BoundAssumption DEF TypeOK
<1>3. /\ command' = [at |-> Resumed(pending[r]), request |-> r]
      /\ Resumed(pending[r]) \in {"delete", "token"}
      /\ Resumed(pending[r]) = "delete" <=> Final(pending[r])
  BY DEF Resume, Resumed, Final
<1>4. TypeOK'
  BY <1>0, <1>1, <1>2, <1>3 DEF TypeOK, At, Step, local, service
<1>5. CommandInv'
  BY <1>1, <1>2, <1>3 DEF CommandInv, At, Open, Current, Final, local
<1>6. JournalInv' /\ CredentialInv' /\ BindingTested'
  BY <1>0, <1>1 DEF JournalInv, RowInv, CredentialInv, InUse, Listed, Awaited, Open,
                    BindingTested, local
<1> QED
  BY <1>4, <1>5, <1>6 DEF Inv

\* A new request.
LEMMA CreateKeeps ==
    \A row \in Pending, step \in {"save", "token"} :
        /\ Inv /\ Create(row, step)
        /\ row.kind \in {"create", "authorize", "test"} /\ row.phase \in {"credential_pending", "authorized"}
        /\ row.credential # None /\ row.payload = 0 /\ row.cleanup_ids = {}
        /\ row.kind # "create" => row.connection # None
        => Inv'
<1> SUFFICES ASSUME NEW row \in Pending, NEW step \in {"save", "token"},
                    Inv, Create(row, step),
                    row.kind \in {"create", "authorize", "test"},
                    row.phase \in {"credential_pending", "authorized"},
                    row.credential # None, row.payload = 0, row.cleanup_ids = {},
                    row.kind # "create" => row.connection # None
             PROVE  Inv'
  OBVIOUS
<1>0. TypeOK /\ JournalInv /\ CommandInv /\ CredentialInv /\ BindingTested
  BY DEF Inv
<1>1. UNCHANGED <<binding, native, service, tested, faults>> /\ Len(pending) \in Nat
  BY <1>0, LenProperties DEF Create, TypeOK
<1>2. /\ pending' \in Seq(Pending) /\ Len(pending') = Len(pending) + 1
      /\ Len(pending) + 1 \in Requests
      /\ pending'[Len(pending) + 1] = row
      /\ \A s \in 1..Len(pending) : pending'[s] = pending[s]
  BY <1>0, AppendFacts DEF Create
<1>3. command' = [at |-> step, request |-> Len(pending) + 1]
  BY DEF Create
<1>4. TypeOK'
  BY <1>0, <1>1, <1>2, <1>3, BoundAssumption DEF TypeOK, At, Step, Requests, service
<1>5. ~Final(row) /\ RowOK(row, tested)
  BY DEF RowOK, Final
<1>6. JournalInv'
  BY <1>0, <1>1, <1>2, <1>5 DEF JournalInv, RowInv
<1>7. CommandInv'
  BY <1>1, <1>2, <1>3, <1>5 DEF CommandInv, At, Open, Current, Final
<1>8. CredentialInv' /\ BindingTested'
  BY <1>0, <1>1, <1>2 DEF CredentialInv, InUse, Listed, Awaited, Open, BindingTested
<1> QED
  BY <1>4, <1>6, <1>7, <1>8 DEF Inv

\* The requests of add, authorize and test.
LEMMA BeginKeeps ==
    ASSUME Inv, Add \/ \E c \in Connection : Authorize(c) \/ Test(c)
    PROVE  Inv'
<1>0. TypeOK /\ Len(pending) \in Nat
  BY LenProperties DEF Inv, TypeOK
<1>1. Len(pending) < MaxRequests => Len(pending) + 1 \in Requests /\ Len(pending) + 1 # None
  BY <1>0, BoundAssumption, ConnectionAssumption DEF Requests
<1>2. CASE Add
  <2> DEFINE row == Request("create", "credential_pending", None, Len(pending) + 1)
  <2>1. Create(row, "save") /\ Len(pending) < MaxRequests
    BY <1>2 DEF Add, Create
  <2>2. /\ row \in Pending /\ row.kind = "create" /\ row.phase = "credential_pending"
        /\ row.credential # None /\ row.payload = 0 /\ row.cleanup_ids = {}
    BY <1>1, <2>1 DEF Request, Pending, Kind, Phase
  <2> HIDE DEF row
  <2> QED
    BY <2>1, <2>2, CreateKeeps
<1>3. ASSUME NEW c \in Connection, Authorize(c) PROVE Inv'
  <2> DEFINE row == Request("authorize", "credential_pending", c, Len(pending) + 1)
  <2>1. Create(row, "save") /\ Len(pending) < MaxRequests
    BY <1>3 DEF Authorize, Create
  <2>2. /\ row \in Pending /\ row.kind = "authorize" /\ row.phase = "credential_pending"
        /\ row.credential # None /\ row.payload = 0 /\ row.cleanup_ids = {} /\ row.connection # None
    BY <1>1, <2>1, ConnectionAssumption DEF Request, Pending, Kind, Phase
  <2> HIDE DEF row
  <2> QED
    BY <2>1, <2>2, CreateKeeps
<1>4. ASSUME NEW c \in Connection, Test(c) PROVE Inv'
  <2> DEFINE row == Request("test", "authorized", c, Credential(c))
  <2>1. Create(row, "token")
    BY <1>4 DEF Test
  <2>2. Credential(c) \in Requests /\ Credential(c) # None
    BY <1>0, <1>4, ConnectionAssumption DEF Test, Credential, TypeOK, Binding, Requests
  <2>3. /\ row \in Pending /\ row.kind = "test" /\ row.phase = "authorized"
        /\ row.credential # None /\ row.payload = 0 /\ row.cleanup_ids = {} /\ row.connection # None
    BY <2>2, ConnectionAssumption DEF Request, Pending, Kind, Phase
  <2> HIDE DEF row
  <2> QED
    BY <2>1, <2>3, CreateKeeps
<1> QED
  BY <1>2, <1>3, <1>4

\* A request that has not bound anything is cancelled.
LEMMA CancelKeeps == ASSUME Inv, NEW r \in 1..Len(pending), Cancel(r) PROVE Inv'
<1>0. TypeOK /\ JournalInv /\ CommandInv /\ CredentialInv /\ BindingTested
  BY DEF Inv
<1>1. /\ UNCHANGED <<binding, native, service, tested, faults>> /\ Len(pending) \in Nat
      /\ pending[r] \in Pending /\ RowInv(pending[r])
      /\ r # 0 /\ r \in 0..MaxRequests
  BY <1>0, LenProperties, ElementOfSeq, BoundAssumption DEF Cancel, TypeOK, JournalInv
<1>2. /\ ~Final(pending[r]) /\ Open(r) /\ pending[r].credential \in Requests
      /\ pending[r].credential # None /\ pending[r].cleanup_ids = {}
  BY <1>1 DEF Cancel, Final, Open, RowInv, RowOK, Pending
<1> DEFINE new == [pending[r] EXCEPT !.kind = "cancel", !.phase = "cancelling",
                                     !.cleanup_ids = Unused(pending[r])]
<1>3. Unused(pending[r]) \in SUBSET Requests
  BY <1>2 DEF Unused
<1>4. new \in Pending
  BY <1>1, <1>3 DEF Pending, Kind, Phase
<1>5. /\ new.kind = "cancel" /\ new.phase = "cancelling" /\ new.credential = pending[r].credential
      /\ new.cleanup_ids = Unused(pending[r])
  BY <1>1 DEF Pending
<1>6. pending' = [pending EXCEPT ![r] = new] /\ command' = [at |-> "delete", request |-> r]
  BY DEF Cancel
<1> HIDE DEF new
<1>7. /\ pending' \in Seq(Pending) /\ Len(pending') = Len(pending) /\ pending'[r] = new
      /\ \A s \in 1..Len(pending) : s # r => pending'[s] = pending[s]
  BY <1>0, <1>4, <1>6, RewriteFacts
<1>8. TypeOK'
  BY <1>0, <1>1, <1>6, <1>7 DEF TypeOK, At, Step, service
<1>9. JournalInv'
  <2>1. RowOK(new, tested)
    BY <1>2, <1>5 DEF RowOK, Final
  <2> QED
    BY <1>0, <1>1, <1>7, <2>1 DEF JournalInv, RowInv
<1>10. CommandInv'
  BY <1>1, <1>5, <1>6, <1>7 DEF CommandInv, At, Open, Current, Final
<1>11. CredentialInv'
  <2> SUFFICES ASSUME NEW k \in native PROVE InUse(k)' \/ Listed(k)' \/ Awaited(k)'
    BY <1>1 DEF CredentialInv
  <2>1. CASE InUse(k)
    BY <1>1, <2>1 DEF InUse
  <2>2. CASE Listed(k)
    BY <1>2, <1>7, <2>2 DEF Listed, Open
  <2>3. CASE Awaited(k)
    <3>1. PICK s \in 1..Len(pending) : Open(s) /\ ~Final(pending[s]) /\ pending[s].credential = k
      BY <2>3 DEF Awaited
    <3>2. CASE s # r
      BY <1>7, <3>1, <3>2 DEF Awaited, Open
    <3>3. CASE s = r /\ k \in Unused(pending[r])
      BY <1>5, <1>7, <3>3 DEF Listed, Open
    <3>4. CASE s = r /\ k \notin Unused(pending[r])
      <4>1. pending[r].connection # None /\ k = Credential(pending[r].connection)
        BY <3>1, <3>4 DEF Unused
      <4> QED
        BY <1>1, <1>2, <3>1, <3>4, <4>1 DEF InUse, Credential, Pending
    <3> QED
      BY <3>2, <3>3, <3>4
  <2> QED
    BY <1>0, <2>1, <2>2, <2>3 DEF CredentialInv
<1>12. BindingTested'
  BY <1>0, <1>1 DEF BindingTested
<1> QED
  BY <1>8, <1>9, <1>10, <1>11, <1>12 DEF Inv

\* A connection is forgotten: the requests for it are cancelled, and a new one
\* takes over their credentials.
LEMMA ForgetKeeps == ASSUME Inv, NEW c \in Connection, Forget(c) PROVE Inv'
<1>0. TypeOK /\ JournalInv /\ CommandInv /\ CredentialInv /\ BindingTested
  BY DEF Inv
<1>1. /\ UNCHANGED <<native, service, tested, faults>> /\ Len(pending) \in Nat
      /\ Len(pending) < MaxRequests
      /\ \A r \in 1..Len(pending) : pending[r] \in Pending
  BY <1>0, LenProperties, ElementOfSeq DEF Forget, TypeOK
<1> DEFINE detached == [r \in 1..Len(pending) |->
                          IF r \in OpenFor(c) THEN [pending[r] EXCEPT !.phase = "cancelled"]
                          ELSE pending[r]]
           ids == ({Credential(c)} \ {None}) \cup UNION {CredentialsOf(pending[r]) : r \in OpenFor(c)}
           row == [Request("forget", "cleanup_pending", c, None) EXCEPT !.cleanup_ids = ids]
<1>2. /\ pending' = Append(detached, row) /\ binding' = [binding EXCEPT ![c] = None]
      /\ command' = [at |-> "delete", request |-> Len(pending) + 1]
  BY DEF Forget
<1>3. ids \in SUBSET Requests
  <2>1. Credential(c) \in Requests \cup {None}
    BY <1>0 DEF TypeOK, Credential, Binding
  <2>2. \A r \in OpenFor(c) : CredentialsOf(pending[r]) \subseteq Requests
    BY <1>1 DEF OpenFor, CredentialsOf, Pending
  <2> QED
    BY <2>1, <2>2
<1>4. /\ row \in Pending /\ row.kind = "forget" /\ row.phase = "cleanup_pending"
      /\ row.connection = c /\ row.cleanup_ids = ids
  BY <1>3 DEF Request, Pending, Kind, Phase
<1>5. /\ detached \in Seq(Pending) /\ Len(detached) = Len(pending)
      /\ \A r \in 1..Len(pending) :
            IF r \in OpenFor(c) THEN detached[r] = [pending[r] EXCEPT !.phase = "cancelled"]
            ELSE detached[r] = pending[r]
  <2>1. \A r \in 1..Len(pending) : [pending[r] EXCEPT !.phase = "cancelled"] \in Pending
    BY <1>1 DEF Pending, Phase
  <2>2. detached \in [1..Len(pending) -> Pending]
    BY <1>1, <2>1
  <2> QED
    BY <1>1, <2>2, SeqDef
<1>6. /\ \A k \in ids : k # None
      /\ Credential(c) # None => Credential(c) \in ids
      /\ \A r \in OpenFor(c) : CredentialsOf(pending[r]) \subseteq ids
  BY DEF CredentialsOf
<1> HIDE DEF detached, row, ids
<1>7. /\ pending' \in Seq(Pending) /\ Len(pending') = Len(pending) + 1
      /\ Len(pending) + 1 \in Requests
      /\ pending'[Len(pending) + 1] = row
      /\ \A r \in 1..Len(pending) : pending'[r] = detached[r]
  BY <1>1, <1>2, <1>4, <1>5, AppendProperties, BoundAssumption DEF Requests
<1>8. /\ binding' \in [Connection -> Binding \cup {None}] /\ binding'[c] = None
      /\ \A d \in Connection : d # c => binding'[d] = binding[d]
  BY <1>0, <1>2 DEF TypeOK
<1>9. TypeOK'
  BY <1>0, <1>1, <1>2, <1>7, <1>8, BoundAssumption DEF TypeOK, At, Step, Requests, service
<1>10. JournalInv'
  <2>1. RowOK(row, tested)
    BY <1>4, ConnectionAssumption DEF RowOK, Final
  <2>2. \A r \in 1..Len(pending) : RowOK(detached[r], tested)
    <3> SUFFICES ASSUME NEW r \in 1..Len(pending) PROVE RowOK(detached[r], tested)
      OBVIOUS
    <3>1. RowOK(pending[r], tested) /\ pending[r] \in Pending
      BY <1>0, <1>1 DEF JournalInv, RowInv
    <3>2. CASE r \in OpenFor(c)
      BY <1>5, <3>1, <3>2 DEF RowOK, Pending
    <3>3. CASE r \notin OpenFor(c)
      BY <1>5, <3>1, <3>3
    <3> QED
      BY <3>2, <3>3
  <2> QED
    BY <1>1, <1>7, <2>1, <2>2 DEF JournalInv, RowInv
<1>11. CommandInv'
  BY <1>1, <1>2, <1>4, <1>7 DEF CommandInv, At, Open, Current, Final
<1>12. CredentialInv'
  <2> SUFFICES ASSUME NEW k \in native PROVE InUse(k)' \/ Listed(k)' \/ Awaited(k)'
    BY <1>1 DEF CredentialInv
  <2>0. k # None
    BY <1>0, ConnectionAssumption DEF TypeOK, Requests
  <2>1. k \in ids => Listed(k)'
    BY <1>1, <1>4, <1>7 DEF Listed, Open
  <2>2. CASE InUse(k)
    <3>1. PICK d \in Connection : binding[d] # None /\ binding[d].credential = k
      BY <2>2 DEF InUse
    <3>2. CASE d # c
      BY <1>8, <3>1, <3>2 DEF InUse
    <3>3. CASE d = c
      BY <1>6, <2>0, <2>1, <3>1, <3>3 DEF Credential
    <3> QED
      BY <3>2, <3>3
  <2>3. ASSUME NEW r \in 1..Len(pending), Open(r), r \in OpenFor(c), k \in CredentialsOf(pending[r])
        PROVE  Listed(k)'
    BY <1>6, <2>1, <2>3
  <2>4. CASE Listed(k)
    <3>1. PICK r \in 1..Len(pending) : Open(r) /\ k \in pending[r].cleanup_ids
      BY <2>4 DEF Listed
    <3>2. CASE r \in OpenFor(c)
      BY <2>0, <2>3, <3>1, <3>2 DEF CredentialsOf
    <3>3. CASE r \notin OpenFor(c)
      <4>1. r \in 1..Len(pending') /\ pending'[r] = pending[r]
        <5>1. detached[r] = pending[r]
          BY <1>5, <3>3
        <5>2. pending'[r] = detached[r]
          BY <1>7
        <5> QED
          BY <1>1, <1>7, <5>1, <5>2
      <4> QED
        BY <3>1, <4>1 DEF Listed, Open
    <3> QED
      BY <3>2, <3>3
  <2>5. CASE Awaited(k)
    <3>1. PICK r \in 1..Len(pending) : Open(r) /\ ~Final(pending[r]) /\ pending[r].credential = k
      BY <2>5 DEF Awaited
    <3>2. CASE r \in OpenFor(c)
      BY <2>0, <2>3, <3>1, <3>2 DEF CredentialsOf
    <3>3. CASE r \notin OpenFor(c)
      <4>1. r \in 1..Len(pending') /\ pending'[r] = pending[r]
        <5>1. detached[r] = pending[r]
          BY <1>5, <3>3
        <5>2. pending'[r] = detached[r]
          BY <1>7
        <5> QED
          BY <1>1, <1>7, <5>1, <5>2
      <4> QED
        BY <3>1, <4>1 DEF Awaited, Open
    <3> QED
      BY <3>2, <3>3
  <2> QED
    BY <1>0, <2>2, <2>4, <2>5 DEF CredentialInv
<1>13. BindingTested'
  BY <1>0, <1>1, <1>8 DEF BindingTested
<1> QED
  BY <1>9, <1>10, <1>11, <1>12, <1>13 DEF Inv

-----------------------------------------------------------------------------
(* The administrators *)

\* Grants change and connections are disabled while commands run.
LEMMA AdministratorKeeps ==
    ASSUME Inv, NEW c \in Connection, ChangeGrant(c) \/ Disable(c)
    PROVE  Inv'
<1>0. TypeOK /\ JournalInv /\ CommandInv /\ CredentialInv /\ BindingTested
  BY DEF Inv
<1>1. UNCHANGED <<local, created, accepted, remote, command, tested, faults>>
  BY DEF ChangeGrant, Disable
<1>2. /\ grant' \in [Connection -> 0..MaxGrants] /\ disabled' \subseteq Connection
      /\ \A d \in Connection : grant[d] # 0 => grant'[d] # 0
  BY <1>0, BoundAssumption DEF TypeOK, ChangeGrant, Disable
<1>3. TypeOK'
  BY <1>0, <1>1, <1>2 DEF TypeOK, At, local
<1>4. CommandInv'
  <2>1. ~At("idle") => Current.connection \in Connection \cup {None}
    BY <1>0, CurrentType DEF Pending
  <2> QED
    BY <1>0, <1>1, <1>2, <2>1 DEF CommandInv, At, Open, Current, local
<1>5. JournalInv' /\ CredentialInv' /\ BindingTested'
  BY <1>0, <1>1 DEF JournalInv, RowInv, CredentialInv, InUse, Listed, Awaited, Open,
                    BindingTested, local
<1> QED
  BY <1>3, <1>4, <1>5 DEF Inv

-----------------------------------------------------------------------------
(* The theorems *)

\* Nothing is onboarded at first.
LEMMA InitInv == Init => Inv
<1> SUFFICES ASSUME Init PROVE Inv
  OBVIOUS
<1>1. pending \in Seq(Pending) /\ Len(pending) = 0
  BY EmptySeq DEF Init
<1>2. TypeOK
  BY <1>1, BoundAssumption DEF Init, TypeOK, Step, At
<1> QED
  BY <1>1, <1>2 DEF Init, Inv, JournalInv, CommandInv, At, CredentialInv, BindingTested

\* Every step of a command, of the administrators or of a fault keeps the invariant.
LEMMA NextKeeps == Inv /\ [Next]_vars => Inv'
<1> SUFFICES ASSUME Inv, [Next]_vars PROVE Inv'
  OBVIOUS
<1>1. CASE Add
  BY <1>1, BeginKeeps
<1>2. ASSUME NEW c \in Connection,
             Authorize(c) \/ Test(c) \/ Forget(c) \/ ChangeGrant(c) \/ Disable(c)
      PROVE  Inv'
  BY <1>2, BeginKeeps, ForgetKeeps, AdministratorKeeps
<1>3. ASSUME NEW r \in 1..Len(pending), Resume(r) \/ Cancel(r) PROVE Inv'
  BY <1>3, ResumeKeeps, CancelKeeps
<1>4. CASE CommandStep
  BY <1>4, SaveCredentialKeeps, MarkAuthorizedKeeps, LoadTokenKeeps, PostKeeps, RegisterKeeps,
     CheckAuthorizedKeeps, TestCapabilitiesKeeps, PutBindingKeeps, ConfirmKeeps, FinishKeeps,
     DeleteKeeps, DeletedKeeps, NotifyKeeps, WithdrawKeeps DEF CommandStep
<1>5. CASE Die
  BY <1>5, DieKeeps
<1>6. CASE UNCHANGED vars
  BY <1>6 DEF Inv, TypeOK, JournalInv, RowInv, CommandInv, CredentialInv, InUse, Listed,
              Awaited, BindingTested, At, Open, Current, vars, local, service
<1> QED
  BY <1>1, <1>2, <1>3, <1>4, <1>5, <1>6 DEF Next

\* The invariant of onboarding holds in every state.
THEOREM Invariant == Spec => []Inv
BY InitInv, NextKeeps, PTL DEF Spec

\* The journal and the bindings have the types of their tables
\* (connection_store.py).
THEOREM TypeCorrect == Spec => []TypeOK
<1>1. Inv => TypeOK
  BY DEF Inv
<1> QED
  BY <1>1, Invariant, PTL

\* Wherever a command dies, a credential in the native store is in use or known to
\* an open request (connections.py; connection_store.py, finish and begin_forget).
THEOREM TraceableCorrect == Spec => []Traceable
<1>1. Inv => Traceable
  <2> SUFFICES ASSUME Inv, NEW k \in native
               PROVE  \/ \E c \in Connection : binding[c] # None /\ binding[c].credential = k
                      \/ \E r \in 1..Len(pending) : Open(r) /\ k \in CredentialsOf(pending[r])
    BY DEF Traceable
  <2>1. k # None
    BY ConnectionAssumption DEF Inv, TypeOK, Requests
  <2> QED
    BY <2>1 DEF Inv, CredentialInv, InUse, Listed, Awaited, CredentialsOf
<1> QED
  BY <1>1, Invariant, PTL

\* A binding says what was tested with its credential under the grant it names,
\* however often the grant changed and commands died (connections.py, resume).
THEOREM BindingTestedCorrect == Spec => []BindingTested
<1>1. Inv => BindingTested
  BY DEF Inv
<1> QED
  BY <1>1, Invariant, PTL

==============================================================================
