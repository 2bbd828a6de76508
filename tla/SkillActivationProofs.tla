------------------------ MODULE SkillActivationProofs ------------------------
(***************************************************************************)
(* Proofs about SkillActivation for all skills, contents, versions and     *)
(* bounds: types, that directories and the library agree between           *)
(* operations, that no content is destroyed, and that sessions are left    *)
(* undisturbed.                                                            *)
(***************************************************************************)
EXTENDS SkillActivation, TLAPS

(***************************************************************************)
(* The invariant: what is known at each place of a command.                *)
(***************************************************************************)
Places ==
    /\ call.at \in {"packed", "inspected"} => journal = {}
    /\ call.at = "staging" => \A j \in journal : j.target # NoPackage
    /\ call.at = "committing" =>
        \A j \in journal : touched[j.skill] \/ tree[j.skill] = TreeOf(j.target)

\* Every directory but that of the pending operation is what was installed.
Others ==
    \A s \in Skills : (\A j \in journal : j.skill # s) => touched[s] \/ Unmodified(s)

\* A session runs with no operation pending, and with none that could begin.
Quiet ==
    session => /\ journal = {}
               /\ call.at \in {"idle", "packed"}
               /\ \A request \in call.request : request.defer

IInv == TypeOK /\ Places /\ Others /\ Quiet

\* What a skill has installed, wants and activates is a package or none.
LEMMA PackageTypes ==
    ASSUME TypeOK, NEW s \in Skills
    PROVE  /\ Metadata(s) \in Optional
           /\ \A p \in Optional :
                /\ Activated(s, p) \in Optional
                /\ TreeOf(p) \in Trees \cup {Absent}
                /\ p # NoPackage => p.tree \in Trees
BY DEF TypeOK, Metadata, Optional, Packages, Activated, TreeOf

\* A directory that can be read is observed as a package or none.
LEMMA ObservedType ==
    ASSUME TypeOK, NEW s \in Skills, NEW p \in Optional, Readable(s, p)
    PROVE  Observed(s, p) \in Optional
BY DEF TypeOK, Readable, Observed, Optional, Packages

\* A request is well formed, and so is a call that carries it.
LEMMA RequestType ==
    ASSUME NEW s \in Skills, NEW package \in Optional, NEW adopt \in BOOLEAN,
           NEW defer \in BOOLEAN, NEW then \in {"idle", "inspected"}
    PROVE  [skill |-> s, package |-> package, working |-> package,
            adopt |-> adopt, defer |-> defer, then |-> then] \in Request
BY DEF Request

\* The call of a request.
LEMMA CallType ==
    ASSUME NEW r \in Request, NEW at \in Place
    PROVE  /\ [at |-> at, request |-> {r}] \in Call
           /\ [at |-> at, request |-> {r}].at = at
           /\ [at |-> at, request |-> {r}].request = {r}
BY DEF Call

\* The place of a call changes and its request stays, or goes away.
LEMMA CallTypes ==
    ASSUME NEW c \in Call, NEW at \in Place
    PROVE  /\ [c EXCEPT !.at = at] \in Call
           /\ [c EXCEPT !.at = at].at = at
           /\ [c EXCEPT !.at = at].request = c.request
           /\ [at |-> at, request |-> {}] \in Call
           /\ Idle \in Call /\ Idle.at = "idle" /\ Idle.request = {}
           /\ [Idle EXCEPT !.at = at] = [at |-> at, request |-> {}]
BY DEF Call, Idle, Place

\* The invariant holds initially.
LEMMA InitIInv == Init => IInv
<1> SUFFICES ASSUME Init PROVE IInv
  OBVIOUS
<1>1. Idle \in Call /\ Idle.at = "idle" /\ Idle.request = {}
  BY DEF Call, Idle, Place
<1>2. TypeOK
  BY <1>1 DEF Init, TypeOK, Optional, Deferral, RecoveryPlace
<1>3. Places /\ Quiet
  BY <1>1 DEF Init, Places, Quiet
<1>4. Others
  BY DEF Init, Others, Unmodified, Metadata, TreeOf
<1> QED
  BY <1>2, <1>3, <1>4 DEF IInv

----------------------------------------------------------------------------
(***************************************************************************)
(* Types, one action after the other.                                      *)
(***************************************************************************)
\* What is written next to 'installed:' is well typed.
LEMMA WrittenTypes ==
    ASSUME TypeOK, NEW s \in Skills, NEW v \in Values, Written(s, v)
    PROVE  /\ working' \in [Skills -> Optional]
           /\ deferred' \in [Skills -> Deferral]
           /\ missing' \in [Skills -> BOOLEAN]
BY DEF TypeOK, Written, Values

\* The values of an activation are well typed.
LEMMA ValuesType ==
    ASSUME TypeOK, NEW s \in Skills, NEW request \in Request
    PROVE  ValuesOf(s, request) \in Values
BY DEF TypeOK, ValuesOf, Values, Request, Deferral

\* Edits, changes of connections and the end of a session keep the types.
LEMMA EnvironmentType ==
    ASSUME TypeOK, Environment
    PROVE  TypeOK'
<1>1. ASSUME NEW s \in Skills, ConnectionsChange(s) PROVE TypeOK'
  BY <1>1 DEF TypeOK, ConnectionsChange, disk, library
<1>2. ASSUME NEW s \in Skills, NEW t \in Trees \cup {Absent}, Edit(s, t) PROVE TypeOK'
  BY <1>2 DEF TypeOK, Edit, library
<1>3. CASE EndSession
  BY <1>3 DEF TypeOK, EndSession, disk, library, bounds
<1>4. CASE Die
  <2>1. Idle \in Call /\ Idle.at = "idle" /\ Idle.request = {}
    BY DEF Call, Idle, Place
  <2> QED
    BY <1>4, <2>1 DEF TypeOK, Die, library, RecoveryPlace
<1> QED
  BY <1>1, <1>2, <1>3, <1>4 DEF Environment

\* A command starts with a well-formed request, and no operation is pending.
LEMMA PackType ==
    ASSUME TypeOK, NEW s \in Skills, NEW package \in Optional, NEW adopt \in BOOLEAN,
           Pack(s, package, adopt)
    PROVE  TypeOK'
<1>1. PICK defer \in {Deferring, TRUE} :
        call' = [at |-> "packed",
                 request |-> {[skill |-> s, package |-> package, working |-> package,
                               adopt |-> adopt, defer |-> defer, then |-> "idle"]}]
  BY DEF Pack
<1> DEFINE r == [skill |-> s, package |-> package, working |-> package,
                 adopt |-> adopt, defer |-> defer, then |-> "idle"]
<1>2. r \in Request
  BY RequestType DEF TypeOK, Deferring
<1>3. call' = [at |-> "packed", request |-> {r}]
  BY <1>1
<1> HIDE DEF r
<1>4. call' \in Call /\ call'.at = "packed" /\ call'.request = {r}
  BY <1>2, <1>3, CallType DEF Place
<1> QED
  BY <1>2, <1>4 DEF TypeOK, Pack, Commanding, disk, library, RecoveryPlace

\* The owner's commands keep the types.
LEMMA CommandType ==
    ASSUME TypeOK, Command
    PROVE  TypeOK'
<1>1. ASSUME NEW s \in Skills, NEW package \in Packages, Import(s, package) PROVE TypeOK'
  BY <1>1, PackType DEF Import, Optional
<1>2. ASSUME NEW s \in Skills, NEW version \in Versions, ImportProjected(s, version)
      PROVE  TypeOK'
  <2>1. [tree |-> tree[s], version |-> version] \in Optional
    BY <1>2 DEF ImportProjected, Optional, Packages
  <2> QED
    BY <1>2, <2>1, PackType DEF ImportProjected
<1>3. ASSUME NEW s \in Skills, Delete(s) PROVE TypeOK'
  BY <1>3, PackType DEF Delete, Optional
<1>4. ASSUME NEW s \in Skills, Restore(s) PROVE TypeOK'
  <2> DEFINE v == [working |-> working[s], deferred |-> deferred[s],
                   missing |-> working[s] # NoPackage /\ lacking[s]]
             j == [skill |-> s, expected |-> installed[s],
                   target |-> Activated(s, working[s]), values |-> v]
  <2>1. /\ working[s] \in Optional /\ installed[s] \in Optional
        /\ Activated(s, working[s]) \in Optional
        /\ TreeOf(Activated(s, working[s])) \in Trees \cup {Absent}
    BY <1>4, PackageTypes DEF TypeOK, Restore
  <2>2. v \in Values
    BY <2>1 DEF TypeOK, Values
  <2>3. j \in Journal /\ journal' = {j}
    BY <1>4, <2>1, <2>2 DEF Journal, Restore
  <2>4. call' \in Call /\ call'.at = "preserving" /\ call'.request = {}
    BY <1>4 DEF Restore, Call, Idle, Place
  <2> HIDE DEF j
  <2> QED
    BY <1>4, <2>1, <2>3, <2>4 DEF TypeOK, Restore, Commanding, library, RecoveryPlace
<1>5. ASSUME NEW s \in Skills, NEW package \in Optional,
             FromLibrary(s, package) \/ FromPortal(s, package)
      PROVE  TypeOK'
  <2>1. PICK then \in {"idle", "inspected"} : Update(s, package, then)
    BY <1>5 DEF FromLibrary, FromPortal
  <2> DEFINE r == [skill |-> s, package |-> package, working |-> package,
                   adopt |-> FALSE, defer |-> FALSE, then |-> then]
  <2>2. r \in Request
    BY RequestType
  <2>3. call' = [at |-> "packed", request |-> {r}]
    BY <2>1 DEF Update
  <2> HIDE DEF r
  <2>4. call' \in Call /\ call'.at = "packed" /\ call'.request = {r}
    BY <2>2, <2>3, CallType DEF Place
  <2> QED
    BY <1>5, <2>1, <2>2, <2>4 DEF TypeOK, FromLibrary, FromPortal, Update, Commanding, disk,
       library, RecoveryPlace
<1>6. CASE RecoverTarget
  <2>1. call' \in Call /\ call'.at = "preserving" /\ call'.request = {}
    BY <1>6 DEF RecoverTarget, Call, Idle, Place
  <2> QED
    BY <1>6, <2>1 DEF TypeOK, RecoverTarget, Commanding, disk, library, RecoveryPlace
<1>7. CASE EndPass \/ StartSession
  <2>1. call' \in Call /\ call'.at = "idle" /\ call'.request = {}
    BY <1>7 DEF EndPass, StartSession, Call, Idle, Place
  <2> QED
    BY <1>7, <2>1 DEF TypeOK, EndPass, StartSession, disk, library, bounds, RecoveryPlace
<1> QED
  BY <1>1, <1>2, <1>3, <1>4, <1>5, <1>6, <1>7, SkillAssumption DEF Command

\* An activation is deferred, refused, recorded or journaled with its types.
LEMMA ApplyType ==
    ASSUME TypeOK, Apply
    PROVE  TypeOK'
<1>1. PICK request \in call.request :
        \/ Defer(request.skill, request) \/ ApplyRefused(request.skill, request)
        \/ ApplyUnchanged(request.skill, request) \/ ApplyJournaled(request.skill, request)
  BY DEF Apply
<1> DEFINE s == request.skill
<1>2. request \in Request /\ s \in Skills /\ request.package \in Optional
  BY DEF TypeOK, Call, Request
<1>3. Idle \in Call /\ Idle.at = "idle" /\ Idle.request = {}
  BY DEF Call, Idle, Place
<1> HIDE DEF s
<1>4. CASE Defer(s, request)
  BY <1>2, <1>3, <1>4 DEF TypeOK, Defer, Apply, Request, Deferral, disk, bounds, RecoveryPlace
<1>5. CASE ApplyRefused(s, request)
  BY <1>3, <1>5 DEF TypeOK, ApplyRefused, Apply, disk, library, bounds, RecoveryPlace
<1>6. CASE ApplyUnchanged(s, request)
  <2>1. working' \in [Skills -> Optional] /\ deferred' \in [Skills -> Deferral]
        /\ missing' \in [Skills -> BOOLEAN]
    BY <1>2, <1>6, ValuesType, WrittenTypes DEF ApplyUnchanged
  <2>2. /\ call' \in Call /\ call'.at \in {"idle", "inspected"} /\ call'.request = {}
    BY <1>2, <1>6 DEF ApplyUnchanged, Call, Request, Place
  <2> QED
    BY <1>6, <2>1, <2>2 DEF TypeOK, ApplyUnchanged, Apply, disk, bounds, RecoveryPlace
<1>7. CASE ApplyJournaled(s, request)
  <2> DEFINE j == [skill |-> s, expected |-> Observed(s, Metadata(s)),
                   target |-> Activated(s, request.package), values |-> ValuesOf(s, request)]
  <2>1. /\ Activated(s, request.package) \in Optional
        /\ TreeOf(Activated(s, request.package)) \in Trees \cup {Absent}
    BY <1>2, PackageTypes
  <2>2. Observed(s, Metadata(s)) \in Optional
    BY <1>2, <1>7, PackageTypes, ObservedType DEF ApplyJournaled, Refused
  <2>3. j \in Journal
    BY <1>2, <2>1, <2>2, ValuesType DEF Journal
  <2>4. journal' = {j}
    BY <1>7 DEF ApplyJournaled
  <2> HIDE DEF j
  <2>5. call' \in Call /\ call'.at = "recovering" /\ call'.request = call.request
    BY <1>7 DEF TypeOK, ApplyJournaled, Call, Place
  <2> QED
    BY <1>7, <2>1, <2>3, <2>4, <2>5 DEF TypeOK, ApplyJournaled, Apply, library, bounds,
       RecoveryPlace
<1> QED
  BY <1>1, <1>4, <1>5, <1>6, <1>7 DEF s

\* The pending operation.
LEMMA JournalType ==
    ASSUME TypeOK, NEW j \in journal
    PROVE  /\ journal = {j} /\ j \in Journal /\ j.skill \in Skills
           /\ j.expected \in Optional /\ j.target \in Optional /\ j.values \in Values
           /\ TreeOf(j.target) \in Trees \cup {Absent}
           /\ j.target # NoPackage => j.target.tree \in Trees /\ TreeOf(j.target) = j.target.tree
<1>1. journal = {j} /\ j \in Journal
  BY DEF TypeOK
<1>2. /\ j.skill \in Skills /\ j.expected \in Optional
      /\ j.target \in Optional /\ j.values \in Values
  BY <1>1 DEF Journal
<1>3. TreeOf(j.target) \in Trees \cup {Absent} /\ (j.target # NoPackage => j.target.tree \in Trees)
  BY <1>2, PackageTypes
<1> QED
  BY <1>1, <1>2, <1>3 DEF TreeOf

\* The place to which a step of a recovery takes the command.
LEMMA PlaceTypes ==
    ASSUME TypeOK, NEW at \in Place, call' = [call EXCEPT !.at = at]
    PROVE  call' \in Call /\ call'.at = at /\ call'.request = call.request
BY CallTypes DEF TypeOK

\* A recovery that fails leaves its types.
LEMMA FailType ==
    ASSUME TypeOK, Fail, UNCHANGED <<lacking, session, bounds>>
    PROVE  TypeOK'
<1>1. call' \in Call /\ call'.at = "idle" /\ call'.request = {}
  BY DEF Fail, Call, Idle, Place
<1> QED
  BY <1>1 DEF TypeOK, Fail, disk, library, bounds, RecoveryPlace

\* A recovery decides by what it finds.
LEMMA LookType ==
    ASSUME TypeOK, Look
    PROVE  TypeOK'
<1>1. PICK j \in journal : FoundTarget(j) \/ FoundNothing(j) \/ FoundExpected(j) \/ FoundConflict(j)
  BY DEF Look
<1>2. j.skill \in Skills
  BY JournalType
<1>3. CASE FoundTarget(j)
  <2>1. call' \in Call /\ call'.at = "committing" /\ call'.request = call.request
    BY <1>3, PlaceTypes DEF FoundTarget, Place
  <2> QED
    BY <1>1, <1>3, <2>1 DEF TypeOK, FoundTarget, Look, library, bounds
<1>4. CASE FoundNothing(j)
  <2>1. call' \in Call /\ call'.at \in {"committing", "staging"} /\ call'.request = call.request
    BY <1>4, PlaceTypes DEF FoundNothing, Place
  <2>2. touched' \in [Skills -> BOOLEAN]
    BY <1>4 DEF FoundNothing, TypeOK
  <2> QED
    BY <1>1, <1>4, <2>1, <2>2 DEF TypeOK, FoundNothing, Look, library, bounds
<1>5. CASE FoundExpected(j)
  <2>1. call' \in Call /\ call'.at = "removing" /\ call'.request = call.request
    BY <1>5, PlaceTypes DEF FoundExpected, Place
  <2> QED
    BY <1>1, <1>5, <2>1 DEF TypeOK, FoundExpected, Look, disk, library, bounds
<1>6. CASE FoundConflict(j)
  BY <1>6, FailType DEF FoundConflict, Look
<1> QED
  BY <1>1, <1>3, <1>4, <1>5, <1>6

\* The two renames and the commit.
LEMMA RenameType ==
    ASSUME TypeOK, Places, MoveOut \/ MoveIn \/ Commit
    PROVE  TypeOK'
<1>1. CASE MoveOut
  <2>1. PICK j \in journal :
          IF tree[j.skill] = Absent THEN Fail
          ELSE /\ Removed(j.skill)
               /\ touched' = [touched EXCEPT ![j.skill] = @ /\ j.target # NoPackage]
               /\ call' = [call EXCEPT !.at = IF j.target = NoPackage THEN "committing"
                                              ELSE "staging"]
               /\ UNCHANGED <<kept, staged, library, journal>>
    BY <1>1 DEF MoveOut
  <2>2. j.skill \in Skills
    BY JournalType
  <2>3. CASE tree[j.skill] = Absent
    BY <1>1, <2>1, <2>3, FailType DEF MoveOut
  <2>4. CASE tree[j.skill] # Absent
    <3>1. call' \in Call /\ call'.at \in {"committing", "staging"} /\ call'.request = call.request
      BY <2>1, <2>4, PlaceTypes DEF Place
    <3>2. /\ tree' \in [Skills -> Trees \cup {Absent}] /\ backup' \in Trees \cup {Absent}
          /\ touched' \in [Skills -> BOOLEAN]
      BY <2>1, <2>2, <2>4 DEF TypeOK, Removed
    <3> QED
      BY <1>1, <2>1, <2>4, <3>1, <3>2 DEF TypeOK, MoveOut, library, bounds
  <2> QED
    BY <2>3, <2>4
<1>2. CASE MoveIn
  <2>1. PICK j \in journal :
          IF tree[j.skill] # Absent \/ ~StagedComplete(j) THEN Fail
          ELSE /\ tree' = [tree EXCEPT ![j.skill] = staged]
               /\ staged' = Absent
               /\ touched' = [touched EXCEPT ![j.skill] = FALSE]
               /\ call' = [call EXCEPT !.at = "committing"]
               /\ UNCHANGED <<kept, backup, library, journal>>
    BY <1>2 DEF MoveIn
  <2>2. j.skill \in Skills /\ j.target.tree \in Trees
    BY <1>2, JournalType DEF Places, MoveIn
  <2>3. CASE tree[j.skill] # Absent \/ ~StagedComplete(j)
    BY <1>2, <2>1, <2>3, FailType DEF MoveIn
  <2>4. CASE ~(tree[j.skill] # Absent \/ ~StagedComplete(j))
    <3>1. call' \in Call /\ call'.at = "committing" /\ call'.request = call.request
      BY <2>1, <2>4, PlaceTypes DEF Place
    <3>2. tree' \in [Skills -> Trees \cup {Absent}] /\ touched' \in [Skills -> BOOLEAN]
      BY <2>1, <2>2, <2>4 DEF TypeOK, StagedComplete
    <3> QED
      BY <1>2, <2>1, <2>4, <3>1, <3>2 DEF TypeOK, MoveIn, library, bounds
  <2> QED
    BY <2>3, <2>4
<1>3. CASE Commit
  <2>1. PICK j \in journal :
          /\ installed' = [installed EXCEPT ![j.skill] = j.target]
          /\ Written(j.skill, j.values)
          /\ kept' = [kept EXCEPT ![j.skill] = @ \cup ({backup} \ {Absent})]
    BY <1>3 DEF Commit
  <2>2. j.skill \in Skills /\ j.target \in Optional /\ j.values \in Values
    BY JournalType
  <2>3. /\ working' \in [Skills -> Optional] /\ deferred' \in [Skills -> Deferral]
        /\ missing' \in [Skills -> BOOLEAN]
    BY <2>1, <2>2, WrittenTypes
  <2>4. installed' \in [Skills -> Optional \cup {Unmanaged}] /\ kept' \in [Skills -> SUBSET Trees]
    BY <2>1, <2>2 DEF TypeOK
  <2>5. call' \in Call /\ call'.at \in {"idle", "inspected"} /\ call'.request = {}
    BY <1>3 DEF Commit, Return, Call, Place
  <2> QED
    BY <1>3, <2>3, <2>4, <2>5 DEF TypeOK, Commit, bounds, RecoveryPlace
<1> QED
  BY <1>1, <1>2, <1>3

\* The recovery that the owner chose, and the start of a recovery.
LEMMA PreserveType ==
    ASSUME TypeOK, Recover \/ PreserveRuntime \/ Restage
    PROVE  TypeOK'
<1>1. CASE Recover
  <2>1. call' \in Call /\ call'.at = "recovering" /\ call'.request = {}
    BY <1>1 DEF Recover, Call, Idle, Place
  <2> QED
    BY <1>1, <2>1 DEF TypeOK, Recover, disk, library, bounds
<1>2. CASE PreserveRuntime
  <2>1. PICK j \in journal :
          IF tree[j.skill] = Absent THEN UNCHANGED <<tree, kept, backup>>
          ELSE /\ tree' = [tree EXCEPT ![j.skill] = Absent]
               /\ IF backup = Absent
                  THEN backup' = tree[j.skill] /\ UNCHANGED kept
                  ELSE kept' = [kept EXCEPT ![j.skill] = @ \cup {tree[j.skill]}] /\ UNCHANGED backup
    BY <1>2 DEF PreserveRuntime
  <2>2. j.skill \in Skills
    BY JournalType
  <2>3. /\ tree' \in [Skills -> Trees \cup {Absent}] /\ kept' \in [Skills -> SUBSET Trees]
        /\ backup' \in Trees \cup {Absent}
    BY <2>1, <2>2 DEF TypeOK
  <2>4. call' \in Call /\ call'.at = "restaging" /\ call'.request = call.request
    BY <1>2, PlaceTypes DEF PreserveRuntime, Place
  <2> QED
    BY <1>2, <2>1, <2>3, <2>4 DEF TypeOK, PreserveRuntime, library, bounds
<1>3. CASE Restage
  <2>1. staged' \in Trees \cup {Absent}
    BY <1>3, JournalType DEF Restage
  <2>2. call' \in Call /\ call'.at = "recovering" /\ call'.request = call.request
    BY <1>3, PlaceTypes DEF Restage, Place
  <2> QED
    BY <1>3, <2>1, <2>2 DEF TypeOK, Restage, library, bounds
<1> QED
  BY <1>1, <1>2, <1>3

\* The boundary of a session.
LEMMA SessionType ==
    ASSUME TypeOK, Inspect \/ \E s \in Skills : ActivateDeferred(s) \/ Refresh(s)
    PROVE  TypeOK'
<1>1. CASE Inspect
  <2>1. call' \in Call /\ call'.at = "inspected" /\ call'.request = {}
    BY <1>1 DEF Inspect, Call, Idle, Place
  <2> QED
    BY <1>1, <2>1 DEF TypeOK, Inspect, disk, library, bounds, RecoveryPlace
<1>2. ASSUME NEW s \in Skills, ActivateDeferred(s) PROVE TypeOK'
  <2> DEFINE r == [skill |-> s, package |-> working[s], working |-> working[s],
                   adopt |-> deferred[s] = "adopt", defer |-> FALSE, then |-> "idle"]
  <2>1. working[s] \in Optional /\ (deferred[s] = "adopt") \in BOOLEAN
    BY DEF TypeOK
  <2>2. r \in Request
    BY <2>1, RequestType
  <2>3. call' = [at |-> "packed", request |-> {r}]
    BY <1>2 DEF ActivateDeferred
  <2> HIDE DEF r
  <2>4. call' \in Call /\ call'.at = "packed" /\ call'.request = {r}
    BY <2>2, <2>3, CallType DEF Place
  <2> QED
    BY <1>2, <2>2, <2>4 DEF TypeOK, ActivateDeferred, disk, library, bounds, RecoveryPlace
<1>3. ASSUME NEW s \in Skills, Refresh(s) PROVE TypeOK'
  <2> DEFINE r == [skill |-> s, package |-> working[s], working |-> working[s],
                   adopt |-> FALSE, defer |-> FALSE, then |-> "inspected"]
  <2>1. r \in Request
    BY RequestType DEF TypeOK
  <2>2. call' = [at |-> "packed", request |-> {r}]
    BY <1>3 DEF Refresh, Update
  <2> HIDE DEF r
  <2>3. call' \in Call /\ call'.at = "packed" /\ call'.request = {r}
    BY <2>1, <2>2, CallType DEF Place
  <2> QED
    BY <1>3, <2>1, <2>3 DEF TypeOK, Refresh, Update, disk, library, bounds, RecoveryPlace
<1> QED
  BY <1>1, <1>2, <1>3

\* Every step keeps the types.
LEMMA TypeStep ==
    ASSUME TypeOK, Places, [Next]_vars
    PROVE  TypeOK'
<1>1. CASE Boundary
  BY <1>1, ApplyType, LookType, RenameType, PreserveType, SessionType DEF Boundary, Recovery
<1>2. CASE UNCHANGED vars
  BY <1>2 DEF TypeOK, vars, disk, library, bounds
<1> QED
  BY <1>1, <1>2, EnvironmentType, CommandType DEF Next

----------------------------------------------------------------------------
(***************************************************************************)
(* What is known at each place.  Most steps leave directories, 'installed:'*)
(* and the journal alone, and do not enter a place of a recovery.          *)
(***************************************************************************)
Aside ==
    /\ UNCHANGED <<tree, touched, installed, journal>>
    /\ call'.at \in {"idle", "packed", "inspected"}
    /\ call'.at \in {"packed", "inspected"} => journal = {}

\* Such a step keeps what is known of directories and places.
LEMMA AsideStep ==
    ASSUME Places, Others, Aside
    PROVE  Places' /\ Others'
<1>1. Places'
  BY DEF Places, Aside
<1>2. \A s \in Skills : Unmodified(s)' = Unmodified(s)
  BY DEF Unmodified, Metadata, Aside
<1> QED
  BY <1>1, <1>2 DEF Others, Aside

\* Commands, deferrals and the boundaries of a session keep it too.
LEMMA CommandStep ==
    ASSUME IInv, \/ Inspect \/ \E s \in Skills : ActivateDeferred(s) \/ Refresh(s)
                 \/ Command
    PROVE  Places' /\ Others' /\ Quiet'
<1>1. ASSUME NEW s \in Skills, NEW package, NEW adopt, Pack(s, package, adopt)
      PROVE  Places' /\ Others' /\ Quiet'
  <2>1. Aside
    BY <1>1 DEF Aside, Pack, disk, library
  <2>2. PICK defer \in {session, TRUE} :
          call' = [at |-> "packed",
                   request |-> {[skill |-> s, package |-> package, working |-> package,
                                 adopt |-> adopt, defer |-> defer, then |-> "idle"]}]
    BY <1>1 DEF Pack, Deferring
  <2> DEFINE r == [skill |-> s, package |-> package, working |-> package,
                   adopt |-> adopt, defer |-> defer, then |-> "idle"]
  <2>3. call'.at = "packed" /\ call'.request = {r} /\ journal' = {}
    BY <1>1, <2>2 DEF Pack
  <2>4. r.defer = defer /\ defer \in {session, TRUE} /\ session' = session
    BY <1>1, <2>2 DEF Pack
  <2> HIDE DEF r
  <2>5. Quiet'
    <3> SUFFICES ASSUME session' PROVE r.defer
      BY <2>3 DEF Quiet
    <3> QED
      BY <2>4, Zenon
  <2> QED
    BY <2>1, <2>5, AsideStep DEF IInv
<1>2. ASSUME NEW s \in Skills, NEW package,
             Refresh(s) \/ FromLibrary(s, package) \/ FromPortal(s, package)
      PROVE  Places' /\ Others' /\ Quiet'
  <2>1. UNCHANGED <<disk, library, journal, session>> /\ call'.at = "packed"
    BY <1>2 DEF Refresh, FromLibrary, FromPortal, Update
  <2>2. Aside
    BY <1>2, <2>1 DEF Aside, Refresh, FromLibrary, FromPortal, disk, library, IInv, Places
  <2>3. Quiet'
    BY <1>2, <2>1 DEF Quiet, Refresh, FromLibrary, FromPortal, IInv
  <2> QED
    BY <2>2, <2>3, AsideStep DEF IInv
<1>3. ASSUME NEW s \in Skills, ActivateDeferred(s) PROVE Places' /\ Others' /\ Quiet'
  <2>1. Aside
    BY <1>3 DEF Aside, ActivateDeferred, disk, library
  <2>2. Quiet'
    BY <1>3 DEF Quiet, ActivateDeferred
  <2> QED
    BY <2>1, <2>2, AsideStep DEF IInv
<1>4. CASE Inspect \/ EndPass \/ StartSession
  <2>1. Aside
    BY <1>4 DEF Aside, Inspect, EndPass, StartSession, Idle, disk, library
  <2>2. call'.at = "idle" \/ ~session'
    BY <1>4 DEF Inspect, EndPass, StartSession, Idle
  <2>3. call'.request = {} /\ call'.at \in {"idle", "inspected"}
    BY <1>4 DEF Inspect, EndPass, StartSession, Idle
  <2>4. journal' = {}
    BY <1>4 DEF IInv, Places, Inspect, EndPass, StartSession
  <2>5. Quiet'
    BY <2>2, <2>3, <2>4 DEF Quiet
  <2> QED
    BY <2>1, <2>5, AsideStep DEF IInv
<1>5. CASE RecoverTarget
  <2>1. call'.at = "preserving" /\ ~session' /\ UNCHANGED <<tree, touched, installed, journal>>
    BY <1>5 DEF RecoverTarget, Idle, disk, library
  <2>2. Others'
    BY <2>1 DEF IInv, Others, Unmodified, Metadata
  <2> QED
    BY <2>1, <2>2 DEF Places, Quiet
<1>6. ASSUME NEW s \in Skills, Restore(s) PROVE Places' /\ Others' /\ Quiet'
  <2>1. call'.at = "preserving" /\ ~session' /\ UNCHANGED <<tree, touched, installed>>
    BY <1>6 DEF TypeOK, IInv, Restore, Idle, library
  <2>2. journal = {}
    BY <1>6 DEF Restore
  <2>3. Others'
    BY <2>1, <2>2 DEF IInv, Others, Unmodified, Metadata
  <2> QED
    BY <2>1, <2>3 DEF Places, Quiet
<1> QED
  BY <1>1, <1>2, <1>3, <1>4, <1>5, <1>6, SkillAssumption
     DEF Command, Import, ImportProjected, Delete

\* The world around the companion keeps it.
LEMMA EnvironmentStep ==
    ASSUME IInv, Environment
    PROVE  Places' /\ Others' /\ Quiet'
<1>1. ASSUME NEW s \in Skills, ConnectionsChange(s) PROVE Places' /\ Others' /\ Quiet'
  <2>1. UNCHANGED <<tree, touched, installed, journal, call, session>>
    BY <1>1 DEF ConnectionsChange, disk, library
  <2> QED
    BY <2>1 DEF IInv, Places, Others, Quiet, Unmodified, Metadata
<1>2. ASSUME NEW s \in Skills, NEW t \in Trees \cup {Absent}, Edit(s, t)
      PROVE  Places' /\ Others' /\ Quiet'
  <2>1. /\ UNCHANGED <<installed, journal, call, session>>
        /\ touched'[s] = TRUE
        /\ \A other \in Skills \ {s} : tree'[other] = tree[other] /\ touched'[other] = touched[other]
    BY <1>2 DEF IInv, TypeOK, Edit, library
  <2>2. \A j \in journal : j.skill \in Skills
    BY JournalType DEF IInv
  <2>3. Places'
    BY <2>1, <2>2 DEF IInv, Places
  <2>4. Others'
    BY <2>1 DEF IInv, Others, Unmodified, Metadata
  <2>5. Quiet'
    BY <2>1 DEF IInv, Quiet
  <2> QED
    BY <2>3, <2>4, <2>5
<1>3. CASE EndSession
  <2>1. UNCHANGED <<tree, touched, installed, journal, call>> /\ ~session'
    BY <1>3 DEF EndSession, disk, library
  <2> QED
    BY <2>1 DEF IInv, Places, Others, Quiet, Unmodified, Metadata
<1>4. CASE Die
  <2>1. /\ UNCHANGED <<tree, touched, installed, journal, session>>
        /\ call'.at = "idle" /\ call'.request = {}
    BY <1>4 DEF Die, Idle, library
  <2>2. Others'
    BY <2>1 DEF IInv, Others, Unmodified, Metadata
  <2> QED
    BY <2>1, <2>2 DEF IInv, Places, Quiet
<1> QED
  BY <1>1, <1>2, <1>3, <1>4 DEF Environment

\* An activation keeps it: it begins no operation in a session.
LEMMA ApplyStep ==
    ASSUME IInv, Apply
    PROVE  Places' /\ Others' /\ Quiet'
<1>1. PICK request \in call.request :
        \/ Defer(request.skill, request) \/ ApplyRefused(request.skill, request)
        \/ ApplyUnchanged(request.skill, request) \/ ApplyJournaled(request.skill, request)
  BY DEF Apply
<1>2. /\ call.at = "packed" /\ journal = {} /\ session' = session
      /\ session => request.defer
  BY DEF Apply, IInv, Places, Quiet
<1>3. request.then \in {"idle", "inspected"}
  BY DEF IInv, TypeOK, Call, Request
<1>4. CASE Defer(request.skill, request) \/ ApplyRefused(request.skill, request)
  <2>1. Aside /\ call'.at = "idle" /\ call'.request = {}
    BY <1>4 DEF Aside, Defer, ApplyRefused, Idle, disk, library
  <2> QED
    BY <1>2, <2>1, AsideStep DEF IInv, Quiet, Aside
<1>5. CASE ApplyUnchanged(request.skill, request)
  <2>1. Aside /\ ~session
    BY <1>2, <1>3, <1>5 DEF Aside, ApplyUnchanged, disk
  <2> QED
    BY <1>2, <2>1, AsideStep DEF IInv, Quiet
<1>6. CASE ApplyJournaled(request.skill, request)
  <2>1. /\ UNCHANGED <<tree, touched, installed>> /\ call'.at = "recovering" /\ ~session'
    BY <1>2, <1>6, CallTypes DEF ApplyJournaled, library, IInv, TypeOK, Place
  <2>2. Others'
    BY <1>2, <2>1 DEF IInv, Others, Unmodified, Metadata
  <2> QED
    BY <2>1, <2>2 DEF Places, Quiet
<1> QED
  BY <1>1, <1>4, <1>5, <1>6

(***************************************************************************)
(* A step of a recovery changes the directory of the pending operation     *)
(* only, outside of a session, until the commit.                           *)
(***************************************************************************)
Inside(j) ==
    /\ journal = {j} /\ journal' = {j} /\ ~session /\ session' = session
    /\ installed' = installed
    /\ \A s \in Skills \ {j.skill} : tree'[s] = tree[s] /\ touched'[s] = touched[s]
    /\ call'.at \in {"idle"} \cup RecoveryPlace
    /\ call'.at = "staging" => j.target # NoPackage
    /\ call'.at = "committing" => touched'[j.skill] \/ tree'[j.skill] = TreeOf(j.target)

\* Such a step keeps what is known of directories and places.
LEMMA InsideStep ==
    ASSUME IInv, NEW j, Inside(j)
    PROVE  Places' /\ Others' /\ Quiet'
<1>1. Places' /\ Quiet'
  BY DEF Inside, Places, Quiet, RecoveryPlace
<1>2. Others'
  <2> SUFFICES ASSUME NEW s \in Skills, s # j.skill
               PROVE  touched'[s] \/ Unmodified(s)'
    BY DEF Inside, Others
  <2>1. touched[s] \/ Unmodified(s)
    BY DEF Inside, IInv, Others
  <2> QED
    BY <2>1 DEF Inside, Unmodified, Metadata
<1> QED
  BY <1>1, <1>2

\* In a recovery there is one pending operation, and no session.
LEMMA Recovering ==
    ASSUME IInv, NEW j \in journal
    PROVE  journal = {j} /\ j.skill \in Skills /\ ~session
BY JournalType DEF IInv, Quiet

\* A recovery that fails ends.
LEMMA FailStep ==
    ASSUME IInv, NEW j \in journal, Fail, UNCHANGED <<lacking, session, bounds>>
    PROVE  Inside(j)
BY Recovering DEF Fail, Inside, Idle, disk, library

\* Each step of a recovery before the commit changes its own directory only.
LEMMA RecoveryStep ==
    ASSUME IInv, Recover \/ Look \/ MoveOut \/ MoveIn \/ PreserveRuntime \/ Restage
    PROVE  \E j \in journal : Inside(j)
<1>0. call \in Call
  BY DEF IInv, TypeOK
<1>1. CASE Recover
  <2>1. PICK j \in journal : TRUE
    BY <1>1 DEF Recover
  <2>2. call'.at = "recovering"
    BY <1>1 DEF Recover, Idle
  <2> QED
    BY <1>1, <2>1, <2>2, Recovering DEF Recover, Inside, disk, library, RecoveryPlace
<1>2. CASE Look
  <2>1. PICK j \in journal : FoundTarget(j) \/ FoundNothing(j) \/ FoundExpected(j) \/ FoundConflict(j)
    BY <1>2 DEF Look
  <2>2. journal = {j} /\ j.skill \in Skills /\ ~session
    BY Recovering
  <2>3. touched \in [Skills -> BOOLEAN] /\ session' = session
    BY <1>2 DEF IInv, TypeOK, Look
  <2>4. CASE FoundTarget(j)
    <3>1. call'.at = "committing"
      BY <1>0, <2>4, CallTypes DEF FoundTarget, Place
    <3>2. tree' = tree /\ tree[j.skill] = TreeOf(j.target)
      BY <2>4 DEF FoundTarget, TreeOf
    <3>3. \A s \in Skills \ {j.skill} : touched'[s] = touched[s]
      BY <2>3, <2>4 DEF FoundTarget
    <3> QED
      BY <2>2, <2>3, <2>4, <3>1, <3>2, <3>3 DEF FoundTarget, Inside, library, RecoveryPlace
  <2>5. CASE FoundNothing(j)
    <3>1. \/ call'.at = "committing" /\ j.target = NoPackage
          \/ call'.at = "staging" /\ j.target # NoPackage
      BY <1>0, <2>5 DEF FoundNothing, Call
    <3>2. tree' = tree /\ tree[j.skill] = Absent
      BY <2>5 DEF FoundNothing
    <3>3. \A s \in Skills \ {j.skill} : touched'[s] = touched[s]
      BY <2>3, <2>5 DEF FoundNothing
    <3> QED
      BY <2>2, <2>3, <2>5, <3>1, <3>2, <3>3
         DEF FoundNothing, Inside, TreeOf, library, RecoveryPlace
  <2>6. CASE FoundExpected(j)
    <3>1. call'.at = "removing"
      BY <1>0, <2>6, CallTypes DEF FoundExpected, Place
    <3> QED
      BY <2>2, <2>3, <2>6, <3>1 DEF FoundExpected, Inside, disk, library, RecoveryPlace
  <2>7. CASE FoundConflict(j)
    BY <1>2, <2>7, FailStep DEF FoundConflict, Look
  <2> QED
    BY <2>1, <2>4, <2>5, <2>6, <2>7
<1>3. CASE MoveOut
  <2>1. PICK j \in journal :
          IF tree[j.skill] = Absent THEN Fail
          ELSE /\ Removed(j.skill)
               /\ touched' = [touched EXCEPT ![j.skill] = @ /\ j.target # NoPackage]
               /\ call' = [call EXCEPT !.at = IF j.target = NoPackage THEN "committing"
                                              ELSE "staging"]
               /\ UNCHANGED <<kept, staged, library, journal>>
    BY <1>3 DEF MoveOut
  <2>2. journal = {j} /\ j.skill \in Skills /\ ~session
    BY Recovering
  <2>3. CASE tree[j.skill] = Absent
    BY <1>3, <2>1, <2>3, FailStep DEF MoveOut
  <2>4. CASE tree[j.skill] # Absent
    <3>1. \/ call'.at = "committing" /\ j.target = NoPackage
          \/ call'.at = "staging" /\ j.target # NoPackage
      BY <1>0, <2>1, <2>4 DEF Call
    <3>2. /\ tree'[j.skill] = Absent
          /\ \A s \in Skills \ {j.skill} : tree'[s] = tree[s] /\ touched'[s] = touched[s]
      BY <2>1, <2>2, <2>4 DEF Removed, IInv, TypeOK
    <3>3. installed' = installed /\ journal' = journal /\ session' = session
      BY <1>3, <2>1, <2>4 DEF MoveOut, library
    <3> QED
      BY <2>2, <3>1, <3>2, <3>3 DEF Inside, TreeOf, RecoveryPlace
  <2> QED
    BY <2>3, <2>4
<1>4. CASE MoveIn
  <2>1. PICK j \in journal :
          IF tree[j.skill] # Absent \/ ~StagedComplete(j) THEN Fail
          ELSE /\ tree' = [tree EXCEPT ![j.skill] = staged]
               /\ staged' = Absent
               /\ touched' = [touched EXCEPT ![j.skill] = FALSE]
               /\ call' = [call EXCEPT !.at = "committing"]
               /\ UNCHANGED <<kept, backup, library, journal>>
    BY <1>4 DEF MoveIn
  <2>2. journal = {j} /\ j.skill \in Skills /\ ~session /\ j.target # NoPackage
    BY <1>4, Recovering DEF IInv, Places, MoveIn
  <2>3. CASE tree[j.skill] # Absent \/ ~StagedComplete(j)
    BY <1>4, <2>1, <2>3, FailStep DEF MoveIn
  <2>4. CASE ~(tree[j.skill] # Absent \/ ~StagedComplete(j))
    <3>1. call'.at = "committing"
      BY <1>0, <2>1, <2>4 DEF Call
    <3>2. /\ tree'[j.skill] = TreeOf(j.target)
          /\ \A s \in Skills \ {j.skill} : tree'[s] = tree[s] /\ touched'[s] = touched[s]
      BY <2>1, <2>2, <2>4 DEF StagedComplete, TreeOf, IInv, TypeOK
    <3>3. installed' = installed /\ journal' = journal /\ session' = session
      BY <1>4, <2>1, <2>4 DEF MoveIn, library
    <3> QED
      BY <2>2, <3>1, <3>2, <3>3 DEF Inside, RecoveryPlace
  <2> QED
    BY <2>3, <2>4
<1>5. CASE PreserveRuntime
  <2>1. PICK j \in journal :
          IF tree[j.skill] = Absent THEN UNCHANGED <<tree, kept, backup>>
          ELSE tree' = [tree EXCEPT ![j.skill] = Absent]
    BY <1>5 DEF PreserveRuntime
  <2>2. journal = {j} /\ j.skill \in Skills /\ ~session
    BY Recovering
  <2>3. call'.at = "restaging"
    BY <1>0, <1>5, CallTypes DEF PreserveRuntime, Place
  <2>4. \A s \in Skills \ {j.skill} : tree'[s] = tree[s] /\ touched'[s] = touched[s]
    BY <1>5, <2>1, <2>2 DEF IInv, TypeOK, PreserveRuntime
  <2> QED
    BY <1>5, <2>2, <2>3, <2>4 DEF PreserveRuntime, Inside, library, RecoveryPlace
<1>6. CASE Restage
  <2>1. PICK j \in journal : TRUE
    BY <1>6 DEF Restage
  <2>2. call'.at = "recovering"
    BY <1>0, <1>6, CallTypes DEF Restage, Place
  <2> QED
    BY <1>6, <2>1, <2>2, Recovering DEF Restage, Inside, library, RecoveryPlace
<1> QED
  BY <1>1, <1>2, <1>3, <1>4, <1>5, <1>6

\* The commit makes the directory that is there the installed one.
LEMMA CommitStep ==
    ASSUME IInv, Commit
    PROVE  Places' /\ Others' /\ Quiet'
<1>1. PICK j \in journal : installed' = [installed EXCEPT ![j.skill] = j.target]
  BY DEF Commit
<1>2. /\ journal = {j} /\ j.skill \in Skills /\ ~session
      /\ touched[j.skill] \/ tree[j.skill] = TreeOf(j.target)
  BY Recovering DEF Commit, IInv, Places
<1>3. /\ call'.at \in {"idle", "inspected"} /\ journal' = {} /\ session' = session
      /\ tree' = tree /\ touched' = touched
  BY DEF Commit, Return
<1>4. j.target # Unmanaged
  BY PackageAssumption, JournalType DEF IInv
<1>5. Places' /\ Quiet'
  BY <1>2, <1>3 DEF Places, Quiet
<1>6. Others'
  <2> SUFFICES ASSUME NEW s \in Skills PROVE touched[s] \/ Unmodified(s)'
    BY <1>3 DEF Others
  <2>1. CASE s = j.skill
    <3>1. Metadata(s)' = j.target
      BY <1>1, <1>2, <1>4, <2>1 DEF Metadata, IInv, TypeOK
    <3> QED
      BY <1>2, <1>3, <2>1, <3>1 DEF Unmodified
  <2>2. CASE s # j.skill
    BY <1>1, <1>2, <1>3, <2>2 DEF IInv, TypeOK, Others, Unmodified, Metadata
  <2> QED
    BY <2>1, <2>2
<1> QED
  BY <1>5, <1>6

\* Every step keeps the invariant.
LEMMA NextIInv == IInv /\ [Next]_vars => IInv'
<1> SUFFICES ASSUME IInv, [Next]_vars PROVE IInv'
  OBVIOUS
<1>1. TypeOK'
  BY TypeStep DEF IInv
<1>2. Places' /\ Others' /\ Quiet'
  <2>1. CASE Recover \/ Look \/ MoveOut \/ MoveIn \/ PreserveRuntime \/ Restage
    BY <2>1, RecoveryStep, InsideStep
  <2>2. CASE UNCHANGED vars
    BY <2>2 DEF IInv, Places, Others, Quiet, Unmodified, Metadata, vars, disk, library
  <2> QED
    BY <2>1, <2>2, CommitStep, ApplyStep, CommandStep, EnvironmentStep
       DEF Next, Boundary, Recovery
<1> QED
  BY <1>1, <1>2 DEF IInv

\* The invariant is an invariant of the specification.
LEMMA Invariance == Spec => []IInv
BY InitIInv, NextIInv, PTL DEF Spec

----------------------------------------------------------------------------
(***************************************************************************)
(* The theorems.                                                           *)
(***************************************************************************)
\* Every variable keeps its type, and a recovery works on one pending operation.
THEOREM TypeCorrect == Spec => []TypeOK
<1>1. IInv => TypeOK
  BY DEF IInv
<1> QED
  BY <1>1, Invariance, PTL

\* Between operations a directory is what the library records as installed, unless
\* it was edited since, for all crashes and recoveries of activations.
THEOREM InstalledCorrect == Spec => []InstalledMatches
<1>1. IInv => InstalledMatches
  BY DEF IInv, Others, InstalledMatches
<1> QED
  BY <1>1, Invariance, PTL

\* While a session runs, no step but an edit changes a directory it uses: commands
\* defer their activation, and no recovery begins.
THEOREM SessionsUndisturbed == Spec => SessionUndisturbed
<1>1. IInv /\ [Next]_vars => [session => tree' = tree \/ edits' # edits]_vars
  <2> SUFFICES ASSUME IInv, Next, session PROVE tree' = tree \/ edits' # edits
    BY DEF vars
  <2>1. call.at \in {"idle", "packed"} /\ journal = {} /\ edits \in Nat
    BY DEF IInv, Quiet, TypeOK
  <2>2. CASE Apply
    BY <2>2 DEF Apply, Defer, ApplyRefused, ApplyUnchanged, ApplyJournaled, disk
  <2>3. CASE Recovery
    BY <2>1, <2>3 DEF Recovery, Recover, Look, MoveOut, MoveIn, Commit, PreserveRuntime, Restage
  <2>4. CASE Inspect \/ \E s \in Skills : ActivateDeferred(s) \/ Refresh(s)
    BY <2>4 DEF Inspect, ActivateDeferred, Refresh, Update, disk
  <2>5. CASE Environment
    <3>1. ASSUME NEW s \in Skills, NEW t \in Trees \cup {Absent}, Edit(s, t)
          PROVE  edits' # edits
      BY <2>1, <3>1 DEF Edit
    <3>2. CASE EndSession \/ Die \/ \E s \in Skills : ConnectionsChange(s)
      BY <3>2 DEF ConnectionsChange, EndSession, Die, disk
    <3> QED
      BY <2>5, <3>1, <3>2 DEF Environment
  <2>6. CASE Command
    BY <2>6 DEF Command, Import, ImportProjected, Delete, Pack, Restore, FromLibrary, Update,
       FromPortal, RecoverTarget, EndPass, StartSession, disk
  <2> QED
    BY <2>2, <2>3, <2>4, <2>5, <2>6 DEF Next, Boundary
<1> QED
  BY <1>1, Invariance, PTL DEF Spec, SessionUndisturbed

----------------------------------------------------------------------------
(***************************************************************************)
(* Contents.                                                               *)
(***************************************************************************)
Keeping(s) ==
    /\ tree'[s] = tree[s] \/ tree[s] = Absent \/ tree[s] \in Retained(s)' \/ edits' # edits
    /\ Retained(s) \subseteq Retained(s)'

\* A step that leaves what is retained and changes no directory, or edits it.
LEMMA StillKeeping ==
    ASSUME NEW s \in Skills, UNCHANGED <<kept, journal, backup>>,
           tree'[s] = tree[s] \/ tree[s] = Absent \/ edits' # edits
    PROVE  Keeping(s)
BY DEF Keeping, Retained

\* A step that starts an operation.
LEMMA BeginKeeping ==
    ASSUME NEW s \in Skills, journal = {}, UNCHANGED <<kept, tree>>
    PROVE  Keeping(s)
BY DEF Keeping, Retained

\* The directory of another skill, whose operation is not the pending one.
LEMMA OtherKeeping ==
    ASSUME NEW s \in Skills, NEW j, journal = {j}, s # j.skill,
           tree'[s] = tree[s], kept'[s] = kept[s]
    PROVE  Keeping(s)
BY DEF Keeping, Retained

\* The renames and the commit keep what they move.
LEMMA MoveKeeping ==
    ASSUME IInv, NEW s \in Skills, MoveOut \/ MoveIn \/ Commit \/ PreserveRuntime
    PROVE  Keeping(s)
<1>1. PICK j : journal = {j} /\ j \in journal /\ j.skill \in Skills
  BY JournalType DEF MoveOut, MoveIn, Commit, PreserveRuntime, IInv, TypeOK
<1>2. /\ tree \in [Skills -> Trees \cup {Absent}] /\ kept \in [Skills -> SUBSET Trees]
      /\ call.at = "removing" => backup = Absent
  BY DEF IInv, TypeOK
<1>3. CASE MoveOut
  <2>1. \/ Fail
        \/ Removed(j.skill) /\ UNCHANGED <<kept, journal>>
    BY <1>1, <1>3 DEF MoveOut
  <2>2. backup = Absent
    BY <1>2, <1>3 DEF MoveOut
  <2>3. CASE Fail
    BY <2>3, StillKeeping DEF Fail, disk
  <2>4. CASE Removed(j.skill) /\ UNCHANGED <<kept, journal>> /\ s = j.skill
    BY <1>1, <2>2, <2>4 DEF Keeping, Retained, Removed
  <2>5. CASE Removed(j.skill) /\ UNCHANGED <<kept, journal>> /\ s # j.skill
    <3>1. tree'[s] = tree[s] /\ kept'[s] = kept[s]
      BY <1>2, <2>5 DEF Removed
    <3> QED
      BY <1>1, <2>5, <3>1, OtherKeeping
  <2> QED
    BY <2>1, <2>3, <2>4, <2>5
<1>4. CASE MoveIn
  <2>1. \/ Fail
        \/ /\ tree[j.skill] = Absent /\ tree' = [tree EXCEPT ![j.skill] = staged]
           /\ UNCHANGED <<kept, journal, backup>>
    BY <1>1, <1>4 DEF MoveIn
  <2>2. UNCHANGED <<kept, journal, backup>> /\ (tree'[s] = tree[s] \/ tree[s] = Absent)
    BY <1>2, <2>1 DEF Fail, disk
  <2> QED
    BY <2>2, StillKeeping
<1>5. CASE Commit
  <2>1. /\ journal' = {} /\ tree' = tree
        /\ kept' = [kept EXCEPT ![j.skill] = @ \cup ({backup} \ {Absent})]
    BY <1>1, <1>5 DEF Commit
  <2>2. CASE s = j.skill
    BY <1>1, <1>2, <2>1, <2>2 DEF Keeping, Retained
  <2>3. CASE s # j.skill
    <3>1. kept'[s] = kept[s]
      BY <1>2, <2>1, <2>3
    <3> QED
      BY <1>1, <2>1, <2>3, <3>1, OtherKeeping
  <2> QED
    BY <2>2, <2>3
<1>6. CASE PreserveRuntime
  <2>1. /\ journal' = journal
        /\ \/ UNCHANGED <<tree, kept, backup>>
           \/ /\ tree[j.skill] # Absent /\ tree' = [tree EXCEPT ![j.skill] = Absent]
              /\ \/ backup = Absent /\ backup' = tree[j.skill] /\ kept' = kept
                 \/ /\ kept' = [kept EXCEPT ![j.skill] = @ \cup {tree[j.skill]}]
                    /\ backup' = backup
    BY <1>1, <1>6 DEF PreserveRuntime
  <2>2. CASE UNCHANGED <<tree, kept, backup>>
    BY <2>1, <2>2, StillKeeping
  <2>3. CASE ~UNCHANGED <<tree, kept, backup>> /\ s = j.skill
    BY <1>1, <1>2, <2>1, <2>3 DEF Keeping, Retained
  <2>4. CASE ~UNCHANGED <<tree, kept, backup>> /\ s # j.skill
    <3>1. tree'[s] = tree[s] /\ kept'[s] = kept[s]
      BY <1>2, <2>1, <2>4
    <3> QED
      BY <1>1, <2>4, <3>1, OtherKeeping
  <2> QED
    BY <2>2, <2>3, <2>4
<1> QED
  BY <1>3, <1>4, <1>5, <1>6

\* No step of the companion destroys what a directory held: what it moves away is
\* retained, and stays retained.
THEOREM ContentsKept == Spec => NothingDiscarded
<1>1. IInv /\ [Next]_vars => [\A s \in Skills : Keeping(s)]_vars
  <2> SUFFICES ASSUME IInv, Next, NEW s \in Skills PROVE Keeping(s)
    BY DEF vars
  <2>0. edits \in Nat
    BY DEF IInv, TypeOK
  <2>1. CASE MoveOut \/ MoveIn \/ Commit \/ PreserveRuntime
    BY <2>1, MoveKeeping
  <2>2. CASE Apply
    <3>1. UNCHANGED <<kept, tree>> /\ journal = {}
      BY <2>2 DEF Apply, Defer, ApplyRefused, ApplyUnchanged, ApplyJournaled, disk, IInv, Places
    <3> QED
      BY <3>1, BeginKeeping
  <2>3. CASE Recover \/ Look \/ Restage
    <3>1. UNCHANGED <<kept, journal, backup, tree>>
      BY <2>3 DEF Recover, Look, Restage, FoundTarget, FoundNothing, FoundExpected,
         FoundConflict,
         Fail, disk
    <3> QED
      BY <3>1, StillKeeping
  <2>4. CASE Inspect \/ \E t \in Skills : ActivateDeferred(t) \/ Refresh(t)
    <3>1. UNCHANGED <<kept, journal, backup, tree>>
      BY <2>4 DEF Inspect, ActivateDeferred, Refresh, Update, disk
    <3> QED
      BY <3>1, StillKeeping
  <2>5. CASE Environment
    <3>1. /\ UNCHANGED <<kept, journal, backup>>
          /\ tree'[s] = tree[s] \/ edits' # edits
      BY <2>0, <2>5 DEF Environment, ConnectionsChange, Edit, EndSession, Die, disk
    <3> QED
      BY <3>1, StillKeeping
  <2>6. CASE Command
    <3>1. \/ UNCHANGED <<kept, journal, backup, tree>>
          \/ UNCHANGED <<kept, tree>> /\ journal = {}
      BY <2>6 DEF Command, Import, ImportProjected, Delete, Pack, Restore, FromLibrary, Update,
         FromPortal, RecoverTarget, EndPass, StartSession, disk
    <3> QED
      BY <3>1, StillKeeping, BeginKeeping
  <2> QED
    BY <2>1, <2>2, <2>3, <2>4, <2>5, <2>6 DEF Next, Boundary, Recovery
<1> QED
  BY <1>1, Invariance, PTL DEF Spec, NothingDiscarded, Keeping
=============================================================================
