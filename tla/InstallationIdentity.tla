------------------------- MODULE InstallationIdentity -------------------------
(***************************************************************************)
(* What an identity recovery promises to the commands that run beside it:  *)
(* the key of the installation, the data its commands reach and the data   *)
(* that is retained change in one step, or not at all.  No command runs    *)
(* then, a key is never used twice, and the owner stays the same.          *)
(***************************************************************************)
EXTENDS Naturals

CONSTANTS
    Commands,       \* processes that run commands
    Databases,      \* what commands write
    NoData,         \* a database that does not exist
    FirstOwner      \* the person the installation belongs to

VARIABLES
    key,            \* the key of the installation
    owner,          \* its owner
    users,          \* the commands that run
    data,           \* data[n]: the key under which the data they find was written
    retained        \* the data of former keys

Written == {w \in {<<n, data[n]>> : n \in Databases} : w[2] # NoData}

Init ==
    /\ key = 0 /\ owner = FirstOwner
    /\ users = {}
    /\ data = [n \in Databases |-> NoData]
    /\ retained = {}

Enter(p) ==
    /\ p \notin users
    /\ users' = users \cup {p}
    /\ UNCHANGED <<key, owner, data, retained>>

Leave(p) ==
    /\ p \in users
    /\ users' = users \ {p}
    /\ UNCHANGED <<key, owner, data, retained>>

Write(p, n) ==
    /\ p \in users
    /\ data' = [data EXCEPT ![n] = key]
    /\ UNCHANGED <<key, owner, users, retained>>

\* The new key finds no data: what there was is retained.
Replace ==
    /\ users = {}
    /\ key' > key
    /\ data' = [n \in Databases |-> NoData]
    /\ retained' = retained \cup Written
    /\ UNCHANGED <<owner, users>>

Next ==
    \/ \E p \in Commands : Enter(p) \/ Leave(p) \/ \E n \in Databases : Write(p, n)
    \/ Replace

Spec == Init /\ [][Next]_<<key, owner, users, data, retained>>
=============================================================================
