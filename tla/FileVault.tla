----------------------------- MODULE FileVault -----------------------------
(***************************************************************************)
(* What the server promises its users, without the list, the dictionary,   *)
(* the disk, the lock and the crashes: each identifier has one owner, each *)
(* name one identifier, for ever; and a file of an owner is absent, or     *)
(* received, or approved, and one that is approved is not received again   *)
(* unless it is removed first.  A restart of the server changes nothing of *)
(* this.                                                                   *)
(***************************************************************************)
EXTENDS Functions

CONSTANTS ID, Name, FileName

VARIABLES
    owner,      \* the registered identifiers, each with its user's name
    received,   \* the files <<identifier, file name>> received and not approved
    approved    \* the files approved

vaultVars == <<owner, received, approved>>

Key == ID \X FileName

Init ==
    /\ owner = [r \in {} |-> r]
    /\ received = {}
    /\ approved = {}

Register(r, name) ==
    /\ r \notin DOMAIN owner
    /\ name \notin Range(owner)
    /\ owner' = [s \in DOMAIN owner \cup {r} |-> IF s = r THEN name ELSE owner[s]]
    /\ UNCHANGED <<received, approved>>

Receive(k) ==
    /\ k[1] \in DOMAIN owner
    /\ k \notin received \cup approved
    /\ received' = received \cup {k}
    /\ UNCHANGED <<owner, approved>>

Approve(k) ==
    /\ k \in received
    /\ received' = received \ {k}
    /\ approved' = approved \cup {k}
    /\ UNCHANGED owner

Remove(k) ==
    /\ k \in received \cup approved
    /\ received' = received \ {k}
    /\ approved' = approved \ {k}
    /\ UNCHANGED owner

Next ==
    \/ \E r \in ID, name \in Name : Register(r, name)
    \/ \E k \in Key : Receive(k) \/ Approve(k) \/ Remove(k)

Spec == Init /\ [][Next]_vaultVars
=============================================================================
