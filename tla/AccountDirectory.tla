--------------------------- MODULE AccountDirectory ---------------------------
(***************************************************************************)
(* What registration amounts to for users who wait for answers: every     *)
(* device knows some of the committed accounts, among them all its own,   *)
(* and checks and takes a name in one step, against what it knows.  A      *)
(* registration stays pending until the server commits it or refuses it;  *)
(* a committed account never goes away and is never forgotten.             *)
(*                                                                        *)
(* Two devices that do not know of each other's account may take one name *)
(* twice: nothing is checked against `committed` itself.                   *)
(***************************************************************************)
CONSTANTS
    Device,
    Document,       \* the accounts that may be registered
    Registered      \* those committed from the start

VARIABLES
    committed,      \* the accounts there are
    known,          \* known[d]: those of them that d knows of
    pending         \* pending[d]: the accounts of d that are neither committed nor refused yet

directoryVars == <<committed, known, pending>>

Init ==
    /\ committed = Registered
    /\ known \in [Device -> SUBSET Registered]
    /\ pending = [d \in Device |-> {}]

Taken(d, username) ==
    \E account \in known[d] \cup pending[d] : account.data.Username = username

Register(d) ==
    \E account \in Document :
        /\ account.id[1] = d
        /\ ~ Taken(d, account.data.Username)
        /\ pending' = [pending EXCEPT ![d] = @ \cup {account}]
        /\ UNCHANGED <<committed, known>>

Commit(d) ==
    \E account \in pending[d] :
        /\ committed' = committed \cup {account}
        /\ known' = [known EXCEPT ![d] = @ \cup {account}]
        /\ pending' = [pending EXCEPT ![d] = @ \ {account}]

Refuse(d) ==
    \E account \in pending[d] :
        /\ pending' = [pending EXCEPT ![d] = @ \ {account}]
        /\ UNCHANGED <<committed, known>>

\* What other devices have registered is found by queries.
Learn(d) ==
    \E found \in SUBSET committed :
        /\ known' = [known EXCEPT ![d] = @ \cup found]
        /\ UNCHANGED <<committed, pending>>

Next == \E d \in Device : Register(d) \/ Commit(d) \/ Refuse(d) \/ Learn(d)

Spec == Init /\ [][Next]_directoryVars
=============================================================================
