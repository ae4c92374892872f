--------------------------- MODULE SessionRegister ---------------------------
(***************************************************************************)
(* What logging in and out is meant to be: each device is used by nobody  *)
(* or by one registered user; to change users one logs out in between.    *)
(*                                                                        *)
(* Nothing keeps a user from asking twice.  A login may therefore leave   *)
(* answers overdue, and one that comes may put another registered user in *)
(* the place of the present one; it never brings a user to a device that  *)
(* nobody uses.                                                           *)
(***************************************************************************)
CONSTANTS Device, Account, Existing, Guest

VARIABLES
    registered, \* the accounts there are
    user,       \* user[d]: by whom d is used
    overdue     \* the devices that answers of an earlier login are still to come to

registerVars == <<registered, user, overdue>>

Init ==
    /\ registered = Existing
    /\ user = [d \in Device |-> Guest]
    /\ overdue = {}

\* d is now used by a registered user.
Takes(d) == \E document \in registered : user' = [user EXCEPT ![d] = document.data.Username]

LogIn(d) ==
    /\ user[d] = Guest
    /\ Takes(d)
    /\ overdue' \in {overdue, overdue \cup {d}}
    /\ UNCHANGED registered

Overdue(d) ==
    /\ d \in overdue
    /\ \/ UNCHANGED user
       \/ user[d] # Guest /\ Takes(d)
    /\ overdue' \in {overdue, overdue \ {d}}
    /\ UNCHANGED registered

\* By the button, or because the app was killed, and the answers with it.
LogOut(d) ==
    /\ user' = [user EXCEPT ![d] = Guest]
    /\ overdue' \in {overdue, overdue \ {d}}
    /\ UNCHANGED registered

SignUp ==
    /\ \E document \in Account : registered' = registered \cup {document}
    /\ UNCHANGED <<user, overdue>>

Next == SignUp \/ \E d \in Device : LogIn(d) \/ Overdue(d) \/ LogOut(d)

Spec == Init /\ [][Next]_registerVars
=============================================================================
