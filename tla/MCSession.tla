------------------------------ MODULE MCSession ------------------------------
(***************************************************************************)
(* Instances of Session: alice has an account, bobby may get one during   *)
(* the run, and the passwords of both can be typed.                       *)
(***************************************************************************)
EXTENDS Session

CONSTANTS d1

MCUsername == {"", "alice", "bobby"}
MCPassword == {"", "Secret123"}
MCHash == [p \in MCPassword |-> IF p = "" THEN "h0" ELSE "h1"]
MCExisting == {[id |-> 1, data |-> [Username |-> "alice", Password |-> "h1"]]}
MCAccount ==
    MCExisting \cup {[id |-> 2, data |-> [Username |-> "bobby", Password |-> "h1"]]}
=============================================================================
