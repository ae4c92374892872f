------------------------------ MODULE MCAccounts ------------------------------
(***************************************************************************)
(* Instances of Accounts: "alice" is taken, "bobby" is free, "" is the    *)
(* text a field starts with, which no format accepts.                     *)
(***************************************************************************)
EXTENDS Accounts

CONSTANTS d1, d2

MCUsername == {"", "alice", "bobby"}
MCPassword == {"", "Secret123"}
MCHash == [p \in MCPassword |-> IF p = "" THEN "h0" ELSE "h1"]

\* "alice" was registered with d2, which d1 does not know of before it asks.
MCExisting ==
    {[id |-> <<d2, 0>>, data |-> [Username |-> "alice", Password |-> "h1"]]}
MCNone == {}

Scope(isPatient, inUse, t, v) ==
    [patient |-> isPatient, devices |-> inUse,
     taps |-> [d \in Device |-> t], views |-> [d \in Device |-> v]]

\* A patient user with two screens and two queries, and a hasty one with a screen and two.
MCScopes == {Scope(TRUE, {d1}, 2, 2), Scope(FALSE, {d1}, 2, 1)}

\* Two patient users with a screen and a query each.
MCRaceScopes == {Scope(TRUE, {d1, d2}, 1, 1)}
=============================================================================
