------------------------------ MODULE MCMapScreen ------------------------------
(***************************************************************************)
(* MapScreen with the two pins of the code.                               *)
(***************************************************************************)
EXTENDS MapScreen

CONSTANTS akul, library
=============================================================================
