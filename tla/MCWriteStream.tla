---------------------------- MODULE MCWriteStream ----------------------------
(***************************************************************************)
(* An instance of WriteStream.                                            *)
(***************************************************************************)
EXTENDS WriteStream
=============================================================================
