----------------------------- MODULE MCGrpcStream -----------------------------
(***************************************************************************)
(* Instances of GrpcStream.                                               *)
(***************************************************************************)
EXTENDS GrpcStream
=============================================================================
