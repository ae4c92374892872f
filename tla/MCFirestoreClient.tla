-------------------------- MODULE MCFirestoreClient --------------------------
(***************************************************************************)
(* Instances of FirestoreClient: two calls of one query, so that          *)
(* listeners share a view and targets are watched again and again.        *)
(***************************************************************************)
EXTENDS FirestoreClient

CONSTANT q1

MCTwoRequests == {[id |-> 1, query |-> q1], [id |-> 2, query |-> q1]}
=============================================================================
