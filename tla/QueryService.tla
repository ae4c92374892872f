----------------------------- MODULE QueryService -----------------------------
(***************************************************************************)
(* What a Firestore client promises about one-shot queries: each is       *)
(* answered once; from the cache only while the client knows itself       *)
(* offline, and then at once; otherwise by the server, with documents or  *)
(* an error.                                                              *)
(***************************************************************************)
CONSTANT Request

VARIABLES
    offline,    \* whether the client knows itself offline
    answer      \* answer[r]: what became of the request r

serviceVars == <<offline, answer>>

Waiting == {r \in Request : answer[r] = "waiting"}

Answered(R, by) == answer' = [r \in Request |-> IF r \in R THEN by ELSE answer[r]]

Init == offline = FALSE /\ answer = [r \in Request |-> "unasked"]

\* A query the client happens to be listening to may be answered at once.
Ask(r) ==
    /\ answer[r] = "unasked"
    /\ IF offline THEN Answered({r}, "cache")
       ELSE Answered({r}, "waiting") \/ Answered({r}, "server")
    /\ UNCHANGED offline

FromServer(R) == offline' = FALSE /\ Answered(R, "server")

Fail(R) == offline' = FALSE /\ Answered(R, "error")

GoOffline == offline' = TRUE /\ Answered(Waiting, "cache")

LeaveOffline == offline' = FALSE /\ UNCHANGED answer

Next ==
    \/ \E r \in Request : Ask(r)
    \/ \E R \in SUBSET Waiting : FromServer(R) \/ Fail(R)
    \/ GoOffline
    \/ LeaveOffline

Spec == Init /\ [][Next]_serviceVars
=============================================================================
