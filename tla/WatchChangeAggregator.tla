------------------------- MODULE WatchChangeAggregator -------------------------
(***************************************************************************)
(* What the client knows about the targets of one watch stream: per       *)
(* target, the acknowledgements it still waits for and whether the server *)
(* has called it current.  A new stream starts with a new aggregator.     *)
(*                                                                        *)
(* Every global snapshot carries a resume token, which marks each active  *)
(* target as changed; so has_pending_changes_ holds for all of them       *)
(* whenever a remote event is made, and is left out.                      *)
(***************************************************************************)
EXTENDS Integers

CONSTANT Target

TargetState == [outstanding : Int, current : BOOLEAN]
NewTargetState == [outstanding |-> 0, current |-> FALSE]
NewAggregator == [q \in Target |-> NewTargetState]

IsPending(states, q) == states[q].outstanding # 0

\* A target is active if the client listens to it and no acknowledgement is due.
IsActiveTarget(states, listened, q) == q \in listened /\ ~ IsPending(states, q)

RecordPendingTargetRequest(states, q) == [states EXCEPT ![q].outstanding = @ + 1]

RemoveTarget(states, q) == [states EXCEPT ![q] = NewTargetState]

\* The server confirms a watch: the pending documents of the target are dropped, its
\* current_ is not.
HandleAdded(states, q) == [states EXCEPT ![q].outstanding = @ - 1]

\* Mutant of HandleRemoved: the confirmation of an unwatch is not counted.
HandleRemovedUncounted(states, q) == RemoveTarget(states, q)

\* Mutant of HandleRemoved: a target that is gone keeps its state.
HandleRemovedKeepingState(states, q) == [states EXCEPT ![q].outstanding = @ - 1]

\* The server confirms an unwatch.
HandleRemoved(states, q) ==
    IF states[q].outstanding = 1 THEN RemoveTarget(states, q)
    ELSE [states EXCEPT ![q].outstanding = @ - 1]

HandleCurrent(states, listened, q) ==
    IF IsActiveTarget(states, listened, q) THEN [states EXCEPT ![q].current = TRUE] ELSE states
=============================================================================
