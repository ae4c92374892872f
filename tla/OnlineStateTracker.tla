-------------------------- MODULE OnlineStateTracker --------------------------
(***************************************************************************)
(* The tracker that guesses from the watch stream whether the client is   *)
(* online.  Its state is a record, its methods are operators from one     *)
(* record to the next; the client that owns it broadcasts the changes.    *)
(***************************************************************************)
EXTENDS Naturals

CONSTANT MaxWatchStreamFailures     \* kMaxWatchStreamFailures: 1 in the code

ASSUME TrackerAssumption == MaxWatchStreamFailures \in Nat \ {0}

OnlineState == {"Unknown", "Online", "Offline"}

\* `failures` counts on in the code; no branch tells more than the maximum from it.
Tracker ==
    [state : OnlineState, timer : BOOLEAN, failures : 0 .. MaxWatchStreamFailures]

NewTracker == [state |-> "Unknown", timer |-> FALSE, failures |-> 0]

HandleWatchStreamStart(t) ==
    IF t.failures # 0 THEN t ELSE [t EXCEPT !.state = "Unknown", !.timer = TRUE]

\* Mutant of HandleWatchStreamFailure: the timer of a failed attempt is left armed.
FailureKeepingTimer(t) ==
    IF t.state = "Online" THEN [t EXCEPT !.state = "Unknown"]
    ELSE IF t.failures + 1 < MaxWatchStreamFailures THEN [t EXCEPT !.failures = @ + 1]
    ELSE [t EXCEPT !.state = "Offline", !.failures = MaxWatchStreamFailures]

HandleWatchStreamFailure(t) ==
    IF t.state = "Online" THEN [t EXCEPT !.state = "Unknown"]
    ELSE IF t.failures + 1 < MaxWatchStreamFailures THEN [t EXCEPT !.failures = @ + 1]
    ELSE [state |-> "Offline", timer |-> FALSE, failures |-> MaxWatchStreamFailures]

UpdateState(t, state) == [state |-> state, timer |-> FALSE, failures |-> 0]

\* kOnlineStateTimeout has passed.
TimerFired(t) == [t EXCEPT !.state = "Offline", !.timer = FALSE]

\* The assertions of the methods above.
StartAsserts(t) == t.failures = 0 => ~ t.timer
FailureAsserts(t) == t.state = "Online" => t.failures = 0 /\ ~ t.timer
TimerAsserts(t) == t.timer => t.state = "Unknown"
=============================================================================
