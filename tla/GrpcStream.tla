------------------------------ MODULE GrpcStream ------------------------------
(***************************************************************************)
(* One gRPC stream: the worker queue, which owns it, and the thread that  *)
(* polls gRPC's completion queue.  Every operation of the stream is a     *)
(* completion.  gRPC's thread takes it off the completion queue and then  *)
(* enqueues its callback on the worker queue; the worker may in between   *)
(* cancel the callback, and to finish the stream it blocks until the      *)
(* completion is off the queue.                                           *)
(*                                                                        *)
(* A completion is <<type, n>>: the n-th read, the write of message n, or *)
(* the finish of the call.                                                *)
(***************************************************************************)
EXTENDS Naturals, FiniteSets, Sequences

CONSTANTS
    MaxReads,       \* bound: reads of one stream
    MaxWrites       \* bound: messages the client writes

ASSUME StreamAssumption == MaxReads \in Nat \ {0} /\ MaxWrites \in Nat

VARIABLES
    phase,          \* of the GrpcStream object
    observer,       \* whether observer_ is set
    finished,       \* is_grpc_call_finished_
    completions,    \* completions_
    cancelled,      \* completions whose callback is empty
    cq,             \* completions on gRPC's queue: gRPC still uses the call for them
    returning,      \* at most one <<completion, ok>>: off the queue, callback not yet enqueued
    callbacks,      \* the callbacks <<completion, ok>> enqueued on the worker queue
    writer,         \* the BufferedWriter: [active, queue]
    call,           \* the call under the stream: "live", "failed" or "cancelled"
    worker,         \* where the worker is, and on behalf of what it finishes the stream
    reads,          \* reads issued
    written,        \* messages the client has written
    sent,           \* messages handed to gRPC, in order (history)
    finishes,       \* times Finish was called on the call (history)
    told,           \* OnStreamFinish has been called (history)
    stopped         \* the client has finished the stream itself (history)

ioVars == <<writer, reads, written, sent>>
endVars == <<finished, finishes, told, stopped>>
vars == <<phase, observer, finished, completions, cancelled, cq, returning, callbacks, writer,
          call, worker, reads, written, sent, finishes, told, stopped>>

Finish == <<"finish", 1>>
Completion ==
    ({"read"} \X (1 .. MaxReads)) \cup ({"write"} \X (1 .. MaxWrites)) \cup {Finish}
Message == 1 .. MaxWrites

\* Completions that gRPC's thread or the worker queue has taken over; the others are deleted.
OnTheWay == {c[1] : c \in returning \cup {callbacks[i] : i \in DOMAIN callbacks}}

\* The types; and completions_ holds no completion that is deleted.
TypeOK ==
    /\ phase \in {"absent", "alive", "destroyed"}
    /\ observer \in BOOLEAN /\ finished \in BOOLEAN
    /\ told \in BOOLEAN /\ stopped \in BOOLEAN
    /\ completions \subseteq Completion /\ cancelled \subseteq Completion /\ cq \subseteq Completion
    /\ returning \subseteq Completion \X BOOLEAN /\ Cardinality(returning) <= 1
    /\ callbacks \in Seq(Completion \X BOOLEAN)
    /\ writer \in [active : BOOLEAN, queue : Seq(Message)]
    /\ call \in {"live", "failed", "cancelled"}
    /\ worker \in [at : {"free", "lastWrite", "finishing", "draining"},
                   why : {"failed", "immediate", "notify"}]
    /\ reads \in 0 .. MaxReads /\ written \in 0 .. MaxWrites
    /\ sent \in Seq(Message)
    /\ finishes \in Nat
    /\ completions \subseteq cq \cup OnTheWay

Free == [at |-> "free", why |-> "failed"]

Init ==
    /\ phase = "absent"
    /\ observer = FALSE /\ finished = FALSE /\ told = FALSE /\ stopped = FALSE
    /\ completions = {} /\ cancelled = {} /\ cq = {} /\ returning = {}
    /\ callbacks = <<>>
    /\ writer = [active |-> FALSE, queue |-> <<>>]
    /\ call = "live"
    /\ worker = Free
    /\ reads = 0 /\ written = 0 /\ finishes = 0
    /\ sent = <<>>

IsFree == phase = "alive" /\ worker.at = "free"

-----------------------------------------------------------------------------
(***************************************************************************)
(* The BufferedWriter: one write is active at a time, the others wait.    *)
(***************************************************************************)
\* Mutant of TryStartWrite: an active write is not waited for.
StartWriteAlways(w) == w.queue # <<>>

TryStartWrite(w) == w.queue # <<>> /\ ~ w.active

Enqueued(w, m) == [w EXCEPT !.queue = Append(@, m)]
Dequeued(w) == [w EXCEPT !.active = FALSE]

\* MaybeWrite of the writer w, with C the completions left: the next message goes to gRPC
\* if the writer lets it.
MaybeWrite(w, C) ==
    IF TryStartWrite(w)
      THEN LET write == <<"write", Head(w.queue)>> IN
           /\ writer' = [active |-> TRUE, queue |-> Tail(w.queue)]
           /\ sent' = Append(sent, Head(w.queue))
           /\ completions' = C \cup {write} /\ cq' = cq \cup {write}
      ELSE writer' = w /\ completions' = C /\ UNCHANGED <<sent, cq>>

-----------------------------------------------------------------------------
(***************************************************************************)
(* Finishing.  FastFinishCompletionsBlocking first cancels the callbacks  *)
(* of the completions and then waits until all are off gRPC's queue.      *)
(***************************************************************************)
Cancel(C) == cancelled' = cancelled \cup C

\* Mutant of OffQueue: the worker does not wait.
OffQueueAtOnce == TRUE

OffQueue == completions \cap cq = {}

\* FinishGrpcCall up to its wait.
FinishGrpcCall(C, why) ==
    /\ finished' = TRUE
    /\ completions' = C /\ Cancel(C)
    /\ worker' = [at |-> "finishing", why |-> why]

\* Mutant of TryCancel: the call is left running.
LeaveRunning == call

TryCancel == IF call = "live" THEN "cancelled" ELSE call

\* Shutdown up to its first wait, with C the completions left.  A started call that has not
\* been finished is cancelled and finished.
Shutdown(C, why) ==
    IF C # {} /\ ~ finished
      THEN call' = TryCancel /\ FinishGrpcCall(C, why)
      ELSE /\ completions' = C /\ Cancel(C)
           /\ worker' = [at |-> "draining", why |-> why]
           /\ UNCHANGED <<call, finished>>

\* Mutant of CallFinishIssued: the callback of the finish is always cancelled.
CallFinishedSilently ==
    /\ worker.at = "finishing" /\ OffQueue
    /\ completions' = {Finish} /\ cq' = cq \cup {Finish}
    /\ finishes' = finishes + 1
    /\ Cancel({Finish})
    /\ worker' = IF worker.why = "failed" THEN Free ELSE [worker EXCEPT !.at = "draining"]
    /\ UNCHANGED <<phase, observer, finished, returning, callbacks, call, told, stopped, ioVars>>

\* FinishGrpcCall after its wait: after a failed operation the callback of the finish will
\* notify the observer; in Shutdown the finish is cancelled and drained like the rest.
CallFinishIssued ==
    /\ worker.at = "finishing" /\ OffQueue
    /\ completions' = {Finish} /\ cq' = cq \cup {Finish}
    /\ finishes' = finishes + 1
    /\ IF worker.why = "failed"
         THEN worker' = Free /\ UNCHANGED cancelled
         ELSE worker' = [worker EXCEPT !.at = "draining"] /\ Cancel({Finish})
    /\ UNCHANGED <<phase, observer, finished, returning, callbacks, call, told, stopped, ioVars>>

\* The end of FinishImmediately, or of FinishAndNotify, whose observer is told.  Either way
\* the stream's owner lets go of it.
ShutdownEnds ==
    /\ worker.at = "draining" /\ OffQueue
    /\ completions' = {}
    /\ told' = (told \/ (observer /\ worker.why = "notify"))
    /\ observer' = FALSE
    /\ phase' = "destroyed"
    /\ worker' = Free
    /\ UNCHANGED <<finished, cancelled, cq, returning, callbacks, call, finishes, stopped, ioVars>>

-----------------------------------------------------------------------------
(***************************************************************************)
(* What the owner of the stream does, on the worker queue.                *)
(***************************************************************************)
\* Created and started in one task.
Start ==
    /\ phase = "absent"
    /\ phase' = "alive" /\ observer' = TRUE
    /\ reads' = 1
    /\ completions' = {<<"read", 1>>} /\ cq' = {<<"read", 1>>}
    /\ UNCHANGED <<cancelled, returning, callbacks, call, worker, writer, written, sent, endVars>>

Write ==
    /\ IsFree /\ written < MaxWrites
    /\ written' = written + 1
    /\ MaybeWrite(Enqueued(writer, written'), completions)
    /\ UNCHANGED <<phase, observer, cancelled, returning, callbacks, call, worker, reads, endVars>>

FinishImmediately ==
    /\ IsFree
    /\ stopped' = TRUE
    /\ Shutdown(completions, "immediate")
    /\ UNCHANGED <<phase, observer, cq, returning, callbacks, finishes, told, ioVars>>

\* The last write is made only if none is active and the call is not finished yet.
WriteAndFinish ==
    /\ IsFree /\ written < MaxWrites
    /\ ~ finished /\ ~ writer.active
    /\ stopped' = TRUE
    /\ written' = written + 1
    /\ MaybeWrite(Enqueued(writer, written'), completions)
    /\ worker' = [at |-> "lastWrite", why |-> "immediate"]
    /\ UNCHANGED <<phase, observer, finished, cancelled, returning, callbacks, call, reads,
                   finishes, told>>

\* The last write is off the queue, or half a second has passed.
LastWriteOver ==
    /\ worker.at = "lastWrite"
    /\ Shutdown(completions, "immediate")
    /\ UNCHANGED <<phase, observer, cq, returning, callbacks, finishes, told, stopped, ioVars>>

\* The connectivity monitor finishes every active call.
ConnectivityChanges ==
    /\ IsFree
    /\ Shutdown(completions, "notify")
    /\ UNCHANGED <<phase, observer, cq, returning, callbacks, finishes, told, stopped, ioVars>>

-----------------------------------------------------------------------------
(***************************************************************************)
(* The callbacks of the completions, on the worker queue.                 *)
(***************************************************************************)
Take(completion, ok) ==
    /\ worker.at = "free" /\ callbacks # <<>>
    /\ Head(callbacks) = <<completion, ok>>
    /\ callbacks' = Tail(callbacks)
    /\ UNCHANGED <<phase, observer, returning, finishes, told>>

\* Mutant of Rest: the completion stays in the list.
RestWithIt(completion) == completions

\* RemoveCompletion
Rest(completion) == completions \ {completion}

CallbackCancelled(completion, ok) ==
    /\ Take(completion, ok) /\ completion \in cancelled
    /\ UNCHANGED <<finished, completions, cancelled, cq, call, worker, stopped, ioVars>>

\* Mutant of OnRead: the observer sees the message before the next read is issued.
OnReadNotifyingFirst(completion) ==
    /\ UNCHANGED <<writer, written, sent>>
    /\ \/ /\ reads' = reads + 1
          /\ completions' = Rest(completion) \cup {<<"read", reads + 1>>}
          /\ cq' = cq \cup {<<"read", reads + 1>>}
          /\ UNCHANGED <<finished, cancelled, call, worker, stopped>>
       \/ /\ Shutdown(Rest(completion), "immediate")
          /\ stopped' = TRUE
          /\ UNCHANGED <<cq, reads>>

\* The next read is issued before the observer sees the message.  A message it cannot parse
\* makes it finish the stream on the spot.
OnRead(completion) ==
    LET next == <<"read", reads + 1>> IN
    /\ reads' = reads + 1
    /\ cq' = cq \cup {next}
    /\ UNCHANGED <<writer, written, sent>>
    /\ \/ /\ completions' = Rest(completion) \cup {next}
          /\ UNCHANGED <<finished, cancelled, call, worker, stopped>>
       \/ /\ Shutdown(Rest(completion) \cup {next}, "immediate")
          /\ stopped' = TRUE

OnWrite(completion) ==
    /\ MaybeWrite(Dequeued(writer), Rest(completion))
    /\ UNCHANGED <<finished, cancelled, call, worker, reads, written, stopped>>

\* OnSuccess of the finish that a failed operation issued.
OnFinish(completion) ==
    /\ Shutdown(Rest(completion), "notify")
    /\ UNCHANGED <<cq, stopped, ioVars>>

OperationSucceeds(completion) ==
    /\ Take(completion, TRUE) /\ completion \notin cancelled
    /\ CASE completion[1] = "read" -> OnRead(completion)
         [] completion[1] = "write" -> OnWrite(completion)
         [] completion[1] = "finish" -> OnFinish(completion)

\* The first failed operation finishes the call; later ones find it finished.
OnOperationFailed(completion) ==
    /\ Take(completion, FALSE) /\ completion \notin cancelled
    /\ IF finished
         THEN completions' = Rest(completion) /\ UNCHANGED <<finished, cancelled, worker>>
         ELSE FinishGrpcCall(Rest(completion), "failed")
    /\ UNCHANGED <<cq, call, stopped, ioVars>>

RunCallback == \E completion \in Completion :
    \/ \E ok \in BOOLEAN : CallbackCancelled(completion, ok)
    \/ OperationSucceeds(completion)
    \/ OnOperationFailed(completion)

-----------------------------------------------------------------------------
(***************************************************************************)
(* gRPC (external) and its polling thread.  While the call lives, reads   *)
(* and writes return when they succeed, and a finish does not return;     *)
(* once it has failed or is cancelled, everything returns soon.           *)
(***************************************************************************)
CallFails ==
    /\ phase = "alive" /\ call = "live"
    /\ call' = "failed"
    /\ UNCHANGED <<phase, observer, completions, cancelled, cq, returning, callbacks, worker,
                   ioVars, endVars>>

\* Complete, up to the promise that the completion is off the queue.
TakenOffQueue(completion, ok) ==
    /\ completion \in cq /\ returning = {}
    /\ completion[1] = "read" /\ ok => reads < MaxReads
    /\ completion = Finish => ok
    /\ cq' = cq \ {completion}
    /\ returning' = {<<completion, ok>>}
    /\ UNCHANGED <<phase, observer, completions, cancelled, callbacks, call, worker,
                   ioVars, endVars>>

OperationDone == call = "live" /\ \E completion \in cq \ {Finish} : TakenOffQueue(completion, TRUE)
OperationReturns ==
    call # "live" /\ \E completion \in cq, ok \in BOOLEAN : TakenOffQueue(completion, ok)

CallbackEnqueued ==
    /\ returning # {}
    /\ \E callback \in returning : callbacks' = Append(callbacks, callback)
    /\ returning' = {}
    /\ UNCHANGED <<phase, observer, completions, cancelled, cq, call, worker, ioVars, endVars>>

-----------------------------------------------------------------------------
WorkerResumes == CallFinishIssued \/ ShutdownEnds \/ LastWriteOver

Next ==
    \/ Start \/ Write \/ FinishImmediately \/ WriteAndFinish \/ ConnectivityChanges
    \/ WorkerResumes
    \/ RunCallback
    \/ CallFails
    \/ OperationDone \/ OperationReturns \/ CallbackEnqueued

\* The worker runs what is enqueued and goes on once it may; the polling thread polls; gRPC
\* returns the operations of a call that is over.  Nothing is assumed of a live call.
Fairness ==
    /\ WF_vars(RunCallback) /\ WF_vars(WorkerResumes)
    /\ WF_vars(OperationReturns) /\ WF_vars(CallbackEnqueued)

Spec == Init /\ [][Next]_vars /\ Fairness

-----------------------------------------------------------------------------
(***************************************************************************)
(* Properties                                                             *)
(***************************************************************************)
\* When the stream is destroyed gRPC uses its call no more, no completion is left to it, and
\* no callback still on its way would reach it (grpc_stream.cc:102, :203).
NothingOutlivesStream ==
    phase = "destroyed" =>
        /\ completions = {} /\ cq = {}
        /\ OnTheWay \subseteq cancelled

\* gRPC asserts that a started call is finished exactly once; failed operations, a change of
\* connectivity and the client all finish it, in any order (grpc_stream.cc:191, :220, :308).
CallFinishedOnce ==
    /\ finishes <= 1
    /\ phase = "destroyed" => finishes = 1

\* gRPC is given one write at a time, and the messages in the order they were written
\* (grpc_stream.cc:65).
WritesOneByOne ==
    /\ Cardinality({c \in cq : c[1] = "write"}) <= 1
    /\ \A i \in DOMAIN sent : sent[i] = i

\* Whenever the worker blocks on the completion queue it gets on again: the call has failed
\* or been cancelled before it waits (grpc_stream.cc:192, :230).
WorkerReleased == worker.at # "free" ~> worker.at = "free"

\* A failed call reaches the observer, unless the client finishes the stream first
\* (grpc_stream.cc:307).
FailureReported == phase = "alive" /\ call = "failed" ~> told \/ stopped
=============================================================================
