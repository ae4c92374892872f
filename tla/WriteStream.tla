------------------------------ MODULE WriteStream ------------------------------
(***************************************************************************)
(* The write path of the Firestore client: the persisted mutation queue,  *)
(* the write pipeline of RemoteStore, the write stream under it and the   *)
(* server behind it.  Of the gRPC stream there is what GrpcStream says:   *)
(* one read is outstanding, callbacks reach the worker in the order of    *)
(* the completions, and the first failed operation cancels the others.    *)
(*                                                                        *)
(* A batch holds one new document; its number tells both.                 *)
(***************************************************************************)
EXTENDS Integers, SequencesExt

CONSTANTS
    MaxWrites,          \* bound: writes of the app
    MaxPendingWrites,   \* kMaxPendingWrites, which is 10 in the code
    MaxLosses           \* bound: connections that break, and restarts of the app

ASSUME WritesAssumption ==
    MaxWrites \in Nat /\ MaxPendingWrites \in Nat \ {0} /\ MaxLosses \in Nat

VARIABLES
    queue,      \* the mutation queue, persisted
    cache,      \* the acknowledged batches, in the remote document cache, persisted
    pipeline,   \* write_pipeline_
    stream,     \* of the WriteStream: [state, handshake, idle]
    tasks,      \* the callbacks of the gRPC stream enqueued on the worker
    call,       \* the present gRPC call: [sent, responses, status]
    late,       \* what the server may still process of calls that are over
    committed,  \* the batches the server has applied
    refused,    \* the batches the server has refused, and always will
    written,    \* writes of the app so far
    losses,     \* connections broken and restarts so far
    rejected,   \* batches removed from the queue as rejected (history)
    unheard     \* committed batches unheard of when a refused write closed the stream (history)

localVars == <<queue, cache, pipeline, rejected>>
serverVars == <<late, committed, refused>>
vars == <<localVars, stream, tasks, call, serverVars, written, losses, unheard>>

Batch == 1 .. MaxWrites
Handshake == 0

\* sent: written by the client and not processed by the server; responses: those that no
\* read has taken yet; status: how the call has ended.
NoCall == [sent |-> <<>>, responses |-> 0, status |-> "open"]

\* Mutant of Closed: handshake_complete_ outlives the call.
ClosedKeepingHandshake(state) ==
    [state |-> state, handshake |-> stream.handshake, idle |-> FALSE]

\* The stream without a call.
Closed(state) == [state |-> state, handshake |-> FALSE, idle |-> FALSE]

TypeOK ==
    /\ queue \in Seq(Batch)
    /\ pipeline \in Seq(Batch) /\ Len(pipeline) <= MaxPendingWrites
    /\ stream \in [state : {"initial", "starting", "open", "error", "backoff"},
                   handshake : BOOLEAN, idle : BOOLEAN]
    /\ tasks \in Seq({"response", "failed", "finished"})
    /\ call \in [sent : Seq(Batch \cup {Handshake}), responses : Nat,
                 status : {"open", "permanent", "transient"}]
    /\ late \subseteq Seq(Batch)
    /\ cache \subseteq Batch /\ committed \subseteq Batch /\ refused \subseteq Batch
    /\ rejected \subseteq Batch /\ unheard \subseteq Batch
    /\ written \in 0 .. MaxWrites /\ losses \in 0 .. MaxLosses

Init ==
    /\ queue = <<>> /\ cache = {} /\ pipeline = <<>> /\ rejected = {}
    /\ stream = [state |-> "initial", handshake |-> FALSE, idle |-> FALSE]
    /\ tasks = <<>> /\ call = NoCall
    /\ late = {} /\ committed = {} /\ refused = {} /\ unheard = {}
    /\ written = 0 /\ losses = 0

-----------------------------------------------------------------------------
(***************************************************************************)
(* The pipeline: the first batches of the queue, sent or about to be.     *)
(***************************************************************************)
Started(s) == s.state \in {"starting", "open", "backoff"}

ShouldStartWriteStream(p, s) == p # <<>> /\ ~ Started(s)

\* Mutant of StartIfNeeded: a stream in an error state is left alone.
StartUnlessFailed(p, s) ==
    IF p # <<>> /\ s.state = "initial" THEN [s EXCEPT !.state = "starting"] ELSE s

\* Stream::Start, where it should: after an error a start waits for the backoff.
StartIfNeeded(p, s) ==
    IF ShouldStartWriteStream(p, s)
      THEN [s EXCEPT !.state = IF @ = "error" THEN "backoff" ELSE "starting"]
      ELSE s

\* LevelDB's Seek: the place in q of the first batch whose number is not below `number`.
Seek(q, number) ==
    CHOOSE k \in 1 .. Len(q) + 1 :
        /\ \A i \in 1 .. k - 1 : q[i] < number
        /\ \A i \in k .. Len(q) : q[i] >= number

RemoveMutationBatch(q, batch) == RemoveAt(q, Seek(q, batch))

Take(q, n) == SubSeq(q, 1, IF n < Len(q) THEN n ELSE Len(q))
Following(p, q) == IF p = <<>> THEN q ELSE SubSeq(q, Seek(q, Last(p) + 1), Len(q))

\* Mutants of Added: the queue is read from its start; the pipeline has no limit.
AddedFromStart(p, q) == Take(q, MaxPendingWrites - Len(p))
AddedUnlimited(p, q) == Following(p, q)

\* What GetNextMutationBatch gives after the last batch of the pipeline, as long as there is room.
Added(p, q) == Take(Following(p, q), MaxPendingWrites - Len(p))

\* FillWritePipeline, from pipeline p, queue q, stream s and call c.  An open stream with
\* nothing to send is marked idle; a write ends that.
FillWritePipeline(p, q, s, c) ==
    LET added == Added(p, q)
        sends == s.state = "open" /\ s.handshake /\ added # <<>>
    IN
    /\ pipeline' = p \o added
    /\ call' = IF sends THEN [c EXCEPT !.sent = @ \o added] ELSE c
    /\ stream' = StartIfNeeded(pipeline', [s EXCEPT !.idle =
                    IF pipeline' = <<>> THEN s.state = "open" ELSE @ /\ ~ sends])

\* SyncEngine::WriteMutations: the batch is queued, persisted, and sent if there is room.
WriteMutations ==
    /\ written < MaxWrites
    /\ written' = written + 1
    /\ queue' = Append(queue, written')
    /\ FillWritePipeline(pipeline, queue', stream, call)
    /\ UNCHANGED <<cache, rejected, tasks, serverVars, losses, unheard>>

\* The credentials are there: the call is started and the handshake written.
OnWriteStreamOpen ==
    /\ stream.state = "starting"
    /\ stream' = [stream EXCEPT !.state = "open"]
    /\ call' = [NoCall EXCEPT !.sent = <<Handshake>>]
    /\ UNCHANGED <<localVars, tasks, serverVars, written, losses, unheard>>

BackoffElapses ==
    /\ stream.state = "backoff"
    /\ stream' = [stream EXCEPT !.state = "starting"]
    /\ UNCHANGED <<localVars, tasks, call, serverVars, written, losses, unheard>>

-----------------------------------------------------------------------------
(***************************************************************************)
(* Responses.  The next read is issued before a response is handled; it   *)
(* returns at once if a further response has come.                        *)
(***************************************************************************)
OnRead ==
    /\ tasks # <<>> /\ Head(tasks) = "response"
    /\ tasks' = Tail(tasks) \o (IF call.responses > 0 THEN <<"response">> ELSE <<>>)

AfterRead == [call EXCEPT !.responses = IF @ > 0 THEN @ - 1 ELSE 0]

\* The first response of a call: the whole pipeline is sent.
OnWriteStreamHandshakeComplete ==
    /\ OnRead
    /\ ~ stream.handshake
    /\ stream' = [stream EXCEPT !.handshake = TRUE, !.idle = @ /\ pipeline = <<>>]
    /\ call' = [AfterRead EXCEPT !.sent = @ \o pipeline]
    /\ UNCHANGED <<localVars, serverVars, written, losses, unheard>>

\* Every other response acknowledges the front of the pipeline: it moves to the cache.
OnWriteStreamMutationResult ==
    /\ OnRead
    /\ stream.handshake
    /\ pipeline # <<>>
    /\ queue' = RemoveMutationBatch(queue, Head(pipeline))
    /\ cache' = cache \cup {Head(pipeline)}
    /\ FillWritePipeline(Tail(pipeline), queue', stream, AfterRead)
    /\ UNCHANGED <<rejected, serverVars, written, losses, unheard>>

-----------------------------------------------------------------------------
(***************************************************************************)
(* The end of a call.                                                     *)
(***************************************************************************)
\* Mutant of IsWriteError: an error of the handshake counts as one of a write.
IsPermanentError(status) == pipeline # <<>> /\ status = "permanent"

\* OnWriteStreamClose takes a permanent error of a stream in use for one of the first write.
IsWriteError(status) == IsPermanentError(status) /\ stream.handshake

\* Stream::Close with an error.
CloseWithError(status) ==
    /\ tasks' = <<>>
    /\ IF IsWriteError(status)
         THEN \* HandleWriteError: the write is dropped and the stream started without backoff.
              /\ queue' = RemoveMutationBatch(queue, Head(pipeline))
              /\ rejected' = rejected \cup {Head(pipeline)}
              /\ FillWritePipeline(Tail(pipeline), queue', Closed("initial"), NoCall)
         ELSE /\ stream' = StartIfNeeded(pipeline, Closed("error"))
              /\ call' = NoCall
              /\ UNCHANGED <<queue, pipeline, rejected>>
    /\ UNCHANGED <<cache, committed, refused, written>>

\* The first failed operation: what else is under way is cancelled and the call finished.
OnOperationFailed ==
    /\ tasks # <<>> /\ Head(tasks) = "failed"
    /\ tasks' = <<"finished">>
    /\ call' = [call EXCEPT !.responses = 0]
    /\ unheard' = IF call.status = "permanent" /\ stream.handshake
                    THEN unheard \cup (committed \cap ToSet(pipeline)) ELSE unheard
    /\ UNCHANGED <<localVars, stream, serverVars, written, losses>>

OnStreamFinish ==
    /\ tasks # <<>> /\ Head(tasks) = "finished"
    /\ CloseWithError(call.status)
    /\ UNCHANGED <<late, losses, unheard>>

\* The idle timer stops the stream.
IdleElapses ==
    /\ stream.idle
    /\ stream' = StartIfNeeded(pipeline, Closed("initial"))
    /\ call' = NoCall /\ tasks' = <<>>
    /\ UNCHANGED <<localVars, serverVars, written, losses, unheard>>

\* What the server has been sent on a live call it may process though nobody waits any more.
LeaveToServer ==
    late' = IF call.status = "open" /\ call.sent \notin {<<>>, <<Handshake>>}
              THEN late \cup {call.sent} ELSE late

Loss == losses < MaxLosses /\ losses' = losses + 1

\* GrpcConnection finishes its streams when the connectivity of the device changes.
OnConnectivityChange ==
    /\ stream.state = "open"
    /\ Loss
    /\ LeaveToServer
    /\ CloseWithError("transient")
    /\ UNCHANGED unheard

\* The app is killed and started again; RemoteStore fills a new pipeline.
Restart ==
    /\ Loss
    /\ LeaveToServer
    /\ tasks' = <<>>
    /\ FillWritePipeline(<<>>, queue, Closed("initial"), NoCall)
    /\ UNCHANGED <<queue, cache, rejected, committed, refused, written, unheard>>

-----------------------------------------------------------------------------
(***************************************************************************)
(* The server and the connection.                                         *)
(***************************************************************************)
Serving == call.status = "open" /\ call.sent # <<>>

\* A response: the outstanding read returns, or it waits for a read.
Respond ==
    /\ Serving
    /\ IF tasks = <<>>
         THEN tasks' = <<"response">> /\ call' = [call EXCEPT !.sent = Tail(@)]
         ELSE call' = [call EXCEPT !.sent = Tail(@), !.responses = @ + 1] /\ UNCHANGED tasks

AcceptHandshake ==
    /\ Respond
    /\ Head(call.sent) = Handshake
    /\ UNCHANGED <<localVars, stream, serverVars, written, losses, unheard>>

\* Writes are applied in their order; one that has been applied before has no effect.
Commit ==
    /\ Respond
    /\ Head(call.sent) \in Batch \ refused
    /\ committed' = committed \cup {Head(call.sent)}
    /\ UNCHANGED <<localVars, stream, late, refused, written, losses, unheard>>

\* A write that can never succeed ends the call.
Refuse ==
    /\ Serving
    /\ Head(call.sent) \in Batch \ committed
    /\ refused' = refused \cup {Head(call.sent)}
    /\ call' = [call EXCEPT !.sent = Tail(@), !.status = "permanent"]
    /\ UNCHANGED <<localVars, stream, tasks, late, committed, written, losses, unheard>>

\* The connection breaks, or the server refuses the handshake.
ConnectionBreaks ==
    /\ stream.state = "open" /\ call.status = "open"
    /\ Loss
    /\ \E status \in {"transient", "permanent"} :
          /\ status = "permanent" => call.sent = <<Handshake>>
          /\ call' = [call EXCEPT !.status = status]
    /\ LeaveToServer
    /\ UNCHANGED <<localVars, stream, tasks, committed, refused, written, unheard>>

\* The server comes to a write of a call that is over, and to none after a refused one.
LateCommit ==
    /\ \E batches \in late :
          /\ Head(batches) \notin refused
          /\ committed' = committed \cup {Head(batches)}
          /\ late' = ((late \ {batches}) \cup {Tail(batches)}) \ {<<>>}
    /\ UNCHANGED <<localVars, stream, tasks, call, refused, written, losses, unheard>>

\* On a call that has ended the outstanding read fails once all responses are read,
\* and a write that gRPC still has may fail before.
OperationFails ==
    /\ call.status # "open"
    /\ ToSet(tasks) \cap {"failed", "finished"} = {}
    /\ tasks = <<>> \/ call.sent # <<>>
    /\ tasks' = Append(tasks, "failed")
    /\ UNCHANGED <<localVars, stream, call, serverVars, written, losses, unheard>>

-----------------------------------------------------------------------------

Worker ==
    \/ OnWriteStreamOpen
    \/ BackoffElapses
    \/ OnWriteStreamHandshakeComplete
    \/ OnWriteStreamMutationResult
    \/ OnOperationFailed
    \/ OnStreamFinish

Server == AcceptHandshake \/ Commit \/ Refuse

Next ==
    \/ WriteMutations
    \/ Worker
    \/ IdleElapses
    \/ OnConnectivityChange
    \/ Restart
    \/ Server
    \/ ConnectionBreaks
    \/ LateCommit
    \/ OperationFails

\* The worker runs its tasks and timers, the server answers what a live call brings it, and
\* the failure of a call is noticed.  Writes, idleness and losses need not happen.
Fairness == WF_vars(Worker) /\ WF_vars(Server) /\ WF_vars(OperationFails)

Spec == Init /\ [][Next]_vars /\ Fairness

-----------------------------------------------------------------------------
(***************************************************************************)
(* Properties.                                                            *)
(***************************************************************************)

\* No HARD_ASSERT of the write path fails: a result always finds a batch, an idle stream
\* is not needed, callbacks find a started stream, the handshake is made once per call, and
\* the pipeline holds the first batches of the queue, each once (remote_store.mm:365-455).
NoAssertionFails ==
    /\ tasks # <<>> => Started(stream)
    /\ tasks # <<>> /\ Head(tasks) = "response" /\ stream.handshake => pipeline # <<>>
    /\ stream.idle => pipeline = <<>>
    /\ stream.state = "starting" => ~ stream.handshake
    /\ IsPrefix(pipeline, queue)

\* A write is only given up when the server has refused it, however responses, failures,
\* reconnections and restarts interleave - unless responses to writes before it were on
\* their way when the refusal closed the stream (remote_store.mm:469-495).
OnlyRefusedDropped == rejected \subseteq refused \cup unheard

\* Every write is in the end acknowledged or refused, if the connection holds for long enough
\* (stream.mm:141-156, remote_store.mm:436-441).
WritesSettle ==
    \A batch \in Batch :
        (\E i \in DOMAIN queue : queue[i] = batch) ~> ~ \E i \in DOMAIN queue : queue[i] = batch

Client == {"client"}
Queue == INSTANCE Firestore WITH
    Device <- Client,
    server <- committed,
    cache <- [d \in Client |-> cache],
    mutations <- [d \in Client |-> queue],
    offline <- [d \in Client |-> FALSE],
    listens <- [d \in Client |-> {}],
    callbacks <- [d \in Client |-> <<>>]

\* What the mutation queue may do: AddDocument, and the steps of Firestore on its queue.
QueueNext ==
    \E d \in Client :
        \/ Queue!AddDocument(d, written') /\ UNCHANGED <<cache, committed>>
        \/ Queue!CommitWrite(d)
        \/ Queue!AcknowledgeBatch(d)
        \/ Queue!RejectBatch(d)
        \/ /\ \E batch \in unheard : queue = <<batch>> \o queue'
           /\ UNCHANGED <<cache, committed>>

\* The pipeline, the stream and the resending of writes implement the mutation queue of
\* Firestore: writes are committed in their order, acknowledged once committed, and
\* dropped only if not, save those of `unheard` (local_store.mm:166-220).
ImplementsQueue ==
    /\ Queue!FirestoreInit({}, [d \in Client |-> {}])
    /\ [][QueueNext]_<<queue, cache, committed>>
=============================================================================
