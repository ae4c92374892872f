------------------------------ MODULE Firestore ------------------------------
(***************************************************************************)
(* The Firestore client library of each device and the document server it *)
(* talks to, as far as Pindex uses them: one-shot queries (getDocuments)  *)
(* and document creation (addDocument) on one collection.  The module     *)
(* holds the state and its operations; a module that models a screen      *)
(* EXTENDS it and composes the operations with its own actions.           *)
(*                                                                        *)
(* What the app calls on the main thread, the library executes later on   *)
(* its worker queue; the call and the worker's task are one action here:  *)
(* nothing the app does on the main thread reads the library's state      *)
(* directly, and the tasks run in the order of the calls, so delaying the *)
(* task only delays the answers that callbacks already delays.            *)
(***************************************************************************)
EXTENDS Integers, FiniteSets, SequencesExt

CONSTANT Device      \* the installations of the app

VARIABLES
    server,     \* the documents the server has committed
    cache,      \* cache[d]: committed documents the remote document cache of d holds
    mutations,  \* mutations[d]: the mutation queue of d, persisted, sent in order
    offline,    \* offline[d]: the OnlineStateTracker of d is in state Offline
    listens,    \* listens[d]: the requests of d that no snapshot has answered yet
    callbacks   \* callbacks[d]: answers raised, whose callback has not run on the main queue

firestoreVars == <<server, cache, mutations, offline, listens, callbacks>>

(***************************************************************************)
(* A document is a record [id, data]; a request carries its query (field  *)
(* |-> value, all compared for equality) and whatever its closure holds.  *)
(* A document without a queried field never matches.                      *)
(***************************************************************************)
Matches(query, document) ==
    \A field \in DOMAIN query :
        field \in DOMAIN document.data /\ document.data[field] = query[field]

Pending(d) == ToSet(mutations[d])

\* Mutant of LocalDocuments: queued writes are not overlaid on the cache.
CachedDocuments(d) == cache[d]

\* The documents device d can show without the server: its cache under its queued writes.
LocalDocuments(d) == cache[d] \cup Pending(d)

Answer(request, documents) ==
    [request |-> request, err |-> FALSE,
     documents |-> {document \in documents : Matches(request.query, document)}]

ErrorAnswer(request) == [request |-> request, err |-> TRUE, documents |-> {}]

\* The answers d still owes: every request that has not met its callback.
Outstanding(d) ==
    listens[d] \cup {answer.request : answer \in ToSet(callbacks[d])}

-----------------------------------------------------------------------------

FirestoreInit(existing, cached) ==
    /\ server = existing
    /\ cache = cached
    /\ mutations = [d \in Device |-> <<>>]
    /\ offline = [d \in Device |-> FALSE]
    /\ listens = [d \in Device |-> {}]
    /\ callbacks = [d \in Device |-> <<>>]

(***************************************************************************)
(* Calls of the app.  GetDocuments takes the requests of one handler, in  *)
(* the order of its calls: a client that is Offline answers them at once. *)
(***************************************************************************)
GetDocuments(d, requests) ==
    /\ IF offline[d]
         THEN /\ callbacks' = [callbacks EXCEPT ![d] =
                    @ \o [i \in DOMAIN requests |-> Answer(requests[i], LocalDocuments(d))]]
              /\ UNCHANGED listens
         ELSE /\ listens' = [listens EXCEPT ![d] = @ \cup ToSet(requests)]
              /\ UNCHANGED callbacks
    /\ UNCHANGED <<server, cache, mutations, offline>>

AddDocument(d, document) ==
    mutations' = [mutations EXCEPT ![d] = Append(@, document)]

\* A callback leaves the main queue; the handler that runs it does the rest.
CallbackRuns(d) ==
    /\ callbacks[d] # <<>>
    /\ callbacks' = [callbacks EXCEPT ![d] = Tail(@)]

-----------------------------------------------------------------------------
(***************************************************************************)
(* Steps of the library and the server.                                   *)
(***************************************************************************)

\* The server brings the target of a request up to date and the view raises its
\* first snapshot; any watch change also makes the client Online.
RaiseSynced(d) ==
    \E request \in listens[d] :
        /\ cache' = [cache EXCEPT ![d] =
                        @ \cup {document \in server : Matches(request.query, document)}]
        /\ callbacks' = [callbacks EXCEPT ![d] =
                        Append(@, Answer(request, server \cup Pending(d)))]
        /\ listens' = [listens EXCEPT ![d] = @ \ {request}]
        /\ offline' = [offline EXCEPT ![d] = FALSE]
        /\ UNCHANGED <<server, mutations>>

\* Mutant of GoOffline: the state changes and the waiting listeners are not told.
GoOfflineSilently(d) ==
    /\ ~ offline[d]
    /\ offline' = [offline EXCEPT ![d] = TRUE]
    /\ UNCHANGED <<server, cache, mutations, listens, callbacks>>

\* The watch stream fails or stays silent for kOnlineStateTimeout: every request that
\* waits, if any does, is answered from the local store, in no fixed order.
GoOffline(d) ==
    /\ ~ offline[d]
    /\ offline' = [offline EXCEPT ![d] = TRUE]
    /\ \E order \in SetToSeqs(listens[d]) :
          callbacks' = [callbacks EXCEPT ![d] =
              @ \o [i \in DOMAIN order |-> Answer(order[i], LocalDocuments(d))]]
    /\ listens' = [listens EXCEPT ![d] = {}]
    /\ UNCHANGED <<server, cache, mutations>>

\* The state is set anew, by a message that answers nothing yet, the end of the last
\* listener or a stream closed for want of any: Offline no longer holds.
LeaveOffline(d) ==
    /\ offline[d]
    /\ offline' = [offline EXCEPT ![d] = FALSE]
    /\ UNCHANGED <<server, cache, mutations, listens, callbacks>>

\* The server removes the target of a request with an error.
ListenFails(d) ==
    \E request \in listens[d] :
        /\ listens' = [listens EXCEPT ![d] = @ \ {request}]
        /\ callbacks' = [callbacks EXCEPT ![d] = Append(@, ErrorAnswer(request))]
        /\ offline' = [offline EXCEPT ![d] = FALSE]
        /\ UNCHANGED <<server, cache, mutations>>

\* The server applies the writes of d in the order of the queue; several are on their way
\* before the first is acknowledged.  Acknowledgements may get lost and writes be sent
\* again: their keys were chosen by the client, so they are idempotent.
CommitWrite(d) ==
    /\ \E i \in DOMAIN mutations[d] :
          /\ \A j \in 1 .. i - 1 : mutations[d][j] \in server
          /\ server' = server \cup {mutations[d][i]}
    /\ UNCHANGED <<cache, mutations, offline, listens, callbacks>>

\* Mutant of AcknowledgeBatch: the acknowledged write is dropped before it is cached.
AcknowledgeWithoutCaching(d) ==
    /\ mutations[d] # <<>>
    /\ Head(mutations[d]) \in server
    /\ mutations' = [mutations EXCEPT ![d] = Tail(@)]
    /\ UNCHANGED <<server, cache, offline, listens, callbacks>>

\* The acknowledgement arrives: the write moves from the queue to the cache.
AcknowledgeBatch(d) ==
    /\ mutations[d] # <<>>
    /\ Head(mutations[d]) \in server
    /\ cache' = [cache EXCEPT ![d] = @ \cup {Head(mutations[d])}]
    /\ mutations' = [mutations EXCEPT ![d] = Tail(@)]
    /\ UNCHANGED <<server, offline, listens, callbacks>>

\* The server refuses the first queued write for good: it is dropped and, as the
\* app passes no completion block, nobody is told.
RejectBatch(d) ==
    /\ mutations[d] # <<>>
    /\ Head(mutations[d]) \notin server
    /\ mutations' = [mutations EXCEPT ![d] = Tail(@)]
    /\ UNCHANGED <<server, cache, offline, listens, callbacks>>

\* The process of the app ends: requests and callbacks are gone, the local store is not.
LibraryRestart(d) ==
    /\ listens' = [listens EXCEPT ![d] = {}]
    /\ callbacks' = [callbacks EXCEPT ![d] = <<>>]
    /\ offline' = [offline EXCEPT ![d] = FALSE]
    /\ UNCHANGED <<server, cache, mutations>>

FirestoreStep(d) ==
    \/ RaiseSynced(d)
    \/ GoOffline(d)
    \/ LeaveOffline(d)
    \/ ListenFails(d)
    \/ CommitWrite(d)
    \/ AcknowledgeBatch(d)
    \/ RejectBatch(d)

\* What the library owes a request: an answer from the server, or, once the online
\* state timer has fired, from the cache.
Raise(d) == listens[d] # {} /\ (RaiseSynced(d) \/ GoOffline(d) \/ ListenFails(d))

AnswerOf(Request, Document) ==
    [request : Request, err : BOOLEAN, documents : SUBSET Document]

FirestoreTypeOK(Request, Document) ==
    /\ server \subseteq Document
    /\ cache \in [Device -> SUBSET Document]
    /\ mutations \in [Device -> Seq(Document)]
    /\ offline \in [Device -> BOOLEAN]
    /\ listens \in [Device -> SUBSET Request]
    /\ \A d \in Device : IsFiniteSet(listens[d])
    /\ callbacks \in [Device -> Seq(AnswerOf(Request, Document))]
=============================================================================
