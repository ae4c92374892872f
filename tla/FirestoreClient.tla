---------------------------- MODULE FirestoreClient ----------------------------
(***************************************************************************)
(* One Firestore client answering one-shot queries (getDocuments): the    *)
(* listeners of EventManager, the views of SyncEngine, the watch targets  *)
(* of RemoteStore, its watch stream, and the server at the other end.     *)
(*                                                                        *)
(* Everything here runs on the client's worker queue, except the calls    *)
(* and callbacks of the app, which run on the main queue: a call enqueues *)
(* a task for the worker, an answer enqueues an event for the main queue. *)
(* A query and its target are one thing: the local store gives a query    *)
(* the same target id every time.  The documents of a query only grow in  *)
(* number, and the number stands for them.                                *)
(***************************************************************************)
EXTENDS FiniteSets, SequencesExt, OnlineStateTracker, WatchChangeAggregator

CONSTANTS
    Request,        \* the calls of getDocuments: records with a field `query`
    MaxDocuments,   \* bound: documents a query may get on the server
    MaxFailures,    \* bound: times the connection fails
    MaxInFlight     \* bound: messages of the server on their way

ASSUME ClientAssumption ==
    /\ \A r \in Request : r.query \in Target
    /\ MaxDocuments \in Nat /\ MaxFailures \in Nat /\ MaxInFlight \in Nat

VARIABLES
    outcome,    \* outcome[r]: "unasked", called, "waiting", or what it was answered by
    tasks,      \* the tasks of the app on the worker queue
    events,     \* events[r]: what has been raised for r and not reached the main queue
    muted,      \* requests whose AsyncEventListener is muted
    called,     \* called[r]: times the app's callback has run
    listeners,  \* the registered listeners; EventManager has an entry for their queries
    views,      \* queries with a view in SyncEngine
    synced,     \* those of them whose view is current
    listened,   \* listen_targets_
    tracker,    \* the OnlineStateTracker
    stream,     \* the watch stream: [state, idle (the timer is armed), failures]
    aggregator, \* the WatchChangeAggregator
    updates,    \* pending_document_updates_: documents received, not yet in a snapshot
    net,        \* the gRPC stream and the server's side of it
    known,      \* known[q]: documents of q in the local store
    committed,  \* committed[q]: documents of q on the server
    since,      \* since[q]: documents of q on the server when its view was made (history)
    overlapped, \* queries listened to again before all confirmations were in, or while the
                \*   confirmations cannot be told, being crossed (history)
    crossed     \* targets whose rejection crossed a request, on this stream (history)

appVars == <<tasks, muted, called>>
raiseVars == <<outcome, events>>
queryVars == <<listeners, views, listened, since>>
streamVars == <<tracker, stream, aggregator, updates, net, crossed>>
vars == <<outcome, tasks, events, muted, called, listeners, views, synced, listened,
          tracker, stream, aggregator, updates, net, known, committed, since,
          overlapped, crossed>>

Outcome == {"unasked", "called", "waiting", "server", "cache", "error"}
StreamState == {"Initial", "Starting", "Open", "Error", "Backoff"}
ToServer == [type : {"watch", "unwatch"}, query : Target]
ToClient ==
    [type : {"added", "refused", "removed", "current", "error"}, query : Target]
    \cup [type : {"documents"}, query : Target, count : 0 .. MaxDocuments]
    \cup [type : {"snapshot"}]
Count == [Target -> 0 .. MaxDocuments]

TypeOK ==
    /\ outcome \in [Request -> Outcome]
    /\ tasks \in Seq({"listen", "remove"} \X Request)
    /\ events \in [Request -> Seq({"server", "cache", "error", "later"})]
    /\ muted \subseteq Request
    /\ called \in [Request -> Nat]
    /\ listeners \subseteq Request
    /\ views \subseteq Target /\ synced \subseteq views /\ listened \subseteq Target
    /\ tracker \in Tracker
    /\ stream \in [state : StreamState, idle : BOOLEAN, failures : 0 .. MaxFailures]
    /\ aggregator \in [Target -> TargetState]
    /\ net \in [requests : Seq(ToServer), responses : Seq(ToClient), dirty : BOOLEAN,
                serving : [Target -> {"no", "added", "current"}], sent : Count]
    /\ updates \in Count /\ known \in Count /\ committed \in Count /\ since \in Count
    /\ overlapped \subseteq Target /\ crossed \subseteq Target

\* The entries of EventManager's queries_.
Queries == {r.query : r \in listeners}
ListenersOf(q) == {r \in listeners : r.query = q}
Waiting == {r \in listeners : outcome[r] = "waiting"}

NoDocuments == [q \in Target |-> 0]
NewNet ==
    [requests |-> <<>>, responses |-> <<>>, dirty |-> FALSE,
     serving |-> [q \in Target |-> "no"], sent |-> NoDocuments]

Init ==
    /\ outcome = [r \in Request |-> "unasked"]
    /\ tasks = <<>>
    /\ events = [r \in Request |-> <<>>]
    /\ muted = {}
    /\ called = [r \in Request |-> 0]
    /\ listeners = {} /\ views = {} /\ synced = {} /\ listened = {}
    /\ tracker = NewTracker
    /\ stream = [state |-> "Initial", idle |-> FALSE, failures |-> 0]
    /\ aggregator = NewAggregator
    /\ updates = NoDocuments
    /\ net = NewNet
    /\ known = NoDocuments /\ committed = NoDocuments /\ since = NoDocuments
    /\ overlapped = {} /\ crossed = {}

-----------------------------------------------------------------------------
(***************************************************************************)
(* Raising events.  After two events of one listener the rest is left out *)
(* (bound): it would meet the same muted listener.                        *)
(***************************************************************************)
Note(queue, event) == IF Len(queue) < 2 THEN Append(queue, event) ELSE queue

\* The listeners in R get an event: the initial one if they still wait, else a later one.
Raise(R, event) ==
    /\ outcome' = [r \in Request |->
           IF r \in R /\ outcome[r] = "waiting" THEN event ELSE outcome[r]]
    /\ events' = [r \in Request |->
           IF r \notin R THEN events[r]
           ELSE Note(events[r], IF outcome[r] = "waiting" THEN event ELSE "later")]

\* Mutant of OnlineStateChange: listeners are told only if their view was synced.
ChangeToldToSynced(t) ==
    /\ tracker' = t
    /\ IF t.state = "Offline" /\ tracker.state # "Offline"
         THEN Raise({r \in listeners : r.query \in synced}, "cache") /\ synced' = {}
         ELSE UNCHANGED <<raiseVars, synced>>

\* The tracker moves to t.  On going Offline synced views turn local, and every waiting
\* listener gets what the cache has; no other change of state raises anything.
OnlineStateChange(t) ==
    /\ tracker' = t
    /\ IF t.state = "Offline" /\ tracker.state # "Offline"
         THEN /\ Raise(Waiting \cup {r \in listeners : r.query \in synced}, "cache")
              /\ synced' = {}
         ELSE UNCHANGED <<raiseVars, synced>>

-----------------------------------------------------------------------------
(***************************************************************************)
(* The watch stream and its targets.                                      *)
(***************************************************************************)
IsOpen == stream.state = "Open"
IsStarted == stream.state \in {"Starting", "Backoff", "Open"}

\* Stream::Start: after an error the stream backs off before it asks for credentials.
Start(state) == IF state = "Error" THEN "Backoff" ELSE "Starting"

StartWatchStream ==
    /\ stream' = [stream EXCEPT !.state = Start(@)]
    /\ aggregator' = NewAggregator
    /\ updates' = NoDocuments
    /\ tracker' = HandleWatchStreamStart(tracker)
    /\ UNCHANGED <<net, crossed>>

\* Any write cancels the idle timer.
SendWatchRequest(q) ==
    /\ aggregator' = RecordPendingTargetRequest(aggregator, q)
    /\ net' = [net EXCEPT !.requests = Append(@, [type |-> "watch", query |-> q])]
    /\ stream' = [stream EXCEPT !.idle = FALSE]
    /\ UNCHANGED <<tracker, updates, crossed>>

\* Mutant of SendUnwatchRequest: the confirmation is not expected.
SendUnwatchUncounted(q) ==
    /\ net' = [net EXCEPT !.requests = Append(@, [type |-> "unwatch", query |-> q])]
    /\ UNCHANGED aggregator

SendUnwatchRequest(q) ==
    /\ aggregator' = RecordPendingTargetRequest(aggregator, q)
    /\ net' = [net EXCEPT !.requests = Append(@, [type |-> "unwatch", query |-> q])]

Listen(q) ==
    /\ views' = views \cup {q}
    /\ since' = [since EXCEPT ![q] = committed[q]]
    /\ listened' = listened \cup {q}
    /\ overlapped' = IF IsOpen /\ (IsPending(aggregator, q) \/ q \in crossed)
                       THEN overlapped \cup {q} ELSE overlapped \ {q}
    /\ IF ~ IsStarted THEN StartWatchStream
       ELSE IF IsOpen THEN SendWatchRequest(q)
       ELSE UNCHANGED streamVars

\* The last target leaves an open stream idle; over any other stream the state becomes
\* Unknown, also when the stream is being started and no timer will be armed for it.
UnwatchTarget(q) ==
    /\ listened' = listened \ {q}
    /\ IF IsOpen
         THEN /\ SendUnwatchRequest(q)
              /\ stream' = [stream EXCEPT !.idle = (listened = {q})]
              /\ UNCHANGED tracker
         ELSE /\ tracker' = IF listened = {q} THEN UpdateState(tracker, "Unknown") ELSE tracker
              /\ UNCHANGED <<stream, aggregator, net>>

\* Mutant of StopListening: the view goes, its being current stays behind.
StopListeningKeepingSync(q) ==
    /\ views' = views \ {q}
    /\ UnwatchTarget(q)
    /\ UNCHANGED <<synced, since, updates, crossed>>

StopListening(q) ==
    /\ views' = views \ {q}
    /\ synced' = synced \ {q}
    /\ UnwatchTarget(q)
    /\ UNCHANGED <<since, updates, crossed>>

-----------------------------------------------------------------------------
(***************************************************************************)
(* The tasks of the app, and the events that come back to it.             *)
(***************************************************************************)
GetDocuments(r) ==
    /\ outcome[r] = "unasked"
    /\ outcome' = [outcome EXCEPT ![r] = "called"]
    /\ tasks' = Append(tasks, <<"listen", r>>)
    /\ UNCHANGED <<events, muted, called, queryVars, synced, streamVars, known, committed,
                   overlapped>>

\* A listener of a query whose view is synced, or of any query while Offline, is answered
\* as it is added; the first listener of a query opens its view and its target.
AddQueryListener(r) ==
    /\ tasks # <<>> /\ Head(tasks) = <<"listen", r>>
    /\ tasks' = Tail(tasks)
    /\ listeners' = listeners \cup {r}
    /\ LET answer == IF r.query \in synced THEN "server"
                     ELSE IF tracker.state = "Offline" THEN "cache" ELSE "waiting"
       IN  /\ outcome' = [outcome EXCEPT ![r] = answer]
           /\ events' = IF answer = "waiting" THEN events
                        ELSE [events EXCEPT ![r] = Note(@, answer)]
    /\ IF r.query \in Queries
         THEN UNCHANGED <<views, listened, since, streamVars, overlapped>>
         ELSE Listen(r.query)
    /\ UNCHANGED <<muted, called, synced, known, committed>>

\* The last listener of a query closes its view; one that has been dropped by an error is
\* not found.
RemoveQueryListener(r) ==
    /\ tasks # <<>> /\ Head(tasks) = <<"remove", r>>
    /\ tasks' = Tail(tasks)
    /\ listeners' = listeners \ {r}
    /\ IF ListenersOf(r.query) = {r}
         THEN StopListening(r.query)
         ELSE UNCHANGED <<views, synced, listened, since, streamVars>>
    /\ UNCHANGED <<raiseVars, muted, called, known, committed, overlapped>>

\* Mutant of RunEvent: the listener is removed and not muted.
RunEventUnmuted(r) ==
    /\ events[r] # <<>>
    /\ events' = [events EXCEPT ![r] = Tail(@)]
    /\ called' = [called EXCEPT ![r] = @ + 1]
    /\ tasks' = IF Head(events[r]) = "error" THEN tasks ELSE Append(tasks, <<"remove", r>>)
    /\ UNCHANGED <<outcome, muted, queryVars, synced, streamVars, known, committed, overlapped>>

\* The first event mutes the listener, asks for its removal and calls the app back; an
\* error only calls back: the client has dropped the listener already.
RunEvent(r) ==
    /\ events[r] # <<>>
    /\ events' = [events EXCEPT ![r] = Tail(@)]
    /\ IF r \in muted THEN UNCHANGED appVars
       ELSE /\ called' = [called EXCEPT ![r] = @ + 1]
            /\ IF Head(events[r]) = "error" THEN UNCHANGED <<muted, tasks>>
               ELSE muted' = muted \cup {r} /\ tasks' = Append(tasks, <<"remove", r>>)
    /\ UNCHANGED <<outcome, queryVars, synced, streamVars, known, committed, overlapped>>

-----------------------------------------------------------------------------
(***************************************************************************)
(* The life of the watch stream.                                          *)
(***************************************************************************)
idleStreamVars == <<tasks, muted, called, listeners, views, listened, since, known, committed,
                    overlapped>>

\* Credentials and gRPC's call are there: existing watches are restored, in any order.
StreamOpens ==
    /\ stream.state = "Starting"
    /\ stream' = [stream EXCEPT !.state = "Open"]
    /\ aggregator' = [q \in Target |-> [aggregator[q] EXCEPT !.outstanding =
                          IF q \in listened THEN @ + 1 ELSE @]]
    /\ \E order \in SetToSeqs(listened) :
          net' = [net EXCEPT !.requests =
                     [i \in DOMAIN order |-> [type |-> "watch", query |-> order[i]]]]
    /\ UNCHANGED <<raiseVars, synced, tracker, updates, crossed, idleStreamVars>>

\* Stream::Close and RemoteStore::OnWatchStreamClose of a stream closed by an error: the
\* aggregator goes; with targets to watch the stream is started again and backs off.
StreamFails ==
    /\ stream.state \in {"Starting", "Open"} /\ stream.failures < MaxFailures
    /\ stream' = [state |-> IF listened # {} THEN Start("Error") ELSE "Error",
                  idle |-> FALSE, failures |-> stream.failures + 1]
    /\ OnlineStateChange(IF listened # {} THEN HandleWatchStreamStart(HandleWatchStreamFailure(tracker))
                         ELSE UpdateState(tracker, "Unknown"))
    /\ net' = NewNet
    /\ aggregator' = NewAggregator
    /\ updates' = NoDocuments
    /\ crossed' = {}
    /\ UNCHANGED idleStreamVars

BackoffElapses ==
    /\ stream.state = "Backoff"
    /\ stream' = [stream EXCEPT !.state = Start("Initial")]
    /\ UNCHANGED <<raiseVars, synced, tracker, aggregator, updates, net, crossed, idleStreamVars>>

\* kIdleTimeout has passed without a write: the stream is closed in good order.
IdleTimeout ==
    /\ stream.idle
    /\ stream' = [stream EXCEPT !.state = "Initial", !.idle = FALSE]
    /\ OnlineStateChange(UpdateState(tracker, "Unknown"))
    /\ net' = NewNet
    /\ aggregator' = NewAggregator
    /\ updates' = NoDocuments
    /\ crossed' = {}
    /\ UNCHANGED idleStreamVars

OnlineStateTimeout ==
    /\ tracker.timer
    /\ OnlineStateChange(TimerFired(tracker))
    /\ UNCHANGED <<stream, aggregator, updates, net, crossed, idleStreamVars>>

-----------------------------------------------------------------------------
(***************************************************************************)
(* Messages of the server.  Whatever it says, the client is Online.       *)
(***************************************************************************)
About(q) == {i \in DOMAIN net.requests : net.requests[i].query = q}
Replies(q) == {i \in DOMAIN net.responses :
    /\ net.responses[i].type \in {"added", "refused", "removed"}
    /\ net.responses[i].query = q}
InFlight(q) == Cardinality(About(q)) + Cardinality(Replies(q))

Receive(types, message) ==
    /\ IsOpen /\ net.responses # <<>>
    /\ message = Head(net.responses) /\ message.type \in types
    /\ net' = [net EXCEPT !.responses = Tail(@)]
    /\ tracker' = UpdateState(tracker, "Online")
    /\ UNCHANGED <<stream, tasks, muted, called, since, committed, overlapped>>

OnTargetChange(message) ==
    /\ Receive({"added", "removed", "current"}, message)
    /\ LET q == message.query IN
       aggregator' = CASE message.type = "added" -> HandleAdded(aggregator, q)
                       [] message.type = "removed" -> HandleRemoved(aggregator, q)
                       [] message.type = "current" -> HandleCurrent(aggregator, listened, q)
    /\ UNCHANGED <<raiseVars, listeners, views, synced, listened, updates, known, crossed>>

OnDocumentChange(message) ==
    /\ Receive({"documents"}, message)
    /\ updates' = IF IsActiveTarget(aggregator, listened, message.query)
                  THEN [updates EXCEPT ![message.query] = message.count] ELSE updates
    /\ UNCHANGED <<raiseVars, listeners, views, synced, listened, aggregator, known, crossed>>

\* A rejected target leaves at once, with its view and its listeners; a target that has
\* been removed already is ignored, and so is the answer that the error was to its watch.
OnTargetError(message) ==
    /\ Receive({"refused", "error"}, message)
    /\ LET q == message.query IN
       /\ IF q \in listened
            THEN /\ listened' = listened \ {q}
                 /\ aggregator' = RemoveTarget(aggregator, q)
                 /\ views' = views \ {q} /\ synced' = synced \ {q}
                 /\ listeners' = listeners \ ListenersOf(q)
                 /\ Raise(ListenersOf(q), "error")
            ELSE UNCHANGED <<raiseVars, listeners, views, synced, listened, aggregator>>
       /\ crossed' = IF (q \in listened /\ InFlight(q)' # 0)
                        \/ (q \notin listened /\ message.type = "refused")
                     THEN crossed \cup {q} ELSE crossed
    /\ UNCHANGED <<updates, known>>

Active == {q \in Target : IsActiveTarget(aggregator, listened, q)}

\* A global snapshot: the documents received enter the local store, active targets tell
\* their views whether they are current, and each view that has changed is shown to its
\* listeners; those that still wait accept it once it is synced.
OnSnapshot(message) ==
    /\ Receive({"snapshot"}, message)
    /\ known' = [q \in Target |-> Max({known[q], updates[q]})]
    /\ updates' = NoDocuments
    /\ synced' = {q \in views : IF q \in Active THEN aggregator[q].current ELSE q \in synced}
    /\ LET changed == {q \in views : known[q]' # known[q] \/ (q \in synced') # (q \in synced)}
       IN  Raise({r \in listeners : r.query \in changed
                                    /\ (r \in Waiting => r.query \in synced')}, "server")
    /\ UNCHANGED <<listeners, views, listened, aggregator, crossed>>

OnStreamRead == \E message \in ToSet(net.responses) :
    OnTargetChange(message) \/ OnDocumentChange(message) \/ OnTargetError(message)
    \/ OnSnapshot(message)

-----------------------------------------------------------------------------
(***************************************************************************)
(* The server at the other end of the stream (external).  It takes the    *)
(* requests in order, refuses or confirms each watch, confirms each       *)
(* unwatch, sends the documents of its targets, calls them current, and   *)
(* closes what it has sent with global snapshots.                         *)
(***************************************************************************)
serverRest == <<appVars, raiseVars, queryVars, synced, tracker, stream, aggregator, updates,
                known, overlapped, crossed>>

CanRespond == IsOpen /\ Len(net.responses) < MaxInFlight

ServerTakes ==
    /\ CanRespond /\ net.requests # <<>>
    /\ LET q == Head(net.requests).query
           Reply(type, state) ==
               net' = [net EXCEPT !.requests = Tail(@), !.serving[q] = state, !.sent[q] = 0,
                   !.responses = Append(@, [type |-> type, query |-> q])]
       IN  IF Head(net.requests).type = "watch" THEN Reply("added", "added") \/ Reply("refused", "no")
           ELSE Reply("removed", "no")
    /\ UNCHANGED <<committed, serverRest>>

ServerSendsDocuments(q) ==
    /\ CanRespond
    /\ net.serving[q] # "no" /\ net.sent[q] < committed[q]
    /\ net' = [net EXCEPT !.sent[q] = committed[q], !.dirty = TRUE,
           !.responses = Append(@, [type |-> "documents", query |-> q, count |-> committed[q]])]
    /\ UNCHANGED <<committed, serverRest>>

ServerCallsCurrent(q) ==
    /\ CanRespond
    /\ net.serving[q] = "added" /\ net.sent[q] = committed[q]
    /\ net' = [net EXCEPT !.serving[q] = "current", !.dirty = TRUE,
           !.responses = Append(@, [type |-> "current", query |-> q])]
    /\ UNCHANGED <<committed, serverRest>>

ServerSnapshot ==
    /\ CanRespond
    /\ net.dirty
    /\ net' = [net EXCEPT !.dirty = FALSE, !.responses = Append(@, [type |-> "snapshot"])]
    /\ UNCHANGED <<committed, serverRest>>

ServerRejects(q) ==
    /\ CanRespond
    /\ net.serving[q] # "no"
    /\ net' = [net EXCEPT !.serving[q] = "no",
           !.responses = Append(@, [type |-> "error", query |-> q])]
    /\ UNCHANGED <<committed, serverRest>>

\* Another client adds a document.
Commit(q) ==
    /\ committed[q] < MaxDocuments
    /\ committed' = [committed EXCEPT ![q] = @ + 1]
    /\ UNCHANGED <<net, serverRest>>

ServerProgress ==
    \/ ServerTakes
    \/ ServerSnapshot
    \/ \E q \in Target : ServerSendsDocuments(q) \/ ServerCallsCurrent(q)

-----------------------------------------------------------------------------
WorkerTask == \E r \in Request : AddQueryListener(r) \/ RemoveQueryListener(r)
MainTask == \E r \in Request : RunEvent(r)

Next ==
    \/ \E r \in Request : GetDocuments(r)
    \/ WorkerTask
    \/ MainTask
    \/ StreamOpens \/ StreamFails \/ BackoffElapses
    \/ IdleTimeout \/ OnlineStateTimeout
    \/ OnStreamRead
    \/ ServerProgress
    \/ \E q \in Target : ServerRejects(q) \/ Commit(q)

\* Both queues run what is on them, timers fire, the connection is made or fails, and an
\* open stream carries the server's messages.
Fairness ==
    /\ WF_vars(WorkerTask) /\ WF_vars(MainTask)
    /\ WF_vars(StreamOpens \/ StreamFails) /\ WF_vars(BackoffElapses)
    /\ WF_vars(OnlineStateTimeout)
    /\ WF_vars(OnStreamRead) /\ WF_vars(ServerProgress)

Spec == Init /\ [][Next]_vars /\ Fairness

-----------------------------------------------------------------------------
(***************************************************************************)
(* Properties                                                             *)
(***************************************************************************)
\* The assertions of the tracker, the stream, the store and the event manager: the timer
\* runs only in the Unknown state (online_state_tracker.cc:68), none runs when the stream is
\* about to start (:62), a failure in the Online state finds no count and no timer (:88), a
\* stream that idles out is open and no longer wanted (remote_store.mm:214), and listeners,
\* views and targets are there for the same queries (sync_engine.mm:92, remote_store.mm:151).
NoAssertionFails ==
    /\ TimerAsserts(tracker) /\ FailureAsserts(tracker)
    /\ ~ IsStarted => StartAsserts(tracker)
    /\ stream.idle => IsOpen /\ listened = {}
    /\ Queries = views /\ views = listened

\* The acknowledgements the aggregator waits for are exactly the requests and replies on
\* their way, over any order of listening and leaving; only where the rejection of a target
\* crosses a request does the count come apart (remote_event.h:198, remote_store.mm:331).
OutstandingIsInFlight ==
    IsOpen => \A q \in Target \ crossed : aggregator[q].outstanding = InFlight(q)

\* A view called synced holds every document the server had when the view was made, unless
\* its target was watched again before the last unwatch was confirmed (remote_event.cc:156),
\* or after a rejection that crossed a request (remote_store.mm:331).
SyncedViewsComplete ==
    \A q \in synced \ overlapped : known[q] >= since[q]

\* The app is called back at most once per query, also when later events overtake the
\* removal of its listener (query_core.mm:86, event_listener.h).
CalledOnce == \A r \in Request : called[r] <= 1

\* Every query is answered in the end, by the server, by the cache or by an error, whatever
\* the connection does and whoever shares the query; only a target whose rejection crossed a
\* request may leave its listeners waiting (remote_store.mm:331).
QueriesAnswered ==
    \A r \in Request : outcome[r] = "called" ~> (called[r] = 1 \/ r.query \in crossed)

\* Listeners, views, targets and the stream together keep the promise of QueryService.
Service == INSTANCE QueryService WITH
    offline <- tracker.state = "Offline",
    answer <- [r \in Request |-> IF outcome[r] = "called" THEN "unasked" ELSE outcome[r]]
ImplementsQueryService == Service!Spec

\* Whenever the client has targets and does not know whether it is online, the timer runs:
\* "we have a timeout for OnlineState to reach Online or Offline. If the timeout is reached,
\* we transition to Offline rather than waiting indefinitely" (online_state_tracker.cc:44).
UnknownIsTimed == listened # {} /\ tracker.state = "Unknown" => tracker.timer
=============================================================================
