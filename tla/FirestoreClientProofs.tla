------------------------- MODULE FirestoreClientProofs -------------------------
(***************************************************************************)
(* Proofs about the Firestore client, for any number of queries, calls,   *)
(* documents, failures and messages on their way.                         *)
(***************************************************************************)
EXTENDS FirestoreClient, FiniteSetTheorems, TLAPS

-----------------------------------------------------------------------------
(***************************************************************************)
(* Types, part by part.                                                   *)
(***************************************************************************)
AppType ==
    /\ outcome \in [Request -> Outcome]
    /\ tasks \in Seq({"listen", "remove"} \X Request)
    /\ events \in [Request -> Seq({"server", "cache", "error", "later"})]
    /\ muted \subseteq Request
    /\ called \in [Request -> Nat]

QueriesType ==
    /\ listeners \subseteq Request
    /\ views \subseteq Target /\ synced \subseteq views
    /\ listened \subseteq Target /\ IsFiniteSet(listened)
    /\ since \in Count /\ overlapped \subseteq Target

Stream == [state : StreamState, idle : BOOLEAN, failures : 0 .. MaxFailures]
Net == [requests : Seq(ToServer), responses : Seq(ToClient), dirty : BOOLEAN,
        serving : [Target -> {"no", "added", "current"}], sent : Count]

StreamType ==
    /\ tracker \in Tracker
    /\ stream \in Stream
    /\ aggregator \in [Target -> TargetState]
    /\ net \in Net
    /\ updates \in Count
    /\ crossed \subseteq Target

StoreType == known \in Count /\ committed \in Count

TypeInv == AppType /\ QueriesType /\ StreamType /\ StoreType

\* They are the types of the specification.
LEMMA TypeInvIs == TypeInv => TypeOK
BY DEF TypeInv, AppType, QueriesType, StreamType, StoreType, Stream, Net, TypeOK

\* A queue and what is put behind it, place by place.
LEMMA AppendPlaces ==
    ASSUME NEW S, NEW s \in Seq(S), NEW x \in S
    PROVE  /\ Append(s, x) \in Seq(S)
           /\ Len(s) \in Nat /\ DOMAIN s = 1 .. Len(s)
           /\ DOMAIN Append(s, x) = 1 .. Len(s) + 1
           /\ \A i \in 1 .. Len(s) : Append(s, x)[i] = s[i]
           /\ Append(s, x)[Len(s) + 1] = x
OBVIOUS

\* A queue without its head.
LEMMA TailPlaces ==
    ASSUME NEW S, NEW s \in Seq(S), s # <<>>
    PROVE  /\ Head(s) \in S /\ Head(s) = s[1] /\ 1 \in DOMAIN s
           /\ Tail(s) \in Seq(S)
           /\ Len(s) \in Nat \ {0} /\ DOMAIN s = 1 .. Len(s)
           /\ DOMAIN Tail(s) = 1 .. Len(s) - 1
           /\ \A i \in 1 .. Len(s) - 1 : Tail(s)[i] = s[i + 1]
OBVIOUS

\* Every order of a finite set is a sequence of all its elements, each once.
LEMMA OrderType ==
    ASSUME NEW S, IsFiniteSet(S), NEW order \in SetToSeqs(S)
    PROVE  /\ order \in Seq(S)
           /\ \A x \in S : \E i \in DOMAIN order : order[i] = x
           /\ \A i, j \in DOMAIN order : order[i] = order[j] => i = j
<1> DEFINE I == 1 .. Cardinality(S)
<1>1. Cardinality(S) \in Nat
  BY FS_CardinalityType
<1>2. order \in [I -> S] /\ \A i, j \in I : i # j => order[i] # order[j]
  BY DEF SetToSeqs
<1>3. order \in Injection(I, S)
  BY <1>2 DEF Injection, IsInjective
<1>4. Cardinality(I) = Cardinality(S)
  BY <1>1, FS_Interval
<1>5. order \in Surjection(I, S)
  BY <1>3, <1>4, FS_Injection
<1>. QED  BY <1>1, <1>2, <1>5 DEF Surjection

\* The methods of the tracker go from state to state.
LEMMA TrackerTypes ==
    ASSUME NEW t \in Tracker
    PROVE  /\ HandleWatchStreamStart(t) \in Tracker
           /\ HandleWatchStreamFailure(t) \in Tracker
           /\ \A state \in OnlineState : UpdateState(t, state) \in Tracker
           /\ TimerFired(t) \in Tracker
           /\ NewTracker \in Tracker
<1>1. MaxWatchStreamFailures \in Nat \ {0}
  BY TrackerAssumption
<1>2. HandleWatchStreamStart(t) \in Tracker
  BY <1>1 DEF Tracker, OnlineState, HandleWatchStreamStart
<1>3. HandleWatchStreamFailure(t) \in Tracker
  BY <1>1 DEF Tracker, OnlineState, HandleWatchStreamFailure
<1>4. \A state \in OnlineState : UpdateState(t, state) \in Tracker
  BY <1>1 DEF Tracker, UpdateState
<1>5. TimerFired(t) \in Tracker
  BY DEF Tracker, OnlineState, TimerFired
<1>6. NewTracker \in Tracker
  <2>1. 0 \in 0 .. MaxWatchStreamFailures
    BY <1>1
  <2>. QED  BY <2>1 DEF Tracker, OnlineState, NewTracker
<1>. QED  BY <1>2, <1>3, <1>4, <1>5, <1>6

\* So do those of the aggregator, target by target.
LEMMA AggregatorTypes ==
    ASSUME NEW states \in [Target -> TargetState], NEW q \in Target, NEW targets
    PROVE  /\ RecordPendingTargetRequest(states, q) \in [Target -> TargetState]
           /\ RemoveTarget(states, q) \in [Target -> TargetState]
           /\ HandleAdded(states, q) \in [Target -> TargetState]
           /\ HandleRemoved(states, q) \in [Target -> TargetState]
           /\ HandleCurrent(states, targets, q) \in [Target -> TargetState]
<1>1. /\ NewTargetState \in TargetState
      /\ \A state \in TargetState :
            /\ [state EXCEPT !.outstanding = @ + 1] \in TargetState
            /\ [state EXCEPT !.outstanding = @ - 1] \in TargetState
            /\ [state EXCEPT !.current = TRUE] \in TargetState
  <2>1. NewTargetState \in TargetState
    BY DEF TargetState, NewTargetState
  <2>2. ASSUME NEW state \in TargetState
        PROVE  /\ [state EXCEPT !.outstanding = @ + 1] \in TargetState
               /\ [state EXCEPT !.outstanding = @ - 1] \in TargetState
    BY DEF TargetState
  <2>3. ASSUME NEW state \in TargetState
        PROVE  [state EXCEPT !.current = TRUE] \in TargetState
    BY DEF TargetState
  <2>. QED  BY <2>1, <2>2, <2>3
<1>2. \A state \in TargetState : [states EXCEPT ![q] = state] \in [Target -> TargetState]
  OBVIOUS
<1>. QED
  BY <1>1, <1>2 DEF RecordPendingTargetRequest, RemoveTarget, HandleAdded, HandleRemoved,
                    HandleCurrent

\* New parts of a stream.
LEMMA NewTypes ==
    /\ NewAggregator \in [Target -> TargetState]
    /\ NoDocuments \in Count
    /\ NewNet \in Net
    /\ NewNet.requests = <<>> /\ NewNet.responses = <<>>
<1>1. NoDocuments \in Count /\ NewAggregator \in [Target -> TargetState]
  BY ClientAssumption DEF NoDocuments, Count, NewAggregator, NewTargetState, TargetState
<1>2. <<>> \in Seq(ToServer) /\ <<>> \in Seq(ToClient)
  OBVIOUS
<1>. QED  BY <1>1, <1>2 DEF NewNet, Net

\* Raising an event.
LEMMA RaiseType ==
    ASSUME AppType, NEW R, NEW event \in {"server", "cache", "error"}, Raise(R, event),
           UNCHANGED <<tasks, muted, called>>
    PROVE  AppType'
<1> DEFINE E == {"server", "cache", "error", "later"}
<1>1. outcome' \in [Request -> Outcome]
  BY DEF AppType, Raise, Outcome
<1>2. ASSUME NEW queue \in Seq(E), NEW e \in E PROVE Note(queue, e) \in Seq(E)
  BY DEF Note
<1>3. events' = [r \in Request |->
          IF r \notin R THEN events[r]
          ELSE Note(events[r], IF outcome[r] = "waiting" THEN event ELSE "later")]
  BY DEF Raise
<1>4. \A r \in Request : events[r] \in Seq(E)
  BY DEF AppType
<1>5. ASSUME NEW r \in Request
      PROVE  (IF r \notin R THEN events[r]
              ELSE Note(events[r], IF outcome[r] = "waiting" THEN event ELSE "later")) \in Seq(E)
  <2>1. event \in E /\ "later" \in E
    OBVIOUS
  <2>. QED  BY <1>2, <1>4, <2>1
<1>6. events' \in [Request -> Seq(E)]
  BY <1>3, <1>5
<1>. QED  BY <1>1, <1>6 DEF AppType

\* A change of the online state.
LEMMA OnlineStateType ==
    ASSUME AppType, QueriesType, NEW t \in Tracker, OnlineStateChange(t),
           UNCHANGED <<tasks, muted, called, queryVars, overlapped>>
    PROVE  AppType' /\ QueriesType' /\ tracker' \in Tracker
<1>1. tracker' = t
  BY DEF OnlineStateChange
<1>2. AppType'
  <2>1. CASE UNCHANGED raiseVars
    BY <2>1 DEF AppType, raiseVars
  <2>2. CASE \E R : Raise(R, "cache")
    BY <2>2, RaiseType
  <2>. QED  BY <2>1, <2>2 DEF OnlineStateChange
<1>3. QueriesType'
  BY DEF OnlineStateChange, QueriesType, queryVars
<1>. QED  BY <1>1, <1>2, <1>3

\* A request of the client joins those on their way.
LEMMA RequestJoins ==
    ASSUME net \in Net, NEW message \in ToServer
    PROVE  LET new == [net EXCEPT !.requests = Append(@, message)]
           IN  /\ new \in Net
               /\ new.requests = Append(net.requests, message)
               /\ new.responses = net.responses /\ new.dirty = net.dirty
               /\ new.serving = net.serving /\ new.sent = net.sent
<1>1. Append(net.requests, message) \in Seq(ToServer)
  BY DEF Net
<1>. QED  BY <1>1 DEF Net

\* Listening to a query.
LEMMA ListenType ==
    ASSUME TypeInv, NEW q \in Target, Listen(q), UNCHANGED synced, listeners' \subseteq Request
    PROVE  QueriesType' /\ StreamType'
<1>1. QueriesType'
  <2>1. IsFiniteSet(listened \cup {q})
    BY FS_AddElement DEF TypeInv, QueriesType
  <2>2. since' \in Count
    <3>1. committed[q] \in 0 .. MaxDocuments
      BY DEF TypeInv, StoreType, Count
    <3>. QED  BY <3>1 DEF Listen, TypeInv, QueriesType, Count
  <2>3. overlapped' \subseteq Target
    BY DEF Listen, TypeInv, QueriesType
  <2>4. views' \subseteq Target /\ synced' \subseteq views' /\ listened' = listened \cup {q}
    BY DEF Listen, TypeInv, QueriesType
  <2>. QED  BY <2>1, <2>2, <2>3, <2>4 DEF TypeInv, QueriesType
<1>2. CASE StartWatchStream
  <2>1. stream' \in Stream
    BY <1>2 DEF StartWatchStream, Start, TypeInv, StreamType, Stream, StreamState
  <2>2. tracker' \in Tracker
    BY <1>2, TrackerTypes DEF StartWatchStream, TypeInv, StreamType
  <2>. QED  BY <1>1, <1>2, <2>1, <2>2, NewTypes DEF StartWatchStream, TypeInv, StreamType
<1>3. CASE SendWatchRequest(q)
  <2>1. stream' \in Stream
    BY <1>3 DEF SendWatchRequest, TypeInv, StreamType, Stream
  <2>2. aggregator' \in [Target -> TargetState]
    BY <1>3, AggregatorTypes DEF SendWatchRequest, TypeInv, StreamType
  <2>3. [type |-> "watch", query |-> q] \in ToServer
    BY DEF ToServer
  <2>4. net' \in Net
    BY <1>3, <2>3, RequestJoins DEF SendWatchRequest, TypeInv, StreamType
  <2>. QED  BY <1>1, <1>3, <2>1, <2>2, <2>4 DEF SendWatchRequest, TypeInv, StreamType
<1>4. CASE UNCHANGED streamVars
  BY <1>1, <1>4 DEF streamVars, TypeInv, StreamType
<1>. QED  BY <1>2, <1>3, <1>4 DEF Listen

\* No longer listening to it.
LEMMA StopType ==
    ASSUME TypeInv, NEW q \in Target, StopListening(q), UNCHANGED overlapped,
           listeners' \subseteq Request
    PROVE  QueriesType' /\ StreamType'
<1>1. UnwatchTarget(q) /\ UNCHANGED <<since, updates, crossed>>
      /\ views' = views \ {q} /\ synced' = synced \ {q}
  BY DEF StopListening
<1>2. listened' = listened \ {q}
  BY <1>1 DEF UnwatchTarget
<1>3. QueriesType'
  <2>1. IsFiniteSet(listened \ {q})
    BY FS_RemoveElement DEF TypeInv, QueriesType
  <2>. QED  BY <1>1, <1>2, <2>1 DEF TypeInv, QueriesType
<1>4. tracker' \in Tracker
  <2>1. UpdateState(tracker, "Unknown") \in Tracker
    BY TrackerTypes DEF TypeInv, StreamType, OnlineState
  <2>. QED  BY <1>1, <2>1 DEF UnwatchTarget, TypeInv, StreamType
<1>5. stream' \in Stream
  <2>1. (listened = {q}) \in BOOLEAN
    OBVIOUS
  <2>2. \A b \in BOOLEAN : [stream EXCEPT !.idle = b] \in Stream
    BY DEF TypeInv, StreamType, Stream
  <2>3. stream' = stream \/ stream' = [stream EXCEPT !.idle = (listened = {q})]
    BY <1>1 DEF UnwatchTarget
  <2>. QED  BY <2>1, <2>2, <2>3 DEF TypeInv, StreamType
<1>6. aggregator' \in [Target -> TargetState] /\ net' \in Net
  <2>1. CASE IsOpen
    <3>1. SendUnwatchRequest(q)
      BY <1>1, <2>1 DEF UnwatchTarget
    <3>2. [type |-> "unwatch", query |-> q] \in ToServer
      BY DEF ToServer
    <3>. QED
      BY <3>1, <3>2, AggregatorTypes, RequestJoins DEF SendUnwatchRequest, TypeInv, StreamType
  <2>2. CASE ~ IsOpen
    BY <1>1, <2>2 DEF UnwatchTarget, TypeInv, StreamType
  <2>. QED  BY <2>1, <2>2
<1>. QED  BY <1>1, <1>3, <1>4, <1>5, <1>6 DEF TypeInv, StreamType

\* The tasks of the app.
LEMMA AppTypeInv ==
    ASSUME TypeInv, NEW r \in Request,
           GetDocuments(r) \/ AddQueryListener(r) \/ RemoveQueryListener(r) \/ RunEvent(r)
    PROVE  TypeInv'
<1> DEFINE E == {"server", "cache", "error", "later"}
           T == {"listen", "remove"} \X Request
<1>1. r.query \in Target
  BY ClientAssumption
<1>2. /\ tasks \in Seq(T) /\ events \in [Request -> Seq(E)]
      /\ outcome \in [Request -> Outcome] /\ called \in [Request -> Nat]
      /\ <<"listen", r>> \in T /\ <<"remove", r>> \in T
  BY DEF TypeInv, AppType
<1>3. CASE GetDocuments(r)
  <2>1. tasks' \in Seq(T)
    BY <1>2, <1>3 DEF GetDocuments
  <2>2. outcome' \in [Request -> Outcome]
    BY <1>2, <1>3 DEF GetDocuments, Outcome
  <2>. QED
    BY <1>3, <2>1, <2>2
       DEF GetDocuments, TypeInv, AppType, QueriesType, StreamType, StoreType, queryVars, streamVars
<1>4. CASE AddQueryListener(r)
  <2> DEFINE answer == IF r.query \in synced THEN "server"
                       ELSE IF tracker.state = "Offline" THEN "cache" ELSE "waiting"
  <2>1. /\ tasks # <<>> /\ tasks' = Tail(tasks)
        /\ listeners' = listeners \cup {r}
        /\ outcome' = [outcome EXCEPT ![r] = answer]
        /\ events' = IF answer = "waiting" THEN events
                     ELSE [events EXCEPT ![r] = Note(@, answer)]
        /\ UNCHANGED <<muted, called, synced, known, committed>>
    BY <1>4 DEF AddQueryListener
  <2>2. answer \in Outcome /\ (answer # "waiting" => answer \in E)
    BY DEF Outcome
  <2> HIDE DEF answer
  <2>3. AppType'
    <3>1. tasks' \in Seq(T)
      BY <1>2, <2>1
    <3>2. events' \in [Request -> Seq(E)]
      <4>1. answer # "waiting" => Note(events[r], answer) \in Seq(E)
        BY <1>2, <2>2 DEF Note
      <4>. QED  BY <1>2, <2>1, <4>1
    <3>3. outcome' \in [Request -> Outcome]
      BY <1>2, <2>1, <2>2
    <3>. QED  BY <2>1, <3>1, <3>2, <3>3 DEF TypeInv, AppType
  <2>4. listeners' \subseteq Request
    BY <2>1 DEF TypeInv, QueriesType
  <2>5. QueriesType' /\ StreamType'
    <3>1. CASE Listen(r.query)
      BY <1>1, <2>1, <2>4, <3>1, ListenType
    <3>2. CASE UNCHANGED <<views, listened, since, streamVars, overlapped>>
      BY <2>1, <2>4, <3>2 DEF streamVars, TypeInv, QueriesType, StreamType
    <3>. QED  BY <1>4, <3>1, <3>2 DEF AddQueryListener
  <2>. QED  BY <2>1, <2>3, <2>5 DEF TypeInv, StoreType
<1>5. CASE RemoveQueryListener(r)
  <2>1. /\ tasks # <<>> /\ tasks' = Tail(tasks)
        /\ listeners' = listeners \ {r}
        /\ UNCHANGED <<raiseVars, muted, called, known, committed, overlapped>>
    BY <1>5 DEF RemoveQueryListener
  <2>2. AppType'
    <3>1. tasks' \in Seq(T)
      BY <1>2, <2>1
    <3>. QED  BY <2>1, <3>1 DEF TypeInv, AppType, raiseVars
  <2>3. QueriesType' /\ StreamType'
    <3>1. CASE StopListening(r.query)
      BY <1>1, <2>1, <3>1, StopType DEF TypeInv, QueriesType
    <3>2. CASE UNCHANGED <<views, synced, listened, since, streamVars>>
      BY <2>1, <3>2 DEF streamVars, TypeInv, QueriesType, StreamType
    <3>. QED  BY <1>5, <3>1, <3>2 DEF RemoveQueryListener
  <2>. QED  BY <2>1, <2>2, <2>3 DEF TypeInv, StoreType
<1>6. CASE RunEvent(r)
  <2>1. events' = [events EXCEPT ![r] = Tail(@)] /\ events[r] # <<>>
        /\ UNCHANGED <<outcome, queryVars, synced, streamVars, known, committed, overlapped>>
    BY <1>6 DEF RunEvent
  <2>2. events' \in [Request -> Seq(E)]
    <3>1. Tail(events[r]) \in Seq(E)
      BY <1>2, <2>1
    <3>. QED  BY <1>2, <2>1, <3>1
  <2>3. tasks' \in Seq(T) /\ muted' \subseteq Request /\ called' \in [Request -> Nat]
    <3>1. CASE r \in muted
      BY <1>6, <3>1 DEF RunEvent, appVars, TypeInv, AppType
    <3>2. CASE r \notin muted
      <4>1. called' = [called EXCEPT ![r] = @ + 1]
            /\ \/ UNCHANGED <<muted, tasks>>
               \/ muted' = muted \cup {r} /\ tasks' = Append(tasks, <<"remove", r>>)
        BY <1>6, <3>2 DEF RunEvent
      <4>2. tasks' \in Seq(T)
        <5>1. Append(tasks, <<"remove", r>>) \in Seq(T)
          BY <1>2, AppendPlaces
        <5> HIDE DEF T
        <5>. QED  BY <1>2, <4>1, <5>1
      <4>3. muted' \subseteq Request
        BY <4>1 DEF TypeInv, AppType
      <4>4. called' \in [Request -> Nat]
        <5>1. called[r] + 1 \in Nat
          BY <1>2
        <5>. QED  BY <1>2, <4>1, <5>1
      <4>. QED  BY <4>2, <4>3, <4>4
    <3>. QED  BY <3>1, <3>2
  <2>. QED
    BY <2>1, <2>2, <2>3
       DEF TypeInv, AppType, QueriesType, StreamType, StoreType, queryVars, streamVars
<1>. QED  BY <1>3, <1>4, <1>5, <1>6

\* The larger of two numbers.
LEMMA MaxOfTwo ==
    ASSUME NEW a \in Int, NEW b \in Int
    PROVE  Max({a, b}) = IF a >= b THEN a ELSE b
BY DEF Max

\* A message of the server says what it is about.
LEMMA MessageTypes ==
    ASSUME NEW message \in ToClient
    PROVE  /\ message.type \in {"added", "refused", "removed", "current", "error", "documents",
                                "snapshot"}
           /\ message.type # "snapshot" => message.query \in Target
           /\ message.type = "documents" => message.count \in 0 .. MaxDocuments
BY DEF ToClient

\* Reading a message takes it off the stream, and the client is Online.
LEMMA ReceiveIs ==
    ASSUME net \in Net, NEW types, NEW message, Receive(types, message)
    PROVE  /\ net.responses # <<>> /\ message = Head(net.responses)
           /\ message \in ToClient /\ message.type \in types
           /\ net' \in Net /\ net'.responses = Tail(net.responses)
           /\ net'.requests = net.requests /\ net'.dirty = net.dirty
           /\ net'.serving = net.serving /\ net'.sent = net.sent
           /\ tracker' = [state |-> "Online", timer |-> FALSE, failures |-> 0]
           /\ tracker' \in Tracker
<1>1. /\ net.responses # <<>> /\ message = Head(net.responses) /\ message.type \in types
      /\ net' = [net EXCEPT !.responses = Tail(@)]
      /\ tracker' = UpdateState(tracker, "Online")
  BY DEF Receive
<1>2. net.responses \in Seq(ToClient)
  BY DEF Net
<1>3. message \in ToClient /\ Tail(net.responses) \in Seq(ToClient)
  BY <1>1, <1>2, TailPlaces
<1>4. /\ net' \in Net /\ net'.responses = Tail(net.responses)
      /\ net'.requests = net.requests /\ net'.dirty = net.dirty
      /\ net'.serving = net.serving /\ net'.sent = net.sent
  BY <1>1, <1>3 DEF Net
<1>5. 0 \in 0 .. MaxWatchStreamFailures
  BY TrackerAssumption
<1>. QED  BY <1>1, <1>3, <1>4, <1>5 DEF UpdateState, Tracker, OnlineState

\* The server takes the first request and replies to it.
LEMMA ServerTakesIs ==
    ASSUME net \in Net, ServerTakes
    PROVE  /\ net.requests # <<>> /\ Head(net.requests) \in ToServer
           /\ net' \in Net /\ net'.requests = Tail(net.requests) /\ net'.dirty = net.dirty
           /\ LET q == Head(net.requests).query
              IN  /\ net'.sent = [net.sent EXCEPT ![q] = 0]
                  /\ \E reply \in {"added", "refused", "removed"} :
                        /\ net'.responses = Append(net.responses, [type |-> reply, query |-> q])
                        /\ net'.serving = [net.serving EXCEPT ![q] =
                                               IF reply = "added" THEN "added" ELSE "no"]
                        /\ reply = "removed" <=> Head(net.requests).type = "unwatch"
<1> DEFINE q == Head(net.requests).query
           New(reply, state) ==
               [net EXCEPT !.requests = Tail(@), !.serving[q] = state, !.sent[q] = 0,
                           !.responses = Append(@, [type |-> reply, query |-> q])]
<1>1. net.requests # <<>>
  BY DEF ServerTakes
<1>2. net.requests \in Seq(ToServer) /\ net.responses \in Seq(ToClient)
  BY DEF Net
<1>3. Head(net.requests) \in ToServer /\ Tail(net.requests) \in Seq(ToServer)
  BY <1>1, <1>2, TailPlaces
<1>4. q \in Target /\ Head(net.requests).type \in {"watch", "unwatch"}
  BY <1>3 DEF ToServer
<1>5. PICK reply \in {"added", "refused", "removed"} :
         /\ net' = New(reply, IF reply = "added" THEN "added" ELSE "no")
         /\ reply = "removed" <=> Head(net.requests).type = "unwatch"
  BY <1>4 DEF ServerTakes
<1> DEFINE state == IF reply = "added" THEN "added" ELSE "no"
<1>6. [type |-> reply, query |-> q] \in ToClient
  BY <1>4 DEF ToClient
<1>7. Append(net.responses, [type |-> reply, query |-> q]) \in Seq(ToClient)
  BY <1>2, <1>6, AppendPlaces
<1>8. /\ [net.serving EXCEPT ![q] = state] \in [Target -> {"no", "added", "current"}]
      /\ [net.sent EXCEPT ![q] = 0] \in Count
  BY <1>4, ClientAssumption DEF Net, Count
<1>9. /\ net'.requests = Tail(net.requests) /\ net'.dirty = net.dirty
      /\ net'.responses = Append(net.responses, [type |-> reply, query |-> q])
      /\ net'.serving = [net.serving EXCEPT ![q] = state]
      /\ net'.sent = [net.sent EXCEPT ![q] = 0]
      /\ net' = [requests |-> Tail(net.requests), dirty |-> net.dirty,
                 responses |-> Append(net.responses, [type |-> reply, query |-> q]),
                 serving |-> [net.serving EXCEPT ![q] = state],
                 sent |-> [net.sent EXCEPT ![q] = 0]]
  BY <1>5 DEF Net
<1>10. net' \in Net
  BY <1>3, <1>7, <1>8, <1>9 DEF Net
<1>. QED  BY <1>1, <1>3, <1>5, <1>9, <1>10

\* What the server sends about a target of its own accord.
LEMMA ServerSendsIs ==
    ASSUME net \in Net, committed \in Count, NEW q \in Target,
           ServerSendsDocuments(q) \/ ServerCallsCurrent(q) \/ ServerRejects(q)
    PROVE  /\ net' \in Net /\ net'.requests = net.requests
           /\ IsOpen /\ net.serving[q] # "no"
           /\ \/ /\ net'.responses = Append(net.responses,
                         [type |-> "documents", query |-> q, count |-> committed[q]])
                 /\ net'.serving = net.serving
                 /\ net'.sent = [net.sent EXCEPT ![q] = committed[q]]
              \/ /\ net'.responses = Append(net.responses, [type |-> "current", query |-> q])
                 /\ net.serving[q] = "added" /\ net.sent[q] = committed[q]
                 /\ net'.serving = [net.serving EXCEPT ![q] = "current"]
                 /\ net'.sent = net.sent
              \/ /\ net'.responses = Append(net.responses, [type |-> "error", query |-> q])
                 /\ net'.serving = [net.serving EXCEPT ![q] = "no"]
                 /\ net'.sent = net.sent
<1>1. committed[q] \in 0 .. MaxDocuments /\ net.responses \in Seq(ToClient)
  BY DEF Count, Net
<1>2. CASE ServerSendsDocuments(q)
  <2> DEFINE message == [type |-> "documents", query |-> q, count |-> committed[q]]
  <2>1. message \in ToClient
    BY <1>1 DEF ToClient
  <2>2. Append(net.responses, message) \in Seq(ToClient)
    BY <1>1, <2>1, AppendPlaces
  <2>3. [net.sent EXCEPT ![q] = committed[q]] \in Count
    BY <1>1 DEF Net, Count
  <2>4. /\ net'.requests = net.requests /\ net'.serving = net.serving
        /\ net'.responses = Append(net.responses, message)
        /\ net'.sent = [net.sent EXCEPT ![q] = committed[q]]
        /\ net' = [requests |-> net.requests, dirty |-> TRUE, serving |-> net.serving,
                   responses |-> Append(net.responses, message),
                   sent |-> [net.sent EXCEPT ![q] = committed[q]]]
    BY <1>2 DEF ServerSendsDocuments, Net
  <2>5. net' \in Net
    BY <2>2, <2>3, <2>4 DEF Net
  <2>. QED  BY <1>2, <2>4, <2>5 DEF ServerSendsDocuments, CanRespond
<1>3. CASE ServerCallsCurrent(q)
  <2> DEFINE message == [type |-> "current", query |-> q]
  <2>1. message \in ToClient
    BY DEF ToClient
  <2>2. Append(net.responses, message) \in Seq(ToClient)
    BY <1>1, <2>1, AppendPlaces
  <2>3. /\ net'.requests = net.requests /\ net'.sent = net.sent
        /\ net'.responses = Append(net.responses, message)
        /\ net'.serving = [net.serving EXCEPT ![q] = "current"]
        /\ net' = [requests |-> net.requests, dirty |-> TRUE, sent |-> net.sent,
                   responses |-> Append(net.responses, message),
                   serving |-> [net.serving EXCEPT ![q] = "current"]]
    BY <1>3 DEF ServerCallsCurrent, Net
  <2>4. net' \in Net
    BY <2>2, <2>3 DEF Net
  <2>5. IsOpen /\ net.serving[q] = "added" /\ net.sent[q] = committed[q]
    BY <1>3 DEF ServerCallsCurrent, CanRespond
  <2>. QED  BY <2>3, <2>4, <2>5
<1>4. CASE ServerRejects(q)
  <2> DEFINE message == [type |-> "error", query |-> q]
  <2>1. message \in ToClient
    BY DEF ToClient
  <2>2. Append(net.responses, message) \in Seq(ToClient)
    BY <1>1, <2>1, AppendPlaces
  <2>3. /\ net'.requests = net.requests /\ net'.sent = net.sent
        /\ net'.responses = Append(net.responses, message)
        /\ net'.serving = [net.serving EXCEPT ![q] = "no"]
        /\ net' = [requests |-> net.requests, dirty |-> net.dirty, sent |-> net.sent,
                   responses |-> Append(net.responses, message),
                   serving |-> [net.serving EXCEPT ![q] = "no"]]
    BY <1>4 DEF ServerRejects, Net
  <2>4. net' \in Net
    BY <2>2, <2>3 DEF Net
  <2>. QED  BY <1>4, <2>3, <2>4 DEF ServerRejects, CanRespond
<1>. QED  BY <1>2, <1>3, <1>4

\* A global snapshot of the server is one more message.
LEMMA ServerSnapshotIs ==
    ASSUME net \in Net, ServerSnapshot
    PROVE  /\ net' \in Net /\ IsOpen
           /\ net'.responses = Append(net.responses, [type |-> "snapshot"])
           /\ net'.requests = net.requests
           /\ net'.serving = net.serving /\ net'.sent = net.sent
<1>1. [type |-> "snapshot"] \in ToClient /\ net.responses \in Seq(ToClient)
  BY DEF ToClient, Net
<1>2. Append(net.responses, [type |-> "snapshot"]) \in Seq(ToClient)
  BY <1>1, AppendPlaces
<1>. QED  BY <1>2 DEF ServerSnapshot, CanRespond, Net

\* The requests of a stream that opens: a watch of every target, in any order.
LEMMA StreamOpensIs ==
    ASSUME TypeInv, StreamOpens
    PROVE  /\ net' \in Net /\ net'.responses = net.responses /\ net'.dirty = net.dirty
           /\ net'.serving = net.serving /\ net'.sent = net.sent
           /\ \A i \in DOMAIN net'.requests :
                 net'.requests[i].type = "watch" /\ net'.requests[i].query \in listened
           /\ \A q \in listened : \E i \in DOMAIN net'.requests : net'.requests[i].query = q
           /\ \A i, j \in DOMAIN net'.requests :
                 net'.requests[i].query = net'.requests[j].query => i = j
           /\ aggregator' \in [Target -> TargetState]
           /\ stream' \in Stream /\ stream'.state = "Open" /\ stream'.idle = stream.idle
<1>1. PICK order \in SetToSeqs(listened) : net' = [net EXCEPT !.requests =
                     [i \in DOMAIN order |-> [type |-> "watch", query |-> order[i]]]]
  BY DEF StreamOpens
<1>2. /\ order \in Seq(listened)
      /\ \A q \in listened : \E i \in DOMAIN order : order[i] = q
      /\ \A i, j \in DOMAIN order : order[i] = order[j] => i = j
  BY OrderType DEF TypeInv, QueriesType
<1> DEFINE requests == [i \in DOMAIN order |-> [type |-> "watch", query |-> order[i]]]
<1>3. requests \in Seq(ToServer)
  <2>1. Len(order) \in Nat /\ DOMAIN order = 1 .. Len(order)
    BY <1>2
  <2>2. \A i \in DOMAIN order : requests[i] \in ToServer
    BY <1>2 DEF ToServer, TypeInv, QueriesType
  <2>. QED  BY <2>1, <2>2
<1>4. net' \in Net /\ net'.requests = requests /\ net'.responses = net.responses
      /\ net'.dirty = net.dirty /\ net'.serving = net.serving /\ net'.sent = net.sent
  BY <1>1, <1>3 DEF TypeInv, StreamType, Net
<1>5. /\ DOMAIN requests = DOMAIN order
      /\ \A i \in DOMAIN order : requests[i].type = "watch" /\ requests[i].query = order[i]
      /\ \A i \in DOMAIN order : order[i] \in listened
  BY <1>2
<1>6. aggregator' \in [Target -> TargetState]
  <2>1. \A q \in Target : [aggregator[q] EXCEPT !.outstanding =
                               IF q \in listened THEN @ + 1 ELSE @] \in TargetState
    BY DEF TypeInv, StreamType, TargetState
  <2>. QED  BY <2>1 DEF StreamOpens
<1>7. stream' \in Stream /\ stream'.state = "Open" /\ stream'.idle = stream.idle
  BY DEF StreamOpens, TypeInv, StreamType, Stream, StreamState
<1> HIDE DEF requests
<1>. QED  BY <1>2, <1>4, <1>5, <1>6, <1>7

\* The life of the watch stream.
LEMMA StreamTypeInv ==
    ASSUME TypeInv,
           StreamOpens \/ StreamFails \/ BackoffElapses \/ IdleTimeout \/ OnlineStateTimeout
    PROVE  TypeInv'
<1> USE DEF idleStreamVars
<1>1. CASE StreamOpens
  <2>1. /\ UNCHANGED <<raiseVars, synced, tracker, updates, crossed>>
        /\ UNCHANGED <<tasks, muted, called, listeners, views, listened, since, known,
                       committed, overlapped>>
    BY <1>1 DEF StreamOpens
  <2>. QED
    BY <1>1, <2>1, StreamOpensIs
       DEF raiseVars, TypeInv, AppType, QueriesType, StreamType, StoreType
<1>2. CASE StreamFails
  <2> DEFINE t == IF listened # {}
                  THEN HandleWatchStreamStart(HandleWatchStreamFailure(tracker))
                  ELSE UpdateState(tracker, "Unknown")
  <2>1. t \in Tracker
    BY TrackerTypes DEF TypeInv, StreamType, OnlineState
  <2>2. /\ OnlineStateChange(t)
        /\ UNCHANGED <<tasks, muted, called, listeners, views, listened, since, known,
                       committed, overlapped>>
        /\ net' = NewNet /\ aggregator' = NewAggregator /\ updates' = NoDocuments
        /\ crossed' = {}
    BY <1>2 DEF StreamFails
  <2> HIDE DEF t
  <2>3. AppType' /\ QueriesType' /\ tracker' \in Tracker
    BY <2>1, <2>2, OnlineStateType DEF queryVars, TypeInv
  <2>4. stream' \in Stream
    <3>1. stream.failures + 1 \in 0 .. MaxFailures
      BY <1>2, ClientAssumption DEF StreamFails, TypeInv, StreamType, Stream
    <3>2. \A state \in StreamState :
             [state |-> state, idle |-> FALSE, failures |-> stream.failures + 1] \in Stream
      BY <3>1 DEF Stream
    <3>. QED  BY <1>2, <3>2 DEF StreamFails, Start, StreamState
  <2>. QED  BY <2>2, <2>3, <2>4, NewTypes DEF TypeInv, StreamType, StoreType
<1>3. CASE BackoffElapses
  <2>1. stream' \in Stream
    BY <1>3 DEF BackoffElapses, Start, TypeInv, StreamType, Stream, StreamState
  <2>. QED
    BY <1>3, <2>1
       DEF BackoffElapses, raiseVars, TypeInv, AppType, QueriesType, StreamType, StoreType
<1>4. CASE IdleTimeout
  <2>1. UpdateState(tracker, "Unknown") \in Tracker
    BY TrackerTypes DEF TypeInv, StreamType, OnlineState
  <2>2. /\ OnlineStateChange(UpdateState(tracker, "Unknown"))
        /\ UNCHANGED <<tasks, muted, called, listeners, views, listened, since, known,
                       committed, overlapped>>
        /\ net' = NewNet /\ aggregator' = NewAggregator /\ updates' = NoDocuments
        /\ crossed' = {}
    BY <1>4 DEF IdleTimeout
  <2>3. AppType' /\ QueriesType' /\ tracker' \in Tracker
    BY <2>1, <2>2, OnlineStateType DEF queryVars, TypeInv
  <2>4. stream' \in Stream
    BY <1>4 DEF IdleTimeout, TypeInv, StreamType, Stream, StreamState
  <2>. QED  BY <2>2, <2>3, <2>4, NewTypes DEF TypeInv, StreamType, StoreType
<1>5. CASE OnlineStateTimeout
  <2>1. TimerFired(tracker) \in Tracker
    BY TrackerTypes DEF TypeInv, StreamType
  <2>2. /\ OnlineStateChange(TimerFired(tracker))
        /\ UNCHANGED <<tasks, muted, called, listeners, views, listened, since, known,
                       committed, overlapped>>
        /\ UNCHANGED <<stream, aggregator, updates, net, crossed>>
    BY <1>5 DEF OnlineStateTimeout
  <2>3. AppType' /\ QueriesType' /\ tracker' \in Tracker
    BY <2>1, <2>2, OnlineStateType DEF queryVars, TypeInv
  <2>. QED  BY <2>2, <2>3 DEF TypeInv, StreamType, StoreType
<1>. QED  BY <1>1, <1>2, <1>3, <1>4, <1>5

\* The messages of the server.
LEMMA ReadTypeInv ==
    ASSUME TypeInv, OnStreamRead
    PROVE  TypeInv'
<1>1. PICK message : OnTargetChange(message) \/ OnDocumentChange(message)
                     \/ OnTargetError(message) \/ OnSnapshot(message)
  BY DEF OnStreamRead
<1>2. PICK types : Receive(types, message)
  BY <1>1 DEF OnTargetChange, OnDocumentChange, OnTargetError, OnSnapshot
<1>3. /\ net' \in Net /\ tracker' \in Tracker /\ message \in ToClient
      /\ UNCHANGED <<stream, tasks, muted, called, since, committed, overlapped>>
  BY <1>2, ReceiveIs DEF TypeInv, StreamType, Receive
<1>4. CASE OnTargetChange(message)
  <2>1. message.query \in Target
    BY <1>3, <1>4, ReceiveIs, MessageTypes DEF OnTargetChange, TypeInv, StreamType
  <2>2. aggregator' \in [Target -> TargetState]
    <3>1. message.type \in {"added", "removed", "current"}
      BY <1>4 DEF OnTargetChange, Receive
    <3>2. \/ aggregator' = HandleAdded(aggregator, message.query)
          \/ aggregator' = HandleRemoved(aggregator, message.query)
          \/ aggregator' = HandleCurrent(aggregator, listened, message.query)
      BY <1>4, <3>1 DEF OnTargetChange
    <3>. QED  BY <2>1, <3>2, AggregatorTypes DEF TypeInv, StreamType
  <2>. QED
    BY <1>3, <1>4, <2>2
       DEF OnTargetChange, raiseVars, TypeInv, AppType, QueriesType, StreamType, StoreType
<1>5. CASE OnDocumentChange(message)
  <2>1. message.query \in Target /\ message.count \in 0 .. MaxDocuments
    BY <1>3, <1>5, MessageTypes DEF OnDocumentChange, Receive
  <2>2. updates' \in Count
    BY <1>5, <2>1 DEF OnDocumentChange, TypeInv, StreamType, Count
  <2>. QED
    BY <1>3, <1>5, <2>2
       DEF OnDocumentChange, raiseVars, TypeInv, AppType, QueriesType, StreamType, StoreType
<1>6. CASE OnTargetError(message)
  <2> DEFINE q == message.query
  <2>1. q \in Target
    BY <1>3, <1>6, MessageTypes DEF OnTargetError, Receive
  <2>2. crossed' \subseteq Target /\ UNCHANGED <<updates, known>>
    BY <1>6, <2>1 DEF OnTargetError, TypeInv, StreamType
  <2>3. CASE q \in listened
    <3>1. /\ listened' = listened \ {q}
          /\ aggregator' = RemoveTarget(aggregator, q)
          /\ views' = views \ {q} /\ synced' = synced \ {q}
          /\ listeners' = listeners \ ListenersOf(q)
          /\ Raise(ListenersOf(q), "error")
      BY <1>6, <2>3 DEF OnTargetError
    <3>2. AppType'
      BY <1>3, <3>1, RaiseType DEF TypeInv
    <3>3. aggregator' \in [Target -> TargetState]
      BY <2>1, <3>1, AggregatorTypes DEF TypeInv, StreamType
    <3>4. QueriesType'
      <4>1. IsFiniteSet(listened \ {q})
        BY FS_RemoveElement DEF TypeInv, QueriesType
      <4>. QED  BY <1>3, <3>1, <4>1 DEF TypeInv, QueriesType
    <3>. QED  BY <1>3, <2>2, <3>2, <3>3, <3>4 DEF TypeInv, StreamType, StoreType
  <2>4. CASE q \notin listened
    <3>1. UNCHANGED <<raiseVars, listeners, views, synced, listened, aggregator>>
      BY <1>6, <2>4 DEF OnTargetError
    <3>. QED
      BY <1>3, <2>2, <3>1
         DEF raiseVars, TypeInv, AppType, QueriesType, StreamType, StoreType
  <2>. QED  BY <2>3, <2>4
<1>7. CASE OnSnapshot(message)
  <2>1. known' \in Count
    <3>1. known' = [q \in Target |-> Max({known[q], updates[q]})]
      BY <1>7 DEF OnSnapshot
    <3>2. \A a, b \in 0 .. MaxDocuments : Max({a, b}) \in 0 .. MaxDocuments
      BY MaxOfTwo, ClientAssumption
    <3>. QED  BY <3>1, <3>2 DEF TypeInv, StreamType, StoreType, Count
  <2>2. AppType'
    <3>1. PICK R : Raise(R, "server")
      BY <1>7 DEF OnSnapshot
    <3>. QED  BY <1>3, <3>1, RaiseType DEF TypeInv
  <2>3. /\ updates' = NoDocuments /\ synced' \subseteq views
        /\ UNCHANGED <<listeners, views, listened, aggregator, crossed>>
    BY <1>7 DEF OnSnapshot
  <2>. QED  BY <1>3, <2>1, <2>2, <2>3, NewTypes DEF TypeInv, QueriesType, StreamType, StoreType
<1>. QED  BY <1>1, <1>4, <1>5, <1>6, <1>7

\* The server, and other clients.
LEMMA ServerTypeInv ==
    ASSUME TypeInv,
           ServerProgress \/ \E q \in Target : ServerRejects(q) \/ Commit(q)
    PROVE  TypeInv' /\ UNCHANGED serverRest
<1>1. CASE \E q \in Target : Commit(q)
  <2>1. PICK q \in Target : Commit(q)
    BY <1>1
  <2>2. committed' \in Count
    <3>1. committed[q] \in 0 .. MaxDocuments /\ committed[q] < MaxDocuments
      BY <2>1 DEF Commit, TypeInv, StoreType, Count
    <3>2. committed[q] + 1 \in 0 .. MaxDocuments
      BY <3>1, ClientAssumption
    <3>. QED  BY <2>1, <3>2 DEF Commit, TypeInv, StoreType, Count
  <2>. QED
    BY <2>1, <2>2 DEF Commit, serverRest, appVars, raiseVars, queryVars, TypeInv, AppType,
                      QueriesType, StreamType, StoreType
<1>2. CASE ServerProgress \/ \E q \in Target : ServerRejects(q)
  <2>1. UNCHANGED <<committed, serverRest>>
    BY <1>2 DEF ServerProgress, ServerTakes, ServerSendsDocuments, ServerCallsCurrent,
                ServerSnapshot, ServerRejects
  <2>2. net' \in Net
    BY <1>2, ServerTakesIs, ServerSendsIs, ServerSnapshotIs
       DEF ServerProgress, TypeInv, StreamType, StoreType
  <2>. QED
    BY <2>1, <2>2 DEF serverRest, appVars, raiseVars, queryVars, TypeInv, AppType,
                      QueriesType, StreamType, StoreType
<1>. QED  BY <1>1, <1>2

\* Every state is typed.
LEMMA InitTypeInv == Init => TypeInv
<1> SUFFICES ASSUME Init PROVE TypeInv
  OBVIOUS
<1>1. AppType
  <2>1. \A S : <<>> \in Seq(S)
    OBVIOUS
  <2>. QED  BY <2>1 DEF Init, AppType, Outcome
<1>2. QueriesType
  BY FS_EmptySet, NewTypes DEF Init, QueriesType
<1>3. tracker \in Tracker
  <2>1. 0 \in 0 .. MaxWatchStreamFailures
    BY TrackerAssumption
  <2>. QED  BY <2>1 DEF Init, NewTracker, Tracker, OnlineState
<1>4. stream \in Stream
  BY ClientAssumption DEF Init, Stream, StreamState
<1>. QED  BY <1>1, <1>2, <1>3, <1>4, NewTypes DEF Init, TypeInv, StreamType, StoreType

\* Every step keeps the types.
LEMMA NextTypeInv == TypeInv /\ [Next]_vars => TypeInv'
<1> SUFFICES ASSUME TypeInv, [Next]_vars PROVE TypeInv'
  OBVIOUS
<1>1. CASE UNCHANGED vars
  BY <1>1 DEF vars, TypeInv, AppType, QueriesType, StreamType, StoreType
<1>2. CASE Next
  BY <1>2, AppTypeInv, StreamTypeInv, ReadTypeInv, ServerTypeInv DEF Next, WorkerTask, MainTask
<1>. QED  BY <1>1, <1>2

\* Every reachable state is typed.
LEMMA AlwaysTypeInv == Spec => []TypeInv
BY InitTypeInv, NextTypeInv, PTL DEF Spec

\* Every variable of the client, its stream and the server keeps to its type.
THEOREM ClientTypeOK == Spec => []TypeOK
BY AlwaysTypeInv, TypeInvIs, PTL

-----------------------------------------------------------------------------
(***************************************************************************)
(* The assertions.                                                        *)
(***************************************************************************)
Sound(t) == TimerAsserts(t) /\ FailureAsserts(t)

TrackerInv == Sound(tracker) /\ (~ IsStarted => tracker = NewTracker)

\* While the client knows itself offline no view is synced.
OfflineInv == tracker.state = "Offline" => synced = {}

IdleInv == stream.idle => IsOpen /\ listened = {}

EntriesInv == Queries = views /\ views = listened

AssertInv == TrackerInv /\ OfflineInv /\ IdleInv /\ EntriesInv

\* The invariant says what the assertions say.
LEMMA AssertInvIs == AssertInv => NoAssertionFails
BY DEF AssertInv, TrackerInv, Sound, IdleInv, EntriesInv, NoAssertionFails, StartAsserts,
       NewTracker

\* The methods of the tracker keep what they assert.
LEMMA TrackerMoves ==
    ASSUME NEW t \in Tracker, Sound(t)
    PROVE  /\ Sound(HandleWatchStreamFailure(t))
           /\ Sound(HandleWatchStreamStart(t))
           /\ Sound(HandleWatchStreamStart(HandleWatchStreamFailure(t)))
           /\ \A state \in OnlineState : Sound(UpdateState(t, state))
           /\ UpdateState(t, "Unknown") = NewTracker
           /\ t.timer => Sound(TimerFired(t)) /\ TimerFired(t).state = "Offline"
           /\ HandleWatchStreamStart(t).state \in {t.state, "Unknown"}
<1> USE DEF Sound, TimerAsserts, FailureAsserts
<1>1. \A u \in Tracker : Sound(u) => Sound(HandleWatchStreamStart(u))
  BY DEF HandleWatchStreamStart, Tracker
<1>2. Sound(HandleWatchStreamFailure(t)) /\ HandleWatchStreamFailure(t) \in Tracker
  <2>1. Sound(HandleWatchStreamFailure(t))
    BY DEF HandleWatchStreamFailure, Tracker
  <2>. QED  BY <2>1, TrackerTypes
<1>3. \A state \in OnlineState : Sound(UpdateState(t, state))
  BY DEF UpdateState
<1>4. UpdateState(t, "Unknown") = NewTracker
  BY DEF UpdateState, NewTracker
<1>5. t.timer => Sound(TimerFired(t)) /\ TimerFired(t).state = "Offline"
  BY DEF TimerFired, Tracker
<1>6. HandleWatchStreamStart(t).state \in {t.state, "Unknown"}
  BY DEF HandleWatchStreamStart, Tracker
<1>. QED  BY <1>1, <1>2, <1>3, <1>4, <1>5, <1>6

\* A change of the online state never leaves a synced view behind while offline.
LEMMA OnlineStateMoves ==
    ASSUME OfflineInv, NEW t, OnlineStateChange(t)
    PROVE  OfflineInv' /\ tracker' = t /\ synced' \subseteq synced
BY DEF OfflineInv, OnlineStateChange

\* Listeners, views and targets: the first listener of a query brings its target.
LEMMA AddEntries ==
    ASSUME EntriesInv, NEW r, listeners' = listeners \cup {r},
           \/ views' = views \cup {r.query} /\ listened' = listened \cup {r.query}
           \/ r.query \in Queries /\ UNCHANGED <<views, listened>>
    PROVE  EntriesInv'
<1>1. Queries' = Queries \cup {r.query}
  BY DEF Queries
<1>. QED  BY <1>1 DEF EntriesInv

\* The last one takes it along.
LEMMA RemoveEntries ==
    ASSUME EntriesInv, NEW r, listeners' = listeners \ {r},
           \/ /\ ListenersOf(r.query) = {r}
              /\ views' = views \ {r.query} /\ listened' = listened \ {r.query}
           \/ ListenersOf(r.query) # {r} /\ UNCHANGED <<views, listened>>
    PROVE  EntriesInv'
<1>1. CASE ListenersOf(r.query) = {r}
  <2>1. Queries' = Queries \ {r.query}
    BY <1>1 DEF Queries, ListenersOf
  <2>. QED  BY <1>1, <2>1 DEF EntriesInv
<1>2. CASE ListenersOf(r.query) # {r}
  <2>1. Queries' = Queries
    <3>1. CASE r \notin listeners
      BY <3>1 DEF Queries
    <3>2. CASE r \in listeners
      <4>1. PICK s \in listeners : s.query = r.query /\ s # r
        BY <1>2, <3>2 DEF ListenersOf
      <4>. QED  BY <4>1 DEF Queries
    <3>. QED  BY <3>1, <3>2
  <2>. QED  BY <1>2, <2>1 DEF EntriesInv
<1>. QED  BY <1>1, <1>2

\* A rejection takes all of them.
LEMMA DropEntries ==
    ASSUME EntriesInv, NEW q, listeners' = listeners \ ListenersOf(q),
           views' = views \ {q}, listened' = listened \ {q}
    PROVE  EntriesInv'
<1>1. Queries' = Queries \ {q}
  BY DEF Queries, ListenersOf
<1>. QED  BY <1>1 DEF EntriesInv

\* The tasks of the app fail no assertion.
LEMMA AppAsserts ==
    ASSUME TypeInv, AssertInv, NEW r \in Request,
           GetDocuments(r) \/ AddQueryListener(r) \/ RemoveQueryListener(r) \/ RunEvent(r)
    PROVE  AssertInv'
<1> USE DEF AssertInv
<1>. tracker \in Tracker /\ stream \in Stream /\ r.query \in Target
  BY ClientAssumption DEF TypeInv, StreamType
<1>1. CASE GetDocuments(r) \/ RunEvent(r)
  <2>1. UNCHANGED <<queryVars, synced, streamVars>>
    BY <1>1 DEF GetDocuments, RunEvent
  <2>. QED
    BY <2>1 DEF queryVars, streamVars, TrackerInv, OfflineInv, IdleInv, EntriesInv, Queries,
                IsOpen, IsStarted
<1>2. CASE AddQueryListener(r)
  <2> DEFINE q == r.query
  <2>1. listeners' = listeners \cup {r} /\ UNCHANGED synced
    BY <1>2 DEF AddQueryListener
  <2>2. CASE q \in Queries
    <3>1. UNCHANGED <<views, listened, streamVars>>
      BY <1>2, <2>2 DEF AddQueryListener
    <3>. QED
      BY <2>1, <2>2, <3>1, AddEntries
         DEF streamVars, TrackerInv, OfflineInv, IdleInv, IsOpen, IsStarted
  <2>3. CASE q \notin Queries
    <3>1. /\ views' = views \cup {q} /\ listened' = listened \cup {q}
          /\ IF ~ IsStarted THEN StartWatchStream
             ELSE IF IsOpen THEN SendWatchRequest(q) ELSE UNCHANGED streamVars
      BY <1>2, <2>3 DEF AddQueryListener, Listen
    <3>2. EntriesInv'
      BY <2>1, <3>1, AddEntries
    <3>3. CASE ~ IsStarted
      <4>1. stream' = [stream EXCEPT !.state = Start(@)] /\ tracker' = HandleWatchStreamStart(tracker)
        BY <3>1, <3>3 DEF StartWatchStream
      <4>2. IsStarted' /\ ~ stream.idle /\ stream'.idle = stream.idle
        BY <3>3, <4>1 DEF IsStarted, IsOpen, Start, Stream, IdleInv
      <4>3. TrackerInv' /\ OfflineInv'
        <5>1. tracker = NewTracker
          BY <3>3 DEF TrackerInv
        <5>2. tracker'.state = "Unknown" /\ Sound(tracker')
          BY <4>1, <5>1, TrackerMoves DEF NewTracker, TrackerInv
        <5>. QED  BY <4>2, <5>2 DEF TrackerInv, OfflineInv
      <4>. QED  BY <3>2, <4>2, <4>3 DEF IdleInv
    <3>4. CASE IsStarted /\ IsOpen
      <4>1. stream' = [stream EXCEPT !.idle = FALSE] /\ tracker' = tracker
        BY <3>1, <3>4 DEF SendWatchRequest
      <4>2. stream'.state = stream.state /\ ~ stream'.idle
        BY <4>1 DEF Stream
      <4>. QED
        BY <2>1, <3>2, <3>4, <4>1, <4>2 DEF TrackerInv, OfflineInv, IdleInv, IsStarted
    <3>5. CASE IsStarted /\ ~ IsOpen
      <4>1. UNCHANGED streamVars
        BY <3>1, <3>5
      <4>. QED
        BY <2>1, <3>2, <3>5, <4>1
           DEF streamVars, TrackerInv, OfflineInv, IdleInv, IsOpen, IsStarted
    <3>. QED  BY <3>3, <3>4, <3>5
  <2>. QED  BY <2>2, <2>3
<1>3. CASE RemoveQueryListener(r)
  <2> DEFINE q == r.query
  <2>1. listeners' = listeners \ {r}
    BY <1>3 DEF RemoveQueryListener
  <2>2. CASE ListenersOf(q) # {r}
    <3>1. UNCHANGED <<views, synced, listened, streamVars>>
      BY <1>3, <2>2 DEF RemoveQueryListener
    <3>. QED
      BY <2>1, <2>2, <3>1, RemoveEntries
         DEF streamVars, TrackerInv, OfflineInv, IdleInv, IsOpen, IsStarted
  <2>3. CASE ListenersOf(q) = {r}
    <3>1. /\ views' = views \ {q} /\ synced' = synced \ {q} /\ listened' = listened \ {q}
          /\ UnwatchTarget(q)
      BY <1>3, <2>3 DEF RemoveQueryListener, StopListening, UnwatchTarget
    <3>2. EntriesInv'
      BY <2>1, <2>3, <3>1, RemoveEntries
    <3>3. CASE IsOpen
      <4>1. stream' = [stream EXCEPT !.idle = (listened = {q})] /\ tracker' = tracker
        BY <3>1, <3>3 DEF UnwatchTarget
      <4>2. stream'.state = stream.state /\ stream'.idle = (listened = {q})
        BY <4>1 DEF Stream
      <4>. QED
        BY <3>1, <3>2, <3>3, <4>1, <4>2 DEF TrackerInv, OfflineInv, IdleInv, IsOpen, IsStarted
    <3>4. CASE ~ IsOpen
      <4>1. /\ tracker' = IF listened = {q} THEN UpdateState(tracker, "Unknown") ELSE tracker
            /\ stream' = stream
        BY <3>1, <3>4 DEF UnwatchTarget
      <4>2. TrackerInv' /\ OfflineInv'
        <5>1. CASE tracker' = tracker
          BY <3>1, <4>1, <5>1 DEF TrackerInv, OfflineInv, IsStarted
        <5>2. CASE tracker' = UpdateState(tracker, "Unknown")
          <6>1. tracker' = NewTracker /\ Sound(tracker')
            BY <5>2, TrackerMoves DEF TrackerInv, OnlineState
          <6>. QED  BY <6>1 DEF TrackerInv, OfflineInv, NewTracker
        <5>. QED  BY <4>1, <5>1, <5>2
      <4>. QED  BY <3>1, <3>2, <3>4, <4>1, <4>2 DEF IdleInv, IsOpen
    <3>. QED  BY <3>3, <3>4
  <2>. QED  BY <2>2, <2>3
<1>. QED  BY <1>1, <1>2, <1>3

\* Neither does the life of the stream.
LEMMA StreamAsserts ==
    ASSUME TypeInv, AssertInv,
           StreamOpens \/ StreamFails \/ BackoffElapses \/ IdleTimeout \/ OnlineStateTimeout
    PROVE  AssertInv'
<1> USE DEF AssertInv
<1>1. tracker \in Tracker /\ stream \in Stream /\ Sound(tracker)
  BY DEF TypeInv, StreamType, TrackerInv
<1>2. EntriesInv' /\ UNCHANGED listened
  <2>1. UNCHANGED <<listeners, views, listened>>
    BY DEF StreamOpens, StreamFails, BackoffElapses, IdleTimeout, OnlineStateTimeout,
           idleStreamVars
  <2>. QED  BY <2>1 DEF EntriesInv, Queries
<1>3. CASE StreamOpens \/ BackoffElapses
  <2>1. UNCHANGED <<synced, tracker>>
    BY <1>3 DEF StreamOpens, BackoffElapses
  <2>2. IsStarted /\ IsStarted' /\ stream'.idle = stream.idle /\ ~ IsOpen
    BY <1>1, <1>3 DEF StreamOpens, BackoffElapses, IsStarted, IsOpen, Stream, Start
  <2>. QED  BY <1>2, <2>1, <2>2 DEF TrackerInv, OfflineInv, IdleInv
<1>4. CASE StreamFails
  <2> DEFINE t == IF listened # {}
                  THEN HandleWatchStreamStart(HandleWatchStreamFailure(tracker))
                  ELSE UpdateState(tracker, "Unknown")
  <2>1. OnlineStateChange(t) /\ ~ stream'.idle
        /\ stream'.state = IF listened # {} THEN "Backoff" ELSE "Error"
    BY <1>4 DEF StreamFails, Start
  <2>2. Sound(t) /\ (listened = {} => t = NewTracker)
    BY <1>1, TrackerMoves DEF OnlineState
  <2> HIDE DEF t
  <2>3. OfflineInv' /\ tracker' = t
    BY <2>1, OnlineStateMoves
  <2>. QED  BY <1>2, <2>1, <2>2, <2>3 DEF TrackerInv, IdleInv, IsStarted
<1>5. CASE IdleTimeout
  <2>1. OnlineStateChange(UpdateState(tracker, "Unknown"))
        /\ stream' = [stream EXCEPT !.state = "Initial", !.idle = FALSE]
    BY <1>5 DEF IdleTimeout
  <2>2. ~ stream'.idle
    BY <1>1, <2>1 DEF Stream
  <2>3. OfflineInv' /\ tracker' = NewTracker /\ Sound(tracker')
    BY <1>1, <2>1, OnlineStateMoves, TrackerMoves DEF OnlineState
  <2>. QED  BY <1>2, <2>2, <2>3 DEF TrackerInv, IdleInv
<1>6. CASE OnlineStateTimeout
  <2>1. OnlineStateChange(TimerFired(tracker)) /\ tracker.timer /\ stream' = stream
    BY <1>6 DEF OnlineStateTimeout
  <2>2. OfflineInv' /\ tracker' = TimerFired(tracker) /\ Sound(tracker')
    BY <1>1, <2>1, OnlineStateMoves, TrackerMoves
  <2>3. IsStarted
    BY <2>1 DEF TrackerInv, NewTracker
  <2>. QED  BY <1>2, <2>1, <2>2, <2>3 DEF TrackerInv, IdleInv, IsStarted, IsOpen
<1>. QED  BY <1>3, <1>4, <1>5, <1>6

\* Nor do the messages of the server.
LEMMA ReadAsserts ==
    ASSUME TypeInv, AssertInv, OnStreamRead
    PROVE  AssertInv'
<1> USE DEF AssertInv
<1>1. PICK message : OnTargetChange(message) \/ OnDocumentChange(message)
                     \/ OnTargetError(message) \/ OnSnapshot(message)
  BY DEF OnStreamRead
<1>2. PICK types : Receive(types, message)
  BY <1>1 DEF OnTargetChange, OnDocumentChange, OnTargetError, OnSnapshot
<1>3. IsOpen /\ stream' = stream
      /\ tracker' = [state |-> "Online", timer |-> FALSE, failures |-> 0]
  BY <1>2, ReceiveIs DEF Receive, TypeInv, StreamType
<1>4. TrackerInv' /\ OfflineInv'
  BY <1>3 DEF TrackerInv, OfflineInv, Sound, TimerAsserts, FailureAsserts, IsOpen, IsStarted
<1>5. EntriesInv' /\ listened' \subseteq listened
  <2>1. CASE OnTargetError(message) /\ message.query \in listened
    BY <2>1, DropEntries DEF OnTargetError
  <2>2. CASE UNCHANGED <<listeners, views, listened>>
    BY <2>2 DEF EntriesInv, Queries
  <2>. QED
    BY <1>1, <2>1, <2>2 DEF OnTargetChange, OnDocumentChange, OnTargetError, OnSnapshot
<1>6. IdleInv'
  BY <1>3, <1>5 DEF IdleInv, IsOpen
<1>. QED  BY <1>4, <1>5, <1>6

\* Every step keeps the assertions.
LEMMA NextAsserts == TypeInv /\ AssertInv /\ [Next]_vars => AssertInv'
<1> SUFFICES ASSUME TypeInv, AssertInv, [Next]_vars PROVE AssertInv'
  OBVIOUS
<1>1. CASE UNCHANGED <<listeners, views, listened, synced, tracker, stream>>
  BY <1>1 DEF AssertInv, TrackerInv, OfflineInv, IdleInv, EntriesInv, Queries, IsOpen, IsStarted
<1>2. CASE ServerProgress \/ \E q \in Target : ServerRejects(q) \/ Commit(q)
  BY <1>1, <1>2, ServerTypeInv DEF serverRest, queryVars
<1>3. CASE UNCHANGED vars
  BY <1>1, <1>3 DEF vars
<1>. QED
  BY <1>2, <1>3, AppAsserts, StreamAsserts, ReadAsserts DEF Next, WorkerTask, MainTask

\* The client starts with no timer, no count and nothing registered.
LEMMA InitAsserts == Init => AssertInv
BY DEF Init, AssertInv, TrackerInv, OfflineInv, IdleInv, EntriesInv, Queries, Sound,
       TimerAsserts, FailureAsserts, NewTracker

\* The invariant of the assertions holds in every reachable state.
LEMMA AlwaysAsserts == Spec => [](TypeInv /\ AssertInv)
BY InitTypeInv, NextTypeInv, InitAsserts, NextAsserts, PTL DEF Spec

\* No assertion of the tracker, the stream, the store or the event manager fails, whatever
\* the order of calls, messages, timers and failures: above all, a stream that is not
\* started finds the tracker as it was made, and listeners, views and targets are there for
\* the same queries (sync_engine.mm:92, remote_store.mm:151).
THEOREM ClientNoAssertionFails == Spec => []NoAssertionFails
BY AlwaysAsserts, AssertInvIs, PTL

-----------------------------------------------------------------------------
(***************************************************************************)
(* One call back per query.                                               *)
(***************************************************************************)
\* What a request has come to, and what the main queue still holds for it.
CallInv(r) ==
    /\ outcome[r] \in {"unasked", "called"} => r \notin listeners
    /\ outcome[r] = "waiting" => r \in listeners
    /\ outcome[r] \in {"unasked", "called", "waiting"} =>
          called[r] = 0 /\ events[r] = <<>> /\ r \notin muted
    /\ outcome[r] = "error" =>
          /\ r \notin listeners
          /\ \/ called[r] = 0 /\ events[r] = <<"error">> /\ r \notin muted
             \/ called[r] = 1 /\ events[r] = <<>>
    /\ outcome[r] \in {"server", "cache"} =>
          /\ \A i \in DOMAIN events[r] : events[r][i] # "error"
          /\ called[r] = IF r \in muted THEN 1 ELSE 0

\* A listener is added once, before anything is raised for it, and removed after.
TaskInv(r) ==
    /\ \A i \in DOMAIN tasks : tasks[i] = <<"listen", r>> =>
          outcome[r] = "called" /\ \A j \in DOMAIN tasks : tasks[j] = <<"listen", r>> => i = j
    /\ \A i \in DOMAIN tasks : tasks[i] = <<"remove", r>> => outcome[r] \in {"server", "cache"}

CallsInv == \A r \in Request : CallInv(r) /\ TaskInv(r)

\* Where the requests are as CallsInv says, none is called back twice.
LEMMA CallsInvIs == TypeInv /\ CallsInv => CalledOnce
<1> SUFFICES ASSUME TypeInv, CallsInv, NEW r \in Request PROVE called[r] <= 1
  BY DEF CalledOnce
<1>1. CallInv(r) /\ outcome[r] \in Outcome
  BY DEF CallsInv, TypeInv, AppType
<1>. QED  BY <1>1 DEF CallInv, Outcome

\* An event for listeners: the first answers those that wait, the rest come too late.
LEMMA RaiseCalls ==
    ASSUME TypeInv, CallsInv, NEW R, R \subseteq listeners, NEW event, Raise(R, event),
           UNCHANGED appVars,
           \/ event \in {"server", "cache"} /\ listeners' = listeners
           \/ event = "error" /\ listeners' = listeners \ R
    PROVE  CallsInv'
<1> SUFFICES ASSUME NEW r \in Request PROVE (CallInv(r) /\ TaskInv(r))'
  BY DEF CallsInv
<1>1. CallInv(r) /\ TaskInv(r) /\ UNCHANGED <<tasks, muted, called>>
  BY DEF CallsInv, appVars
<1>2. outcome[r] \in Outcome /\ Len(events[r]) \in Nat
      /\ events[r] \in Seq({"server", "cache", "error", "later"})
  BY DEF TypeInv, AppType
<1>3. outcome'[r] = IF r \in R /\ outcome[r] = "waiting" THEN event ELSE outcome[r]
  BY DEF Raise
<1>4. events'[r] = IF r \notin R THEN events[r]
                   ELSE Note(events[r], IF outcome[r] = "waiting" THEN event ELSE "later")
  BY DEF Raise
<1>5. TaskInv(r)'
  BY <1>1, <1>3 DEF TaskInv
<1>6. CASE r \notin R
  <2>1. outcome'[r] = outcome[r] /\ events'[r] = events[r]
    BY <1>3, <1>4, <1>6
  <2>2. r \in listeners' <=> r \in listeners
    BY <1>6
  <2>3. CallInv(r)'
    BY <1>1, <2>1, <2>2 DEF CallInv
  <2>. QED  BY <1>5, <2>3
<1>7. CASE r \in R /\ outcome[r] = "waiting"
  <2>1. events'[r] = <<event>>
    <3>1. Note(<<>>, event) = <<event>>
      BY DEF Note
    <3>2. events[r] = <<>>
      BY <1>1, <1>7 DEF CallInv
    <3>. QED  BY <1>4, <1>7, <3>1, <3>2
  <2>2. outcome'[r] = event /\ called'[r] = 0 /\ r \notin muted'
    BY <1>1, <1>3, <1>7 DEF CallInv
  <2>. QED  BY <1>7, <2>1, <2>2, <1>5 DEF CallInv
<1>8. CASE r \in R /\ outcome[r] # "waiting"
  <2>1. outcome[r] \in {"server", "cache"} /\ outcome'[r] = outcome[r]
    BY <1>1, <1>2, <1>3, <1>8 DEF CallInv, Outcome
  <2>2. events'[r] = Note(events[r], "later")
    BY <1>4, <1>8
  <2>3. \A i \in DOMAIN events'[r] : events'[r][i] # "error"
    <3>1. \A i \in DOMAIN events[r] : events[r][i] # "error"
      BY <1>1, <2>1 DEF CallInv
    <3>2. CASE events'[r] = events[r]
      BY <3>1, <3>2
    <3>3. CASE events'[r] = Append(events[r], "later")
      BY <1>2, <3>1, <3>3, AppendPlaces
    <3>. QED  BY <2>2, <3>2, <3>3 DEF Note
  <2>. QED  BY <1>1, <1>5, <2>1, <2>3 DEF CallInv
<1>. QED  BY <1>6, <1>7, <1>8, <1>5

\* A change of the online state answers from the cache.
LEMMA OnlineStateCalls ==
    ASSUME TypeInv, CallsInv, NEW t, OnlineStateChange(t), UNCHANGED <<appVars, listeners>>
    PROVE  CallsInv'
<1>1. CASE UNCHANGED raiseVars
  BY <1>1 DEF raiseVars, appVars, CallsInv, CallInv, TaskInv
<1>2. CASE Raise(Waiting \cup {r \in listeners : r.query \in synced}, "cache")
  <2>1. Waiting \cup {r \in listeners : r.query \in synced} \subseteq listeners
    BY DEF Waiting
  <2>. QED  BY <1>2, <2>1, RaiseCalls
<1>. QED  BY <1>1, <1>2 DEF OnlineStateChange

\* A task is taken off the worker queue: the places of the others.
LEMMA TaskTaken ==
    ASSUME TypeInv, NEW r \in Request, TaskInv(r), tasks # <<>>, tasks' = Tail(tasks),
           outcome'[r] = outcome[r]
    PROVE  TaskInv(r)'
<1>1. /\ DOMAIN tasks = 1 .. Len(tasks) /\ Len(tasks) \in Nat \ {0}
      /\ DOMAIN tasks' = 1 .. Len(tasks) - 1
      /\ \A i \in 1 .. Len(tasks) - 1 : tasks'[i] = tasks[i + 1]
  BY TailPlaces DEF TypeInv, AppType
<1>2. \A i \in DOMAIN tasks' : i + 1 \in DOMAIN tasks /\ tasks'[i] = tasks[i + 1]
  BY <1>1
<1>3. ASSUME NEW i \in DOMAIN tasks', tasks'[i] = <<"listen", r>>
      PROVE  outcome'[r] = "called" /\ \A j \in DOMAIN tasks' : tasks'[j] = <<"listen", r>> => i = j
  <2>1. outcome[r] = "called" /\ \A j \in DOMAIN tasks : tasks[j] = <<"listen", r>> => i + 1 = j
    BY <1>2, <1>3 DEF TaskInv
  <2>2. ASSUME NEW j \in DOMAIN tasks', tasks'[j] = <<"listen", r>> PROVE i = j
    <3>1. i + 1 = j + 1
      BY <1>2, <2>1, <2>2
    <3>. QED  BY <1>1, <3>1
  <2>. QED  BY <2>1, <2>2
<1>4. ASSUME NEW i \in DOMAIN tasks', tasks'[i] = <<"remove", r>>
      PROVE  outcome'[r] \in {"server", "cache"}
  BY <1>2, <1>4 DEF TaskInv
<1>. QED  BY <1>3, <1>4 DEF TaskInv

\* A call that is enqueued.
LEMMA GetDocumentsCalls ==
    ASSUME TypeInv, CallsInv, NEW r \in Request, GetDocuments(r)
    PROVE  CallsInv'
<1>1. /\ outcome[r] = "unasked" /\ outcome' = [outcome EXCEPT ![r] = "called"]
      /\ tasks' = Append(tasks, <<"listen", r>>)
      /\ UNCHANGED <<events, muted, called, listeners>>
  BY DEF GetDocuments, queryVars
<1>2. /\ DOMAIN tasks = 1 .. Len(tasks) /\ Len(tasks) \in Nat
      /\ DOMAIN tasks' = 1 .. Len(tasks) + 1 /\ tasks'[Len(tasks) + 1] = <<"listen", r>>
      /\ \A i \in 1 .. Len(tasks) : tasks'[i] = tasks[i]
  BY <1>1, AppendPlaces DEF TypeInv, AppType
<1>3. outcome'[r] = "called" /\ \A s \in Request : s # r => outcome'[s] = outcome[s]
  BY <1>1 DEF TypeInv, AppType
<1>4. ASSUME NEW s \in Request PROVE (CallInv(s) /\ TaskInv(s))'
  <2>1. CallInv(s) /\ TaskInv(s)
    BY DEF CallsInv
  <2>2. CallInv(s)'
    <3>1. CASE s = r
      BY <1>1, <1>3, <2>1, <3>1 DEF CallInv
    <3>2. CASE s # r
      BY <1>1, <1>3, <2>1, <3>2 DEF CallInv
    <3>. QED  BY <3>1, <3>2
  <2>3. TaskInv(s)'
    <3>1. CASE s = r
      <4>1. \A i \in DOMAIN tasks : tasks[i] # <<"listen", r>> /\ tasks[i] # <<"remove", r>>
        BY <1>1, <2>1, <3>1 DEF TaskInv
      <4>2. \A i \in DOMAIN tasks' : tasks'[i] = <<"listen", r>> => i = Len(tasks) + 1
        BY <1>2, <4>1
      <4>3. \A i \in DOMAIN tasks' : tasks'[i] # <<"remove", r>>
        BY <1>2, <4>1
      <4>. QED  BY <1>3, <3>1, <4>2, <4>3 DEF TaskInv
    <3>2. CASE s # r
      <4>1. \A i \in DOMAIN tasks' : tasks'[i] \in {<<"listen", s>>, <<"remove", s>>} =>
                i \in DOMAIN tasks /\ tasks'[i] = tasks[i]
        BY <1>2, <3>2
      <4>. QED  BY <1>3, <2>1, <3>2, <4>1 DEF TaskInv
    <3>. QED  BY <3>1, <3>2
  <2>. QED  BY <2>2, <2>3
<1>. QED  BY <1>4 DEF CallsInv

\* A listener that is added, and perhaps answered at once.
LEMMA AddListenerCalls ==
    ASSUME TypeInv, CallsInv, NEW r \in Request, AddQueryListener(r)
    PROVE  CallsInv'
<1> DEFINE answer == IF r.query \in synced THEN "server"
                     ELSE IF tracker.state = "Offline" THEN "cache" ELSE "waiting"
<1>1. /\ tasks # <<>> /\ Head(tasks) = <<"listen", r>> /\ tasks' = Tail(tasks)
      /\ listeners' = listeners \cup {r}
      /\ outcome' = [outcome EXCEPT ![r] = answer]
      /\ events' = IF answer = "waiting" THEN events
                   ELSE [events EXCEPT ![r] = Note(@, answer)]
      /\ UNCHANGED <<muted, called>>
  BY DEF AddQueryListener
<1>2. answer \in {"server", "cache", "waiting"}
  OBVIOUS
<1> HIDE DEF answer
<1>3. CallInv(r) /\ TaskInv(r)
  BY DEF CallsInv
<1>4. /\ 1 \in DOMAIN tasks /\ Head(tasks) = tasks[1]
      /\ DOMAIN tasks = 1 .. Len(tasks) /\ Len(tasks) \in Nat \ {0}
      /\ DOMAIN tasks' = 1 .. Len(tasks) - 1
      /\ \A i \in 1 .. Len(tasks) - 1 : tasks'[i] = tasks[i + 1]
  BY <1>1, TailPlaces DEF TypeInv, AppType
<1>5. outcome[r] = "called" /\ \A j \in DOMAIN tasks : tasks[j] = <<"listen", r>> => j = 1
  BY <1>1, <1>3, <1>4 DEF TaskInv
<1>6. called[r] = 0 /\ events[r] = <<>> /\ r \notin muted
  BY <1>3, <1>5 DEF CallInv
<1>7. /\ outcome'[r] = answer
      /\ events'[r] = IF answer = "waiting" THEN <<>> ELSE <<answer>>
      /\ \A s \in Request : s # r => outcome'[s] = outcome[s] /\ events'[s] = events[s]
  <2>1. Note(<<>>, answer) = <<answer>>
    BY DEF Note
  <2>. QED  BY <1>1, <1>6, <2>1 DEF TypeInv, AppType
<1>8. ASSUME NEW s \in Request PROVE (CallInv(s) /\ TaskInv(s))'
  <2>1. CallInv(s) /\ TaskInv(s)
    BY DEF CallsInv
  <2>2. CASE s = r
    <3>1. CallInv(r)'
      BY <1>1, <1>2, <1>6, <1>7 DEF CallInv
    <3>2. \A i \in DOMAIN tasks' : tasks'[i] # <<"listen", r>> /\ tasks'[i] # <<"remove", r>>
      <4>1. \A i \in DOMAIN tasks' : i + 1 \in DOMAIN tasks /\ i + 1 # 1 /\ tasks'[i] = tasks[i + 1]
        BY <1>4
      <4>. QED  BY <1>3, <1>5, <4>1 DEF TaskInv
    <3>. QED  BY <2>2, <3>1, <3>2 DEF TaskInv
  <2>3. CASE s # r
    <3>1. CallInv(s)'
      BY <1>1, <1>7, <2>1, <2>3 DEF CallInv
    <3>2. TaskInv(s)'
      BY <1>1, <1>7, <2>1, <2>3, TaskTaken
    <3>. QED  BY <3>1, <3>2
  <2>. QED  BY <2>2, <2>3
<1>. QED  BY <1>8 DEF CallsInv

\* A listener that is removed has been answered.
LEMMA RemoveListenerCalls ==
    ASSUME TypeInv, CallsInv, NEW r \in Request, RemoveQueryListener(r)
    PROVE  CallsInv'
<1>1. /\ tasks # <<>> /\ Head(tasks) = <<"remove", r>> /\ tasks' = Tail(tasks)
      /\ listeners' = listeners \ {r}
      /\ UNCHANGED <<outcome, events, muted, called>>
  BY DEF RemoveQueryListener, raiseVars
<1>2. outcome[r] \in {"server", "cache"}
  <2>1. 1 \in DOMAIN tasks /\ Head(tasks) = tasks[1]
    BY <1>1, TailPlaces DEF TypeInv, AppType
  <2>. QED  BY <1>1, <2>1 DEF CallsInv, TaskInv
<1>3. ASSUME NEW s \in Request PROVE (CallInv(s) /\ TaskInv(s))'
  <2>1. TaskInv(s)'
    BY <1>1, TaskTaken DEF CallsInv
  <2>2. CallInv(s)'
    BY <1>1, <1>2 DEF CallsInv, CallInv
  <2>. QED  BY <2>1, <2>2
<1>. QED  BY <1>3 DEF CallsInv

\* The first event calls back and mutes the listener, the others find it muted.
LEMMA RunEventCalls ==
    ASSUME TypeInv, CallsInv, NEW r \in Request, RunEvent(r)
    PROVE  CallsInv'
<1> DEFINE E == {"server", "cache", "error", "later"}
<1>1. /\ events[r] # <<>> /\ events' = [events EXCEPT ![r] = Tail(@)]
      /\ UNCHANGED <<outcome, listeners>>
  BY DEF RunEvent, queryVars
<1>2. /\ events[r] \in Seq(E) /\ outcome[r] \in Outcome
      /\ called \in [Request -> Nat] /\ tasks \in Seq({"listen", "remove"} \X Request)
  BY DEF TypeInv, AppType
<1>3. /\ events'[r] = Tail(events[r])
      /\ \A s \in Request : s # r => events'[s] = events[s]
  BY <1>1 DEF TypeInv, AppType
<1>4. CallInv(r) /\ TaskInv(r)
  BY DEF CallsInv
<1>5. outcome[r] \in {"server", "cache", "error"}
  BY <1>1, <1>2, <1>4 DEF CallInv, Outcome
<1>6. CASE outcome[r] = "error"
  <2>1. events[r] = <<"error">> /\ called[r] = 0 /\ r \notin muted
    BY <1>1, <1>4, <1>6 DEF CallInv
  <2>2. UNCHANGED <<muted, tasks>> /\ called' = [called EXCEPT ![r] = @ + 1]
    BY <2>1 DEF RunEvent
  <2>3. events'[r] = <<>> /\ called'[r] = 1
    BY <1>2, <1>3, <2>1, <2>2
  <2>4. ASSUME NEW s \in Request PROVE (CallInv(s) /\ TaskInv(s))'
    <3>1. TaskInv(s)'
      BY <1>1, <2>2 DEF CallsInv, TaskInv
    <3>2. CASE s = r
      BY <1>1, <1>4, <1>6, <2>2, <2>3, <3>1, <3>2 DEF CallInv
    <3>3. CASE s # r
      <4>1. called'[s] = called[s]
        BY <1>2, <2>2, <3>3
      <4>. QED  BY <1>1, <1>3, <2>2, <3>1, <3>3, <4>1 DEF CallsInv, CallInv
    <3>. QED  BY <3>2, <3>3
  <2>. QED  BY <2>4 DEF CallsInv
<1>7. CASE outcome[r] \in {"server", "cache"}
  <2>1. /\ \A i \in DOMAIN events[r] : events[r][i] # "error"
        /\ called[r] = IF r \in muted THEN 1 ELSE 0
    BY <1>4, <1>7 DEF CallInv
  <2>2. \A i \in DOMAIN events'[r] : events'[r][i] # "error"
    BY <1>1, <1>2, <1>3, <2>1, TailPlaces
  <2>3. CASE r \in muted
    <3>1. UNCHANGED <<tasks, muted, called>>
      BY <2>3 DEF RunEvent, appVars
    <3>2. ASSUME NEW s \in Request PROVE (CallInv(s) /\ TaskInv(s))'
      <4>1. TaskInv(s)'
        BY <1>1, <3>1 DEF CallsInv, TaskInv
      <4>2. CASE s = r
        BY <1>1, <1>4, <1>7, <2>1, <2>2, <3>1, <4>1, <4>2 DEF CallInv
      <4>3. CASE s # r
        BY <1>1, <1>3, <3>1, <4>1, <4>3 DEF CallsInv, CallInv
      <4>. QED  BY <4>2, <4>3
    <3>. QED  BY <3>2 DEF CallsInv
  <2>4. CASE r \notin muted
    <3>1. Head(events[r]) # "error"
      BY <1>1, <1>2, <2>1, TailPlaces
    <3>2. /\ called' = [called EXCEPT ![r] = @ + 1] /\ muted' = muted \cup {r}
          /\ tasks' = Append(tasks, <<"remove", r>>)
      BY <2>4, <3>1 DEF RunEvent
    <3>3. called'[r] = 1 /\ \A s \in Request : s # r => called'[s] = called[s]
      BY <1>2, <2>1, <2>4, <3>2
    <3>4. /\ DOMAIN tasks = 1 .. Len(tasks) /\ Len(tasks) \in Nat
          /\ DOMAIN tasks' = 1 .. Len(tasks) + 1 /\ tasks'[Len(tasks) + 1] = <<"remove", r>>
          /\ \A i \in 1 .. Len(tasks) : tasks'[i] = tasks[i]
      BY <1>2, <3>2, AppendPlaces
    <3>5. ASSUME NEW s \in Request PROVE (CallInv(s) /\ TaskInv(s))'
      <4>1. TaskInv(s)'
        <5>1. TaskInv(s) /\ outcome'[s] = outcome[s]
          BY <1>1 DEF CallsInv
        <5>2. \A i \in DOMAIN tasks' : tasks'[i] = <<"listen", s>> =>
                  i \in DOMAIN tasks /\ tasks'[i] = tasks[i]
          BY <3>4
        <5>3. \A i \in DOMAIN tasks' : tasks'[i] = <<"remove", s>> =>
                  s = r \/ (i \in DOMAIN tasks /\ tasks'[i] = tasks[i])
          BY <3>4
        <5>. QED  BY <1>7, <5>1, <5>2, <5>3 DEF TaskInv
      <4>2. CASE s = r
        BY <1>1, <1>4, <1>7, <2>2, <3>2, <3>3, <4>1, <4>2 DEF CallInv
      <4>3. CASE s # r
        <5>1. s \in muted' <=> s \in muted
          BY <3>2, <4>3
        <5>. QED  BY <1>1, <1>3, <3>3, <4>1, <4>3, <5>1 DEF CallsInv, CallInv
      <4>. QED  BY <4>2, <4>3
    <3>. QED  BY <3>5 DEF CallsInv
  <2>. QED  BY <2>3, <2>4
<1>. QED  BY <1>5, <1>6, <1>7

\* What is read from the stream reaches listeners only.
LEMMA ReadCalls ==
    ASSUME TypeInv, CallsInv, OnStreamRead
    PROVE  CallsInv'
<1>1. PICK message : OnTargetChange(message) \/ OnDocumentChange(message)
                     \/ OnTargetError(message) \/ OnSnapshot(message)
  BY DEF OnStreamRead
<1>2. UNCHANGED appVars
  BY <1>1 DEF OnTargetChange, OnDocumentChange, OnTargetError, OnSnapshot, Receive, appVars
<1>3. CASE UNCHANGED <<raiseVars, listeners>>
  BY <1>2, <1>3 DEF raiseVars, appVars, CallsInv, CallInv, TaskInv
<1>4. CASE OnTargetError(message) /\ message.query \in listened
  <2>1. /\ Raise(ListenersOf(message.query), "error")
        /\ listeners' = listeners \ ListenersOf(message.query)
    BY <1>4 DEF OnTargetError
  <2>. QED  BY <1>2, <2>1, RaiseCalls DEF ListenersOf
<1>5. CASE OnSnapshot(message)
  <2>1. PICK R : R \subseteq listeners /\ Raise(R, "server")
    BY <1>5 DEF OnSnapshot
  <2>2. listeners' = listeners
    BY <1>5 DEF OnSnapshot
  <2>. QED  BY <1>2, <2>1, <2>2, RaiseCalls
<1>. QED
  BY <1>1, <1>3, <1>4, <1>5 DEF OnTargetChange, OnDocumentChange, OnTargetError

\* Every step keeps what is known of the requests.
LEMMA NextCalls == TypeInv /\ CallsInv /\ [Next]_vars => CallsInv'
<1> SUFFICES ASSUME TypeInv, CallsInv, [Next]_vars PROVE CallsInv'
  OBVIOUS
<1>1. CASE UNCHANGED <<appVars, raiseVars, listeners>>
  BY <1>1 DEF appVars, raiseVars, CallsInv, CallInv, TaskInv
<1>2. CASE ServerProgress \/ \E q \in Target : ServerRejects(q) \/ Commit(q)
  BY <1>1, <1>2, ServerTypeInv DEF serverRest, queryVars
<1>3. CASE UNCHANGED vars \/ StreamOpens \/ BackoffElapses
  BY <1>1, <1>3 DEF vars, StreamOpens, BackoffElapses, appVars, raiseVars, idleStreamVars
<1>4. CASE StreamFails \/ IdleTimeout \/ OnlineStateTimeout
  <2>1. UNCHANGED <<appVars, listeners>>
    BY <1>4 DEF StreamFails, IdleTimeout, OnlineStateTimeout, appVars, idleStreamVars
  <2>. QED
    BY <1>4, <2>1, OnlineStateCalls DEF StreamFails, IdleTimeout, OnlineStateTimeout
<1>. QED
  BY <1>2, <1>3, <1>4, ReadCalls, GetDocumentsCalls, AddListenerCalls, RemoveListenerCalls,
     RunEventCalls DEF Next, WorkerTask, MainTask

\* No request has been asked.
LEMMA InitCalls == Init => CallsInv
BY DEF Init, CallsInv, CallInv, TaskInv

\* The app is called back at most once per query: an event mutes the listener before the
\* next one runs, an error meets a listener that is gone, and no listener is added twice
\* (query_core.mm:86, event_listener.h).
THEOREM ClientCalledOnce == Spec => []CalledOnce
BY InitTypeInv, NextTypeInv, InitCalls, NextCalls, CallsInvIs, PTL DEF Spec

-----------------------------------------------------------------------------
(***************************************************************************)
(* The service the client is.                                             *)
(***************************************************************************)
\* The requests that wait are listeners.
LEMMA ServiceWaits ==
    ASSUME CallsInv
    PROVE  Service!Waiting = Waiting \cap Request
BY DEF CallsInv, CallInv, Waiting, Service!Waiting

\* An event answers the listeners that wait for it, and nobody else.
LEMMA RaiseAnswers ==
    ASSUME TypeInv, CallsInv, NEW R, R \subseteq listeners,
           NEW event \in {"server", "cache", "error"}, Raise(R, event)
    PROVE  /\ Service!Answered(R \cap Waiting, event)
           /\ R \cap Waiting \in SUBSET Service!Waiting
<1>1. listeners \subseteq Request
  BY DEF TypeInv, QueriesType
<1>2. R \cap Waiting \in SUBSET Service!Waiting
  BY <1>1, ServiceWaits DEF Waiting
<1>3. ASSUME NEW r \in Request
      PROVE  (IF outcome'[r] = "called" THEN "unasked" ELSE outcome'[r])
             = IF r \in R \cap Waiting THEN event
               ELSE IF outcome[r] = "called" THEN "unasked" ELSE outcome[r]
  <2>1. outcome'[r] = IF r \in R /\ outcome[r] = "waiting" THEN event ELSE outcome[r]
    BY DEF Raise
  <2>2. r \in R \cap Waiting <=> r \in R /\ outcome[r] = "waiting"
    BY DEF Waiting
  <2>. QED  BY <2>1, <2>2
<1>4. Service!Answered(R \cap Waiting, event)
  BY <1>3 DEF Service!Answered
<1>. QED  BY <1>2, <1>4

\* The client goes offline, and every query that waits is answered by the cache; or it
\* leaves that state, or nothing changes.
LEMMA OnlineStateServes ==
    ASSUME TypeInv, CallsInv, NEW t, OnlineStateChange(t)
    PROVE  [Service!Next]_Service!serviceVars
<1>1. tracker' = t
  BY DEF OnlineStateChange
<1>2. CASE t.state = "Offline" /\ tracker.state # "Offline"
  <2> DEFINE R == Waiting \cup {r \in listeners : r.query \in synced}
  <2>1. Raise(R, "cache") /\ R \subseteq listeners
    BY <1>2 DEF OnlineStateChange, Waiting
  <2>2. Service!Answered(R \cap Waiting, "cache")
    BY <2>1, RaiseAnswers
  <2>3. R \cap Waiting = Service!Waiting
    <3>1. listeners \subseteq Request
      BY DEF TypeInv, QueriesType
    <3>. QED  BY <3>1, ServiceWaits DEF Waiting
  <2>. QED  BY <1>1, <1>2, <2>2, <2>3 DEF Service!GoOffline, Service!Next
<1>3. CASE ~ (t.state = "Offline" /\ tracker.state # "Offline")
  <2>1. outcome' = outcome
    BY <1>3 DEF OnlineStateChange, raiseVars
  <2>2. CASE (t.state = "Offline") = (tracker.state = "Offline")
    BY <1>1, <2>1, <2>2 DEF Service!serviceVars
  <2>3. CASE t.state # "Offline"
    BY <1>1, <2>1, <2>3 DEF Service!LeaveOffline, Service!Next
  <2>. QED  BY <1>3, <2>2, <2>3
<1>. QED  BY <1>2, <1>3

\* A query is asked when its listener is added.
LEMMA AddListenerServes ==
    ASSUME TypeInv, AssertInv, CallsInv, NEW r \in Request, AddQueryListener(r)
    PROVE  Service!Next
<1> DEFINE answer == IF r.query \in synced THEN "server"
                     ELSE IF tracker.state = "Offline" THEN "cache" ELSE "waiting"
<1>1. outcome[r] = "called"
  <2>1. tasks # <<>> /\ Head(tasks) = <<"listen", r>>
    BY DEF AddQueryListener
  <2>2. 1 \in DOMAIN tasks /\ Head(tasks) = tasks[1]
    BY <2>1, TailPlaces DEF TypeInv, AppType
  <2>. QED  BY <2>1, <2>2 DEF CallsInv, TaskInv
<1>2. outcome' = [outcome EXCEPT ![r] = answer]
  BY DEF AddQueryListener
<1>3. Service!Answered({r}, answer)
  BY <1>2 DEF Service!Answered, TypeInv, AppType
<1>4. (tracker'.state = "Offline") = (tracker.state = "Offline")
  <2>1. CASE tracker' = tracker
    BY <2>1
  <2>2. CASE ~ IsStarted /\ tracker' = HandleWatchStreamStart(tracker)
    BY <2>2 DEF AssertInv, TrackerInv, NewTracker, HandleWatchStreamStart
  <2>. QED
    BY <2>1, <2>2 DEF AddQueryListener, Listen, StartWatchStream, SendWatchRequest, streamVars
<1>5. answer = IF tracker.state = "Offline" THEN "cache"
               ELSE IF r.query \in synced THEN "server" ELSE "waiting"
  BY DEF AssertInv, OfflineInv
<1> HIDE DEF answer
<1>6. Service!Ask(r)
  <2>1. CASE tracker.state = "Offline"
    <3>1. Service!Answered({r}, "cache")
      BY <1>3, <1>5, <2>1 DEF Service!Answered
    <3>. QED  BY <1>1, <1>4, <2>1, <3>1 DEF Service!Ask
  <2>2. CASE tracker.state # "Offline"
    <3>1. Service!Answered({r}, "waiting") \/ Service!Answered({r}, "server")
      BY <1>3, <1>5, <2>2 DEF Service!Answered
    <3>. QED  BY <1>1, <1>4, <2>2, <3>1 DEF Service!Ask
  <2>. QED  BY <2>1, <2>2
<1>. QED  BY <1>6 DEF Service!Next

\* What the server says is served on, or leaves the offline state.
LEMMA ReadServes ==
    ASSUME TypeInv, CallsInv, OnStreamRead
    PROVE  Service!Next
<1>1. PICK message : OnTargetChange(message) \/ OnDocumentChange(message)
                     \/ OnTargetError(message) \/ OnSnapshot(message)
  BY DEF OnStreamRead
<1>2. PICK types : Receive(types, message)
  BY <1>1 DEF OnTargetChange, OnDocumentChange, OnTargetError, OnSnapshot
<1>3. tracker'.state # "Offline"
  BY <1>2, ReceiveIs DEF TypeInv, StreamType
<1>4. CASE outcome' = outcome
  BY <1>3, <1>4 DEF Service!LeaveOffline, Service!Next
<1>5. CASE OnTargetError(message) /\ message.query \in listened
  <2>1. Raise(ListenersOf(message.query), "error") /\ ListenersOf(message.query) \subseteq listeners
    BY <1>5 DEF OnTargetError, ListenersOf
  <2>2. PICK Q : Q = ListenersOf(message.query) \cap Waiting
    OBVIOUS
  <2>3. Service!Answered(Q, "error") /\ Q \in SUBSET Service!Waiting
    BY <2>1, <2>2, RaiseAnswers DEF Service!Answered
  <2>4. Service!Fail(Q)
    BY <1>3, <2>3 DEF Service!Fail
  <2>. QED  BY <2>3, <2>4 DEF Service!Next
<1>6. CASE OnSnapshot(message)
  <2>1. PICK R : R \subseteq listeners /\ Raise(R, "server")
    BY <1>6 DEF OnSnapshot
  <2>2. PICK Q : Q = R \cap Waiting
    OBVIOUS
  <2>3. Service!Answered(Q, "server") /\ Q \in SUBSET Service!Waiting
    BY <2>1, <2>2, RaiseAnswers DEF Service!Answered
  <2>4. Service!FromServer(Q)
    BY <1>3, <2>3 DEF Service!FromServer
  <2>. QED  BY <2>3, <2>4 DEF Service!Next
<1>. QED
  BY <1>1, <1>4, <1>5, <1>6 DEF OnTargetChange, OnDocumentChange, OnTargetError, raiseVars

\* Every step of the client is a step of the service, or a stutter.
LEMMA NextServes ==
    TypeInv /\ AssertInv /\ CallsInv /\ [Next]_vars => [Service!Next]_Service!serviceVars
<1> SUFFICES ASSUME TypeInv, AssertInv, CallsInv, [Next]_vars
             PROVE  [Service!Next]_Service!serviceVars
  OBVIOUS
<1>1. CASE UNCHANGED <<outcome, tracker>>
  BY <1>1 DEF Service!serviceVars
<1>2. CASE ServerProgress \/ \E q \in Target : ServerRejects(q) \/ Commit(q)
  BY <1>1, <1>2, ServerTypeInv DEF serverRest, raiseVars
<1>3. CASE UNCHANGED vars \/ StreamOpens \/ BackoffElapses
  BY <1>1, <1>3 DEF vars, StreamOpens, BackoffElapses, raiseVars
<1>4. CASE StreamFails \/ IdleTimeout \/ OnlineStateTimeout
  BY <1>4, OnlineStateServes DEF StreamFails, IdleTimeout, OnlineStateTimeout
<1>5. ASSUME NEW r \in Request, RunEvent(r)
      PROVE  [Service!Next]_Service!serviceVars
  BY <1>1, <1>5 DEF RunEvent, streamVars
<1>6. ASSUME NEW r \in Request, GetDocuments(r)
      PROVE  [Service!Next]_Service!serviceVars
  <2>1. tracker' = tracker /\ outcome[r] = "unasked" /\ outcome' = [outcome EXCEPT ![r] = "called"]
    BY <1>6 DEF GetDocuments, streamVars
  <2>2. \A s \in Request : (IF outcome'[s] = "called" THEN "unasked" ELSE outcome'[s])
                           = IF outcome[s] = "called" THEN "unasked" ELSE outcome[s]
    BY <2>1 DEF TypeInv, AppType
  <2>. QED  BY <2>1, <2>2 DEF Service!serviceVars
<1>7. ASSUME NEW r \in Request, RemoveQueryListener(r)
      PROVE  [Service!Next]_Service!serviceVars
  <2>1. outcome' = outcome
    BY <1>7 DEF RemoveQueryListener, raiseVars
  <2>2. CASE tracker' = tracker
    BY <1>1, <2>1, <2>2
  <2>3. CASE tracker' = UpdateState(tracker, "Unknown")
    BY <2>1, <2>3 DEF UpdateState, Service!LeaveOffline, Service!Next
  <2>. QED
    BY <1>7, <2>2, <2>3 DEF RemoveQueryListener, StopListening, UnwatchTarget, streamVars
<1>8. CASE OnStreamRead
  BY <1>8, ReadServes
<1>9. ASSUME NEW r \in Request, AddQueryListener(r)
      PROVE  [Service!Next]_Service!serviceVars
  BY <1>9, AddListenerServes
<1>. QED
  BY <1>2, <1>3, <1>4, <1>5, <1>6, <1>7, <1>8, <1>9 DEF Next, WorkerTask, MainTask

\* The client starts as the service does, online and with nothing answered.
LEMMA InitServes == Init => Service!Init
BY DEF Init, NewTracker, Service!Init

\* Listeners, views, targets, the stream and the tracker together keep the promise of
\* QueryService: each query is answered once, by the cache only when the client goes or is
\* offline, and then at once, else by the server (event_manager.mm, sync_engine.mm,
\* online_state_tracker.cc).
THEOREM ClientImplementsQueryService == Spec => ImplementsQueryService
<1>1. Init => TypeInv /\ AssertInv /\ CallsInv
  BY InitTypeInv, InitAsserts, InitCalls
<1>2. TypeInv /\ AssertInv /\ CallsInv /\ [Next]_vars => (TypeInv /\ AssertInv /\ CallsInv)'
  BY NextTypeInv, NextAsserts, NextCalls
<1>. QED
  BY <1>1, <1>2, InitServes, NextServes, PTL DEF Spec, ImplementsQueryService, Service!Spec

-----------------------------------------------------------------------------
(***************************************************************************)
(* Acknowledgements, counted.                                             *)
(***************************************************************************)
\* The places of a queue that hold a member of M.
Spots(s, M) == {i \in DOMAIN s : s[i] \in M}

\* A sequence has finitely many spots.
LEMMA SpotsFinite ==
    ASSUME NEW S, NEW s \in Seq(S), NEW M
    PROVE  IsFiniteSet(Spots(s, M)) /\ Cardinality(Spots(s, M)) \in Nat
<1>1. Spots(s, M) \subseteq 1 .. Len(s) /\ Len(s) \in Nat
  BY DEF Spots
<1>2. IsFiniteSet(1 .. Len(s))
  BY <1>1, FS_Interval
<1>. QED  BY <1>1, <1>2, FS_Subset, FS_CardinalityType

\* A message at the end is one spot more, if it is of the kind counted.
LEMMA SpotsAppend ==
    ASSUME NEW S, NEW s \in Seq(S), NEW x \in S, NEW M
    PROVE  Cardinality(Spots(Append(s, x), M)) =
               Cardinality(Spots(s, M)) + IF x \in M THEN 1 ELSE 0
<1>1. IsFiniteSet(Spots(s, M)) /\ Cardinality(Spots(s, M)) \in Nat
  BY SpotsFinite
<1>2. /\ Len(s) \in Nat /\ DOMAIN s = 1 .. Len(s)
      /\ DOMAIN Append(s, x) = 1 .. Len(s) + 1
      /\ \A i \in 1 .. Len(s) : Append(s, x)[i] = s[i]
      /\ Append(s, x)[Len(s) + 1] = x
  BY AppendPlaces
<1>3. Spots(Append(s, x), M) = IF x \in M THEN Spots(s, M) \cup {Len(s) + 1} ELSE Spots(s, M)
  BY <1>2 DEF Spots
<1>4. Len(s) + 1 \notin Spots(s, M)
  BY <1>2 DEF Spots
<1>5. CASE x \in M
  <2>1. Cardinality(Spots(s, M) \cup {Len(s) + 1}) = Cardinality(Spots(s, M)) + 1
    BY <1>1, <1>4, FS_AddElement
  <2>. QED  BY <1>3, <1>5, <2>1
<1>6. CASE x \notin M
  BY <1>1, <1>3, <1>6
<1>. QED  BY <1>5, <1>6

\* A message taken from the front is one spot less, if it is of the kind counted.
LEMMA SpotsTail ==
    ASSUME NEW S, NEW s \in Seq(S), s # <<>>, NEW M
    PROVE  Cardinality(Spots(s, M)) =
               Cardinality(Spots(Tail(s), M)) + IF Head(s) \in M THEN 1 ELSE 0
<1> DEFINE A == Spots(Tail(s), M)
           B == Spots(s, M) \ {1}
           f == [i \in A |-> i + 1]
<1>1. /\ Head(s) = s[1] /\ 1 \in DOMAIN s /\ Tail(s) \in Seq(S)
      /\ Len(s) \in Nat \ {0} /\ DOMAIN s = 1 .. Len(s)
      /\ DOMAIN Tail(s) = 1 .. Len(s) - 1
      /\ \A i \in 1 .. Len(s) - 1 : Tail(s)[i] = s[i + 1]
  BY TailPlaces
<1>2. IsFiniteSet(A) /\ IsFiniteSet(Spots(s, M)) /\ Cardinality(A) \in Nat
  BY <1>1, SpotsFinite
<1>3. f \in Bijection(A, B)
  <2>1. \A i \in A : i \in Int /\ i + 1 \in B
    BY <1>1 DEF Spots
  <2>2. \A j \in B : j - 1 \in A /\ (j - 1) + 1 = j
    BY <1>1 DEF Spots
  <2>3. f \in [A -> B]
    BY <2>1
  <2>4. \A i, j \in A : f[i] = f[j] => i = j
    BY <2>1
  <2>5. \A j \in B : \E i \in A : f[i] = j
    <3>1. ASSUME NEW j \in B PROVE \E i \in A : f[i] = j
      <4>1. j - 1 \in A /\ f[j - 1] = j
        BY <2>2
      <4>. QED  BY <4>1
    <3>. QED  BY <3>1
  <2> HIDE DEF f
  <2>. QED
    BY <2>3, <2>4, <2>5 DEF Bijection, Injection, Surjection, IsInjective
<1>4. Cardinality(A) = Cardinality(B)
  BY <1>2, <1>3, FS_Bijection DEF ExistsBijection
<1>5. (1 \in Spots(s, M)) = (Head(s) \in M)
  BY <1>1 DEF Spots
<1>6. CASE Head(s) \in M
  <2>1. Cardinality(B) = Cardinality(Spots(s, M)) - 1
    BY <1>2, <1>5, <1>6, FS_RemoveElement
  <2>2. Cardinality(Spots(s, M)) \in Nat
    BY SpotsFinite
  <2> HIDE DEF B, f
  <2>. QED  BY <1>2, <1>4, <1>6, <2>1, <2>2
<1>7. CASE Head(s) \notin M
  <2>1. B = Spots(s, M)
    BY <1>5, <1>7
  <2> HIDE DEF B, f
  <2>. QED  BY <1>2, <1>4, <1>7, <2>1
<1>. QED  BY <1>6, <1>7

\* Requests and replies about a target, as members of a set.
AskOf(q) == {m \in ToServer : m.query = q}
ReplyOf(q) == {m \in ToClient : m.type \in {"added", "refused", "removed"} /\ m.query = q}

\* What is in flight of a target is counted by the spots of its requests and replies.
LEMMA InFlightIs ==
    ASSUME NEW n \in Net, NEW q
    PROVE  /\ {i \in DOMAIN n.requests : n.requests[i].query = q} = Spots(n.requests, AskOf(q))
           /\ {i \in DOMAIN n.responses :
                 /\ n.responses[i].type \in {"added", "refused", "removed"}
                 /\ n.responses[i].query = q} = Spots(n.responses, ReplyOf(q))
           /\ n.requests \in Seq(ToServer) /\ n.responses \in Seq(ToClient)
<1>1. /\ \A i \in DOMAIN n.requests : n.requests[i] \in ToServer
      /\ \A i \in DOMAIN n.responses : n.responses[i] \in ToClient
      /\ n.requests \in Seq(ToServer) /\ n.responses \in Seq(ToClient)
  BY DEF Net
<1>. QED  BY <1>1 DEF Spots, AskOf, ReplyOf

\* How the number on its way changes: a request sent, one taken and replied to, anything
\* else sent, a message read.
LEMMA InFlightMoves ==
    ASSUME net \in Net, net' \in Net, NEW q
    PROVE  /\ InFlight(q) \in Nat /\ InFlight(q)' \in Nat
           /\ \A m \in ToServer :
                 net'.requests = Append(net.requests, m) /\ net'.responses = net.responses =>
                     InFlight(q)' = InFlight(q) + IF m.query = q THEN 1 ELSE 0
           /\ \A m \in ToClient :
                 /\ net.requests # <<>> /\ net'.requests = Tail(net.requests)
                 /\ net'.responses = Append(net.responses, m)
                 /\ m.type \in {"added", "refused", "removed"}
                 /\ m.query = Head(net.requests).query
                 => InFlight(q)' = InFlight(q)
           /\ \A m \in ToClient :
                 /\ net'.requests = net.requests /\ net'.responses = Append(net.responses, m)
                 /\ m.type \notin {"added", "refused", "removed"}
                 => InFlight(q)' = InFlight(q)
           /\ net'.requests = net.requests /\ net.responses # <<>>
              /\ net'.responses = Tail(net.responses) =>
                 InFlight(q) = InFlight(q)' + IF Head(net.responses) \in ReplyOf(q) THEN 1 ELSE 0
<1> DEFINE A(n) == Cardinality(Spots(n.requests, AskOf(q)))
           B(n) == Cardinality(Spots(n.responses, ReplyOf(q)))
<1>1. InFlight(q) = A(net) + B(net) /\ InFlight(q)' = A(net') + B(net')
  BY InFlightIs DEF InFlight, About, Replies
<1>2. A(net) \in Nat /\ B(net) \in Nat /\ A(net') \in Nat /\ B(net') \in Nat
  BY InFlightIs, SpotsFinite
<1>3. /\ net.requests \in Seq(ToServer) /\ net.responses \in Seq(ToClient)
  BY InFlightIs
<1>4. ASSUME NEW m \in ToServer, net'.requests = Append(net.requests, m),
             net'.responses = net.responses
      PROVE  InFlight(q)' = InFlight(q) + IF m.query = q THEN 1 ELSE 0
  <2>1. A(net') = A(net) + IF m \in AskOf(q) THEN 1 ELSE 0
    BY <1>3, <1>4, SpotsAppend
  <2>2. B(net') = B(net) /\ (m \in AskOf(q) <=> m.query = q)
    BY <1>4 DEF AskOf
  <2> HIDE DEF A, B
  <2>. QED  BY <1>1, <1>2, <2>1, <2>2
<1>5. ASSUME NEW m \in ToClient, net.requests # <<>>, net'.requests = Tail(net.requests),
             net'.responses = Append(net.responses, m),
             m.type \in {"added", "refused", "removed"}, m.query = Head(net.requests).query
      PROVE  InFlight(q)' = InFlight(q)
  <2>1. A(net) = A(net') + IF Head(net.requests) \in AskOf(q) THEN 1 ELSE 0
    BY <1>3, <1>5, SpotsTail
  <2>2. B(net') = B(net) + IF m \in ReplyOf(q) THEN 1 ELSE 0
    BY <1>3, <1>5, SpotsAppend
  <2>3. Head(net.requests) \in AskOf(q) <=> m \in ReplyOf(q)
    <3>1. Head(net.requests) \in ToServer
      BY <1>3, <1>5, TailPlaces
    <3>. QED  BY <1>5, <3>1 DEF AskOf, ReplyOf
  <2> HIDE DEF A, B
  <2>. QED  BY <1>1, <1>2, <2>1, <2>2, <2>3
<1>6. ASSUME NEW m \in ToClient, net'.requests = net.requests,
             net'.responses = Append(net.responses, m),
             m.type \notin {"added", "refused", "removed"}
      PROVE  InFlight(q)' = InFlight(q)
  <2>1. B(net') = B(net) + IF m \in ReplyOf(q) THEN 1 ELSE 0
    BY <1>3, <1>6, SpotsAppend
  <2>2. m \notin ReplyOf(q) /\ A(net') = A(net)
    BY <1>6 DEF ReplyOf
  <2> HIDE DEF A, B
  <2>. QED  BY <1>1, <1>2, <2>1, <2>2
<1>7. ASSUME net'.requests = net.requests, net.responses # <<>>,
             net'.responses = Tail(net.responses)
      PROVE  InFlight(q) = InFlight(q)' + IF Head(net.responses) \in ReplyOf(q) THEN 1 ELSE 0
  <2>1. B(net) = B(net') + IF Head(net.responses) \in ReplyOf(q) THEN 1 ELSE 0
    BY <1>3, <1>7, SpotsTail
  <2>2. A(net') = A(net)
    BY <1>7
  <2> HIDE DEF A, B
  <2>. QED  BY <1>1, <1>2, <2>1, <2>2
<1>8. InFlight(q) \in Nat /\ InFlight(q)' \in Nat
  BY <1>1, <1>2
<1> HIDE DEF A, B
<1>. QED  BY <1>4, <1>5, <1>6, <1>7, <1>8

\* A stream that opens: one request on its way for each target.
LEMMA InFlightOpens ==
    ASSUME TypeInv, StreamOpens, net = NewNet, NEW q \in Target
    PROVE  InFlight(q)' = IF q \in listened THEN 1 ELSE 0
<1>1. /\ net'.responses = <<>>
      /\ \A i \in DOMAIN net'.requests : net'.requests[i].query \in listened
      /\ q \in listened => \E i \in DOMAIN net'.requests : net'.requests[i].query = q
      /\ \A i, j \in DOMAIN net'.requests :
            net'.requests[i].query = net'.requests[j].query => i = j
  BY StreamOpensIs, NewTypes
<1>2. Replies(q)' = {}
  BY <1>1 DEF Replies
<1>3. CASE q \in listened
  <2>1. PICK i \in DOMAIN net'.requests : net'.requests[i].query = q
    BY <1>1, <1>3
  <2>2. About(q)' = {i}
    BY <1>1, <2>1 DEF About
  <2>3. Cardinality({i}) = 1 /\ Cardinality({}) = 0
    BY FS_EmptySet, FS_Singleton
  <2>4. InFlight(q)' = 1 + 0
    BY <1>2, <2>2, <2>3 DEF InFlight
  <2>. QED  BY <1>3, <2>4
<1>4. CASE q \notin listened
  <2>1. About(q)' = {}
    BY <1>1, <1>4 DEF About
  <2>. QED  BY <1>2, <1>4, <2>1, FS_EmptySet DEF InFlight
<1>. QED  BY <1>3, <1>4

\* A stream that is not open has nothing on its way and knows nothing.
ClosedInv ==
    ~ IsOpen => /\ net = NewNet /\ aggregator = NewAggregator
                /\ crossed = {} /\ updates = NoDocuments

CountInv == ClosedInv /\ OutstandingIsInFlight

\* What a task of the app does to the stream: nothing as long as it is not open, else it
\* may send the watch of a new target, or the unwatch of one it leaves.
LEMMA AppStreams ==
    ASSUME TypeInv, NEW r \in Request,
           GetDocuments(r) \/ AddQueryListener(r) \/ RemoveQueryListener(r) \/ RunEvent(r)
    PROVE  \/ /\ ~ IsOpen /\ ~ IsOpen' /\ UNCHANGED <<net, crossed>>
              /\ aggregator' \in {aggregator, NewAggregator}
              /\ updates' \in {updates, NoDocuments}
           \/ UNCHANGED <<stream, aggregator, updates, net, crossed, listened, overlapped, since>>
           \/ /\ IsOpen /\ IsOpen' /\ r.query \notin Queries
              /\ Listen(r.query) /\ SendWatchRequest(r.query)
           \/ /\ IsOpen /\ IsOpen' /\ StopListening(r.query) /\ SendUnwatchRequest(r.query)
              /\ UNCHANGED <<overlapped, since, updates, crossed>>
              /\ listened' = listened \ {r.query}
<1>. stream \in Stream
  BY DEF TypeInv, StreamType
<1>1. CASE GetDocuments(r) \/ RunEvent(r)
  BY <1>1 DEF GetDocuments, RunEvent, queryVars, streamVars
<1>2. CASE AddQueryListener(r)
  <2>1. CASE r.query \in Queries
    BY <1>2, <2>1 DEF AddQueryListener, streamVars
  <2>2. CASE r.query \notin Queries
    <3>1. Listen(r.query)
      BY <1>2, <2>2 DEF AddQueryListener
    <3>2. CASE ~ IsStarted
      <4>1. StartWatchStream
        BY <3>1, <3>2 DEF Listen
      <4>2. stream'.state \in {"Starting", "Backoff"}
        BY <4>1 DEF StartWatchStream, Start, Stream
      <4>. QED  BY <3>2, <4>1, <4>2 DEF StartWatchStream, IsStarted, IsOpen
    <3>3. CASE IsStarted /\ IsOpen
      <4>1. SendWatchRequest(r.query)
        BY <3>1, <3>3 DEF Listen
      <4>2. IsOpen'
        BY <3>3, <4>1 DEF SendWatchRequest, IsOpen, Stream
      <4>. QED  BY <2>2, <3>1, <3>3, <4>1, <4>2
    <3>4. CASE IsStarted /\ ~ IsOpen
      BY <3>1, <3>4 DEF Listen, streamVars, IsOpen
    <3>. QED  BY <3>2, <3>3, <3>4
  <2>. QED  BY <2>1, <2>2
<1>3. CASE RemoveQueryListener(r)
  <2>1. CASE ListenersOf(r.query) # {r}
    BY <1>3, <2>1 DEF RemoveQueryListener, streamVars
  <2>2. CASE ListenersOf(r.query) = {r}
    <3>1. StopListening(r.query) /\ UNCHANGED overlapped
      BY <1>3, <2>2 DEF RemoveQueryListener
    <3>2. CASE IsOpen
      <4>1. /\ SendUnwatchRequest(r.query) /\ listened' = listened \ {r.query}
            /\ stream' = [stream EXCEPT !.idle = (listened = {r.query})]
            /\ UNCHANGED <<since, updates, crossed>>
        BY <3>1, <3>2 DEF StopListening, UnwatchTarget
      <4>2. IsOpen'
        BY <3>2, <4>1 DEF IsOpen, Stream
      <4>. QED  BY <3>1, <3>2, <4>1, <4>2
    <3>3. CASE ~ IsOpen
      BY <3>1, <3>3 DEF StopListening, UnwatchTarget, IsOpen
    <3>. QED  BY <3>2, <3>3
  <2>. QED  BY <2>1, <2>2
<1>. QED  BY <1>1, <1>2, <1>3

\* Or the stream closes, and all of it is new.
LEMMA StreamCloses ==
    ASSUME TypeInv, StreamFails \/ BackoffElapses \/ IdleTimeout \/ OnlineStateTimeout, ClosedInv
    PROVE  \/ ~ IsOpen' /\ ClosedInv'
           \/ UNCHANGED <<stream, aggregator, updates, net, crossed>>
<1>. stream \in Stream
  BY DEF TypeInv, StreamType
<1>1. CASE StreamFails
  <2>1. stream'.state \in {"Backoff", "Error"}
    BY <1>1 DEF StreamFails, Start
  <2>. QED  BY <1>1, <2>1 DEF StreamFails, ClosedInv, IsOpen
<1>2. CASE BackoffElapses
  <2>1. stream.state = "Backoff" /\ stream'.state = "Starting"
    BY <1>2 DEF BackoffElapses, Start, Stream
  <2>. QED  BY <1>2, <2>1 DEF BackoffElapses, ClosedInv, IsOpen
<1>3. CASE IdleTimeout
  <2>1. stream'.state = "Initial"
    BY <1>3 DEF IdleTimeout, Stream
  <2>. QED  BY <1>3, <2>1 DEF IdleTimeout, ClosedInv, IsOpen
<1>4. CASE OnlineStateTimeout
  BY <1>4 DEF OnlineStateTimeout
<1>. QED  BY <1>1, <1>2, <1>3, <1>4

\* A request sent is a confirmation expected.
LEMMA RequestCounts ==
    ASSUME TypeInv, CountInv, IsOpen, IsOpen', UNCHANGED crossed, NEW q \in Target,
           aggregator' = RecordPendingTargetRequest(aggregator, q),
           NEW message \in ToServer, message.query = q,
           net' = [net EXCEPT !.requests = Append(@, message)]
    PROVE  CountInv'
<1>1. net \in Net /\ net' \in Net /\ net'.requests = Append(net.requests, message)
      /\ net'.responses = net.responses
  BY RequestJoins DEF TypeInv, StreamType
<1>2. ASSUME NEW p \in Target \ crossed
      PROVE  aggregator'[p].outstanding = InFlight(p)'
  <2>1. InFlight(p)' = InFlight(p) + IF message.query = p THEN 1 ELSE 0
    BY <1>1, InFlightMoves
  <2>2. aggregator[p].outstanding = InFlight(p)
    BY DEF CountInv, OutstandingIsInFlight
  <2>3. aggregator'[p].outstanding = aggregator[p].outstanding + IF p = q THEN 1 ELSE 0
    BY DEF RecordPendingTargetRequest, TypeInv, StreamType, TargetState
  <2>. QED  BY <2>1, <2>2, <2>3
<1>. QED  BY <1>2 DEF CountInv, ClosedInv, OutstandingIsInFlight

\* Calls, tasks and callbacks keep the count: a watch or unwatch is sent and counted at once.
LEMMA AppCounts ==
    ASSUME TypeInv, CountInv, NEW r \in Request,
           GetDocuments(r) \/ AddQueryListener(r) \/ RemoveQueryListener(r) \/ RunEvent(r)
    PROVE  CountInv'
<1>1. r.query \in Target
  BY ClientAssumption
<1>2. CASE /\ ~ IsOpen /\ ~ IsOpen' /\ UNCHANGED <<net, crossed>>
           /\ aggregator' \in {aggregator, NewAggregator}
           /\ updates' \in {updates, NoDocuments}
  BY <1>2 DEF CountInv, ClosedInv, OutstandingIsInFlight
<1>3. CASE UNCHANGED <<stream, aggregator, updates, net, crossed>>
  BY <1>3 DEF CountInv, ClosedInv, OutstandingIsInFlight, IsOpen, InFlight, About, Replies
<1>4. CASE IsOpen /\ IsOpen' /\ SendWatchRequest(r.query)
  <2>1. [type |-> "watch", query |-> r.query] \in ToServer
    BY <1>1 DEF ToServer
  <2>. QED  BY <1>1, <1>4, <2>1, RequestCounts DEF SendWatchRequest
<1>5. CASE IsOpen /\ IsOpen' /\ SendUnwatchRequest(r.query) /\ UNCHANGED crossed
  <2>1. [type |-> "unwatch", query |-> r.query] \in ToServer
    BY <1>1 DEF ToServer
  <2>. QED  BY <1>1, <1>5, <2>1, RequestCounts DEF SendUnwatchRequest
<1>. QED  BY <1>2, <1>3, <1>4, <1>5, AppStreams

\* The stream keeps the count: when it opens each target is sent and counted once, when it
\* closes all is dropped.
LEMMA StreamCounts ==
    ASSUME TypeInv, CountInv,
           StreamOpens \/ StreamFails \/ BackoffElapses \/ IdleTimeout \/ OnlineStateTimeout
    PROVE  CountInv'
<1>1. CASE StreamOpens
  <2>1. stream.state = "Starting" /\ IsOpen' /\ ~ IsOpen
    BY <1>1, StreamOpensIs DEF StreamOpens, IsOpen
  <2>2. net = NewNet /\ aggregator = NewAggregator
    BY <2>1 DEF CountInv, ClosedInv
  <2>3. ASSUME NEW q \in Target
        PROVE  aggregator'[q].outstanding = InFlight(q)'
    <3>1. InFlight(q)' = IF q \in listened THEN 1 ELSE 0
      BY <1>1, <2>2, InFlightOpens
    <3>2. aggregator'[q] = [aggregator[q] EXCEPT !.outstanding =
                                IF q \in listened THEN @ + 1 ELSE @]
      BY <1>1 DEF StreamOpens
    <3>3. aggregator[q] = NewTargetState
      BY <2>2 DEF NewAggregator
    <3>. QED  BY <3>1, <3>2, <3>3 DEF NewTargetState
  <2>. QED  BY <2>1, <2>3 DEF CountInv, ClosedInv, OutstandingIsInFlight
<1>2. CASE StreamFails \/ BackoffElapses \/ IdleTimeout \/ OnlineStateTimeout
  <2>1. CASE ~ IsOpen' /\ ClosedInv'
    BY <2>1 DEF CountInv, OutstandingIsInFlight
  <2>2. CASE UNCHANGED <<stream, aggregator, updates, net, crossed>>
    BY <2>2 DEF CountInv, ClosedInv, OutstandingIsInFlight, IsOpen, InFlight, About, Replies
  <2>. QED  BY <1>2, <2>1, <2>2, StreamCloses DEF CountInv
<1>. QED  BY <1>1, <1>2

\* A reply that is read is taken off the count, or wipes it out together with all that is
\* on its way; any other message leaves it alone.
LEMMA ReadCounts ==
    ASSUME TypeInv, CountInv, OnStreamRead
    PROVE  CountInv'
<1>1. PICK message : OnTargetChange(message) \/ OnDocumentChange(message)
                     \/ OnTargetError(message) \/ OnSnapshot(message)
  BY DEF OnStreamRead
<1>2. PICK types : Receive(types, message)
  BY <1>1 DEF OnTargetChange, OnDocumentChange, OnTargetError, OnSnapshot
<1>3. /\ IsOpen /\ IsOpen' /\ net \in Net /\ net' \in Net
      /\ net.responses # <<>> /\ message = Head(net.responses) /\ message \in ToClient
      /\ net'.requests = net.requests /\ net'.responses = Tail(net.responses)
      /\ aggregator \in [Target -> TargetState]
  BY <1>2, ReceiveIs DEF Receive, IsOpen, TypeInv, StreamType
<1>4. \A q \in Target : /\ InFlight(q)' \in Nat
                        /\ InFlight(q) = InFlight(q)' + IF message \in ReplyOf(q) THEN 1 ELSE 0
  BY <1>3, InFlightMoves
<1>5. \A q \in Target \ crossed : aggregator[q].outstanding = InFlight(q)
  BY <1>3 DEF CountInv, OutstandingIsInFlight
<1>6. crossed \subseteq crossed'
  BY <1>1 DEF OnTargetChange, OnDocumentChange, OnTargetError, OnSnapshot
<1>7. ASSUME NEW q \in Target \ crossed'
      PROVE  aggregator'[q].outstanding = InFlight(q)'
  <2>1. q \in Target /\ q \notin crossed /\ aggregator[q].outstanding = InFlight(q)
    BY <1>5, <1>6, <1>7
  <2>2. CASE aggregator'[q].outstanding = aggregator[q].outstanding /\ message \notin ReplyOf(q)
    BY <1>4, <2>1, <2>2
  <2>3. CASE OnTargetChange(message)
    <3>1. message.type \in {"added", "removed", "current"} /\ message.query \in Target
      BY <1>3, <2>3, MessageTypes DEF OnTargetChange, Receive
    <3>2. CASE message.query # q \/ message.type = "current"
      <4>1. message \notin ReplyOf(q)
        BY <3>2 DEF ReplyOf
      <4>2. aggregator'[q].outstanding = aggregator[q].outstanding
        <5>1. CASE message.type = "added"
          BY <1>3, <2>1, <2>3, <3>1, <3>2, <5>1 DEF OnTargetChange, HandleAdded
        <5>2. CASE message.type = "removed"
          BY <1>3, <2>1, <2>3, <3>1, <3>2, <5>2 DEF OnTargetChange, HandleRemoved, RemoveTarget
        <5>3. CASE message.type = "current"
          BY <1>3, <2>1, <2>3, <3>1, <5>3 DEF OnTargetChange, HandleCurrent, TargetState
        <5>. QED  BY <3>1, <5>1, <5>2, <5>3
      <4>. QED  BY <2>2, <4>1, <4>2
    <3>3. CASE message.query = q /\ message.type # "current"
      <4>1. message \in ReplyOf(q)
        BY <1>3, <3>1, <3>3 DEF ReplyOf
      <4>2. aggregator'[q].outstanding = aggregator[q].outstanding - 1
        <5>1. CASE message.type = "added"
          BY <1>3, <2>1, <2>3, <3>1, <3>3, <5>1 DEF OnTargetChange, HandleAdded, TargetState
        <5>2. CASE message.type = "removed"
          <6>1. aggregator' = HandleRemoved(aggregator, q)
            BY <2>3, <3>3, <5>2 DEF OnTargetChange
          <6>. QED
            BY <1>3, <2>1, <6>1 DEF HandleRemoved, RemoveTarget, NewTargetState, TargetState
        <5>. QED  BY <3>1, <3>3, <5>1, <5>2
      <4>. QED  BY <1>4, <2>1, <4>1, <4>2
    <3>. QED  BY <3>2, <3>3
  <2>4. CASE OnDocumentChange(message) \/ OnSnapshot(message)
    <3>1. message \notin ReplyOf(q) /\ aggregator' = aggregator
      BY <2>4 DEF OnDocumentChange, OnSnapshot, Receive, ReplyOf
    <3>. QED  BY <2>2, <3>1
  <2>5. CASE OnTargetError(message)
    <3>1. message.type \in {"refused", "error"}
      BY <2>5 DEF OnTargetError, Receive
    <3>2. CASE message.query # q
      <4>1. message \notin ReplyOf(q)
        BY <3>2 DEF ReplyOf
      <4>2. aggregator'[q] = aggregator[q]
        BY <1>3, <2>1, <2>5, <3>2 DEF OnTargetError, RemoveTarget
      <4>. QED  BY <2>2, <4>1, <4>2
    <3>3. CASE message.query = q /\ q \in listened
      <4>1. InFlight(q)' = 0
        BY <1>7, <2>5, <3>3 DEF OnTargetError
      <4>2. aggregator'[q] = NewTargetState
        BY <1>3, <2>1, <2>5, <3>3 DEF OnTargetError, RemoveTarget
      <4>. QED  BY <4>1, <4>2 DEF NewTargetState
    <3>4. CASE message.query = q /\ q \notin listened
      <4>1. message.type # "refused"
        BY <1>7, <2>5, <3>4 DEF OnTargetError
      <4>2. message \notin ReplyOf(q) /\ aggregator' = aggregator
        BY <2>5, <3>1, <3>4, <4>1 DEF OnTargetError, ReplyOf
      <4>. QED  BY <2>2, <4>2
    <3>. QED  BY <3>2, <3>3, <3>4
  <2>. QED  BY <1>1, <2>3, <2>4, <2>5
<1>. QED  BY <1>3, <1>7 DEF CountInv, ClosedInv, OutstandingIsInFlight

\* The server replies to a request with one confirmation, and sends nothing else.
LEMMA ServerCounts ==
    ASSUME TypeInv, CountInv, ServerProgress \/ \E q \in Target : ServerRejects(q) \/ Commit(q)
    PROVE  CountInv'
<1>1. UNCHANGED <<stream, aggregator, updates, crossed>>
  BY ServerTypeInv DEF serverRest
<1>2. TypeInv' /\ net \in Net /\ net' \in Net /\ committed \in Count
  BY ServerTypeInv DEF TypeInv, StreamType, StoreType
<1>3. CASE \E q \in Target : Commit(q)
  <2>1. net' = net
    BY <1>3 DEF Commit
  <2>. QED
    BY <1>1, <2>1 DEF CountInv, ClosedInv, OutstandingIsInFlight, IsOpen, InFlight, About, Replies
<1>4. CASE ServerProgress \/ \E q \in Target : ServerRejects(q)
  <2>1. IsOpen /\ IsOpen'
    BY <1>1, <1>4 DEF ServerProgress, ServerTakes, ServerSendsDocuments, ServerCallsCurrent,
                      ServerSnapshot, ServerRejects, CanRespond, IsOpen
  <2>2. \A q \in Target : InFlight(q)' = InFlight(q)
    <3>1. CASE ServerTakes
      <4>1. PICK reply \in {"added", "refused", "removed"} :
               /\ net.requests # <<>> /\ Head(net.requests) \in ToServer
               /\ net'.requests = Tail(net.requests)
               /\ net'.responses = Append(net.responses,
                      [type |-> reply, query |-> Head(net.requests).query])
        BY <1>2, <3>1, ServerTakesIs
      <4>2. [type |-> reply, query |-> Head(net.requests).query] \in ToClient
        BY <4>1 DEF ToClient, ToServer
      <4>. QED  BY <1>2, <4>1, <4>2, InFlightMoves
    <3>2. CASE \E p \in Target :
                  ServerSendsDocuments(p) \/ ServerCallsCurrent(p) \/ ServerRejects(p)
      <4>1. PICK p \in Target :
                  ServerSendsDocuments(p) \/ ServerCallsCurrent(p) \/ ServerRejects(p)
        BY <3>2
      <4>2. PICK m \in {[type |-> "documents", query |-> p, count |-> committed[p]],
                        [type |-> "current", query |-> p], [type |-> "error", query |-> p]} :
               net'.requests = net.requests /\ net'.responses = Append(net.responses, m)
        BY <1>2, <4>1, ServerSendsIs
      <4>3. m \in ToClient /\ m.type \notin {"added", "refused", "removed"}
        BY <1>2, <4>1, <4>2 DEF ToClient, Count
      <4>. QED  BY <1>2, <4>2, <4>3, InFlightMoves
    <3>3. CASE ServerSnapshot
      <4>1. net'.requests = net.requests
            /\ net'.responses = Append(net.responses, [type |-> "snapshot"])
        BY <1>2, <3>3, ServerSnapshotIs
      <4>2. [type |-> "snapshot"] \in ToClient
        BY DEF ToClient
      <4>. QED  BY <1>2, <4>1, <4>2, InFlightMoves
    <3>. QED  BY <1>4, <3>1, <3>2, <3>3 DEF ServerProgress
  <2>. QED  BY <1>1, <2>1, <2>2 DEF CountInv, ClosedInv, OutstandingIsInFlight
<1>. QED  BY <1>3, <1>4

\* Every step keeps the count.
LEMMA NextCounts == TypeInv /\ CountInv /\ [Next]_vars => CountInv'
<1> SUFFICES ASSUME TypeInv, CountInv, [Next]_vars PROVE CountInv'
  OBVIOUS
<1>1. CASE UNCHANGED vars
  BY <1>1 DEF vars, CountInv, ClosedInv, OutstandingIsInFlight, IsOpen, InFlight, About, Replies
<1>. QED
  BY <1>1, AppCounts, StreamCounts, ReadCounts, ServerCounts DEF Next, WorkerTask, MainTask

\* The stream starts closed.
LEMMA InitCounts == Init => CountInv
BY DEF Init, CountInv, ClosedInv, OutstandingIsInFlight, IsOpen

\* The acknowledgements the aggregator waits for are the requests and replies on their way,
\* over any order of listening and leaving, as long as no rejection crosses a request
\* (remote_event.h:198, remote_store.mm:331).
THEOREM ClientOutstandingIsInFlight == Spec => []OutstandingIsInFlight
<1>1. CountInv => OutstandingIsInFlight
  BY DEF CountInv
<1>. QED  BY <1>1, InitTypeInv, NextTypeInv, InitCounts, NextCounts, PTL DEF Spec

-----------------------------------------------------------------------------
(***************************************************************************)
(* Views called synced.                                                   *)
(***************************************************************************)
\* What the server sends about a target it serves, on its way.
Data(q) == {i \in DOMAIN net.responses :
    /\ net.responses[i].type \in {"documents", "current", "error"}
    /\ net.responses[i].query = q}
Documents(q) == {i \in Data(q) : net.responses[i].type = "documents"}

Quiet(q) == net.serving[q] = "no" /\ Data(q) = {}

\* The client has, or has received, all that the view of q asks for.
Has(q) == known[q] >= since[q] \/ updates[q] >= since[q]

\* Once the server is done with a target it says nothing of it until it is added again.
EndInv(q) ==
    \A i \in Replies(q) \cup Data(q) :
        net.responses[i].type \in {"refused", "removed", "error"} =>
            \/ \E j \in Replies(q) : i < j /\ net.responses[j].type = "added"
            \/ net.serving[q] = "no" /\ \A j \in Data(q) : j <= i

\* A target the client has left: the last that is on its way is the unwatch, or else the
\* confirmation of it, or else nothing.
Gone(q) ==
    /\ \A i \in About(q) :
          (\A j \in About(q) : j <= i) => net.requests[i].type = "unwatch"
    /\ About(q) = {} =>
          \A i \in Replies(q) : (\A j \in Replies(q) : j <= i) => net.responses[i].type = "removed"
    /\ About(q) = {} /\ Replies(q) = {} => Quiet(q) /\ ~ aggregator[q].current

\* A target that was watched when nothing of it was on its way: all that comes now is about
\* this watch, its confirmation first, and nothing is called current before its documents.
Fresh(q) ==
    /\ q \notin crossed
    /\ \A i, j \in About(q) : i = j
    /\ About(q) # {} => Replies(q) = {} /\ Quiet(q)
    /\ \A i \in Replies(q), j \in Data(q) : i < j
    /\ \A i \in Documents(q) : net.responses[i].count >= since[q]
    /\ net.serving[q] # "no" /\ net.sent[q] > 0 => Has(q) \/ Documents(q) # {}
    /\ \A i \in Data(q) : net.responses[i].type = "current" =>
          Has(q) \/ \E j \in Documents(q) : j < i
    /\ aggregator[q].current => Has(q)

TargetInv(q) ==
    /\ EndInv(q)
    /\ q \in listened \ overlapped => Fresh(q)
    /\ q \notin listened \cup crossed => Gone(q)

SinceInv == \A q \in Target : since[q] <= committed[q]

SyncInv == SinceInv /\ SyncedViewsComplete /\ (IsOpen => \A q \in Target : TargetInv(q))

DataOf(q) ==
    {m \in ToClient : m.type \in {"documents", "current", "error"} /\ m.query = q}

\* One message more: the places of the others stay.
LEMMA ResponsesAppend ==
    ASSUME net \in Net, NEW m \in ToClient, net'.responses = Append(net.responses, m), NEW q
    PROVE  LET n == Len(net.responses)
           IN  /\ n \in Nat /\ net'.responses[n + 1] = m
               /\ \A i \in Replies(q) \cup Data(q) :
                     i \in 1 .. n /\ net'.responses[i] = net.responses[i]
               /\ Replies(q)' = IF m \in ReplyOf(q) THEN Replies(q) \cup {n + 1} ELSE Replies(q)
               /\ Data(q)' = IF m \in DataOf(q) THEN Data(q) \cup {n + 1} ELSE Data(q)
               /\ Documents(q)' = IF m \in DataOf(q) /\ m.type = "documents"
                                  THEN Documents(q) \cup {n + 1} ELSE Documents(q)
<1> DEFINE n == Len(net.responses)
<1>1. net.responses \in Seq(ToClient)
  BY DEF Net
<1>2. /\ n \in Nat /\ DOMAIN net.responses = 1 .. n /\ DOMAIN net'.responses = 1 .. n + 1
      /\ \A i \in 1 .. n : net'.responses[i] = net.responses[i]
      /\ net'.responses[n + 1] = m
  BY <1>1, AppendPlaces
<1> HIDE DEF n
<1>3. Replies(q)' = IF m \in ReplyOf(q) THEN Replies(q) \cup {n + 1} ELSE Replies(q)
  BY <1>2 DEF Replies, ReplyOf
<1>4. Data(q)' = IF m \in DataOf(q) THEN Data(q) \cup {n + 1} ELSE Data(q)
  BY <1>2 DEF Data, DataOf
<1>5. \A i \in Replies(q) \cup Data(q) : i \in 1 .. n /\ net'.responses[i] = net.responses[i]
  BY <1>2 DEF Replies, Data
<1>6. Documents(q)' = IF m \in DataOf(q) /\ m.type = "documents"
                      THEN Documents(q) \cup {n + 1} ELSE Documents(q)
  <2>1. Documents(q)' = {i \in Data(q)' : net'.responses[i].type = "documents"}
    BY DEF Documents
  <2>2. n + 1 \notin Data(q)
    BY <1>2, <1>5
  <2>. QED  BY <1>2, <1>4, <1>5, <2>1, <2>2 DEF Documents
<1>. QED  BY <1>2, <1>3, <1>4, <1>5, <1>6 DEF n

\* One message read: the others move up.
LEMMA ResponsesTail ==
    ASSUME net \in Net, net.responses # <<>>, net'.responses = Tail(net.responses), NEW q
    PROVE  /\ \A i : i \in Replies(q)' <=> i \in Nat \ {0} /\ i + 1 \in Replies(q)
           /\ \A i : i \in Data(q)' <=> i \in Nat \ {0} /\ i + 1 \in Data(q)
           /\ \A i : i \in Documents(q)' <=> i \in Nat \ {0} /\ i + 1 \in Documents(q)
           /\ \A i \in (Replies(q) \cup Data(q))' : net'.responses[i] = net.responses[i + 1]
           /\ Replies(q) \cup Data(q) \subseteq Nat \ {0}
           /\ Head(net.responses) = net.responses[1]
           /\ 1 \in Replies(q) <=> Head(net.responses) \in ReplyOf(q)
           /\ 1 \in Data(q) <=> Head(net.responses) \in DataOf(q)
<1>1. net.responses \in Seq(ToClient)
  BY DEF Net
<1>2. /\ Len(net.responses) \in Nat \ {0} /\ DOMAIN net.responses = 1 .. Len(net.responses)
      /\ DOMAIN net'.responses = 1 .. Len(net.responses) - 1
      /\ \A i \in 1 .. Len(net.responses) - 1 : net'.responses[i] = net.responses[i + 1]
      /\ Head(net.responses) = net.responses[1] /\ Head(net.responses) \in ToClient
      /\ 1 \in DOMAIN net.responses
  BY <1>1, TailPlaces
<1>3. \A i : i \in DOMAIN net'.responses <=> i \in Nat \ {0} /\ i + 1 \in DOMAIN net.responses
  BY <1>2
<1>4. \A i \in DOMAIN net'.responses : net'.responses[i] = net.responses[i + 1]
  BY <1>2
<1>5. \A i : i \in Replies(q)' <=> i \in Nat \ {0} /\ i + 1 \in Replies(q)
  BY <1>3, <1>4 DEF Replies
<1>6. \A i : i \in Data(q)' <=> i \in Nat \ {0} /\ i + 1 \in Data(q)
  BY <1>3, <1>4 DEF Data
<1>7. \A i \in (Replies(q) \cup Data(q))' : net'.responses[i] = net.responses[i + 1]
  BY <1>4 DEF Replies, Data
<1>8. \A i : i \in Documents(q)' <=> i \in Nat \ {0} /\ i + 1 \in Documents(q)
  BY <1>6, <1>7 DEF Documents
<1>9. Replies(q) \cup Data(q) \subseteq Nat \ {0}
  BY <1>2 DEF Replies, Data
<1>10. /\ 1 \in Replies(q) <=> Head(net.responses) \in ReplyOf(q)
       /\ 1 \in Data(q) <=> Head(net.responses) \in DataOf(q)
  BY <1>2 DEF Replies, ReplyOf, Data, DataOf
<1>. QED  BY <1>2, <1>5, <1>6, <1>7, <1>8, <1>9, <1>10

\* The same for the requests.
LEMMA RequestsAppend ==
    ASSUME net \in Net, NEW m \in ToServer, net'.requests = Append(net.requests, m), NEW q
    PROVE  LET n == Len(net.requests)
           IN  /\ n \in Nat /\ net'.requests[n + 1] = m
               /\ \A i \in About(q) : i \in 1 .. n /\ net'.requests[i] = net.requests[i]
               /\ About(q)' = IF m.query = q THEN About(q) \cup {n + 1} ELSE About(q)
<1> DEFINE n == Len(net.requests)
<1>1. net.requests \in Seq(ToServer)
  BY DEF Net
<1>2. /\ n \in Nat /\ DOMAIN net.requests = 1 .. n /\ DOMAIN net'.requests = 1 .. n + 1
      /\ \A i \in 1 .. n : net'.requests[i] = net.requests[i]
      /\ net'.requests[n + 1] = m
  BY <1>1, AppendPlaces
<1> HIDE DEF n
<1>3. About(q)' = IF m.query = q THEN About(q) \cup {n + 1} ELSE About(q)
  BY <1>2 DEF About
<1>4. \A i \in About(q) : i \in 1 .. n /\ net'.requests[i] = net.requests[i]
  BY <1>2 DEF About
<1>. QED  BY <1>2, <1>3, <1>4 DEF n

\* A request taken by the server: the places of the others move up by one.
LEMMA RequestsTail ==
    ASSUME net \in Net, net.requests # <<>>, net'.requests = Tail(net.requests), NEW q
    PROVE  /\ \A i : i \in About(q)' <=> i \in Nat \ {0} /\ i + 1 \in About(q)
           /\ \A i \in About(q)' : net'.requests[i] = net.requests[i + 1]
           /\ About(q) \subseteq Nat \ {0}
           /\ Head(net.requests) = net.requests[1]
           /\ 1 \in About(q) <=> Head(net.requests).query = q
<1>1. net.requests \in Seq(ToServer)
  BY DEF Net
<1>2. /\ Len(net.requests) \in Nat \ {0} /\ DOMAIN net.requests = 1 .. Len(net.requests)
      /\ DOMAIN net'.requests = 1 .. Len(net.requests) - 1
      /\ \A i \in 1 .. Len(net.requests) - 1 : net'.requests[i] = net.requests[i + 1]
      /\ Head(net.requests) = net.requests[1] /\ 1 \in DOMAIN net.requests
  BY <1>1, TailPlaces
<1>3. \A i : i \in DOMAIN net'.requests <=> i \in Nat \ {0} /\ i + 1 \in DOMAIN net.requests
  BY <1>2
<1>4. \A i \in DOMAIN net'.requests : net'.requests[i] = net.requests[i + 1]
  BY <1>2
<1>. QED  BY <1>2, <1>3, <1>4 DEF About

\* What the server sends next keeps to the order.
LEMMA EndAppend ==
    ASSUME net \in Net, NEW q \in Target, EndInv(q), NEW m \in ToClient,
           net'.responses = Append(net.responses, m),
           m \notin ReplyOf(q) \cup DataOf(q) => net'.serving[q] = net.serving[q],
           m \in ReplyOf(q) /\ m.type # "added" => net'.serving[q] = "no",
           m \in DataOf(q) => net.serving[q] # "no",
           m \in DataOf(q) /\ m.type = "error" => net'.serving[q] = "no"
    PROVE  EndInv(q)'
<1> DEFINE n == Len(net.responses)
           Ends(i) == net'.responses[i].type \in {"refused", "removed", "error"}
           Again(i) == \E j \in Replies(q)' : i < j /\ net'.responses[j].type = "added"
           Done(i) == net'.serving[q] = "no" /\ \A j \in Data(q)' : j <= i
<1>1. /\ n \in Nat /\ net'.responses[n + 1] = m
      /\ \A i \in Replies(q) \cup Data(q) :
            i \in 1 .. n /\ net'.responses[i] = net.responses[i]
      /\ Replies(q)' = IF m \in ReplyOf(q) THEN Replies(q) \cup {n + 1} ELSE Replies(q)
      /\ Data(q)' = IF m \in DataOf(q) THEN Data(q) \cup {n + 1} ELSE Data(q)
  BY ResponsesAppend
<1> HIDE DEF n
<1>2. ASSUME NEW i \in Replies(q)' \cup Data(q)', Ends(i)
      PROVE  Again(i) \/ Done(i)
  <2>1. CASE i \in Replies(q) \cup Data(q)
    <3>1. net.responses[i].type \in {"refused", "removed", "error"} /\ i \in 1 .. n
      BY <1>1, <1>2, <2>1
    <3>2. CASE \E j \in Replies(q) : i < j /\ net.responses[j].type = "added"
      <4>1. PICK j \in Replies(q) : i < j /\ net.responses[j].type = "added"
        BY <3>2
      <4>. QED  BY <1>1, <4>1
    <3>3. CASE net.serving[q] = "no" /\ \A j \in Data(q) : j <= i
      <4>1. m \notin DataOf(q) /\ Data(q)' = Data(q)
        BY <1>1, <3>3
      <4>2. CASE m \in ReplyOf(q) /\ m.type = "added"
        <5>1. n + 1 \in Replies(q)' /\ i < n + 1 /\ net'.responses[n + 1].type = "added"
          BY <1>1, <3>1, <4>2
        <5>. QED  BY <5>1
      <4>3. CASE ~ (m \in ReplyOf(q) /\ m.type = "added")
        BY <3>3, <4>1, <4>3
      <4>. QED  BY <4>2, <4>3
    <3>. QED  BY <2>1, <3>1, <3>2, <3>3 DEF EndInv
  <2>2. CASE i = n + 1 /\ m \in ReplyOf(q) \cup DataOf(q)
    <3>1. \A j \in Data(q)' : j <= n + 1
      BY <1>1
    <3>2. m.type \in {"refused", "removed", "error"}
      BY <1>1, <1>2, <2>2
    <3>3. net'.serving[q] = "no"
      BY <2>2, <3>2 DEF ReplyOf, DataOf
    <3>. QED  BY <2>2, <3>1, <3>3
  <2>. QED  BY <1>1, <2>1, <2>2
<1>. QED  BY <1>2 DEF EndInv

\* So does what is read.
LEMMA EndTail ==
    ASSUME net \in Net, NEW q \in Target, EndInv(q), net.responses # <<>>,
           net'.responses = Tail(net.responses), net'.serving = net.serving
    PROVE  EndInv(q)'
<1>1. /\ \A i : i \in Replies(q)' <=> i \in Nat \ {0} /\ i + 1 \in Replies(q)
      /\ \A i : i \in Data(q)' <=> i \in Nat \ {0} /\ i + 1 \in Data(q)
      /\ \A i \in (Replies(q) \cup Data(q))' : net'.responses[i] = net.responses[i + 1]
      /\ Replies(q) \cup Data(q) \subseteq Nat \ {0}
  BY ResponsesTail
<1>2. ASSUME NEW i \in Replies(q)' \cup Data(q)',
             net'.responses[i].type \in {"refused", "removed", "error"}
      PROVE  \/ \E j \in Replies(q)' : i < j /\ net'.responses[j].type = "added"
             \/ net'.serving[q] = "no" /\ \A j \in Data(q)' : j <= i
  <2>1. /\ i \in Nat \ {0} /\ i + 1 \in Replies(q) \cup Data(q)
        /\ net.responses[i + 1].type \in {"refused", "removed", "error"}
    BY <1>1, <1>2
  <2>2. CASE \E j \in Replies(q) : i + 1 < j /\ net.responses[j].type = "added"
    <3>1. PICK j \in Replies(q) : i + 1 < j /\ net.responses[j].type = "added"
      BY <2>2
    <3>2. j - 1 \in Nat \ {0} /\ (j - 1) + 1 = j /\ i < j - 1
      BY <1>1, <2>1, <3>1
    <3>3. j - 1 \in Replies(q)' /\ net'.responses[j - 1].type = "added"
      BY <1>1, <3>1, <3>2
    <3>. QED  BY <3>2, <3>3
  <2>3. CASE net.serving[q] = "no" /\ \A j \in Data(q) : j <= i + 1
    <3>1. ASSUME NEW j \in Data(q)' PROVE j <= i
      <4>1. j \in Nat /\ j + 1 \in Data(q)
        BY <1>1
      <4>2. j + 1 <= i + 1
        BY <2>3, <4>1
      <4>. QED  BY <2>1, <4>1, <4>2
    <3>. QED  BY <2>3, <3>1
  <2>. QED  BY <2>1, <2>2, <2>3 DEF EndInv
<1>. QED  BY <1>2 DEF EndInv

\* Nothing in flight is nothing on its way.
LEMMA NoneInFlight ==
    ASSUME net \in Net, NEW q, InFlight(q) = 0
    PROVE  About(q) = {} /\ Replies(q) = {}
<1>1. /\ About(q) = Spots(net.requests, AskOf(q)) /\ net.requests \in Seq(ToServer)
      /\ Replies(q) = Spots(net.responses, ReplyOf(q)) /\ net.responses \in Seq(ToClient)
  BY InFlightIs DEF About, Replies
<1>2. IsFiniteSet(About(q)) /\ IsFiniteSet(Replies(q))
  BY <1>1, SpotsFinite
<1>3. Cardinality(About(q)) = 0 /\ Cardinality(Replies(q)) = 0
  BY <1>2, FS_CardinalityType DEF InFlight
<1>. QED  BY <1>2, <1>3, FS_EmptySet

\* A target that is left: the unwatch is the last request.
LEMMA GoneUnwatch ==
    ASSUME net \in Net, NEW q \in Target, NEW m \in ToServer, m.type = "unwatch", m.query = q,
           net'.requests = Append(net.requests, m)
    PROVE  Gone(q)'
<1> DEFINE n == Len(net.requests)
<1>1. /\ n \in Nat /\ net'.requests[n + 1] = m
      /\ \A i \in About(q) : i \in 1 .. n
      /\ About(q)' = About(q) \cup {n + 1}
  BY RequestsAppend
<1> HIDE DEF n
<1>2. ASSUME NEW i \in About(q)', \A j \in About(q)' : j <= i
      PROVE  net'.requests[i].type = "unwatch"
  <2>1. n + 1 <= i
    BY <1>1, <1>2
  <2>2. i = n + 1
    BY <1>1, <2>1
  <2>. QED  BY <1>1, <2>2
<1>. QED  BY <1>1, <1>2 DEF Gone

\* Requests about others do not matter to it.
LEMMA GoneOther ==
    ASSUME net \in Net, NEW q \in Target, Gone(q), NEW m \in ToServer, m.query # q,
           net'.requests = Append(net.requests, m), net'.responses = net.responses,
           net'.serving = net.serving, aggregator'[q] = aggregator[q]
    PROVE  Gone(q)'
<1>1. About(q)' = About(q) /\ \A i \in About(q) : net'.requests[i] = net.requests[i]
  BY RequestsAppend
<1>2. Replies(q)' = Replies(q) /\ Data(q)' = Data(q)
  BY DEF Replies, Data
<1>. QED  BY <1>1, <1>2 DEF Gone, Quiet

\* The server takes a request: if it was the last about the target, it confirms the unwatch.
LEMMA GoneTake ==
    ASSUME net \in Net, NEW q \in Target, Gone(q), ServerTakes, UNCHANGED aggregator
    PROVE  Gone(q)'
<1> DEFINE p == Head(net.requests).query
           n == Len(net.responses)
<1>1. PICK reply \in {"added", "refused", "removed"} :
         /\ net'.responses = Append(net.responses, [type |-> reply, query |-> p])
         /\ net'.serving = [net.serving EXCEPT ![p] = IF reply = "added" THEN "added" ELSE "no"]
         /\ reply = "removed" <=> Head(net.requests).type = "unwatch"
  BY ServerTakesIs
<1>2. /\ net.requests # <<>> /\ net'.requests = Tail(net.requests) /\ p \in Target
      /\ [type |-> reply, query |-> p] \in ToClient
  BY ServerTakesIs DEF ToServer, ToClient
<1>3. /\ \A i : i \in About(q)' <=> i \in Nat \ {0} /\ i + 1 \in About(q)
      /\ \A i \in About(q)' : net'.requests[i] = net.requests[i + 1]
      /\ About(q) \subseteq Nat \ {0}
      /\ Head(net.requests) = net.requests[1]
      /\ 1 \in About(q) <=> p = q
  BY <1>2, RequestsTail
<1> DEFINE m == [type |-> reply, query |-> p]
<1>4. /\ n \in Nat /\ net'.responses[n + 1] = m
      /\ \A i \in Replies(q) \cup Data(q) : i \in 1 .. n /\ net'.responses[i] = net.responses[i]
      /\ Replies(q)' = IF m \in ReplyOf(q) THEN Replies(q) \cup {n + 1} ELSE Replies(q)
      /\ Data(q)' = IF m \in DataOf(q) THEN Data(q) \cup {n + 1} ELSE Data(q)
  BY <1>1, <1>2, ResponsesAppend
<1>5. (m \in ReplyOf(q) <=> p = q) /\ m \notin DataOf(q)
  BY <1>2 DEF ReplyOf, DataOf
<1>6. m.type = reply
  OBVIOUS
<1> HIDE DEF n, p, m
<1>7. ASSUME NEW i \in About(q)', \A j \in About(q)' : j <= i
      PROVE  net'.requests[i].type = "unwatch"
  <2>1. i \in Nat \ {0} /\ i + 1 \in About(q)
    BY <1>3
  <2>2. ASSUME NEW j \in About(q) PROVE j <= i + 1
    <3>1. CASE j = 1
      BY <2>1, <3>1
    <3>2. CASE j # 1
      <4>1. j - 1 \in Nat \ {0} /\ (j - 1) + 1 = j
        BY <1>3, <3>2
      <4>2. j - 1 <= i
        BY <1>3, <1>7, <4>1
      <4>. QED  BY <2>1, <4>1, <4>2
    <3>. QED  BY <3>1, <3>2
  <2>. QED  BY <1>3, <2>1, <2>2 DEF Gone
<1>8. ASSUME About(q)' = {}
      PROVE  About(q) \subseteq {1}
  <2>1. ASSUME NEW j \in About(q), j # 1 PROVE FALSE
    <3>1. j - 1 \in Nat \ {0} /\ (j - 1) + 1 = j
      BY <1>3, <2>1
    <3>2. j - 1 \in About(q)'
      BY <1>3, <2>1, <3>1
    <3>. QED  BY <1>8, <3>2
  <2>. QED  BY <2>1
<1>9. CASE p = q
  <2>1. n + 1 \in Replies(q)' /\ 1 \in About(q)
    BY <1>3, <1>4, <1>5, <1>9
  <2>2. ASSUME About(q)' = {}, NEW i \in Replies(q)', \A j \in Replies(q)' : j <= i
        PROVE  net'.responses[i].type = "removed"
    <3>1. i = n + 1
      BY <1>4, <2>1, <2>2
    <3>2. net.requests[1].type = "unwatch"
      BY <1>8, <2>1, <2>2 DEF Gone
    <3>. QED  BY <1>1, <1>3, <1>4, <1>6, <3>1, <3>2
  <2>. QED  BY <1>7, <2>1, <2>2 DEF Gone
<1>10. CASE p # q
  <2>1. /\ Replies(q)' = Replies(q) /\ Data(q)' = Data(q)
        /\ \A i \in Replies(q) : net'.responses[i] = net.responses[i]
    BY <1>4, <1>5, <1>10
  <2>2. net'.serving[q] = net.serving[q]
    BY <1>1, <1>10 DEF Net
  <2>3. About(q)' = {} => About(q) = {}
    BY <1>3, <1>8, <1>10
  <2>. QED  BY <1>7, <2>1, <2>2, <2>3 DEF Gone, Quiet
<1>. QED  BY <1>9, <1>10

\* The server sends more; about this target only if something of it is still on its way.
LEMMA GoneSend ==
    ASSUME net \in Net, NEW q \in Target, Gone(q), NEW m \in ToClient, m \notin ReplyOf(q),
           net'.requests = net.requests, net'.responses = Append(net.responses, m),
           m \in DataOf(q) => net.serving[q] # "no",
           m \notin DataOf(q) => net'.serving[q] = net.serving[q],
           UNCHANGED aggregator
    PROVE  Gone(q)'
<1>1. /\ Replies(q)' = Replies(q)
      /\ Data(q)' = IF m \in DataOf(q) THEN Data(q) \cup {Len(net.responses) + 1} ELSE Data(q)
      /\ \A i \in Replies(q) : net'.responses[i] = net.responses[i]
  BY ResponsesAppend
<1>2. About(q)' = About(q)
  BY DEF About
<1>3. About(q) = {} /\ Replies(q) = {} => net.serving[q] = "no"
  BY DEF Gone, Quiet
<1>. QED  BY <1>1, <1>2, <1>3 DEF Gone, Quiet

\* The client reads: the last confirmation takes the state of the target along.
LEMMA GoneRead ==
    ASSUME net \in Net, NEW q \in Target, Gone(q), EndInv(q), net.responses # <<>>,
           net'.responses = Tail(net.responses), net'.requests = net.requests,
           net'.serving = net.serving,
           aggregator'[q].current => aggregator[q].current,
           /\ Head(net.responses) \in ReplyOf(q) /\ Head(net.responses).type = "removed"
           /\ About(q)' = {} /\ Replies(q)' = {}
           => ~ aggregator'[q].current
    PROVE  Gone(q)'
<1>1. /\ \A i : i \in Replies(q)' <=> i \in Nat \ {0} /\ i + 1 \in Replies(q)
      /\ \A i : i \in Data(q)' <=> i \in Nat \ {0} /\ i + 1 \in Data(q)
      /\ \A i \in (Replies(q) \cup Data(q))' : net'.responses[i] = net.responses[i + 1]
      /\ Replies(q) \cup Data(q) \subseteq Nat \ {0}
      /\ Head(net.responses) = net.responses[1]
      /\ 1 \in Replies(q) <=> Head(net.responses) \in ReplyOf(q)
  BY ResponsesTail
<1>2. About(q)' = About(q)
  BY DEF About
<1>3. ASSUME About(q) = {}, NEW i \in Replies(q)', \A j \in Replies(q)' : j <= i
      PROVE  net'.responses[i].type = "removed"
  <2>1. i \in Nat \ {0} /\ i + 1 \in Replies(q)
    BY <1>1
  <2>2. ASSUME NEW j \in Replies(q) PROVE j <= i + 1
    <3>1. CASE j = 1
      BY <2>1, <3>1
    <3>2. CASE j # 1
      <4>1. j - 1 \in Nat \ {0} /\ (j - 1) + 1 = j
        BY <1>1, <3>2
      <4>2. j - 1 <= i
        BY <1>1, <1>3, <4>1
      <4>. QED  BY <2>1, <4>1, <4>2
    <3>. QED  BY <3>1, <3>2
  <2>. QED  BY <1>1, <1>3, <2>1, <2>2 DEF Gone
<1>4. ASSUME About(q) = {}, Replies(q)' = {}
      PROVE  Quiet(q)' /\ ~ aggregator'[q].current
  <2>1. Replies(q) \subseteq {1}
    <3>1. ASSUME NEW j \in Replies(q), j # 1 PROVE FALSE
      <4>1. j - 1 \in Nat \ {0} /\ (j - 1) + 1 = j
        BY <1>1, <3>1
      <4>2. j - 1 \in Replies(q)'
        BY <1>1, <3>1, <4>1
      <4>. QED  BY <1>4, <4>2
    <3>. QED  BY <3>1
  <2>2. CASE Replies(q) = {}
    <3>1. Quiet(q) /\ ~ aggregator[q].current
      BY <1>4, <2>2 DEF Gone
    <3>. QED  BY <1>1, <3>1 DEF Quiet
  <2>3. CASE 1 \in Replies(q)
    <3>1. net.responses[1].type = "removed"
      BY <1>4, <2>1, <2>3 DEF Gone
    <3>2. net.serving[q] = "no" /\ \A j \in Data(q) : j <= 1
      BY <2>1, <2>3, <3>1 DEF EndInv
    <3>3. Data(q)' = {}
      BY <1>1, <3>2
    <3>. QED  BY <1>1, <1>2, <1>4, <2>3, <3>1, <3>2, <3>3 DEF Quiet
  <2>. QED  BY <2>1, <2>2, <2>3
<1>. QED  BY <1>2, <1>3, <1>4 DEF Gone

\* A rejection that crosses nothing leaves nothing.
LEMMA GoneError ==
    ASSUME net \in Net, net' \in Net, NEW q \in Target, EndInv(q), net.responses # <<>>,
           net'.responses = Tail(net.responses), net'.requests = net.requests,
           net'.serving = net.serving,
           Head(net.responses) \in ReplyOf(q) \cup DataOf(q),
           Head(net.responses).type \in {"refused", "error"},
           InFlight(q)' = 0, ~ aggregator'[q].current
    PROVE  Gone(q)'
<1>1. /\ \A i : i \in Replies(q)' <=> i \in Nat \ {0} /\ i + 1 \in Replies(q)
      /\ \A i : i \in Data(q)' <=> i \in Nat \ {0} /\ i + 1 \in Data(q)
      /\ Replies(q) \cup Data(q) \subseteq Nat \ {0}
      /\ Head(net.responses) = net.responses[1]
      /\ 1 \in Replies(q) \cup Data(q)
  BY ResponsesTail
<1>2. About(q)' = {} /\ Replies(q)' = {}
  <2>1. IsFiniteSet(About(q)') /\ IsFiniteSet(Replies(q)')
    <3>1. /\ About(q)' = Spots(net'.requests, AskOf(q)) /\ net'.requests \in Seq(ToServer)
          /\ Replies(q)' = Spots(net'.responses, ReplyOf(q)) /\ net'.responses \in Seq(ToClient)
      BY InFlightIs DEF About, Replies
    <3>. QED  BY <3>1, SpotsFinite
  <2>2. Cardinality(About(q)') = 0 /\ Cardinality(Replies(q)') = 0
    BY <2>1, FS_CardinalityType DEF InFlight
  <2>. QED  BY <2>1, <2>2, FS_EmptySet
<1>3. ~ \E j \in Replies(q) : 1 < j
  <2>1. ASSUME NEW j \in Replies(q), 1 < j PROVE FALSE
    <3>1. j - 1 \in Nat \ {0} /\ (j - 1) + 1 = j
      BY <1>1, <2>1
    <3>. QED  BY <1>1, <1>2, <2>1, <3>1
  <2>. QED  BY <2>1
<1>4. net.serving[q] = "no" /\ \A j \in Data(q) : j <= 1
  BY <1>1, <1>3 DEF EndInv
<1>5. Data(q)' = {}
  BY <1>1, <1>4
<1>. QED  BY <1>2, <1>4, <1>5 DEF Gone, Quiet

\* What the views and the store say of a target, as far as a fresh watch needs it.
Kept(q) == UNCHANGED <<known, updates, since>> /\ aggregator'[q].current = aggregator[q].current

\* A target that is watched when nothing of it is on its way.
LEMMA FreshWatch ==
    ASSUME net \in Net, NEW q \in Target, NEW m \in ToServer, m.query = q,
           net'.requests = Append(net.requests, m), net'.responses = net.responses,
           net'.serving = net.serving, aggregator'[q].current = aggregator[q].current,
           q \notin crossed', About(q) = {}, Replies(q) = {}, Quiet(q), ~ aggregator[q].current
    PROVE  Fresh(q)'
<1>1. About(q)' = {Len(net.requests) + 1}
  BY RequestsAppend
<1>2. Replies(q)' = {} /\ Data(q)' = {} /\ net'.serving[q] = "no"
  BY DEF Quiet, Replies, Data
<1>3. Documents(q)' = {}
  BY <1>2 DEF Documents
<1>. QED  BY <1>1, <1>2, <1>3 DEF Fresh, Quiet

\* A stream that opens watches every target afresh.
LEMMA FreshOpens ==
    ASSUME TypeInv, ClosedInv, StreamOpens, NEW q \in Target
    PROVE  /\ EndInv(q)'
           /\ q \in listened => Fresh(q)'
           /\ q \notin listened => Gone(q)'
<1>1. net = NewNet /\ aggregator = NewAggregator /\ crossed = {} /\ crossed' = {}
  BY DEF ClosedInv, StreamOpens, IsOpen
<1>2. /\ net'.responses = <<>> /\ net'.serving[q] = "no"
      /\ \A i \in DOMAIN net'.requests : net'.requests[i].query \in listened
      /\ \A i, j \in DOMAIN net'.requests :
            net'.requests[i].query = net'.requests[j].query => i = j
  BY <1>1, StreamOpensIs, NewTypes DEF NewNet
<1>3. ~ aggregator'[q].current
  <2>1. aggregator[q] = NewTargetState
    BY <1>1 DEF NewAggregator
  <2>. QED  BY <2>1 DEF StreamOpens, NewTargetState
<1>4. Replies(q)' = {} /\ Data(q)' = {}
  BY <1>2 DEF Replies, Data
<1>5. Documents(q)' = {}
  BY <1>4 DEF Documents
<1>6. Quiet(q)'
  BY <1>2, <1>4 DEF Quiet
<1>7. EndInv(q)'
  BY <1>4 DEF EndInv
<1>8. Fresh(q)'
  <2>1. \A i, j \in About(q)' : i = j
    BY <1>2 DEF About
  <2>. QED  BY <1>1, <1>2, <1>3, <1>4, <1>5, <1>6, <2>1 DEF Fresh
<1>9. q \notin listened => Gone(q)'
  <2>1. q \notin listened => About(q)' = {}
    BY <1>2 DEF About
  <2>. QED  BY <1>3, <1>4, <1>6, <2>1 DEF Gone
<1>. QED  BY <1>7, <1>8, <1>9

\* Requests about others do not matter to a fresh watch.
LEMMA FreshOther ==
    ASSUME net \in Net, NEW q \in Target, Fresh(q), NEW m \in ToServer, m.query # q,
           net'.requests = Append(net.requests, m), net'.responses = net.responses,
           net'.serving = net.serving, net'.sent = net.sent, crossed' = crossed,
           aggregator'[q] = aggregator[q], UNCHANGED <<known, updates>>, since'[q] = since[q]
    PROVE  Fresh(q)'
<1>1. About(q)' = About(q)
  BY RequestsAppend
<1>2. Replies(q)' = Replies(q) /\ Data(q)' = Data(q) /\ (Has(q)' <=> Has(q))
  BY DEF Replies, Data, Has
<1>3. Documents(q)' = Documents(q)
  BY <1>2 DEF Documents
<1>. QED  BY <1>1, <1>2, <1>3 DEF Fresh, Quiet

\* The server takes the watch and replies before anything else.
LEMMA FreshTake ==
    ASSUME net \in Net, NEW q \in Target, Fresh(q), ServerTakes, crossed' = crossed, Kept(q)
    PROVE  Fresh(q)'
<1> DEFINE p == Head(net.requests).query
           n == Len(net.responses)
<1>1. PICK reply \in {"added", "refused", "removed"} :
         /\ net'.responses = Append(net.responses, [type |-> reply, query |-> p])
         /\ net'.serving = [net.serving EXCEPT ![p] = IF reply = "added" THEN "added" ELSE "no"]
  BY ServerTakesIs
<1>2. /\ net.requests # <<>> /\ net'.requests = Tail(net.requests) /\ p \in Target
      /\ [type |-> reply, query |-> p] \in ToClient
      /\ net'.sent = [net.sent EXCEPT ![p] = 0]
  BY ServerTakesIs DEF ToServer, ToClient
<1>3. /\ \A i : i \in About(q)' <=> i \in Nat \ {0} /\ i + 1 \in About(q)
      /\ About(q) \subseteq Nat \ {0}
      /\ 1 \in About(q) <=> p = q
  BY <1>2, RequestsTail
<1> DEFINE m == [type |-> reply, query |-> p]
<1>4. /\ n \in Nat
      /\ \A i \in Replies(q) \cup Data(q) : i \in 1 .. n /\ net'.responses[i] = net.responses[i]
      /\ Replies(q)' = IF m \in ReplyOf(q) THEN Replies(q) \cup {n + 1} ELSE Replies(q)
      /\ Data(q)' = IF m \in DataOf(q) THEN Data(q) \cup {n + 1} ELSE Data(q)
      /\ Documents(q)' = IF m \in DataOf(q) /\ m.type = "documents"
                         THEN Documents(q) \cup {n + 1} ELSE Documents(q)
  BY <1>1, <1>2, ResponsesAppend
<1>5. (m \in ReplyOf(q) <=> p = q) /\ m \notin DataOf(q)
  BY <1>2 DEF ReplyOf, DataOf
<1>6. Has(q)' <=> Has(q)
  BY DEF Has, Kept
<1> HIDE DEF n, p, m
<1>7. CASE p = q
  <2>1. About(q)' = {}
    <3>1. ASSUME NEW i \in About(q)' PROVE FALSE
      <4>1. i \in Nat \ {0} /\ i + 1 \in About(q) /\ 1 \in About(q)
        BY <1>3, <1>7
      <4>2. i + 1 = 1
        BY <4>1 DEF Fresh
      <4>. QED  BY <4>1, <4>2
    <3>. QED  BY <3>1
  <2>2. Data(q)' = {} /\ Documents(q)' = {}
    <3>1. Data(q) = {}
      BY <1>3, <1>7 DEF Fresh, Quiet
    <3>. QED  BY <1>4, <1>5, <3>1 DEF Documents
  <2>3. net'.sent[q] = 0
    BY <1>2, <1>7 DEF Net, Count
  <2>. QED  BY <1>6, <2>1, <2>2, <2>3 DEF Fresh, Kept
<1>8. CASE p # q
  <2>1. /\ Replies(q)' = Replies(q) /\ Data(q)' = Data(q) /\ Documents(q)' = Documents(q)
        /\ \A i \in Data(q) : net'.responses[i] = net.responses[i]
    BY <1>4, <1>5, <1>8
  <2>2. net'.serving[q] = net.serving[q] /\ net'.sent[q] = net.sent[q]
    BY <1>1, <1>2, <1>8 DEF Net
  <2>3. \A i, j \in About(q)' : i = j
    <3>1. ASSUME NEW i \in About(q)', NEW j \in About(q)' PROVE i = j
      <4>1. i \in Nat /\ j \in Nat /\ i + 1 = j + 1
        BY <1>3 DEF Fresh
      <4>. QED  BY <4>1
    <3>. QED  BY <3>1
  <2>4. About(q)' # {} => About(q) # {}
    BY <1>3
  <2>5. /\ \A i \in Documents(q)' : net'.responses[i].count >= since'[q]
        /\ \A i \in Data(q)' : net'.responses[i].type = "current" =>
              Has(q)' \/ \E j \in Documents(q)' : j < i
    <3>1. Documents(q) \subseteq Data(q)
      BY DEF Documents
    <3>. QED  BY <1>6, <2>1, <3>1 DEF Fresh, Kept
  <2>. QED  BY <1>6, <2>1, <2>2, <2>3, <2>4, <2>5 DEF Fresh, Quiet, Kept
<1>. QED  BY <1>7, <1>8

\* What the server sends about a target follows its reply, and documents are sent before the
\* target is called current.
LEMMA FreshSend ==
    ASSUME net \in Net, NEW q \in Target, Fresh(q), NEW m \in ToClient, m \notin ReplyOf(q),
           net'.requests = net.requests, net'.responses = Append(net.responses, m),
           crossed' = crossed, Kept(q), known[q] \in Nat, net.sent[q] \in Nat,
           committed[q] \in Nat, since[q] \in Nat, since[q] <= committed[q],
           m \notin DataOf(q) => net'.serving[q] = net.serving[q] /\ net'.sent[q] = net.sent[q],
           m \in DataOf(q) => net.serving[q] # "no",
           m \in DataOf(q) /\ m.type = "documents" => m.count = committed[q],
           m \in DataOf(q) /\ m.type = "current" =>
               net.sent[q] = committed[q] /\ net'.sent[q] = net.sent[q],
           m \in DataOf(q) /\ m.type = "error" => net'.serving[q] = "no"
    PROVE  Fresh(q)'
<1> DEFINE n == Len(net.responses)
<1>1. /\ n \in Nat /\ net'.responses[n + 1] = m
      /\ \A i \in Replies(q) \cup Data(q) : i \in 1 .. n /\ net'.responses[i] = net.responses[i]
      /\ Replies(q)' = Replies(q)
      /\ Data(q)' = IF m \in DataOf(q) THEN Data(q) \cup {n + 1} ELSE Data(q)
      /\ Documents(q)' = IF m \in DataOf(q) /\ m.type = "documents"
                         THEN Documents(q) \cup {n + 1} ELSE Documents(q)
  BY ResponsesAppend
<1> HIDE DEF n
<1>2. About(q)' = About(q) /\ (Has(q)' <=> Has(q)) /\ since' = since
  BY DEF About, Has, Kept
<1>3. Documents(q) \subseteq Data(q)
  BY DEF Documents
<1>4. m \in DataOf(q) => About(q) = {}
  BY DEF Fresh, Quiet
<1>5. \A i \in Documents(q)' : net'.responses[i].count >= since'[q]
  <2>1. ASSUME NEW i \in Documents(q) PROVE net'.responses[i].count >= since'[q]
    BY <1>1, <1>2, <1>3 DEF Fresh
  <2>2. m \in DataOf(q) /\ m.type = "documents" => net'.responses[n + 1].count >= since'[q]
    BY <1>1, <1>2
  <2>. QED  BY <1>1, <2>1, <2>2
<1>6. \A i \in Replies(q)', j \in Data(q)' : i < j
  <2>1. ASSUME NEW i \in Replies(q), NEW j \in Data(q)' PROVE i < j
    <3>1. CASE j \in Data(q)
      BY <3>1 DEF Fresh
    <3>2. CASE j = n + 1
      <4>1. i \in 1 .. n
        BY <1>1
      <4>. QED  BY <1>1, <3>2, <4>1
    <3>. QED  BY <1>1, <3>1, <3>2
  <2>. QED  BY <1>1, <2>1
<1>7. m \in DataOf(q) /\ m.type = "current" => Has(q) \/ Documents(q) # {}
  <2>1. CASE net.sent[q] > 0
    BY <2>1 DEF Fresh
  <2>2. CASE m \in DataOf(q) /\ m.type = "current" /\ ~ net.sent[q] > 0
    <3>1. since[q] = 0
      BY <2>2
    <3>. QED  BY <3>1 DEF Has
  <2>. QED  BY <2>1, <2>2
<1>8. ASSUME NEW i \in Data(q)', net'.responses[i].type = "current"
      PROVE  Has(q)' \/ \E j \in Documents(q)' : j < i
  <2>1. CASE i \in Data(q)
    <3>1. net.responses[i].type = "current"
      BY <1>1, <1>8, <2>1
    <3>2. Has(q) \/ \E j \in Documents(q) : j < i
      BY <2>1, <3>1 DEF Fresh
    <3>. QED  BY <1>1, <1>2, <3>2
  <2>2. CASE i = n + 1 /\ m \in DataOf(q)
    <3>1. Has(q) \/ Documents(q) # {}
      BY <1>1, <1>7, <1>8, <2>2
    <3>2. \A j \in Documents(q) : j \in Documents(q)' /\ j < i
      <4>1. ASSUME NEW j \in Documents(q) PROVE j \in Documents(q)' /\ j < i
        <5>1. j \in 1 .. n
          BY <1>1, <1>3
        <5>. QED  BY <1>1, <2>2, <5>1
      <4>. QED  BY <4>1
    <3>. QED  BY <1>2, <3>1, <3>2
  <2>. QED  BY <1>1, <2>1, <2>2
<1>9. net'.serving[q] # "no" /\ net'.sent[q] > 0 => Has(q)' \/ Documents(q)' # {}
  <2>1. CASE m \notin DataOf(q)
    BY <1>1, <1>2, <2>1 DEF Fresh
  <2>2. CASE m \in DataOf(q) /\ m.type = "documents"
    BY <1>1, <2>2
  <2>3. CASE m \in DataOf(q) /\ m.type = "current"
    BY <1>1, <1>2, <1>7, <2>3
  <2>4. CASE m \in DataOf(q) /\ m.type = "error"
    BY <2>4
  <2>. QED  BY <2>1, <2>2, <2>3, <2>4 DEF DataOf
<1>10. About(q)' # {} => Replies(q)' = {} /\ Quiet(q)'
  BY <1>1, <1>2, <1>4 DEF Fresh, Quiet
<1>11. aggregator'[q].current => Has(q)'
  BY <1>2 DEF Fresh, Kept
<1>. QED  BY <1>2, <1>5, <1>6, <1>8, <1>9, <1>10, <1>11 DEF Fresh

\* The client reads: documents are taken in before the target is found current.
LEMMA FreshRead ==
    ASSUME net \in Net, NEW q \in Target, Fresh(q), net.responses # <<>>,
           net'.responses = Tail(net.responses), net'.requests = net.requests,
           net'.serving = net.serving, net'.sent = net.sent,
           q \notin crossed', since'[q] = since[q], Has(q) => Has(q)',
           Head(net.responses) \in DataOf(q) /\ Head(net.responses).type = "documents" => Has(q)',
           aggregator'[q].current => Has(q)'
    PROVE  Fresh(q)'
<1>1. /\ \A i : i \in Replies(q)' <=> i \in Nat \ {0} /\ i + 1 \in Replies(q)
      /\ \A i : i \in Data(q)' <=> i \in Nat \ {0} /\ i + 1 \in Data(q)
      /\ \A i : i \in Documents(q)' <=> i \in Nat \ {0} /\ i + 1 \in Documents(q)
      /\ \A i \in (Replies(q) \cup Data(q))' : net'.responses[i] = net.responses[i + 1]
      /\ Replies(q) \cup Data(q) \subseteq Nat \ {0}
      /\ Head(net.responses) = net.responses[1]
      /\ 1 \in Data(q) <=> Head(net.responses) \in DataOf(q)
  BY ResponsesTail
<1>2. About(q)' = About(q)
  BY DEF About
<1>3. Documents(q) \subseteq Data(q) /\ Documents(q)' \subseteq Data(q)'
      /\ \A i \in Documents(q) : net.responses[i].type = "documents"
  BY DEF Documents
<1>4. ASSUME NEW j \in Documents(q)
      PROVE  Has(q)' \/ (j - 1 \in Documents(q)' /\ j \in Nat \ {0, 1})
  <2>1. CASE ~ Has(q)'
    <3>1. j # 1
      BY <1>1, <1>3, <1>4, <2>1
    <3>2. j \in Nat \ {0} /\ j - 1 \in Nat \ {0} /\ (j - 1) + 1 = j
      BY <1>1, <1>3, <1>4, <3>1
    <3>. QED  BY <1>1, <1>4, <3>1, <3>2
  <2>2. CASE Has(q)'
    BY <2>2
  <2>. QED  BY <2>1, <2>2
<1>5. \A i \in Documents(q)' : net'.responses[i].count >= since'[q]
  BY <1>1, <1>3 DEF Fresh
<1>6. ASSUME NEW i \in Replies(q)', NEW j \in Data(q)' PROVE i < j
  <2>1. i \in Nat /\ j \in Nat /\ i + 1 < j + 1
    BY <1>1 DEF Fresh
  <2>. QED  BY <2>1
<1>7. ASSUME NEW i \in Data(q)', net'.responses[i].type = "current"
      PROVE  Has(q)' \/ \E j \in Documents(q)' : j < i
  <2>1. i \in Nat /\ i + 1 \in Data(q) /\ net.responses[i + 1].type = "current"
    BY <1>1, <1>7
  <2>2. CASE Has(q)
    BY <2>2
  <2>3. CASE \E j \in Documents(q) : j < i + 1
    <3>1. PICK j \in Documents(q) : j < i + 1
      BY <2>3
    <3>2. Has(q)' \/ (j - 1 \in Documents(q)' /\ j - 1 < i)
      BY <1>4, <2>1, <3>1
    <3>. QED  BY <3>2
  <2>. QED  BY <2>1, <2>2, <2>3 DEF Fresh
<1>8. net'.serving[q] # "no" /\ net'.sent[q] > 0 => Has(q)' \/ Documents(q)' # {}
  BY <1>4 DEF Fresh
<1>9. About(q)' # {} => Replies(q)' = {} /\ Quiet(q)'
  BY <1>1, <1>2 DEF Fresh, Quiet
<1>10. \A i, j \in About(q)' : i = j
  BY <1>2 DEF Fresh
<1>. QED  BY <1>5, <1>6, <1>7, <1>8, <1>9, <1>10 DEF Fresh

\* Nothing that a target is judged by changes.
LEMMA TargetSame ==
    ASSUME NEW q, TargetInv(q),
           UNCHANGED <<aggregator, updates, net, crossed, listened, overlapped, since, known>>
    PROVE  TargetInv(q)'
<1>1. /\ About(q)' = About(q) /\ Replies(q)' = Replies(q) /\ Data(q)' = Data(q)
      /\ Has(q)' <=> Has(q)
  BY DEF About, Replies, Data, Has
<1>2. Documents(q)' = Documents(q) /\ (Quiet(q)' <=> Quiet(q))
  BY <1>1 DEF Documents, Quiet
<1>3. EndInv(q)' <=> EndInv(q)
  BY <1>1 DEF EndInv
<1>4. Gone(q)' <=> Gone(q)
  BY <1>1, <1>2 DEF Gone
<1>5. Fresh(q)' <=> Fresh(q)
  BY <1>1, <1>2 DEF Fresh
<1>. QED  BY <1>3, <1>4, <1>5 DEF TargetInv

\* A task of the app leaves the documents alone, and makes views only where there were none.
LEMMA AppViews ==
    ASSUME TypeInv, AssertInv, SinceInv, SyncedViewsComplete, NEW r \in Request,
           GetDocuments(r) \/ AddQueryListener(r) \/ RemoveQueryListener(r) \/ RunEvent(r)
    PROVE  UNCHANGED known /\ SinceInv' /\ SyncedViewsComplete'
<1> DEFINE q == r.query
<1>1. q \in Target
  BY ClientAssumption
<1>2. UNCHANGED <<known, committed>> /\ synced' \subseteq synced
  BY DEF GetDocuments, AddQueryListener, RemoveQueryListener, RunEvent, StopListening
<1>3. CASE UNCHANGED <<since, overlapped>>
  BY <1>2, <1>3 DEF SinceInv, SyncedViewsComplete
<1>4. CASE Listen(q) /\ q \notin Queries
  <2>1. /\ since' = [since EXCEPT ![q] = committed[q]]
        /\ overlapped' \in {overlapped \cup {q}, overlapped \ {q}}
    BY <1>4 DEF Listen
  <2>2. q \notin synced
    BY <1>4 DEF AssertInv, EntriesInv, TypeInv, QueriesType
  <2>3. /\ since \in Count /\ committed \in Count
        /\ \A p \in Target : since'[p] = IF p = q THEN committed[q] ELSE since[p]
    BY <1>1, <2>1 DEF TypeInv, QueriesType, StoreType, Count
  <2>4. SinceInv'
    <3>1. committed[q] <= committed[q]
      BY <1>1, <2>3, ClientAssumption DEF Count
    <3>. QED  BY <1>2, <2>3, <3>1 DEF SinceInv
  <2>5. SyncedViewsComplete'
    <3>1. ASSUME NEW p \in synced' \ overlapped' PROVE known'[p] >= since'[p]
      <4>1. p \in synced /\ p # q /\ p \notin overlapped /\ p \in Target
        BY <1>2, <2>1, <2>2 DEF TypeInv, QueriesType
      <4>. QED  BY <1>2, <2>3, <4>1 DEF SyncedViewsComplete
    <3>. QED  BY <3>1 DEF SyncedViewsComplete
  <2>. QED  BY <1>2, <2>4, <2>5
<1>5. UNCHANGED <<since, overlapped>> \/ (Listen(q) /\ q \notin Queries)
  BY DEF GetDocuments, AddQueryListener, RemoveQueryListener, RunEvent, StopListening, queryVars
<1>. QED  BY <1>2, <1>3, <1>4, <1>5

\* Calls, tasks and callbacks keep the views complete.
LEMMA AppSyncs ==
    ASSUME TypeInv, AssertInv, CountInv, SyncInv, NEW r \in Request,
           GetDocuments(r) \/ AddQueryListener(r) \/ RemoveQueryListener(r) \/ RunEvent(r)
    PROVE  SyncInv'
<1> DEFINE q == r.query
<1>1. UNCHANGED known /\ SinceInv' /\ SyncedViewsComplete' /\ q \in Target
  BY AppViews, ClientAssumption DEF SyncInv
<1>2. net \in Net /\ aggregator \in [Target -> TargetState]
  BY DEF TypeInv, StreamType
<1>3. CASE ~ IsOpen'
  BY <1>1, <1>3 DEF SyncInv
<1>4. CASE UNCHANGED <<stream, aggregator, updates, net, crossed, listened, overlapped, since>>
  <2>1. IsOpen' => IsOpen
    BY <1>4 DEF IsOpen
  <2>2. \A p \in Target : TargetInv(p) => TargetInv(p)'
    BY <1>1, <1>4, TargetSame
  <2>. QED  BY <1>1, <2>1, <2>2 DEF SyncInv
<1>5. ASSUME IsOpen, NEW m \in ToServer, m.query = q,
             net' = [net EXCEPT !.requests = Append(@, m)],
             aggregator' = RecordPendingTargetRequest(aggregator, q),
             UNCHANGED <<updates, crossed>>, NEW p \in Target
      PROVE  /\ EndInv(p)'
             /\ aggregator'[p].current = aggregator[p].current
             /\ net'.requests = Append(net.requests, m) /\ net'.responses = net.responses
             /\ net'.serving = net.serving
             /\ p # q /\ Gone(p) => Gone(p)'
             /\ p # q /\ Fresh(p) /\ since'[p] = since[p] => Fresh(p)'
  <2>1. /\ net'.requests = Append(net.requests, m) /\ net'.responses = net.responses
        /\ net'.serving = net.serving /\ net'.sent = net.sent
    BY <1>2, <1>5, RequestJoins
  <2>2. EndInv(p)'
    <3>1. EndInv(p)
      BY <1>5 DEF SyncInv, TargetInv
    <3>2. Replies(p)' = Replies(p) /\ Data(p)' = Data(p)
      BY <2>1 DEF Replies, Data
    <3>. QED  BY <2>1, <3>1, <3>2 DEF EndInv
  <2>3. /\ p # q => aggregator'[p] = aggregator[p]
        /\ aggregator'[p].current = aggregator[p].current
    BY <1>1, <1>2, <1>5 DEF RecordPendingTargetRequest, TargetState
  <2>4. p # q /\ Gone(p) => Gone(p)'
    BY <1>2, <1>5, <2>1, <2>3, GoneOther
  <2>5. p # q /\ Fresh(p) /\ since'[p] = since[p] => Fresh(p)'
    BY <1>1, <1>2, <1>5, <2>1, <2>3, FreshOther
  <2>. QED  BY <2>1, <2>2, <2>3, <2>4, <2>5
<1>6. CASE IsOpen /\ q \notin Queries /\ Listen(q) /\ SendWatchRequest(q)
  <2> DEFINE m == [type |-> "watch", query |-> q]
  <2>1. /\ m \in ToServer /\ net' = [net EXCEPT !.requests = Append(@, m)]
        /\ aggregator' = RecordPendingTargetRequest(aggregator, q)
        /\ UNCHANGED <<updates, crossed>>
    BY <1>1, <1>6 DEF SendWatchRequest, ToServer
  <2>2. /\ listened' = listened \cup {q}
        /\ since' = [since EXCEPT ![q] = committed[q]]
        /\ overlapped' = IF IsPending(aggregator, q) \/ q \in crossed
                         THEN overlapped \cup {q} ELSE overlapped \ {q}
    BY <1>6 DEF Listen
  <2>3. q \notin listened
    BY <1>6 DEF AssertInv, EntriesInv
  <2>4. \A p \in Target : TargetInv(p)
    BY <1>6 DEF SyncInv
  <2>5. m.query = q
    OBVIOUS
  <2> HIDE DEF m, q
  <2>6. ASSUME NEW p \in Target, p # q PROVE TargetInv(p)'
    <3>1. /\ EndInv(p)' /\ (Gone(p) => Gone(p)')
          /\ Fresh(p) /\ since'[p] = since[p] => Fresh(p)'
      BY <1>5, <1>6, <2>1, <2>5, <2>6
    <3>2. since'[p] = since[p]
      BY <2>2, <2>6 DEF TypeInv, QueriesType, Count
    <3>3. /\ p \in listened' \ overlapped' => p \in listened \ overlapped
          /\ p \notin listened' \cup crossed' => p \notin listened \cup crossed
      BY <2>1, <2>2, <2>6
    <3>. QED  BY <2>4, <3>1, <3>2, <3>3 DEF TargetInv
  <2>7. TargetInv(q)'
    <3>1. /\ EndInv(q)' /\ aggregator'[q].current = aggregator[q].current
          /\ net'.requests = Append(net.requests, m) /\ net'.responses = net.responses
          /\ net'.serving = net.serving
      BY <1>1, <1>5, <1>6, <2>1, <2>5
    <3>2. CASE q \in overlapped'
      BY <2>2, <3>1, <3>2 DEF TargetInv
    <3>3. CASE q \notin overlapped'
      <4>1. ~ IsPending(aggregator, q) /\ q \notin crossed /\ Gone(q)
        BY <1>1, <2>2, <2>3, <2>4, <3>3 DEF TargetInv
      <4>2. InFlight(q) = 0
        BY <1>1, <1>6, <4>1 DEF CountInv, OutstandingIsInFlight, IsPending
      <4>3. About(q) = {} /\ Replies(q) = {}
        BY <1>2, <4>2, NoneInFlight
      <4>4. Fresh(q)'
        BY <1>1, <1>2, <2>1, <2>5, <3>1, <4>1, <4>3, FreshWatch DEF Gone
      <4>. QED  BY <2>2, <3>1, <4>4 DEF TargetInv
    <3>. QED  BY <3>2, <3>3
  <2>. QED  BY <1>1, <2>6, <2>7 DEF SyncInv
<1>7. CASE /\ IsOpen /\ SendUnwatchRequest(q) /\ listened' = listened \ {q}
           /\ UNCHANGED <<overlapped, since, updates, crossed>>
  <2> DEFINE m == [type |-> "unwatch", query |-> q]
  <2>1. /\ m \in ToServer /\ net' = [net EXCEPT !.requests = Append(@, m)]
        /\ aggregator' = RecordPendingTargetRequest(aggregator, q)
    BY <1>1, <1>7 DEF SendUnwatchRequest, ToServer
  <2>2. \A p \in Target : TargetInv(p)
    BY <1>7 DEF SyncInv
  <2>3. m.query = q /\ m.type = "unwatch"
    OBVIOUS
  <2> HIDE DEF m, q
  <2>4. ASSUME NEW p \in Target, p # q PROVE TargetInv(p)'
    <3>1. /\ EndInv(p)' /\ (Gone(p) => Gone(p)')
          /\ Fresh(p) /\ since'[p] = since[p] => Fresh(p)'
      BY <1>5, <1>7, <2>1, <2>3, <2>4
    <3>. QED  BY <1>7, <2>2, <2>4, <3>1 DEF TargetInv
  <2>5. TargetInv(q)'
    <3>1. EndInv(q)' /\ net'.requests = Append(net.requests, m)
      BY <1>1, <1>5, <1>7, <2>1, <2>3
    <3>2. Gone(q)'
      BY <1>1, <1>2, <2>1, <2>3, <3>1, GoneUnwatch
    <3>. QED  BY <1>7, <3>1, <3>2 DEF TargetInv
  <2>. QED  BY <1>1, <2>4, <2>5 DEF SyncInv
<1>. QED  BY <1>3, <1>4, <1>6, <1>7, AppStreams

\* The stream keeps the views complete: it sends every target afresh, or drops all.
LEMMA StreamSyncs ==
    ASSUME TypeInv, CountInv, SyncInv,
           StreamOpens \/ StreamFails \/ BackoffElapses \/ IdleTimeout \/ OnlineStateTimeout
    PROVE  SyncInv'
<1>1. UNCHANGED <<known, committed, since, overlapped, listened>> /\ synced' \subseteq synced
  BY DEF StreamOpens, StreamFails, BackoffElapses, IdleTimeout, OnlineStateTimeout,
         idleStreamVars, OnlineStateChange
<1>2. SinceInv' /\ SyncedViewsComplete'
  BY <1>1 DEF SyncInv, SinceInv, SyncedViewsComplete
<1>3. CASE StreamOpens
  <2>1. \A q \in Target : TargetInv(q)'
    <3>1. ClosedInv
      BY DEF CountInv
    <3>2. ASSUME NEW q \in Target PROVE TargetInv(q)'
      <4>1. EndInv(q)' /\ (q \in listened => Fresh(q)') /\ (q \notin listened => Gone(q)')
        BY <1>3, <3>1, FreshOpens
      <4>. QED  BY <1>1, <4>1 DEF TargetInv
    <3>. QED  BY <3>2
  <2>. QED  BY <1>2, <2>1 DEF SyncInv
<1>4. CASE StreamFails \/ BackoffElapses \/ IdleTimeout \/ OnlineStateTimeout
  <2>1. CASE ~ IsOpen'
    BY <1>2, <2>1 DEF SyncInv
  <2>2. CASE UNCHANGED <<stream, aggregator, updates, net, crossed>>
    <3>1. \A q \in Target : TargetInv(q) => TargetInv(q)'
      BY <1>1, <2>2, TargetSame
    <3>. QED  BY <1>2, <2>2, <3>1 DEF SyncInv, IsOpen
  <2>. QED  BY <1>4, <2>1, <2>2, StreamCloses DEF CountInv
<1>. QED  BY <1>3, <1>4

\* What any message read does.
LEMMA ReadIs ==
    ASSUME TypeInv, NEW message, OnTargetChange(message) \/ OnDocumentChange(message)
                                 \/ OnTargetError(message) \/ OnSnapshot(message)
    PROVE  /\ IsOpen /\ IsOpen' /\ net \in Net /\ net' \in Net
           /\ net.responses # <<>> /\ message = Head(net.responses) /\ message \in ToClient
           /\ net'.responses = Tail(net.responses) /\ net'.requests = net.requests
           /\ net'.serving = net.serving /\ net'.sent = net.sent
           /\ UNCHANGED <<since, committed, overlapped>>
           /\ crossed \subseteq crossed' /\ listened' \subseteq listened
           /\ aggregator \in [Target -> TargetState]
<1>1. PICK types : Receive(types, message)
  BY DEF OnTargetChange, OnDocumentChange, OnTargetError, OnSnapshot
<1>2. /\ IsOpen /\ IsOpen' /\ net \in Net /\ UNCHANGED <<since, committed, overlapped>>
      /\ aggregator \in [Target -> TargetState]
  BY <1>1 DEF Receive, IsOpen, TypeInv, StreamType
<1>3. crossed \subseteq crossed' /\ listened' \subseteq listened
  BY DEF OnTargetChange, OnDocumentChange, OnTargetError, OnSnapshot
<1>. QED  BY <1>1, <1>2, <1>3, ReceiveIs

\* A target that is gone, after a message.
LEMMA ReadGone ==
    ASSUME TypeInv, CountInv, SyncInv, NEW message,
           OnTargetChange(message) \/ OnDocumentChange(message)
           \/ OnTargetError(message) \/ OnSnapshot(message),
           NEW p \in Target, p \notin listened', p \notin crossed'
    PROVE  Gone(p)'
<1>1. /\ IsOpen /\ IsOpen' /\ net \in Net /\ net' \in Net
      /\ net.responses # <<>> /\ message = Head(net.responses) /\ message \in ToClient
      /\ net'.responses = Tail(net.responses) /\ net'.requests = net.requests
      /\ net'.serving = net.serving
      /\ p \notin crossed /\ aggregator \in [Target -> TargetState]
  BY ReadIs
<1>2. TargetInv(p) /\ EndInv(p) /\ aggregator[p].outstanding = InFlight(p)
  BY <1>1 DEF SyncInv, TargetInv, CountInv, OutstandingIsInFlight
<1>3. CASE p \in listened
  <2>1. OnTargetError(message) /\ message.query = p
    BY <1>3 DEF OnTargetChange, OnDocumentChange, OnTargetError, OnSnapshot
  <2>2. message.type \in {"refused", "error"} /\ InFlight(p)' = 0
        /\ aggregator' = RemoveTarget(aggregator, p)
    BY <1>3, <2>1 DEF OnTargetError, Receive
  <2>3. message \in ReplyOf(p) \cup DataOf(p)
    BY <1>1, <2>1, <2>2 DEF ReplyOf, DataOf
  <2>4. ~ aggregator'[p].current
    BY <1>1, <2>2 DEF RemoveTarget, NewTargetState
  <2>. QED  BY <1>1, <1>2, <2>2, <2>3, <2>4, GoneError
<1>4. CASE p \notin listened
  <2>1. Gone(p)
    BY <1>1, <1>2, <1>4 DEF TargetInv
  <2>2. aggregator'[p].current => aggregator[p].current
    <3>1. CASE aggregator'[p] = aggregator[p]
      BY <3>1
    <3>2. CASE OnTargetChange(message)
      <4>1. message.type \in {"added", "removed", "current"} /\ message.query \in Target
        BY <1>1, <3>2, MessageTypes DEF OnTargetChange, Receive
      <4>2. CASE message.type = "added"
        BY <1>1, <3>2, <4>1, <4>2 DEF OnTargetChange, HandleAdded, TargetState
      <4>3. CASE message.type = "removed"
        <5>1. aggregator' = HandleRemoved(aggregator, message.query)
          BY <3>2, <4>3 DEF OnTargetChange
        <5>. QED
          BY <1>1, <4>1, <5>1 DEF HandleRemoved, RemoveTarget, NewTargetState, TargetState
      <4>4. CASE message.type = "current"
        <5>1. aggregator' = HandleCurrent(aggregator, listened, message.query)
          BY <3>2, <4>4 DEF OnTargetChange
        <5>2. aggregator'[p] = aggregator[p]
          BY <1>1, <1>4, <4>1, <5>1 DEF HandleCurrent, IsActiveTarget
        <5>. QED  BY <5>2
      <4>. QED  BY <4>1, <4>2, <4>3, <4>4
    <3>3. CASE OnDocumentChange(message) \/ OnSnapshot(message)
      BY <3>1, <3>3 DEF OnDocumentChange, OnSnapshot
    <3>4. CASE OnTargetError(message)
      BY <1>1, <1>4, <3>1, <3>4 DEF OnTargetError, RemoveTarget
    <3>. QED  BY <3>2, <3>3, <3>4
  <2>3. ASSUME message \in ReplyOf(p), message.type = "removed", About(p)' = {}, Replies(p)' = {}
        PROVE  ~ aggregator'[p].current
    <3>1. InFlight(p)' = 0
      BY <2>3, FS_EmptySet DEF InFlight
    <3>2. InFlight(p) = InFlight(p)' + 1
      BY <1>1, <2>3, InFlightMoves
    <3>3. OnTargetChange(message) /\ message.query = p
      BY <2>3 DEF OnTargetChange, OnDocumentChange, OnTargetError, OnSnapshot, Receive, ReplyOf
    <3>4. aggregator' = HandleRemoved(aggregator, p)
      BY <2>3, <3>3 DEF OnTargetChange
    <3>5. aggregator[p].outstanding = 1
      BY <1>2, <3>1, <3>2
    <3>. QED  BY <1>1, <3>4, <3>5 DEF HandleRemoved, RemoveTarget, NewTargetState
  <2>. QED  BY <1>1, <1>2, <2>1, <2>2, <2>3, GoneRead
<1>. QED  BY <1>3, <1>4

\* A fresh watch, after a message: nothing of the target is in flight any more when its
\* first documents are read, so they are not dropped.
LEMMA ReadFresh ==
    ASSUME TypeInv, CountInv, SyncInv, NEW message,
           OnTargetChange(message) \/ OnDocumentChange(message)
           \/ OnTargetError(message) \/ OnSnapshot(message),
           NEW p \in Target, p \in listened', p \notin overlapped'
    PROVE  Fresh(p)'
<1>1. /\ IsOpen /\ net \in Net
      /\ net.responses # <<>> /\ message = Head(net.responses) /\ message \in ToClient
      /\ net'.responses = Tail(net.responses) /\ net'.requests = net.requests
      /\ net'.serving = net.serving /\ net'.sent = net.sent
      /\ since' = since /\ p \in listened \ overlapped
      /\ aggregator \in [Target -> TargetState]
  BY ReadIs
<1>2. Fresh(p)
  BY <1>1 DEF SyncInv, TargetInv
<1>3. /\ p \notin crossed
      /\ aggregator[p].outstanding = InFlight(p)
      /\ aggregator[p].current => Has(p)
  BY <1>1, <1>2 DEF Fresh, CountInv, OutstandingIsInFlight
<1>4. /\ known \in Count /\ updates \in Count /\ since \in Count
      /\ \A x \in 0 .. MaxDocuments : x \in Int
  BY DEF TypeInv, QueriesType, StreamType, StoreType
<1>5. /\ 1 \in Replies(p) <=> message \in ReplyOf(p)
      /\ 1 \in Data(p) <=> message \in DataOf(p)
      /\ Replies(p) \cup Data(p) \subseteq Nat \ {0} /\ message = net.responses[1]
  BY <1>1, ResponsesTail
<1>6. ASSUME message \in DataOf(p)
      PROVE  IsActiveTarget(aggregator, listened, p)
  <2>1. Replies(p) = {}
    <3>1. ASSUME NEW i \in Replies(p) PROVE FALSE
      <4>1. i < 1 /\ i \in Nat \ {0}
        BY <1>2, <1>5, <1>6 DEF Fresh
      <4>. QED  BY <4>1
    <3>. QED  BY <3>1
  <2>2. About(p) = {}
    BY <1>2, <1>5, <1>6 DEF Fresh, Quiet
  <2>3. InFlight(p) = 0
    BY <2>1, <2>2, FS_EmptySet DEF InFlight
  <2>. QED  BY <1>1, <1>3, <2>3 DEF IsActiveTarget, IsPending
<1>7. CASE OnTargetChange(message)
  <2>1. /\ message.type \in {"added", "removed", "current"} /\ message.query \in Target
        /\ UNCHANGED <<known, updates, crossed>>
    BY <1>1, <1>7, MessageTypes DEF OnTargetChange, Receive
  <2>2. Has(p)' <=> Has(p)
    BY <1>1, <2>1 DEF Has
  <2>3. message.type # "documents"
    BY <2>1
  <2>4. aggregator'[p].current => Has(p)'
    <3>1. CASE message.type = "added"
      <4>1. aggregator'[p].current = aggregator[p].current
        BY <1>1, <1>7, <2>1, <3>1 DEF OnTargetChange, HandleAdded, TargetState
      <4>. QED  BY <1>3, <2>2, <4>1
    <3>2. CASE message.type = "removed"
      <4>1. aggregator' = HandleRemoved(aggregator, message.query)
        BY <1>7, <3>2 DEF OnTargetChange
      <4>2. aggregator'[p].current => aggregator[p].current
        BY <1>1, <2>1, <4>1 DEF HandleRemoved, RemoveTarget, NewTargetState, TargetState
      <4>. QED  BY <1>3, <2>2, <4>2
    <3>3. CASE message.type = "current"
      <4>1. aggregator' = HandleCurrent(aggregator, listened, message.query)
        BY <1>7, <3>3 DEF OnTargetChange
      <4>2. CASE message.query # p
        <5>1. aggregator'[p] = aggregator[p]
          BY <1>1, <2>1, <4>1, <4>2 DEF HandleCurrent
        <5>. QED  BY <1>3, <2>2, <5>1
      <4>3. CASE message.query = p
        <5>1. 1 \in Data(p) /\ net.responses[1].type = "current"
          BY <1>1, <1>5, <3>3, <4>3 DEF DataOf
        <5>2. Has(p) \/ \E j \in Documents(p) : j < 1
          BY <1>2, <5>1 DEF Fresh
        <5>3. \A j \in Documents(p) : ~ j < 1
          BY <1>5 DEF Documents
        <5>. QED  BY <2>2, <5>2, <5>3
      <4>. QED  BY <4>2, <4>3
    <3>. QED  BY <2>1, <3>1, <3>2, <3>3
  <2>. QED  BY <1>1, <1>2, <1>3, <2>1, <2>2, <2>3, <2>4, FreshRead
<1>8. CASE OnDocumentChange(message)
  <2>1. /\ message.type = "documents" /\ message.query \in Target
        /\ UNCHANGED <<known, aggregator, crossed>>
    BY <1>1, <1>8, MessageTypes DEF OnDocumentChange, Receive
  <2>2. CASE message.query # p
    <3>1. updates'[p] = updates[p]
      BY <1>4, <1>8, <2>1, <2>2 DEF OnDocumentChange, Count
    <3>2. (Has(p)' <=> Has(p)) /\ message \notin DataOf(p)
      BY <1>1, <2>1, <2>2, <3>1 DEF Has, DataOf
    <3>. QED  BY <1>1, <1>2, <1>3, <2>1, <3>2, FreshRead
  <2>3. CASE message.query = p
    <3>1. message \in DataOf(p)
      BY <1>1, <2>1, <2>3 DEF DataOf
    <3>2. message.count >= since[p]
      <4>1. 1 \in Documents(p)
        BY <1>5, <2>1, <3>1 DEF Documents
      <4>. QED  BY <1>2, <1>5, <4>1 DEF Fresh
    <3>3. updates'[p] = message.count
      BY <1>4, <1>6, <1>8, <2>3, <3>1 DEF OnDocumentChange, Count
    <3>4. Has(p)'
      BY <1>1, <3>2, <3>3 DEF Has
    <3>. QED  BY <1>1, <1>2, <1>3, <2>1, <3>4, FreshRead
  <2>. QED  BY <2>2, <2>3
<1>9. CASE OnTargetError(message)
  <2>1. /\ message.type \in {"refused", "error"} /\ UNCHANGED <<known, updates>>
        /\ message.query # p
    BY <1>1, <1>9 DEF OnTargetError, Receive
  <2>2. p \notin crossed' /\ aggregator'[p] = aggregator[p]
    BY <1>1, <1>3, <1>9, <2>1 DEF OnTargetError, RemoveTarget
  <2>3. Has(p)' <=> Has(p)
    BY <1>1, <2>1 DEF Has
  <2>4. message.type # "documents"
    BY <2>1
  <2>. QED  BY <1>1, <1>2, <1>3, <2>2, <2>3, <2>4, FreshRead
<1>10. CASE OnSnapshot(message)
  <2>1. /\ message.type = "snapshot" /\ UNCHANGED <<aggregator, crossed>>
        /\ known' = [q \in Target |-> Max({known[q], updates[q]})]
    BY <1>10 DEF OnSnapshot, Receive
  <2>2. Has(p) => Has(p)'
    <3>1. /\ known[p] \in Int /\ updates[p] \in Int /\ since[p] \in Int
          /\ known'[p] = IF known[p] >= updates[p] THEN known[p] ELSE updates[p]
      BY <1>4, <2>1, MaxOfTwo DEF Count
    <3>. QED  BY <1>1, <3>1 DEF Has
  <2>3. message.type # "documents"
    BY <2>1
  <2>. QED  BY <1>1, <1>2, <1>3, <2>1, <2>2, <2>3, FreshRead
<1>. QED  BY <1>7, <1>8, <1>9, <1>10

\* A view becomes synced when its target is current, and by then the client has its
\* documents.
LEMMA ReadViews ==
    ASSUME TypeInv, AssertInv, SyncInv, NEW message,
           OnTargetChange(message) \/ OnDocumentChange(message)
           \/ OnTargetError(message) \/ OnSnapshot(message)
    PROVE  SinceInv' /\ SyncedViewsComplete'
<1>1. UNCHANGED <<since, committed, overlapped>> /\ IsOpen
  BY ReadIs
<1>2. SinceInv'
  BY <1>1 DEF SyncInv, SinceInv
<1>3. CASE known' = known /\ synced' \subseteq synced
  BY <1>1, <1>2, <1>3 DEF SyncInv, SyncedViewsComplete
<1>4. CASE OnSnapshot(message)
  <2>1. /\ known' = [q \in Target |-> Max({known[q], updates[q]})]
        /\ synced' = {q \in views : IF q \in Active THEN aggregator[q].current ELSE q \in synced}
    BY <1>4 DEF OnSnapshot
  <2>2. /\ known \in Count /\ updates \in Count /\ since \in Count
        /\ views \subseteq Target /\ views = listened
        /\ \A x \in 0 .. MaxDocuments : x \in Int
    BY DEF TypeInv, QueriesType, StreamType, StoreType, AssertInv, EntriesInv
  <2>3. ASSUME NEW p \in synced' \ overlapped'
        PROVE  known'[p] >= since'[p]
    <3>1. p \in Target /\ p \in listened \ overlapped
      BY <1>1, <2>1, <2>2, <2>3
    <3>2. /\ known[p] \in Int /\ updates[p] \in Int /\ since[p] \in Int
          /\ known'[p] = IF known[p] >= updates[p] THEN known[p] ELSE updates[p]
      BY <2>1, <2>2, <3>1, MaxOfTwo DEF Count
    <3>3. known[p] >= since[p] \/ updates[p] >= since[p]
      <4>1. CASE aggregator[p].current
        BY <1>1, <3>1, <4>1 DEF SyncInv, TargetInv, Fresh, Has
      <4>2. CASE p \in synced
        BY <3>1, <4>2 DEF SyncInv, SyncedViewsComplete
      <4>. QED  BY <2>1, <2>3, <4>1, <4>2
    <3>. QED  BY <1>1, <3>2, <3>3
  <2>. QED  BY <1>2, <2>3 DEF SyncedViewsComplete
<1>5. (known' = known /\ synced' \subseteq synced) \/ OnSnapshot(message)
  BY DEF OnTargetChange, OnDocumentChange, OnTargetError
<1>. QED  BY <1>2, <1>3, <1>4, <1>5

\* A message of the server that is handled keeps the views complete.
LEMMA ReadSyncs ==
    ASSUME TypeInv, AssertInv, CountInv, SyncInv, OnStreamRead
    PROVE  SyncInv'
<1>1. PICK message : OnTargetChange(message) \/ OnDocumentChange(message)
                     \/ OnTargetError(message) \/ OnSnapshot(message)
  BY DEF OnStreamRead
<1>2. SinceInv' /\ SyncedViewsComplete'
  BY <1>1, ReadViews
<1>3. ASSUME NEW p \in Target PROVE TargetInv(p)'
  <2>1. EndInv(p)'
    <3>1. EndInv(p)
      BY <1>1, ReadIs DEF SyncInv, TargetInv
    <3>. QED  BY <1>1, <3>1, ReadIs, EndTail
  <2>2. p \in listened' \ overlapped' => Fresh(p)'
    BY <1>1, ReadFresh
  <2>3. p \notin listened' \cup crossed' => Gone(p)'
    BY <1>1, ReadGone
  <2>. QED  BY <2>1, <2>2, <2>3 DEF TargetInv
<1>. QED  BY <1>2, <1>3 DEF SyncInv

\* The server sends on.
LEMMA ServerSyncs ==
    ASSUME TypeInv, SyncInv, ServerProgress \/ \E q \in Target : ServerRejects(q) \/ Commit(q)
    PROVE  SyncInv'
<1>1. UNCHANGED <<stream, aggregator, updates, crossed, known, listened, overlapped, since, synced>>
  BY ServerTypeInv DEF serverRest, queryVars
<1>2. /\ net \in Net /\ committed \in Count /\ since \in Count /\ known \in Count
      /\ \A q \in Target : net.sent[q] \in Nat /\ committed[q] \in Nat /\ since[q] \in Nat
                           /\ known[q] \in Nat
  BY ClientAssumption DEF TypeInv, QueriesType, StreamType, StoreType, Net, Count
<1>3. SyncedViewsComplete'
  BY <1>1 DEF SyncInv, SyncedViewsComplete
<1>4. CASE \E q \in Target : Commit(q)
  <2>1. PICK q \in Target : Commit(q)
    BY <1>4
  <2>2. net' = net /\ committed' = [committed EXCEPT ![q] = @ + 1]
    BY <2>1 DEF Commit
  <2>3. SinceInv'
    BY <1>1, <1>2, <2>2 DEF SyncInv, SinceInv, Count
  <2>4. \A p \in Target : TargetInv(p) => TargetInv(p)'
    BY <1>1, <2>2, TargetSame
  <2>. QED  BY <1>1, <1>3, <2>3, <2>4 DEF SyncInv, IsOpen
<1>5. CASE ServerProgress \/ \E q \in Target : ServerRejects(q)
  <2>1. committed' = committed /\ IsOpen
    BY <1>5 DEF ServerProgress, ServerTakes, ServerSendsDocuments, ServerCallsCurrent,
                ServerSnapshot, ServerRejects, CanRespond
  <2>2. SinceInv'
    BY <1>1, <2>1 DEF SyncInv, SinceInv
  <2>3. ASSUME NEW p \in Target PROVE TargetInv(p)'
    <3>1. /\ TargetInv(p) /\ EndInv(p) /\ since[p] <= committed[p]
          /\ aggregator' = aggregator /\ crossed' = crossed /\ Kept(p)
      BY <1>1, <2>1 DEF SyncInv, SinceInv, TargetInv, Kept
    <3>2. ASSUME EndInv(p)', Fresh(p) => Fresh(p)', Gone(p) => Gone(p)'
          PROVE  TargetInv(p)'
      BY <1>1, <3>1, <3>2 DEF TargetInv
    <3>3. CASE ServerTakes
      <4>1. Fresh(p) => Fresh(p)'
        BY <1>2, <3>1, <3>3, FreshTake
      <4>2. Gone(p) => Gone(p)'
        BY <1>2, <3>1, <3>3, GoneTake
      <4>3. EndInv(p)'
        <5> DEFINE q == Head(net.requests).query
        <5>1. PICK reply \in {"added", "refused", "removed"} :
                 /\ net'.responses = Append(net.responses, [type |-> reply, query |-> q])
                 /\ net'.serving = [net.serving EXCEPT ![q] =
                                        IF reply = "added" THEN "added" ELSE "no"]
          BY <1>2, <3>3, ServerTakesIs
        <5>2. q \in Target
          BY <1>2, <3>3, ServerTakesIs DEF ToServer
        <5> HIDE DEF q
        <5>3. [type |-> reply, query |-> q] \in ToClient
          BY <5>2 DEF ToClient
        <5> DEFINE m == [type |-> reply, query |-> q]
        <5>4. /\ m \in ReplyOf(p) <=> p = q
              /\ m \notin DataOf(p)
              /\ p # q => net'.serving[p] = net.serving[p]
              /\ p = q /\ m.type # "added" => net'.serving[p] = "no"
          BY <1>2, <5>1, <5>2, <5>3 DEF ReplyOf, DataOf, Net
        <5> HIDE DEF m
        <5>5. m \in ToClient /\ net'.responses = Append(net.responses, m)
          BY <5>1, <5>3 DEF m
        <5>. QED  BY <1>2, <3>1, <5>4, <5>5, EndAppend
      <4>. QED  BY <3>2, <4>1, <4>2, <4>3
    <3>4. CASE ServerSnapshot
      <4> DEFINE m == [type |-> "snapshot"]
      <4>1. /\ net'.responses = Append(net.responses, m) /\ net'.requests = net.requests
            /\ net'.serving = net.serving /\ net'.sent = net.sent
        BY <1>2, <3>4, ServerSnapshotIs
      <4>2. m \in ToClient /\ m \notin ReplyOf(p) /\ m \notin DataOf(p)
        BY DEF ToClient, ReplyOf, DataOf
      <4> HIDE DEF m
      <4>3. EndInv(p)'
        BY <1>2, <3>1, <4>1, <4>2, EndAppend
      <4>4. Gone(p) => Gone(p)'
        BY <1>2, <3>1, <4>1, <4>2, GoneSend
      <4>5. Fresh(p) => Fresh(p)'
        BY <1>2, <3>1, <4>1, <4>2, FreshSend
      <4>. QED  BY <3>2, <4>3, <4>4, <4>5
    <3>5. ASSUME NEW q \in Target,
                 ServerSendsDocuments(q) \/ ServerCallsCurrent(q) \/ ServerRejects(q)
          PROVE  TargetInv(p)'
      <4>1. PICK m \in {[type |-> "documents", query |-> q, count |-> committed[q]],
                        [type |-> "current", query |-> q], [type |-> "error", query |-> q]} :
               /\ net'.responses = Append(net.responses, m) /\ net'.requests = net.requests
               /\ net.serving[q] # "no"
               /\ p # q => net'.serving[p] = net.serving[p] /\ net'.sent[p] = net.sent[p]
               /\ m.type = "current" =>
                     net.sent[q] = committed[q] /\ net'.sent[q] = net.sent[q]
               /\ m.type = "error" => net'.serving[q] = "no"
        <5>1. \A x, y : p # q => /\ [net.serving EXCEPT ![q] = x][p] = net.serving[p]
                                 /\ [net.sent EXCEPT ![q] = y][p] = net.sent[p]
          BY <1>2 DEF Net, Count
        <5>2. \A x : [net.serving EXCEPT ![q] = x][q] = x
          BY <1>2 DEF Net
        <5>3. /\ net.serving[q] # "no" /\ net'.requests = net.requests
              /\ \/ /\ net'.responses = Append(net.responses,
                            [type |-> "documents", query |-> q, count |-> committed[q]])
                    /\ net'.serving = net.serving
                    /\ net'.sent = [net.sent EXCEPT ![q] = committed[q]]
                 \/ /\ net'.responses = Append(net.responses,
                            [type |-> "current", query |-> q])
                    /\ net.serving[q] = "added" /\ net.sent[q] = committed[q]
                    /\ net'.serving = [net.serving EXCEPT ![q] = "current"]
                    /\ net'.sent = net.sent
                 \/ /\ net'.responses = Append(net.responses,
                            [type |-> "error", query |-> q])
                    /\ net'.serving = [net.serving EXCEPT ![q] = "no"]
                    /\ net'.sent = net.sent
          BY <1>2, <3>5, ServerSendsIs
        <5>. QED  BY <5>1, <5>2, <5>3
      <4>2. /\ m \in ToClient /\ m.type \in {"documents", "current", "error"} /\ m.query = q
            /\ m.type = "documents" => m.count = committed[q]
        BY <1>2, <4>1 DEF ToClient, Count
      <4>3. m \notin ReplyOf(p) /\ (m \in DataOf(p) <=> p = q)
        BY <4>2 DEF ReplyOf, DataOf
      <4>4. EndInv(p)'
        BY <1>2, <3>1, <4>1, <4>2, <4>3, EndAppend
      <4>5. Gone(p) => Gone(p)'
        BY <1>2, <3>1, <4>1, <4>2, <4>3, GoneSend
      <4>6. Fresh(p) => Fresh(p)'
        BY <1>2, <3>1, <4>1, <4>2, <4>3, FreshSend
      <4>. QED  BY <3>2, <4>4, <4>5, <4>6
    <3>. QED  BY <1>5, <3>3, <3>4, <3>5 DEF ServerProgress
  <2>. QED  BY <1>3, <2>2, <2>3 DEF SyncInv
<1>. QED  BY <1>4, <1>5

\* Every step keeps the views complete.
LEMMA NextSyncs ==
    TypeInv /\ AssertInv /\ CountInv /\ SyncInv /\ [Next]_vars => SyncInv'
<1> SUFFICES ASSUME TypeInv, AssertInv, CountInv, SyncInv, [Next]_vars PROVE SyncInv'
  OBVIOUS
<1>1. CASE UNCHANGED vars
  <2>1. \A q \in Target : TargetInv(q) => TargetInv(q)'
    BY <1>1, TargetSame DEF vars
  <2>. QED  BY <1>1, <2>1 DEF vars, SyncInv, SinceInv, SyncedViewsComplete, IsOpen
<1>. QED
  BY <1>1, AppSyncs, StreamSyncs, ReadSyncs, ServerSyncs DEF Next, WorkerTask, MainTask

\* There are no views to begin with.
LEMMA InitSyncs == Init => SyncInv
<1> SUFFICES ASSUME Init PROVE SyncInv
  OBVIOUS
<1>1. ~ IsOpen /\ synced = {}
  BY DEF Init, IsOpen
<1>2. SinceInv
  BY DEF Init, SinceInv, NoDocuments
<1>. QED  BY <1>1, <1>2 DEF SyncInv, SyncedViewsComplete

\* A view called synced holds every document the server had when the view was made, as long
\* as its target was watched when the client could tell that nothing of it was on its way
\* (remote_event.cc:156, remote_store.mm:331).
THEOREM ClientSyncedViewsComplete == Spec => []SyncedViewsComplete
<1> DEFINE Inv == TypeInv /\ AssertInv /\ CountInv /\ SyncInv
<1>1. Init => Inv
  BY InitTypeInv, InitAsserts, InitCounts, InitSyncs
<1>2. Inv /\ [Next]_vars => Inv'
  BY NextTypeInv, NextAsserts, NextCounts, NextSyncs
<1>3. Inv => SyncedViewsComplete
  BY DEF SyncInv
<1>. QED  BY <1>1, <1>2, <1>3, PTL DEF Spec
=============================================================================
