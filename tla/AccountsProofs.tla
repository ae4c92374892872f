---------------------------- MODULE AccountsProofs ----------------------------
(***************************************************************************)
(* Accounts is well typed; a device whose users wait for answers never    *)
(* creates two accounts with one user name, nor one of a format that is   *)
(* refused, and implements AccountDirectory, whatever the numbers of      *)
(* devices, views and taps.                                               *)
(***************************************************************************)
EXTENDS Accounts, FirestoreProofs

\* Part of TypeOK that the app's own actions are about.
LEMMA InitTypeOK == Init => TypeOK
<1> SUFFICES ASSUME Init PROVE TypeOK
  OBVIOUS
<1>1. FirestoreTypeOK(Request, Account)
  <2>1. Existing \in SUBSET Account
    BY ExistingAssumption
  <2>2. [d \in Device |-> CreatedBy(d)] \in [Device -> SUBSET Account]
    BY <2>1 DEF CreatedBy
  <2>. QED  BY <2>1, <2>2, FirestoreInitType DEF Init
<1>2. BlankState \in ViewState
  BY InputsAssumption DEF BlankState, ViewState
<1>3. 0 \in 0 .. MaxTaps
  BY BoundsAssumption
<1>. QED  BY <1>1, <1>2, <1>3 DEF Init, TypeOK

\* A view belongs to one of the devices.
LEMMA HostType == \A v \in View : Host(v) \in Device
BY DEF View, Host

\* The request of a tap is a request.
LEMMA UsernameRequestType ==
    ASSUME TypeOK, NEW v \in View, taps[Host(v)] < MaxTaps
    PROVE  LET request == UsernameRequest(v, taps[Host(v)] + 1)
           IN /\ request \in Request
              /\ <<request>> \in Seq(Request)
              /\ ToSet(<<request>>) = {request}
<1> DEFINE request == UsernameRequest(v, taps[Host(v)] + 1)
<1>1. taps[Host(v)] + 1 \in 1 .. MaxTaps
  <2>1. taps[Host(v)] \in 0 .. MaxTaps
    BY HostType DEF TypeOK
  <2>. QED  BY <2>1, BoundsAssumption
<1>2. state[v].username \in Username
  BY DEF TypeOK, ViewState
<1>3. request \in Request
  BY <1>1, <1>2 DEF UsernameRequest, Request
<1>. QED  BY <1>3 DEF ToSet

\* The checks leave a state of a view, with the texts as they were.
LEMMA CheckedType ==
    ASSUME NEW s \in ViewState
    PROVE  /\ Checked(s) \in ViewState
           /\ Checked(s).username = s.username /\ Checked(s).password = s.password
           /\ ~ Checked(s).displayUsernameFormatError => s.username \in ValidUsername
           /\ ~ Checked(s).displayPasswordFormatError => s.password \in ValidPassword
BY DEF Checked, ViewState, isUsernameValid, isPasswordValid, isPasswordMatch

\* The account that a callback writes is one.
LEMMA NewAccountType ==
    ASSUME TypeOK, NEW answer \in AnswerOf(Request, Account)
    PROVE  /\ NewAccount(answer) \in Account
           /\ NewAccount(answer).id = <<Host(answer.request.view), answer.request.tap>>
           /\ NewAccount(answer).data.Username = state[answer.request.view].username
<1>1. answer.request.view \in View /\ answer.request.tap \in 1 .. MaxTaps
  BY DEF AnswerOf, Request
<1>2. <<Host(answer.request.view), answer.request.tap>> \in DocumentId
  <2>1. answer.request.tap \in 0 .. MaxTaps
    BY <1>1, BoundsAssumption
  <2>. QED  BY <1>1, <2>1, HostType DEF DocumentId
<1>3. state[answer.request.view] \in ViewState
  BY <1>1 DEF TypeOK
<1>. QED  BY <1>2, <1>3 DEF NewAccount, Account, AccountData, ViewState

\* What a tap that passes the format checks does.
LEMMA QuerySent ==
    ASSUME TypeOK, NEW v \in View, processInput(v)
    PROVE  \/ UNCHANGED <<firestoreVars, taps>>
           \/ /\ taps[Host(v)] < MaxTaps
              /\ taps' = [taps EXCEPT ![Host(v)] = @ + 1]
              /\ GetDocuments(Host(v), <<UsernameRequest(v, taps[Host(v)] + 1)>>)
<1>1. scope.taps[Host(v)] \in 0 .. MaxTaps /\ taps[Host(v)] \in 0 .. MaxTaps
  BY HostType, BoundsAssumption DEF TypeOK
<1>2. taps[Host(v)] < scope.taps[Host(v)] => taps[Host(v)] < MaxTaps
  BY <1>1, BoundsAssumption
<1>. QED  BY <1>2 DEF processInput

\* Every step keeps the types.
LEMMA NextTypeOK == TypeOK /\ [Next]_vars => TypeOK'
<1> SUFFICES ASSUME TypeOK, [Next]_vars PROVE TypeOK'
  OBVIOUS
<1>0. /\ FirestoreTypeOK(Request, Account)
      /\ screen \in [View -> {"unopened", "shown", "closed"}]
      /\ state \in [View -> ViewState]
      /\ taps \in [Device -> 0 .. MaxTaps]
  BY DEF TypeOK
<1>s. scope' \in Scopes
  BY DEF Next, vars, TypeOK
<1>1. ASSUME NEW v \in View, Open(v) \/ Leave(v) PROVE TypeOK'
  BY <1>0, <1>s, <1>1 DEF Open, Leave, TypeOK, firestoreVars, FirestoreTypeOK
<1>2. ASSUME NEW v \in View, Edit(v) PROVE TypeOK'
  <2>1. /\ \A text \in Username : [state[v] EXCEPT !.username = text] \in ViewState
        /\ \A text \in Password : [state[v] EXCEPT !.password = text] \in ViewState
        /\ \A text \in Password : [state[v] EXCEPT !.confirmPassword = text] \in ViewState
    BY <1>0 DEF ViewState
  <2>2. state' \in [View -> ViewState]
    BY <1>0, <1>s, <1>2, <2>1 DEF Edit
  <2>. QED  BY <1>0, <1>s, <1>2, <2>2 DEF Edit, TypeOK, firestoreVars, FirestoreTypeOK
<1>3. ASSUME NEW v \in View, processInput(v) PROVE TypeOK'
  <2>1. state' \in [View -> ViewState] /\ UNCHANGED screen
    BY <1>0, <1>s, <1>3, CheckedType DEF processInput
  <2>2. CASE UNCHANGED <<firestoreVars, taps>>
    BY <1>0, <1>s, <2>1, <2>2 DEF TypeOK, firestoreVars, FirestoreTypeOK
  <2>3. CASE /\ taps[Host(v)] < MaxTaps
             /\ taps' = [taps EXCEPT ![Host(v)] = @ + 1]
             /\ GetDocuments(Host(v), <<UsernameRequest(v, taps[Host(v)] + 1)>>)
    <3>1. FirestoreTypeOK(Request, Account)'
      BY <1>0, <1>s, <2>3, HostType, UsernameRequestType, GetDocumentsType
    <3>2. taps' \in [Device -> 0 .. MaxTaps]
      <4>1. taps[Host(v)] + 1 \in 0 .. MaxTaps
        <5>1. taps[Host(v)] \in 0 .. MaxTaps
          BY <1>0, <1>s, HostType
        <5>. QED  BY <2>3, <5>1, BoundsAssumption
      <4>. QED  BY <1>0, <1>s, <2>3, <4>1
    <3>. QED  BY <1>s, <2>1, <3>1, <3>2 DEF TypeOK
  <2>. QED  BY <1>3, <2>2, <2>3, QuerySent
<1>4. ASSUME NEW d \in Device, Callback(d) PROVE TypeOK'
  <2> DEFINE answer == Head(callbacks[d])
             v == answer.request.view
  <2>1. CallbackRuns(d) /\ UNCHANGED <<server, cache, offline, listens, taps>>
    BY <1>4 DEF Callback, AccountCreated, LateMismatch, UsernameRefused, QueryFailed,
                accountsVars
  <2>2. callbacks' \in [Device -> Seq(AnswerOf(Request, Account))]
        /\ answer \in AnswerOf(Request, Account)
    BY <1>0, <1>s, <2>1, CallbackRunsType
  <2>3. v \in View /\ state[v] \in ViewState
    BY <1>0, <1>s, <2>2 DEF AnswerOf, Request
  <2>4. CASE AccountCreated(d)
    <3>1. NewAccount(answer) \in Account
      BY <2>2, NewAccountType
    <3>2. mutations' = [mutations EXCEPT ![d] = Append(@, NewAccount(answer))]
      BY <2>4 DEF AccountCreated, AddDocument
    <3>3. mutations' \in [Device -> Seq(Account)]
      BY <1>0, <1>s, <3>1, <3>2 DEF FirestoreTypeOK
    <3>4. screen' \in [View -> {"unopened", "shown", "closed"}] /\ UNCHANGED state
      BY <1>0, <1>s, <2>4 DEF AccountCreated
    <3>. QED  BY <1>0, <1>s, <2>1, <2>2, <3>3, <3>4 DEF TypeOK, FirestoreTypeOK
  <2>5. CASE LateMismatch(d) \/ UsernameRefused(d)
    <3>1. /\ [state[v] EXCEPT !.displayPasswordsMatchError = TRUE] \in ViewState
          /\ [state[v] EXCEPT !.displayUsernameError = TRUE] \in ViewState
      BY <2>3 DEF ViewState
    <3>2. state' \in [View -> ViewState] /\ UNCHANGED <<mutations, screen>>
      BY <1>0, <1>s, <2>3, <2>5, <3>1 DEF LateMismatch, UsernameRefused
    <3>. QED  BY <1>0, <1>s, <2>1, <2>2, <3>2 DEF TypeOK, FirestoreTypeOK
  <2>6. CASE QueryFailed(d)
    BY <1>0, <1>s, <2>1, <2>2, <2>6 DEF QueryFailed, accountsVars, TypeOK, FirestoreTypeOK
  <2>. QED  BY <1>4, <2>4, <2>5, <2>6 DEF Callback
<1>5. ASSUME NEW d \in Device, Restart(d) PROVE TypeOK'
  <2>1. FirestoreTypeOK(Request, Account)'
    BY <1>0, <1>s, <1>5, LibraryRestartType DEF Restart
  <2>. QED  BY <1>0, <1>s, <1>5, <2>1 DEF Restart, TypeOK
<1>6. ASSUME NEW d \in Device, FirestoreStep(d), UNCHANGED accountsVars PROVE TypeOK'
  BY <1>0, <1>s, <1>6, FirestoreStepType DEF TypeOK, accountsVars
<1>7. CASE UNCHANGED vars
  BY <1>0, <1>s, <1>7 DEF vars, firestoreVars, accountsVars, TypeOK, FirestoreTypeOK
<1>. QED  BY <1>1, <1>2, <1>3, <1>4, <1>5, <1>6, <1>7 DEF Next

\* The variables always have their types.
THEOREM AccountsTypeOK == Spec => []TypeOK
<1>1. Init => TypeOK
  BY InitTypeOK
<1>2. TypeOK /\ [Next]_vars => TypeOK'
  BY NextTypeOK
<1>. QED  BY <1>1, <1>2, PTL DEF Spec

-----------------------------------------------------------------------------
(***************************************************************************)
(* One account per device.  A device whose user waits has one request at  *)
(* a time; its answer, when the callback runs, holds whatever of the      *)
(* queried name the device itself has written; so an empty one allows the *)
(* write.                                                                 *)
(***************************************************************************)

\* The accounts that e has created, committed or on their way.
Own(e) == {account \in server \cup Pending(e) : account.id[1] = e}

\* Only the device itself queues its accounts.
PendingOwned == \A e \in Device : \A account \in Pending(e) : account.id[1] = e

\* A device sees the accounts it has created, also without the server.
OwnInView ==
    \A e \in Device : \A account \in server :
        account.id[1] = e => account \in LocalDocuments(e)

\* An answer that waits for its callback holds the device's own accounts of that name.
AnswersComplete ==
    \A e \in Device : \A answer \in ToSet(callbacks[e]) : Complete(answer, Own(e))

\* The user names of what e has created are all different.
OwnNamesDiffer ==
    \A e \in Device : \A one, other \in Own(e) :
        one.data.Username = other.data.Username => one = other

OneAtATime == \A e \in Device : OneRequest(e)

\* A device shows one view at a time.
OneShown ==
    \A v, w \in View :
        Host(v) = Host(w) /\ screen[v] = "shown" /\ screen[w] = "shown" => v = w

\* A request belongs to the view on the screen, whose form still has the queried name.
RequestsShown ==
    \A e \in Device : \A request \in Outstanding(e) :
        /\ Host(request.view) = e
        /\ screen[request.view] = "shown"
        /\ state[request.view].username = request.query.Username

DocumentsInv == PendingOwned /\ OwnInView /\ AnswersComplete /\ OwnNamesDiffer
RequestsInv == OneAtATime /\ OneShown /\ RequestsShown

\* The inductive invariant.
PatientInv == TypeOK /\ DocumentsInv /\ RequestsInv

\* Accounts, queued or committed, name the device they come from.
LEMMA AccountsTyped ==
    ASSUME TypeOK, NEW e \in Device
    PROVE  /\ Pending(e) \subseteq Account /\ server \subseteq Account
           /\ \A account \in Account : account.id[1] \in Device /\ account.data \in AccountData
           /\ Outstanding(e) \subseteq Request
<1>1. Pending(e) \subseteq Account /\ server \subseteq Account
  BY DEF TypeOK, FirestoreTypeOK, Pending, ToSet
<1>2. \A account \in Account : account.id[1] \in Device /\ account.data \in AccountData
  BY DEF Account, DocumentId
<1>3. ASSUME NEW answer \in ToSet(callbacks[e]) PROVE answer.request \in Request
  <2>1. callbacks[e] \in Seq(AnswerOf(Request, Account))
    BY DEF TypeOK, FirestoreTypeOK
  <2>2. PICK i \in DOMAIN callbacks[e] : answer = callbacks[e][i]
    BY DEF ToSet
  <2>3. answer \in AnswerOf(Request, Account)
    BY <2>1, <2>2
  <2>. QED  BY <2>3 DEF AnswerOf
<1>4. listens[e] \subseteq Request
  BY DEF TypeOK, FirestoreTypeOK
<1>. QED  BY <1>1, <1>2, <1>3, <1>4 DEF Outstanding

\* Two accounts of one device are both its own.
LEMMA OwnNames == TypeOK /\ PendingOwned /\ OwnNamesDiffer => OneAccountPerDevice
<1> SUFFICES ASSUME TypeOK, PendingOwned, OwnNamesDiffer,
                    NEW one \in Accounts, NEW other \in Accounts,
                    one.id[1] = other.id[1], one.data.Username = other.data.Username
             PROVE  one = other
  BY DEF OneAccountPerDevice
<1>1. ASSUME NEW account \in Accounts
      PROVE  account.id[1] \in Device /\ account \in Own(account.id[1])
  <2>1. CASE account \in server
    <3>1. PICK e \in Device : TRUE
      <4>1. account \in Account
        BY <2>1 DEF TypeOK, FirestoreTypeOK
      <4>. QED  BY <4>1 DEF Account, DocumentId
    <3>2. account.id[1] \in Device
      BY <2>1, <3>1, AccountsTyped
    <3>. QED  BY <2>1, <3>2 DEF Own
  <2>2. CASE \E e \in Device : account \in Pending(e)
    BY <2>2 DEF PendingOwned, Own
  <2>. QED  BY <2>1, <2>2 DEF Accounts
<1>. QED  BY <1>1 DEF OwnNamesDiffer

\* The start: accounts of earlier runs are in the caches of their devices.
LEMMA InitPatientInv == Init => PatientInv
<1> SUFFICES ASSUME Init PROVE PatientInv
  OBVIOUS
<1>1. TypeOK
  BY InitTypeOK
<1>2. /\ server = Existing
      /\ cache = [d \in Device |-> CreatedBy(d)]
      /\ mutations = [d \in Device |-> <<>>]
      /\ listens = [d \in Device |-> {}]
      /\ callbacks = [d \in Device |-> <<>>]
      /\ screen = [v \in View |-> "unopened"]
  BY DEF Init, FirestoreInit
<1>3. ASSUME NEW e \in Device
      PROVE  Pending(e) = {} /\ ToSet(callbacks[e]) = {} /\ Outstanding(e) = {}
  BY <1>2 DEF Pending, Outstanding, ToSet
<1>4. PendingOwned /\ AnswersComplete /\ RequestsShown
  BY <1>3 DEF PendingOwned, AnswersComplete, RequestsShown
<1>5. OwnInView
  BY <1>2, <1>3 DEF OwnInView, LocalDocuments, CreatedBy
<1>6. OwnNamesDiffer
  BY <1>2, <1>3, ExistingAssumption DEF OwnNamesDiffer, Own
<1>7. OneAtATime
  BY <1>2 DEF OneAtATime, OneRequest
<1>8. OneShown
  BY <1>2 DEF OneShown
<1>. QED  BY <1>1, <1>4, <1>5, <1>6, <1>7, <1>8 DEF PatientInv, DocumentsInv, RequestsInv

\* What a device has written is on the server or queued, and in its view.
LEMMA OwnKept ==
    ASSUME OwnInView, NEW e \in Device
    PROVE  Own(e) \subseteq server \cup Pending(e) /\ Own(e) \subseteq LocalDocuments(e)
BY DEF OwnInView, Own, LocalDocuments

\* A step of the library moves accounts of a device, and drops refused ones; what the
\* device has written stays in its view, and answers to come hold it.
LEMMA StepDocuments ==
    ASSUME TypeOK, DocumentsInv, NEW d \in Device, FirestoreStep(d)
    PROVE  DocumentsInv'
<1>1. /\ mutations \in [Device -> Seq(Account)] /\ mutations[d] \in Seq(Account)
      /\ cache \in [Device -> SUBSET Account]
      /\ FirestoreTypeOK(Request, Account)
  BY DEF TypeOK, FirestoreTypeOK
<1>2. \/ UNCHANGED <<server, mutations>> /\ \A e \in Device : cache[e] \subseteq cache'[e]
      \/ /\ UNCHANGED <<cache, mutations>>
         /\ \E written \in Pending(d) : server' = server \cup {written}
      \/ /\ mutations[d] # <<>> /\ UNCHANGED server
         /\ mutations' = [mutations EXCEPT ![d] = Tail(@)]
         /\ \A e \in Device : cache[e] \subseteq cache'[e]
         /\ Head(mutations[d]) \in cache'[d] \/ Head(mutations[d]) \notin server
  <2>1. CASE CommitWrite(d)
    <3>1. PICK i \in DOMAIN mutations[d] : server' = server \cup {mutations[d][i]}
      BY <2>1 DEF CommitWrite
    <3>2. mutations[d][i] \in Pending(d)
      BY <1>1 DEF Pending, ToSet
    <3>. QED  BY <2>1, <3>1, <3>2 DEF CommitWrite
  <2>2. CASE ~ CommitWrite(d)
    BY <1>1, <2>2 DEF FirestoreStep, RaiseSynced, GoOffline, LeaveOffline, ListenFails,
                      AcknowledgeBatch, RejectBatch
  <2>. QED  BY <2>1, <2>2
<1>3. mutations[d] # <<>> =>
        /\ Head(mutations[d]) \in Pending(d)
        /\ ToSet(Tail(mutations[d])) \subseteq Pending(d)
        /\ Pending(d) \subseteq {Head(mutations[d])} \cup ToSet(Tail(mutations[d]))
  BY <1>1, TailElements DEF Pending
<1>4. ASSUME NEW e \in Device
      PROVE  Pending(e)' \subseteq Pending(e) /\ Own(e)' \subseteq Own(e)
  <2>1. CASE UNCHANGED mutations
    <3>1. Pending(e)' = Pending(e)
      BY <2>1 DEF Pending
    <3>2. \A written \in Pending(d) : written.id[1] = d
      BY DEF DocumentsInv, PendingOwned
    <3>. QED  BY <1>2, <1>3, <3>1, <3>2 DEF Own
  <2>2. CASE /\ mutations[d] # <<>> /\ UNCHANGED server
             /\ mutations' = [mutations EXCEPT ![d] = Tail(@)]
    <3>1. Pending(e)' \subseteq Pending(e)
      <4>1. e # d => mutations'[e] = mutations[e]
        BY <2>2
      <4>2. mutations'[d] = Tail(mutations[d])
        BY <1>1, <2>2
      <4>. QED  BY <1>3, <2>2, <4>1, <4>2 DEF Pending
    <3>. QED  BY <2>2, <3>1 DEF Own
  <2>. QED  BY <1>2, <2>1, <2>2
<1>5. PendingOwned'
  BY <1>4 DEF PendingOwned, DocumentsInv
<1>6. OwnNamesDiffer'
  BY <1>4 DEF OwnNamesDiffer, DocumentsInv
<1>7. OwnInView'
  <2>1. SUFFICES ASSUME NEW e \in Device, NEW account \in server', account.id[1] = e
                 PROVE  account \in LocalDocuments(e)'
    BY DEF OwnInView
  <2>2. CASE UNCHANGED mutations
    <3>1. Pending(e)' = Pending(e)
      BY <2>2 DEF Pending
    <3>2. cache[e] \subseteq cache'[e]
      BY <1>2
    <3>3. CASE account \in server
      BY <3>1, <3>2, <3>3, <2>1 DEF DocumentsInv, OwnInView, LocalDocuments
    <3>4. CASE account \notin server
      <4>1. account \in Pending(d)
        BY <1>2, <2>1, <3>4
      <4>2. e = d
        BY <2>1, <4>1 DEF DocumentsInv, PendingOwned
      <4>. QED  BY <3>1, <4>1, <4>2 DEF LocalDocuments
    <3>. QED  BY <3>3, <3>4
  <2>3. CASE /\ mutations[d] # <<>> /\ UNCHANGED server
             /\ mutations' = [mutations EXCEPT ![d] = Tail(@)]
             /\ \A f \in Device : cache[f] \subseteq cache'[f]
             /\ Head(mutations[d]) \in cache'[d] \/ Head(mutations[d]) \notin server
    <3>1. account \in LocalDocuments(e) /\ account \in server
      BY <2>1, <2>3 DEF DocumentsInv, OwnInView
    <3>2. CASE e # d
      <4>1. Pending(e)' = Pending(e)
        BY <2>3, <3>2 DEF Pending
      <4>. QED  BY <2>3, <3>1, <4>1 DEF LocalDocuments
    <3>3. CASE e = d
      <4>1. Pending(d)' = ToSet(Tail(mutations[d]))
        BY <1>1, <2>3 DEF Pending
      <4>2. Pending(d) \subseteq {Head(mutations[d])} \cup Pending(d)'
        BY <1>3, <2>3, <4>1
      <4>. QED  BY <2>3, <3>1, <3>3, <4>2 DEF LocalDocuments
    <3>. QED  BY <3>2, <3>3
  <2>. QED  BY <1>2, <2>2, <2>3
<1>8. AnswersComplete'
  <2>1. SUFFICES ASSUME NEW e \in Device, NEW answer \in ToSet(callbacks'[e])
                 PROVE  Complete(answer, Own(e)')
    BY DEF AnswersComplete, Complete
  <2>2. Complete(answer, Own(e))
    <3>1. CASE answer \in ToSet(callbacks[e])
      BY <3>1 DEF AnswersComplete, DocumentsInv
    <3>2. CASE e = d /\ \E request \in Request : answer \in AnswersTo(d, request)
      BY <3>2, NewAnswers, OwnKept DEF DocumentsInv
    <3>3. \/ answer \in ToSet(callbacks[e])
          \/ e = d /\ \E request \in Request : answer \in AnswersTo(d, request)
      <4>1. FirestoreTypeOK(Request, Account)
        BY <1>1
      <4>. QED  BY <4>1, StepNewAnswers
    <3>. QED  BY <3>1, <3>2, <3>3
  <2>. QED  BY <1>4, <2>2 DEF Complete
<1>. QED  BY <1>5, <1>6, <1>7, <1>8 DEF DocumentsInv

\* It makes no request of its own, and turns one request into one answer.
LEMMA StepRequests ==
    ASSUME TypeOK, RequestsInv, NEW d \in Device, FirestoreStep(d), UNCHANGED accountsVars
    PROVE  RequestsInv'
<1>1. FirestoreTypeOK(Request, Account) /\ UNCHANGED <<screen, state>>
  BY DEF TypeOK, accountsVars
<1>2. OneAtATime'
  BY <1>1, StepOneRequest DEF OneAtATime, RequestsInv
<1>3. OneShown'
  BY <1>1 DEF OneShown, RequestsInv
<1>4. \A e \in Device : Outstanding(e)' \subseteq Outstanding(e)
  BY <1>1, StepOutstanding
<1>5. RequestsShown'
  BY <1>1, <1>4 DEF RequestsShown, RequestsInv
<1>. QED  BY <1>2, <1>3, <1>5 DEF RequestsInv

\* A patient user acts on a device that waits for nothing.
LEMMA UsableIdle ==
    ASSUME Patient, TypeOK, RequestsInv, NEW v \in View, Usable(v)
    PROVE  Outstanding(Host(v)) = {}
<1> SUFFICES ASSUME NEW request \in Outstanding(Host(v)) PROVE FALSE
  OBVIOUS
<1>1. request.view \in View
  BY HostType, AccountsTyped DEF Request
<1>2. Host(request.view) = Host(v) /\ screen[request.view] = "shown"
  BY HostType DEF RequestsInv, RequestsShown
<1>3. request.view = v
  BY <1>1, <1>2 DEF Usable, RequestsInv, OneShown
<1>. QED  BY <1>3 DEF Usable, Waiting

\* Opening, leaving and editing a view.
LEMMA UserKeepsInv ==
    ASSUME Patient, PatientInv, NEW v \in View, Open(v) \/ Leave(v) \/ Edit(v)
    PROVE  DocumentsInv' /\ RequestsInv'
<1>1. UNCHANGED firestoreVars /\ TypeOK
  BY DEF Open, Leave, Edit, PatientInv
<1>2. \A e \in Device : /\ Pending(e)' = Pending(e) /\ Own(e)' = Own(e)
                        /\ LocalDocuments(e)' = LocalDocuments(e)
                        /\ Outstanding(e)' = Outstanding(e)
  BY <1>1 DEF firestoreVars, Pending, Own, LocalDocuments, Outstanding
<1>3. DocumentsInv'
  BY <1>1, <1>2 DEF PatientInv, DocumentsInv, PendingOwned, OwnInView, AnswersComplete, Complete,
                    OwnNamesDiffer, firestoreVars
<1>4. OneAtATime'
  BY <1>1 DEF PatientInv, RequestsInv, OneAtATime, OneRequest, firestoreVars
<1>5. OneShown'
  BY <1>1 DEF PatientInv, RequestsInv, OneShown, TypeOK, Open, Leave, Edit
<1>6. RequestsShown'
  <2>1. SUFFICES ASSUME NEW e \in Device, NEW request \in Outstanding(e)
                 PROVE  /\ Host(request.view) = e
                        /\ screen'[request.view] = "shown"
                        /\ state'[request.view].username = request.query.Username
    BY <1>2 DEF RequestsShown
  <2>2. /\ Host(request.view) = e /\ screen[request.view] = "shown"
        /\ state[request.view].username = request.query.Username
        /\ request.view \in View
    BY <1>1, AccountsTyped DEF PatientInv, RequestsInv, RequestsShown, Request
  <2>3. CASE Open(v)
    BY <1>1, <2>2, <2>3 DEF Open, TypeOK
  <2>4. CASE Leave(v) \/ Edit(v)
    <3>1. Usable(v)
      BY <2>4 DEF Leave, Edit
    <3>2. request.view # v
      BY <1>1, <2>1, <2>2, <3>1, UsableIdle DEF PatientInv
    <3>. QED  BY <1>1, <2>2, <2>4, <3>2 DEF Leave, Edit, TypeOK
  <2>. QED  BY <2>2, <2>3, <2>4
<1>. QED  BY <1>3, <1>4, <1>5, <1>6 DEF RequestsInv

\* A tap on Create Account.
LEMMA TapKeepsInv ==
    ASSUME Patient, PatientInv, NEW v \in View, processInput(v)
    PROVE  DocumentsInv' /\ RequestsInv'
<1> DEFINE d == Host(v)
           request == UsernameRequest(v, taps[Host(v)] + 1)
<1>1. /\ TypeOK /\ d \in Device /\ UNCHANGED screen
      /\ screen[v] = "shown" /\ Outstanding(d) = {}
  BY HostType, UsableIdle DEF PatientInv, processInput, Usable
<1>2. /\ \A w \in View : state'[w].username = state[w].username
  <2>1. state' = [state EXCEPT ![v] = Checked(@)] /\ state \in [View -> ViewState]
    BY <1>1 DEF processInput, TypeOK
  <2>2. Checked(state[v]).username = state[v].username
    BY <2>1, CheckedType
  <2>. QED  BY <2>1, <2>2
<1>3. OneShown'
  BY <1>1 DEF PatientInv, RequestsInv, OneShown
<1>4. CASE UNCHANGED <<firestoreVars, taps>>
  <2>1. \A e \in Device : /\ Pending(e)' = Pending(e) /\ Own(e)' = Own(e)
                          /\ LocalDocuments(e)' = LocalDocuments(e)
                          /\ Outstanding(e)' = Outstanding(e)
    BY <1>4 DEF firestoreVars, Pending, Own, LocalDocuments, Outstanding
  <2>2. DocumentsInv'
    BY <1>4, <2>1 DEF PatientInv, DocumentsInv, PendingOwned, OwnInView, AnswersComplete,
                      Complete, OwnNamesDiffer, firestoreVars
  <2>3. OneAtATime'
    BY <1>4 DEF PatientInv, RequestsInv, OneAtATime, OneRequest, firestoreVars
  <2>4. RequestsShown'
    BY <1>1, <1>2, <2>1, AccountsTyped DEF PatientInv, RequestsInv, RequestsShown, Request
  <2>. QED  BY <1>3, <2>2, <2>3, <2>4 DEF RequestsInv
<1>5. CASE taps[d] < MaxTaps /\ GetDocuments(d, <<request>>)
  <2>1. /\ FirestoreTypeOK(Request, Account)
        /\ request \in Request /\ <<request>> \in Seq(Request)
        /\ ToSet(<<request>>) = {request}
    BY <1>1, <1>5, UsernameRequestType DEF TypeOK
  <2>2. UNCHANGED <<server, cache, mutations>>
    BY <1>5 DEF GetDocuments
  <2>3. \A e \in Device : /\ Pending(e)' = Pending(e) /\ Own(e)' = Own(e)
                          /\ LocalDocuments(e)' = LocalDocuments(e)
    BY <2>2 DEF Pending, Own, LocalDocuments
  <2>4. AnswersComplete'
    <3>1. SUFFICES ASSUME NEW e \in Device, NEW answer \in ToSet(callbacks'[e])
                   PROVE  Complete(answer, Own(e))
      BY <2>3 DEF AnswersComplete, Complete
    <3>2. CASE answer \in ToSet(callbacks[e])
      BY <3>2 DEF AnswersComplete, DocumentsInv, PatientInv
    <3>3. CASE e = d /\ \E r \in Request : answer \in AnswersTo(d, r)
      BY <1>1, <3>3, NewAnswers, OwnKept DEF DocumentsInv, PatientInv
    <3>4. \/ answer \in ToSet(callbacks[e])
          \/ e = d /\ \E r \in Request : answer \in AnswersTo(d, r)
      <4> HIDE DEF d, request
      <4>. QED  BY <1>1, <1>5, <2>1, GetDocumentsNewAnswers
    <3>. QED  BY <3>2, <3>3, <3>4
  <2>5. DocumentsInv'
    BY <2>2, <2>3, <2>4 DEF PatientInv, DocumentsInv, PendingOwned, OwnInView, OwnNamesDiffer
  <2>6. OneAtATime'
    <3>1. ASSUME NEW e \in Device, OneRequest(e) PROVE OneRequest(e)'
      <4> HIDE DEF d, request
      <4>. QED  BY <1>1, <1>5, <2>1, <3>1, GetDocumentsOneRequest
    <3>. QED  BY <3>1 DEF PatientInv, RequestsInv, OneAtATime
  <2>7. ASSUME NEW e \in Device
        PROVE  Outstanding(e)' \subseteq Outstanding(e) \cup (IF e = d THEN {request} ELSE {})
    <3> HIDE DEF d, request
    <3>. QED  BY <1>1, <1>5, <2>1, GetDocumentsOutstanding
  <2>8. request.view = v /\ request.query.Username = state[v].username
    BY DEF UsernameRequest
  <2>9. RequestsShown'
    <3>1. ASSUME NEW e \in Device, NEW r \in Outstanding(e)
          PROVE  /\ Host(r.view) = e /\ screen'[r.view] = "shown"
                 /\ state'[r.view].username = r.query.Username
      BY <1>1, <1>2, <3>1, AccountsTyped DEF PatientInv, RequestsInv, RequestsShown, Request
    <3>2. /\ Host(request.view) = d /\ screen'[request.view] = "shown"
          /\ state'[request.view].username = request.query.Username
      BY <1>1, <1>2, <2>8
    <3>3. ASSUME NEW e \in Device, NEW r \in Outstanding(e)'
          PROVE  /\ Host(r.view) = e /\ screen'[r.view] = "shown"
                 /\ state'[r.view].username = r.query.Username
      <4> HIDE DEF d, request
      <4>. QED  BY <2>7, <3>1, <3>2, <3>3
    <3>. QED  BY <3>3 DEF RequestsShown
  <2>. QED  BY <1>3, <2>5, <2>6, <2>9 DEF RequestsInv
<1>. QED  BY <1>1, <1>4, <1>5, QuerySent

\* The name a callback registers is free among all that its answer, which was empty, would
\* have held.
LEMMA NameIsFree ==
    ASSUME PatientInv, NEW d \in Device, AccountCreated(d), NEW S \in SUBSET Account,
           Complete(Head(callbacks[d]), S)
    PROVE  \A account \in S :
              account.data.Username # NewAccount(Head(callbacks[d])).data.Username
<1> DEFINE answer == Head(callbacks[d])
           v == answer.request.view
           new == NewAccount(answer)
<1>1. /\ TypeOK /\ FirestoreTypeOK(Request, Account)
      /\ CallbackRuns(d) /\ ~ answer.err /\ answer.documents = {} /\ UNCHANGED listens
  BY DEF PatientInv, TypeOK, AccountCreated, MayCreate
<1>2. answer \in AnswerOf(Request, Account) /\ answer.request \in Outstanding(d)
  BY <1>1, CallbackRunsType, CallbackOutstanding
<1>3. new.data.Username = state[v].username
  BY <1>1, <1>2, NewAccountType
<1>4. state[v].username = answer.request.query.Username
  BY <1>2 DEF PatientInv, RequestsInv, RequestsShown
<1>5. ASSUME NEW account \in S, account.data.Username = new.data.Username
      PROVE  FALSE
  <2>1. Matches(answer.request.query, account)
    <3>1. DOMAIN answer.request.query = {"Username"} /\ "Username" \in DOMAIN account.data
      BY <1>2, <1>5 DEF AnswerOf, Request, Account, AccountData
    <3>. QED  BY <1>3, <1>4, <1>5, <3>1 DEF Matches
  <2>. QED  BY <1>1, <1>5, <2>1 DEF Complete
<1>. QED  BY <1>5

\* The account a callback writes is new to the device.
LEMMA WriteKeepsInv ==
    ASSUME PatientInv, NEW d \in Device, AccountCreated(d)
    PROVE  PendingOwned' /\ OwnInView' /\ OwnNamesDiffer'
<1> DEFINE answer == Head(callbacks[d])
           v == answer.request.view
           new == NewAccount(answer)
<1>1. /\ TypeOK /\ FirestoreTypeOK(Request, Account)
      /\ CallbackRuns(d) /\ UNCHANGED <<server, cache, listens>>
      /\ ~ answer.err /\ answer.documents = {}
      /\ mutations' = [mutations EXCEPT ![d] = Append(@, new)]
  BY DEF PatientInv, TypeOK, AccountCreated, AddDocument, MayCreate
<1>2. answer \in AnswerOf(Request, Account) /\ answer \in ToSet(callbacks[d])
      /\ answer.request \in Outstanding(d)
  BY <1>1, CallbackRunsType, CallbackNoNewAnswers, CallbackOutstanding
<1>3. /\ new \in Account /\ new.id[1] = Host(v)
      /\ new.data.Username = state[v].username
  BY <1>1, <1>2, NewAccountType
<1>4. Host(v) = d /\ state[v].username = answer.request.query.Username
  BY <1>2 DEF PatientInv, RequestsInv, RequestsShown
<1>5. \A account \in Own(d) : account.data.Username # new.data.Username
  <2>1. Complete(answer, Own(d))
    BY <1>2 DEF PatientInv, DocumentsInv, AnswersComplete
  <2>2. Own(d) \subseteq Account
    BY <1>1, AccountsTyped DEF Own
  <2>. QED  BY <2>1, <2>2, NameIsFree
<1>6. Pending(d)' = Pending(d) \cup {new}
      /\ \A e \in Device : e # d => Pending(e)' = Pending(e)
  <2>1. mutations[d] \in Seq(Account) /\ mutations \in [Device -> Seq(Account)]
    BY <1>1 DEF FirestoreTypeOK
  <2> HIDE DEF new
  <2>2. mutations'[d] = Append(mutations[d], new)
        /\ \A e \in Device : e # d => mutations'[e] = mutations[e]
    BY <1>1, <2>1
  <2>. QED  BY <1>3, <2>1, <2>2, AppendElements DEF Pending
<1>7. Own(d)' = Own(d) \cup {new} /\ \A e \in Device : e # d => Own(e)' = Own(e)
  <2> HIDE DEF new, v
  <2>. QED  BY <1>1, <1>3, <1>4, <1>6 DEF Own
<1> HIDE DEF new, v
<1>8. PendingOwned'
  BY <1>3, <1>4, <1>6 DEF PendingOwned, PatientInv, DocumentsInv
<1>9. OwnInView'
  <2>1. \A e \in Device : LocalDocuments(e) \subseteq LocalDocuments(e)'
    BY <1>1, <1>6 DEF LocalDocuments
  <2>. QED  BY <1>1, <2>1 DEF OwnInView, PatientInv, DocumentsInv
<1>10. OwnNamesDiffer'
  BY <1>5, <1>7 DEF OwnNamesDiffer, PatientInv, DocumentsInv
<1>. QED  BY <1>8, <1>9, <1>10

\* The callback of a query.
LEMMA CallbackKeepsInv ==
    ASSUME PatientInv, NEW d \in Device, Callback(d)
    PROVE  DocumentsInv' /\ RequestsInv'
<1> DEFINE answer == Head(callbacks[d])
           v == answer.request.view
<1>1. /\ TypeOK /\ FirestoreTypeOK(Request, Account)
      /\ CallbackRuns(d) /\ UNCHANGED <<server, cache, listens>>
  BY DEF PatientInv, TypeOK, Callback, AccountCreated, LateMismatch, UsernameRefused,
         QueryFailed
<1>2. answer \in AnswerOf(Request, Account) /\ answer.request \in Outstanding(d)
  BY <1>1, CallbackRunsType, CallbackOutstanding
<1>3. v \in View /\ Host(v) = d
  BY <1>2 DEF AnswerOf, Request, PatientInv, RequestsInv, RequestsShown
<1>4. /\ Outstanding(d)' = {} /\ callbacks'[d] = <<>>
      /\ \A e \in Device : OneRequest(e)'
      /\ \A e \in Device : Outstanding(e)' \subseteq Outstanding(e)
  <2>1. \A e \in Device : OneRequest(e)
    BY DEF PatientInv, RequestsInv, OneAtATime
  <2>. QED  BY <1>1, <2>1, CallbackOneRequest, CallbackOutstanding
<1>5. \A e \in Device \ {d} : Own(e)' = Own(e) /\ callbacks'[e] = callbacks[e]
  <2>1. \A e \in Device \ {d} : mutations'[e] = mutations[e] /\ callbacks'[e] = callbacks[e]
    BY <1>1 DEF FirestoreTypeOK, Callback, AccountCreated, AddDocument, LateMismatch,
                UsernameRefused, QueryFailed, CallbackRuns
  <2>. QED  BY <1>1, <2>1 DEF Own, Pending
<1>6. AnswersComplete'
  <2>1. SUFFICES ASSUME NEW e \in Device, NEW a \in ToSet(callbacks'[e])
                 PROVE  Complete(a, Own(e)')
    BY DEF AnswersComplete, Complete
  <2>2. e # d
    BY <1>4, <2>1 DEF ToSet
  <2>. QED  BY <1>5, <2>1, <2>2 DEF AnswersComplete, PatientInv, DocumentsInv, Complete
<1>7. PendingOwned' /\ OwnInView' /\ OwnNamesDiffer'
  <2>1. CASE AccountCreated(d)
    BY <2>1, WriteKeepsInv
  <2>2. CASE UNCHANGED mutations
    BY <1>1, <2>2 DEF PatientInv, DocumentsInv, PendingOwned, OwnInView, OwnNamesDiffer, Own,
                      Pending, LocalDocuments
  <2>. QED  BY <2>1, <2>2 DEF Callback, LateMismatch, UsernameRefused, QueryFailed
<1>8. /\ \A w \in View : screen'[w] = "shown" => screen[w] = "shown"
      /\ \A w \in View \ {v} : screen'[w] = screen[w] /\ state'[w] = state[w]
  <2>1. screen \in [View -> {"unopened", "shown", "closed"}] /\ state \in [View -> ViewState]
    BY <1>1 DEF TypeOK
  <2>. QED  BY <1>3, <2>1 DEF Callback, AccountCreated, LateMismatch, UsernameRefused,
                              QueryFailed, accountsVars
<1>9. OneAtATime' /\ OneShown'
  BY <1>4, <1>8 DEF OneAtATime, OneShown, PatientInv, RequestsInv
<1>10. RequestsShown'
  <2>1. SUFFICES ASSUME NEW e \in Device, NEW request \in Outstanding(e)'
                 PROVE  /\ Host(request.view) = e
                        /\ screen'[request.view] = "shown"
                        /\ state'[request.view].username = request.query.Username
    BY DEF RequestsShown
  <2>2. e # d /\ request \in Outstanding(e)
    BY <1>4, <2>1
  <2>3. /\ Host(request.view) = e /\ screen[request.view] = "shown"
        /\ state[request.view].username = request.query.Username
        /\ request.view \in View
    BY <1>1, <2>2, AccountsTyped DEF PatientInv, RequestsInv, RequestsShown, Request
  <2>4. request.view # v
    BY <1>3, <2>2, <2>3
  <2>. QED  BY <1>8, <2>3, <2>4
<1>. QED  BY <1>6, <1>7, <1>9, <1>10 DEF DocumentsInv, RequestsInv

\* The end of the process.
LEMMA RestartKeepsInv ==
    ASSUME PatientInv, NEW d \in Device, Restart(d)
    PROVE  DocumentsInv' /\ RequestsInv'
<1>1. /\ TypeOK /\ UNCHANGED <<server, cache, mutations, state>>
      /\ listens' = [listens EXCEPT ![d] = {}]
      /\ callbacks' = [callbacks EXCEPT ![d] = <<>>]
      /\ screen' = [v \in View |->
            IF Host(v) = d /\ screen[v] = "shown" THEN "closed" ELSE screen[v]]
  BY DEF PatientInv, Restart, LibraryRestart
<1>2. \A e \in Device : Pending(e)' = Pending(e) /\ Own(e)' = Own(e)
                        /\ LocalDocuments(e)' = LocalDocuments(e)
  BY <1>1 DEF Pending, Own, LocalDocuments
<1>3. /\ callbacks'[d] = <<>> /\ listens'[d] = {}
      /\ \A e \in Device \ {d} : callbacks'[e] = callbacks[e] /\ listens'[e] = listens[e]
  BY <1>1 DEF TypeOK, FirestoreTypeOK
<1>4. DocumentsInv'
  <2>1. AnswersComplete'
    <3>1. SUFFICES ASSUME NEW e \in Device, NEW a \in ToSet(callbacks'[e])
                   PROVE  Complete(a, Own(e))
      BY <1>2 DEF AnswersComplete, Complete
    <3>2. e # d
      BY <1>3, <3>1 DEF ToSet
    <3>. QED  BY <1>3, <3>1, <3>2 DEF AnswersComplete, PatientInv, DocumentsInv
  <2>. QED  BY <1>1, <1>2, <2>1 DEF PatientInv, DocumentsInv, PendingOwned, OwnInView,
                                    OwnNamesDiffer
<1>5. OneAtATime'
  <2>1. ASSUME NEW e \in Device PROVE OneRequest(e)'
    <3>1. OneRequest(e)
      BY DEF PatientInv, RequestsInv, OneAtATime
    <3>2. CASE e = d
      BY <1>3, <3>2 DEF OneRequest
    <3>3. CASE e # d
      BY <1>3, <3>1, <3>3 DEF OneRequest
    <3>. QED  BY <3>2, <3>3
  <2>. QED  BY <2>1 DEF OneAtATime
<1>6. OneShown'
  BY <1>1 DEF OneShown, PatientInv, RequestsInv
<1>7. RequestsShown'
  <2>1. SUFFICES ASSUME NEW e \in Device, NEW request \in Outstanding(e)'
                 PROVE  /\ Host(request.view) = e
                        /\ screen'[request.view] = "shown"
                        /\ state'[request.view].username = request.query.Username
    BY DEF RequestsShown
  <2>2. e # d /\ request \in Outstanding(e)
    BY <1>3, <2>1 DEF Outstanding, ToSet
  <2>3. /\ Host(request.view) = e /\ screen[request.view] = "shown"
        /\ state[request.view].username = request.query.Username
        /\ request.view \in View
    BY <1>1, <2>2, AccountsTyped DEF PatientInv, RequestsInv, RequestsShown, Request
  <2>. QED  BY <1>1, <2>2, <2>3
<1>. QED  BY <1>4, <1>5, <1>6, <1>7 DEF RequestsInv

\* Every step of a system of patient users keeps the invariant.
LEMMA NextPatientInv == (Patient => PatientInv) /\ [Next]_vars => (Patient => PatientInv)'
<1> SUFFICES ASSUME Patient, PatientInv, [Next]_vars PROVE PatientInv'
  BY DEF Next, vars, Patient
<1>1. TypeOK'
  BY NextTypeOK DEF PatientInv
<1>2. ASSUME NEW v \in View, Open(v) \/ Leave(v) \/ Edit(v) PROVE DocumentsInv' /\ RequestsInv'
  BY <1>2, UserKeepsInv
<1>3. ASSUME NEW v \in View, processInput(v) PROVE DocumentsInv' /\ RequestsInv'
  BY <1>3, TapKeepsInv
<1>4. ASSUME NEW d \in Device, Callback(d) PROVE DocumentsInv' /\ RequestsInv'
  BY <1>4, CallbackKeepsInv
<1>5. ASSUME NEW d \in Device, Restart(d) PROVE DocumentsInv' /\ RequestsInv'
  BY <1>5, RestartKeepsInv
<1>6. ASSUME NEW d \in Device, FirestoreStep(d), UNCHANGED accountsVars
      PROVE  DocumentsInv' /\ RequestsInv'
  BY <1>6, StepDocuments, StepRequests DEF PatientInv
<1>7. ASSUME UNCHANGED vars PROVE DocumentsInv' /\ RequestsInv'
  <2>1. \A e \in Device : /\ Pending(e)' = Pending(e) /\ Own(e)' = Own(e)
                          /\ LocalDocuments(e)' = LocalDocuments(e)
                          /\ Outstanding(e)' = Outstanding(e)
    BY <1>7 DEF vars, firestoreVars, Pending, Own, LocalDocuments, Outstanding
  <2>2. DocumentsInv'
    BY <1>7, <2>1 DEF vars, firestoreVars, PatientInv, DocumentsInv, PendingOwned, OwnInView,
                      AnswersComplete, Complete, OwnNamesDiffer
  <2>3. RequestsInv'
    BY <1>7, <2>1 DEF vars, firestoreVars, accountsVars, PatientInv, RequestsInv, OneAtATime,
                      OneRequest, OneShown, RequestsShown
  <2>. QED  BY <2>2, <2>3
<1>. QED
  BY <1>1, <1>2, <1>3, <1>4, <1>5, <1>6, <1>7 DEF Next, PatientInv

\* Among patient users no device ever creates two accounts with one user name
\* (CreateAccountView.swift:47-79), however many devices, views and taps there are.
THEOREM AccountsOnePerDevice == Spec => []OneAccountPerDevice
<1>1. Init => (Patient => PatientInv)
  BY InitPatientInv
<1>2. (Patient => PatientInv) /\ [Next]_vars => (Patient => PatientInv)'
  BY NextPatientInv
<1>3. (Patient => PatientInv) => OneAccountPerDevice
  BY OwnNames DEF PatientInv, DocumentsInv, OneAccountPerDevice
<1>. QED  BY <1>1, <1>2, <1>3, PTL DEF Spec

-----------------------------------------------------------------------------
(***************************************************************************)
(* Formats.  The form is checked at the tap and read when the answer is   *)
(* handled; between the two a patient user leaves it alone.               *)
(***************************************************************************)
WellFormed(account) ==
    /\ account.data.Username \in ValidUsername
    /\ \E p \in ValidPassword : account.data.Password = Hash[p]

\* The form of a view that waits has passed the checks.
FormsChecked ==
    \A e \in Device : \A request \in Outstanding(e) :
        /\ state[request.view].username \in ValidUsername
        /\ state[request.view].password \in ValidPassword

FormsInv == FormsChecked /\ \A account \in Accounts \ Existing : WellFormed(account)

\* The account of a form that has passed the checks is well formed.
LEMMA NewWellFormed ==
    ASSUME PatientInv, FormsChecked, NEW d \in Device, AccountCreated(d)
    PROVE  WellFormed(NewAccount(Head(callbacks[d])))
<1> DEFINE answer == Head(callbacks[d])
           v == answer.request.view
<1>1. FirestoreTypeOK(Request, Account) /\ CallbackRuns(d) /\ UNCHANGED listens
  BY DEF PatientInv, TypeOK, AccountCreated
<1>2. answer.request \in Outstanding(d)
  BY <1>1, CallbackOutstanding
<1>3. state[v].username \in ValidUsername /\ state[v].password \in ValidPassword
  BY <1>2 DEF FormsChecked
<1>. QED  BY <1>3 DEF NewAccount, WellFormed

\* What a step of the library does to the server and the queues.
LEMMA StepQueue ==
    ASSUME FirestoreTypeOK(Request, Account), NEW d \in Device, FirestoreStep(d)
    PROVE  \/ UNCHANGED <<server, mutations>>
           \/ /\ UNCHANGED mutations
              /\ \E written \in Pending(d) : server' = server \cup {written}
           \/ /\ mutations[d] # <<>> /\ UNCHANGED server
              /\ mutations' = [mutations EXCEPT ![d] = Tail(@)]
<1>1. CASE CommitWrite(d)
  <2>1. PICK i \in DOMAIN mutations[d] : server' = server \cup {mutations[d][i]}
    BY <1>1 DEF CommitWrite
  <2>2. mutations[d][i] \in Pending(d)
    BY DEF Pending, ToSet, FirestoreTypeOK
  <2>. QED  BY <1>1, <2>1, <2>2 DEF CommitWrite
<1>2. CASE ~ CommitWrite(d)
  BY <1>2 DEF FirestoreStep, RaiseSynced, GoOffline, LeaveOffline, ListenFails,
     AcknowledgeBatch, RejectBatch
<1>. QED  BY <1>1, <1>2

\* A callback that writes an account adds it.
LEMMA CreatedAccount ==
    ASSUME TypeOK, NEW d \in Device, AccountCreated(d)
    PROVE  Accounts' = Accounts \cup {NewAccount(Head(callbacks[d]))}
<1>0. FirestoreTypeOK(Request, Account)
  BY DEF TypeOK
<1> DEFINE new == NewAccount(Head(callbacks[d]))
<1>1. /\ mutations' = [mutations EXCEPT ![d] = Append(@, new)] /\ UNCHANGED server
      /\ mutations \in [Device -> Seq(Account)] /\ CallbackRuns(d)
  BY <1>0 DEF AccountCreated, AddDocument, FirestoreTypeOK
<1>2. new \in Account
  BY <1>0, <1>1, CallbackRunsType, NewAccountType
<1> HIDE DEF new
<1>3. /\ mutations'[d] = Append(mutations[d], new) /\ mutations[d] \in Seq(Account)
      /\ \A e \in Device : e # d => mutations'[e] = mutations[e]
  BY <1>1
<1>4. ToSet(mutations'[d]) = ToSet(mutations[d]) \cup {new}
  BY <1>2, <1>3, AppendElements
<1>5. /\ Pending(d)' = Pending(d) \cup {new}
      /\ \A e \in Device : e # d => Pending(e)' = Pending(e)
  BY <1>3, <1>4 DEF Pending
<1>. QED  BY <1>1, <1>5 DEF Accounts, new

\* Nothing else but a step of the library touches the server or the queues.
LEMMA QueuesStep ==
    ASSUME [Next]_vars
    PROVE  \/ UNCHANGED <<server, mutations>>
           \/ \E d \in Device : AccountCreated(d) \/ FirestoreStep(d)
BY DEF Next, vars, firestoreVars, Open, Leave, Edit, processInput, GetDocuments, Callback,
   LateMismatch, UsernameRefused, QueryFailed, Restart, LibraryRestart

\* What a step adds to the accounts.
LEMMA AccountsStep ==
    ASSUME TypeOK, [Next]_vars
    PROVE  \/ Accounts' \subseteq Accounts
           \/ \E d \in Device : /\ AccountCreated(d)
                               /\ Accounts' = Accounts \cup {NewAccount(Head(callbacks[d]))}
<1>0. FirestoreTypeOK(Request, Account)
  BY DEF TypeOK
<1>1. CASE UNCHANGED <<server, mutations>>
  BY <1>1 DEF Accounts, Pending
<1>2. ASSUME NEW d \in Device, FirestoreStep(d)
      PROVE  Accounts' \subseteq Accounts
  <2>1. \/ UNCHANGED <<server, mutations>>
        \/ UNCHANGED mutations /\ \E written \in Pending(d) : server' = server \cup {written}
        \/ /\ mutations[d] # <<>> /\ UNCHANGED server
           /\ mutations' = [mutations EXCEPT ![d] = Tail(@)]
    BY <1>0, <1>2, StepQueue
  <2>2. CASE UNCHANGED mutations /\ \E written \in Pending(d) : server' = server \cup {written}
    BY <2>2 DEF Accounts, Pending
  <2>3. CASE /\ mutations[d] # <<>> /\ UNCHANGED server
             /\ mutations' = [mutations EXCEPT ![d] = Tail(@)]
    <3>1. /\ mutations'[d] = Tail(mutations[d]) /\ mutations[d] \in Seq(Account)
          /\ \A e \in Device : e # d => mutations'[e] = mutations[e]
      BY <1>0, <2>3 DEF FirestoreTypeOK
    <3>2. ToSet(mutations'[d]) \subseteq ToSet(mutations[d])
      BY <2>3, <3>1, TailElements
    <3>3. \A e \in Device : Pending(e)' \subseteq Pending(e)
      BY <3>1, <3>2 DEF Pending
    <3>. QED  BY <2>3, <3>3 DEF Accounts
  <2>4. CASE UNCHANGED <<server, mutations>>
    BY <2>4 DEF Accounts, Pending
  <2>. QED  BY <2>1, <2>2, <2>3, <2>4
<1>. QED  BY <1>1, <1>2, CreatedAccount, QueuesStep

\* The form of a view that waits keeps its texts.
LEMMA FormsStay ==
    ASSUME Patient, PatientInv, [Next]_vars, NEW e \in Device, NEW request \in Outstanding(e)
    PROVE  /\ state'[request.view].username = state[request.view].username
           /\ state'[request.view].password = state[request.view].password
<1> DEFINE w == request.view
<1>1. /\ TypeOK /\ state \in [View -> ViewState] /\ w \in View
      /\ Host(w) = e /\ screen[w] = "shown"
  BY AccountsTyped DEF PatientInv, TypeOK, RequestsInv, RequestsShown, Request
<1>2. ASSUME NEW v \in View, Edit(v)
      PROVE  state'[w] = state[w]
  <2>1. v # w
    BY <1>1, <1>2, UsableIdle DEF Edit, PatientInv
  <2>. QED  BY <1>1, <1>2, <2>1 DEF Edit
<1>3. ASSUME NEW v \in View, processInput(v)
      PROVE  /\ state'[w].username = state[w].username
             /\ state'[w].password = state[w].password
  BY <1>1, <1>3, CheckedType DEF processInput
<1>4. ASSUME NEW d \in Device, Callback(d)
      PROVE  /\ state'[w].username = state[w].username
             /\ state'[w].password = state[w].password
  <2> DEFINE v == Head(callbacks[d]).request.view
  <2>1. \/ UNCHANGED state
        \/ state' = [state EXCEPT ![v].displayPasswordsMatchError = TRUE]
        \/ state' = [state EXCEPT ![v].displayUsernameError = TRUE]
    BY <1>4 DEF Callback, AccountCreated, LateMismatch, UsernameRefused, QueryFailed,
       accountsVars
  <2> HIDE DEF v
  <2>2. state[w] \in ViewState
    BY <1>1
  <2>3. /\ [state[w] EXCEPT !.displayPasswordsMatchError = TRUE].username = state[w].username
        /\ [state[w] EXCEPT !.displayPasswordsMatchError = TRUE].password = state[w].password
        /\ [state[w] EXCEPT !.displayUsernameError = TRUE].username = state[w].username
        /\ [state[w] EXCEPT !.displayUsernameError = TRUE].password = state[w].password
    BY <2>2 DEF ViewState
  <2>. QED  BY <1>1, <2>1, <2>3
<1>5. \/ UNCHANGED state
      \/ \E v \in View : Edit(v) \/ processInput(v)
      \/ \E d \in Device : Callback(d)
  BY DEF Next, vars, accountsVars, Open, Leave, Restart
<1>. QED  BY <1>2, <1>3, <1>4, <1>5

\* A request that a step makes is of a form that has passed the checks.
LEMMA NewRequestChecked ==
    ASSUME Patient, PatientInv, [Next]_vars,
           NEW e \in Device, NEW request \in Outstanding(e)', request \notin Outstanding(e)
    PROVE  /\ state'[request.view].username \in ValidUsername
           /\ state'[request.view].password \in ValidPassword
<1>0. TypeOK /\ FirestoreTypeOK(Request, Account) /\ \A d \in Device : OneRequest(d)
  BY DEF PatientInv, TypeOK, RequestsInv, OneAtATime
<1>1. ~ UNCHANGED <<listens, callbacks>>
  BY DEF Outstanding
<1>2. ASSUME NEW d \in Device, Callback(d)
      PROVE  FALSE
  <2>1. CallbackRuns(d) /\ UNCHANGED listens
    BY <1>2 DEF Callback, AccountCreated, LateMismatch, UsernameRefused, QueryFailed
  <2>. QED  BY <1>0, <2>1, CallbackOutstanding
<1>3. ASSUME NEW d \in Device, Restart(d)
      PROVE  FALSE
  <2>1. /\ callbacks'[d] = <<>> /\ listens'[d] = {}
        /\ \A f \in Device \ {d} : callbacks'[f] = callbacks[f] /\ listens'[f] = listens[f]
    BY <1>0, <1>3 DEF Restart, LibraryRestart, FirestoreTypeOK
  <2>. QED  BY <2>1 DEF Outstanding, ToSet
<1>4. ASSUME NEW d \in Device, FirestoreStep(d)
      PROVE  FALSE
  BY <1>0, <1>4, StepOutstanding
<1>5. ASSUME NEW v \in View, processInput(v)
      PROVE  /\ state'[request.view].username \in ValidUsername
             /\ state'[request.view].password \in ValidPassword
  <2> DEFINE d == Host(v)
             new == UsernameRequest(v, taps[Host(v)] + 1)
  <2>1. /\ taps[d] < MaxTaps /\ GetDocuments(d, <<new>>)
    BY <1>0, <1>1, <1>5, QuerySent DEF firestoreVars
  <2>2. d \in Device /\ new \in Request /\ <<new>> \in Seq(Request) /\ ToSet(<<new>>) = {new}
    BY <1>0, <2>1, HostType, UsernameRequestType
  <2>3. new.view = v
    BY DEF UsernameRequest
  <2>4. Outstanding(e)' \subseteq Outstanding(e) \cup (IF e = d THEN {new} ELSE {})
    <3> HIDE DEF d, new
    <3>. QED  BY <1>0, <2>1, <2>2, GetDocumentsOutstanding
  <2>5. request.view = v
    BY <2>3, <2>4
  <2>6. /\ state[v] \in ViewState /\ state'[v] = Checked(state[v])
        /\ ~ state'[v].displayPasswordFormatError /\ ~ state'[v].displayUsernameFormatError
    BY <1>0, <1>1, <1>5 DEF processInput, TypeOK, firestoreVars
  <2>. QED  BY <2>5, <2>6, CheckedType
<1>6. \/ UNCHANGED <<listens, callbacks>>
      \/ \E v \in View : processInput(v)
      \/ \E d \in Device : Callback(d) \/ Restart(d) \/ FirestoreStep(d)
  BY DEF Next, vars, firestoreVars, Open, Leave, Edit
<1>. QED  BY <1>1, <1>2, <1>3, <1>4, <1>5, <1>6

\* Every step of a system of patient users keeps the formats.
LEMMA FormsStep ==
    ASSUME Patient, PatientInv, FormsInv, [Next]_vars
    PROVE  FormsInv'
<1>1. FormsChecked'
  <2> SUFFICES ASSUME NEW e \in Device, NEW request \in Outstanding(e)'
               PROVE  /\ state'[request.view].username \in ValidUsername
                      /\ state'[request.view].password \in ValidPassword
    BY DEF FormsChecked
  <2>1. CASE request \in Outstanding(e)
    BY <2>1, FormsStay DEF FormsInv, FormsChecked
  <2>2. CASE request \notin Outstanding(e)
    BY <2>2, NewRequestChecked
  <2>. QED  BY <2>1, <2>2
<1>2. \A account \in Accounts' : account \in Accounts \/ WellFormed(account)
  BY AccountsStep, NewWellFormed DEF FormsInv, PatientInv
<1>. QED  BY <1>1, <1>2 DEF FormsInv, WellFormed

\* The two invariants of patient users hold throughout.
LEMMA PatientInvariant == Spec => [](Patient => PatientInv /\ FormsInv)
<1>1. Init => (Patient => PatientInv /\ FormsInv)
  <2> SUFFICES ASSUME Init PROVE PatientInv /\ FormsInv
    OBVIOUS
  <2>1. \A e \in Device : Outstanding(e) = {} /\ Pending(e) = {}
    BY DEF Init, FirestoreInit, Outstanding, Pending, ToSet
  <2>2. Accounts = Existing
    BY <2>1 DEF Accounts, Init, FirestoreInit
  <2>. QED  BY <2>1, <2>2, InitPatientInv DEF FormsInv, FormsChecked
<1>2. (Patient => PatientInv /\ FormsInv) /\ [Next]_vars => (Patient => PatientInv /\ FormsInv)'
  <2>1. [Next]_vars => (Patient' <=> Patient)
    BY DEF Next, vars, Patient
  <2>. QED  BY <2>1, NextPatientInv, FormsStep
<1>. QED  BY <1>1, <1>2, PTL DEF Spec

\* An account made by a patient user has a user name and a password of the required
\* format (CreateAccountView.swift:46 and 68-75).
THEOREM AccountsAreWellFormed == Spec => []AccountsWellFormed
<1>1. (Patient => PatientInv /\ FormsInv) => AccountsWellFormed
  BY DEF FormsInv, WellFormed, AccountsWellFormed
<1>. QED  BY <1>1, PatientInvariant, PTL

-----------------------------------------------------------------------------
(***************************************************************************)
(* The refinement.  Of the committed accounts a device knows those it     *)
(* caches, its own among them.  The only step that adds to them while an  *)
(* answer waits for its callback is the one that raises that answer, so   *)
(* the answer is complete about all the device knows or has queued.       *)
(***************************************************************************)
Known == [d \in Device |-> LocalDocuments(d) \cap server]
Registrations == [d \in Device |-> Pending(d) \ server]

CacheCommitted == \A e \in Device : cache[e] \subseteq server

\* An answer that waits for its callback holds all of that name that its device knows.
AnswersKnown ==
    \A e \in Device : \A answer \in ToSet(callbacks[e]) : Complete(answer, LocalDocuments(e))

KnownInv == CacheCommitted /\ AnswersKnown

\* The names of Directory, in terms of the variables of Accounts.
LEMMA DirectoryNames ==
    /\ Directory!Init <=> /\ server = Existing
                          /\ Known \in [Device -> SUBSET Existing]
                          /\ Registrations = [d \in Device |-> {}]
    /\ \A d \in Device : Directory!Register(d) <=>
          \E account \in {one \in Account : WellFormed(one)} :
              /\ account.id[1] = d
              /\ ~ \E one \in Known[d] \cup Registrations[d] :
                      one.data.Username = account.data.Username
              /\ Registrations' = [Registrations EXCEPT ![d] = @ \cup {account}]
              /\ UNCHANGED <<server, Known>>
    /\ \A d \in Device : Directory!Commit(d) <=>
          \E account \in Registrations[d] :
              /\ server' = server \cup {account}
              /\ Known' = [Known EXCEPT ![d] = @ \cup {account}]
              /\ Registrations' = [Registrations EXCEPT ![d] = @ \ {account}]
    /\ \A d \in Device : Directory!Refuse(d) <=>
          \E account \in Registrations[d] :
              /\ Registrations' = [Registrations EXCEPT ![d] = @ \ {account}]
              /\ UNCHANGED <<server, Known>>
    /\ \A d \in Device : Directory!Learn(d) <=>
          \E found \in SUBSET server :
              /\ Known' = [Known EXCEPT ![d] = @ \cup found]
              /\ UNCHANGED <<server, Registrations>>
BY DEF Known, Registrations, WellFormed, Directory!Init, Directory!Register, Directory!Taken,
       Directory!Commit, Directory!Refuse, Directory!Learn

\* What a step of the library does to what the devices hold.
LEMMA StepLocal ==
    ASSUME TypeOK, CacheCommitted, NEW d \in Device, FirestoreStep(d)
    PROVE  /\ \A e \in Device \ {d} :
                 LocalDocuments(e)' = LocalDocuments(e) /\ Pending(e)' = Pending(e)
           /\ \/ RaiseSynced(d)
              \/ LocalDocuments(d)' \subseteq LocalDocuments(d)
           /\ CacheCommitted'
<1>1. /\ mutations \in [Device -> Seq(Account)] /\ mutations[d] \in Seq(Account)
      /\ cache \in [Device -> SUBSET Account]
  BY DEF TypeOK, FirestoreTypeOK
<1>2. mutations[d] # <<>> =>
        /\ Head(mutations[d]) \in Pending(d)
        /\ ToSet(Tail(mutations[d])) \subseteq Pending(d)
  BY <1>1, TailElements DEF Pending
<1>3. CASE RaiseSynced(d)
  BY <1>1, <1>3 DEF RaiseSynced, CacheCommitted, LocalDocuments, Pending
<1>4. CASE AcknowledgeBatch(d)
  BY <1>1, <1>2, <1>4 DEF AcknowledgeBatch, CacheCommitted, LocalDocuments, Pending
<1>5. CASE RejectBatch(d)
  BY <1>1, <1>2, <1>5 DEF RejectBatch, CacheCommitted, LocalDocuments, Pending
<1>6. CASE UNCHANGED <<cache, mutations>> /\ server \subseteq server'
  BY <1>6 DEF CacheCommitted, LocalDocuments, Pending
<1>. QED
  BY <1>3, <1>4, <1>5, <1>6
     DEF FirestoreStep, GoOffline, LeaveOffline, ListenFails, CommitWrite

\* A step of the library keeps the answers complete.
LEMMA StepKnown ==
    ASSUME PatientInv, KnownInv, NEW d \in Device, FirestoreStep(d)
    PROVE  KnownInv'
<1>1. TypeOK /\ FirestoreTypeOK(Request, Account) /\ CacheCommitted
  BY DEF PatientInv, TypeOK, KnownInv
<1>2. ASSUME NEW e \in Device, NEW answer \in ToSet(callbacks[e]) \cup ToSet(callbacks'[e]),
             answer \in ToSet(callbacks[e])
                \/ (e = d /\ \E request \in Request : answer \in AnswersTo(d, request))
      PROVE  Complete(answer, LocalDocuments(e))
  <2>1. LocalDocuments(d) \subseteq server \cup Pending(d)
    BY <1>1 DEF CacheCommitted, LocalDocuments
  <2>2. CASE answer \in ToSet(callbacks[e])
    BY <2>2 DEF KnownInv, AnswersKnown
  <2>3. CASE e = d /\ \E request \in Request : answer \in AnswersTo(d, request)
    BY <2>1, <2>3, NewAnswers
  <2>. QED  BY <1>2, <2>2, <2>3
<1>3. ASSUME NEW e \in Device, NEW answer \in ToSet(callbacks'[e]),
             LocalDocuments(e)' \subseteq LocalDocuments(e)
      PROVE  Complete(answer, LocalDocuments(e)')
  <2>1. Complete(answer, LocalDocuments(e))
    BY <1>1, <1>2, StepNewAnswers
  <2>. QED  BY <1>3, <2>1 DEF Complete
<1>4. ASSUME RaiseSynced(d), NEW answer \in ToSet(callbacks'[d])
      PROVE  Complete(answer, LocalDocuments(d)')
  <2>1. PICK request \in listens[d] :
          /\ cache' = [cache EXCEPT ![d] =
                        @ \cup {document \in server : Matches(request.query, document)}]
          /\ callbacks' = [callbacks EXCEPT ![d] =
                        Append(@, Answer(request, server \cup Pending(d)))]
    BY <1>4 DEF RaiseSynced
  <2>2. callbacks[d] = <<>>
    BY <2>1 DEF PatientInv, RequestsInv, OneAtATime, OneRequest
  <2>3. answer = Answer(request, server \cup Pending(d))
    <3> DEFINE new == Answer(request, server \cup Pending(d))
    <3>1. callbacks'[d] = Append(<<>>, new)
      BY <1>1, <2>1, <2>2 DEF FirestoreTypeOK
    <3>. HIDE DEF new
    <3>2. Append(<<>>, new) = <<new>>
      OBVIOUS
    <3>3. ToSet(<<new>>) = {new}
      BY DEF ToSet
    <3>. QED  BY <1>4, <3>1, <3>2, <3>3 DEF new
  <2>4. LocalDocuments(d)' \subseteq server \cup Pending(d)
    BY <1>1, <1>4, <2>1
       DEF CacheCommitted, LocalDocuments, Pending, FirestoreTypeOK, RaiseSynced
  <2>. QED  BY <2>3, <2>4 DEF Complete, Answer
<1>5. AnswersKnown'
  <2>1. ASSUME NEW e \in Device, NEW answer \in ToSet(callbacks'[e])
        PROVE  Complete(answer, LocalDocuments(e)')
    BY <1>1, <1>3, <1>4, StepLocal
  <2>. QED  BY <2>1 DEF AnswersKnown, Complete
<1>. QED  BY <1>1, <1>5, StepLocal DEF KnownInv

\* So does every step of a system of patient users.
LEMMA NextKnown ==
    ASSUME Patient, PatientInv, KnownInv, [Next]_vars
    PROVE  KnownInv'
<1>1. TypeOK /\ FirestoreTypeOK(Request, Account) /\ CacheCommitted
  BY DEF PatientInv, TypeOK, KnownInv
<1>2. ASSUME UNCHANGED <<server, cache, mutations>>,
             \A e \in Device : ToSet(callbacks'[e]) \subseteq ToSet(callbacks[e])
      PROVE  KnownInv'
  BY <1>2 DEF KnownInv, CacheCommitted, AnswersKnown, LocalDocuments, Pending, Complete
<1>3. ASSUME NEW v \in View, processInput(v) PROVE KnownInv'
  <2> DEFINE request == UsernameRequest(v, taps[Host(v)] + 1)
  <2>1. CASE UNCHANGED <<firestoreVars, taps>>
    BY <1>2, <2>1 DEF firestoreVars
  <2>2. CASE taps[Host(v)] < MaxTaps /\ GetDocuments(Host(v), <<request>>)
    <3>1. UNCHANGED <<server, cache, mutations>> /\ Host(v) \in Device
      BY <2>2, HostType DEF GetDocuments
    <3>2. <<request>> \in Seq(Request)
      BY <1>1, <2>2, UsernameRequestType
    <3>. HIDE DEF request
    <3>3. ASSUME NEW e \in Device, NEW answer \in ToSet(callbacks'[e])
          PROVE  Complete(answer, LocalDocuments(e))
      <4> DEFINE d == Host(v)
                 requests == <<request>>
      <4>1. d \in Device /\ requests \in Seq(Request) /\ GetDocuments(d, requests)
        BY <2>2, <3>1, <3>2
      <4>. HIDE DEF d, requests
      <4>2. \/ answer \in ToSet(callbacks[e])
            \/ e = d /\ \E one \in Request : answer \in AnswersTo(d, one)
        BY <1>1, <3>3, <4>1, GetDocumentsNewAnswers
      <4>3. LocalDocuments(e) \subseteq server \cup Pending(e)
        BY <1>1 DEF CacheCommitted, LocalDocuments
      <4>. QED  BY <4>2, <4>3, NewAnswers DEF KnownInv, AnswersKnown
    <3>. QED  BY <3>1, <3>3 DEF KnownInv, CacheCommitted, AnswersKnown, LocalDocuments,
                                Pending, Complete
  <2>. QED  BY <1>1, <1>3, <2>1, <2>2, QuerySent
<1>4. ASSUME NEW d \in Device, Callback(d) PROVE KnownInv'
  <2>1. CallbackRuns(d) /\ UNCHANGED <<server, cache, listens>>
    BY <1>4 DEF Callback, AccountCreated, LateMismatch, UsernameRefused, QueryFailed
  <2>2. callbacks'[d] = <<>>
    BY <1>1, <2>1, CallbackOneRequest DEF PatientInv, RequestsInv, OneAtATime
  <2>3. ASSUME NEW e \in Device \ {d}
        PROVE  callbacks'[e] = callbacks[e] /\ mutations'[e] = mutations[e]
    BY <1>1, <1>4, <2>1 DEF FirestoreTypeOK, Callback, AccountCreated, AddDocument,
                            LateMismatch, UsernameRefused, QueryFailed, CallbackRuns
  <2>4. ASSUME NEW e \in Device, NEW answer \in ToSet(callbacks'[e])
        PROVE  Complete(answer, LocalDocuments(e)')
    <3>1. e # d
      BY <2>2, <2>4 DEF ToSet
    <3>. QED  BY <2>1, <2>3, <2>4, <3>1 DEF KnownInv, AnswersKnown, LocalDocuments, Pending,
                                            Complete
  <2>. QED  BY <2>1, <2>4 DEF KnownInv, CacheCommitted, AnswersKnown, Complete
<1>5. ASSUME NEW d \in Device, Restart(d) PROVE KnownInv'
  <2>1. callbacks' = [callbacks EXCEPT ![d] = <<>>] /\ UNCHANGED <<server, cache, mutations>>
    BY <1>5 DEF Restart, LibraryRestart
  <2>2. \A e \in Device : ToSet(callbacks'[e]) \subseteq ToSet(callbacks[e])
    BY <1>1, <2>1 DEF ToSet, FirestoreTypeOK
  <2>. QED  BY <1>2, <2>1, <2>2
<1>6. ASSUME NEW d \in Device, FirestoreStep(d) PROVE KnownInv'
  BY <1>6, StepKnown
<1>. QED
  BY <1>2, <1>3, <1>4, <1>5, <1>6 DEF Next, vars, firestoreVars, Open, Leave, Edit

\* The invariants of the refinement hold throughout.
LEMMA KnownInvariant == Spec => [](Patient => PatientInv /\ FormsInv /\ KnownInv)
<1>1. Init => KnownInv
  BY DEF Init, FirestoreInit, CreatedBy, KnownInv, CacheCommitted, AnswersKnown, ToSet
<1>2. /\ Patient => PatientInv /\ FormsInv
      /\ Patient => KnownInv
      /\ [Next]_vars
      => (Patient => KnownInv)'
  <2>1. [Next]_vars => (Patient' <=> Patient)
    BY DEF Next, vars, Patient
  <2>. QED  BY <2>1, NextKnown
<1>. QED  BY <1>1, <1>2, PatientInvariant, PTL DEF Spec

\* The callback that writes an account registers it.
LEMMA CreatedRegisters ==
    ASSUME PatientInv, FormsInv, KnownInv, NEW d \in Device, AccountCreated(d)
    PROVE  Directory!Register(d)
<1> DEFINE new == NewAccount(Head(callbacks[d]))
<1>1. /\ TypeOK /\ FirestoreTypeOK(Request, Account) /\ CallbackRuns(d)
      /\ UNCHANGED <<server, cache, listens>>
      /\ mutations' = [mutations EXCEPT ![d] = Append(@, new)]
  BY DEF PatientInv, TypeOK, AccountCreated, AddDocument
<1>2. /\ Head(callbacks[d]) \in AnswerOf(Request, Account)
      /\ Head(callbacks[d]) \in ToSet(callbacks[d])
      /\ Head(callbacks[d]).request \in Outstanding(d)
  BY <1>1, CallbackRunsType, CallbackNoNewAnswers, CallbackOutstanding
<1>3. new \in Account /\ new.id[1] = d
  BY <1>1, <1>2, NewAccountType DEF PatientInv, RequestsInv, RequestsShown
<1>4. WellFormed(new)
  BY NewWellFormed DEF FormsInv
<1>5. \A account \in LocalDocuments(d) : account.data.Username # new.data.Username
  <2>1. LocalDocuments(d) \subseteq Account
    BY <1>1 DEF LocalDocuments, Pending, ToSet, FirestoreTypeOK
  <2>2. Complete(Head(callbacks[d]), LocalDocuments(d))
    BY <1>2 DEF KnownInv, AnswersKnown
  <2>. QED  BY <2>1, <2>2, NameIsFree
<1>. HIDE DEF new
<1>6. new \notin server
  BY <1>3, <1>5 DEF PatientInv, DocumentsInv, OwnInView
<1>7. /\ Pending(d)' = Pending(d) \cup {new}
      /\ \A e \in Device \ {d} : Pending(e)' = Pending(e)
  <2>1. mutations[d] \in Seq(Account) /\ mutations \in [Device -> Seq(Account)]
    BY <1>1 DEF FirestoreTypeOK
  <2>2. mutations'[d] = Append(mutations[d], new)
        /\ \A e \in Device \ {d} : mutations'[e] = mutations[e]
    BY <1>1, <2>1
  <2>. QED  BY <1>3, <2>1, <2>2, AppendElements DEF Pending
<1>8. Registrations' = [Registrations EXCEPT ![d] = @ \cup {new}]
  BY <1>1, <1>6, <1>7 DEF Registrations
<1>9. Known' = Known
  BY <1>1, <1>6, <1>7 DEF Known, LocalDocuments
<1>10. ~ \E one \in Known[d] \cup Registrations[d] : one.data.Username = new.data.Username
  BY <1>5 DEF Known, Registrations, LocalDocuments
<1>. QED  BY <1>1, <1>3, <1>4, <1>8, <1>9, <1>10, DirectoryNames

\* A step of the library commits or refuses an account of its device, lets the device know
\* of others, or changes none of this.
LEMMA LibraryStep ==
    ASSUME PatientInv, KnownInv, NEW d \in Device, FirestoreStep(d)
    PROVE  \/ Directory!Commit(d) \/ Directory!Refuse(d) \/ Directory!Learn(d)
           \/ UNCHANGED <<server, Known, Registrations>>
<1>1. /\ TypeOK /\ CacheCommitted
      /\ mutations \in [Device -> Seq(Account)] /\ mutations[d] \in Seq(Account)
      /\ cache \in [Device -> SUBSET Account]
  BY DEF PatientInv, KnownInv, TypeOK, FirestoreTypeOK
<1>2. \A e \in Device \ {d} : LocalDocuments(e)' = LocalDocuments(e) /\ Pending(e)' = Pending(e)
  BY <1>1, StepLocal
<1>3. mutations[d] # <<>> =>
        /\ Head(mutations[d]) \in Pending(d)
        /\ ToSet(Tail(mutations[d])) \subseteq Pending(d)
        /\ Pending(d) \subseteq {Head(mutations[d])} \cup ToSet(Tail(mutations[d]))
  BY <1>1, TailElements DEF Pending
<1>4. CASE RaiseSynced(d)
  <2>1. PICK request \in listens[d] :
          cache' = [cache EXCEPT ![d] =
                        @ \cup {document \in server : Matches(request.query, document)}]
    BY <1>4 DEF RaiseSynced
  <2>2. UNCHANGED <<server, mutations>>
    BY <1>4 DEF RaiseSynced
  <2> DEFINE found == {document \in server : Matches(request.query, document)}
  <2>3. LocalDocuments(d)' = LocalDocuments(d) \cup found
    BY <1>1, <2>1, <2>2 DEF LocalDocuments, Pending
  <2>4. found \in SUBSET server
    OBVIOUS
  <2>. HIDE DEF found
  <2>5. Known' = [Known EXCEPT ![d] = @ \cup found]
    BY <1>2, <2>2, <2>3, <2>4 DEF Known
  <2>6. Registrations' = Registrations
    BY <2>2 DEF Registrations, Pending
  <2>. QED  BY <2>2, <2>4, <2>5, <2>6, DirectoryNames
<1>5. CASE CommitWrite(d)
  <2>1. PICK i \in DOMAIN mutations[d] : server' = server \cup {mutations[d][i]}
    BY <1>5 DEF CommitWrite
  <2> DEFINE written == mutations[d][i]
  <2>2. written \in Pending(d) /\ UNCHANGED <<cache, mutations>>
    BY <1>1, <1>5 DEF CommitWrite, Pending, ToSet
  <2>3. server' = server \cup {written}
    BY <2>1
  <2>. HIDE DEF written
  <2>4. \A e \in Device : LocalDocuments(e)' = LocalDocuments(e) /\ Pending(e)' = Pending(e)
    BY <2>2 DEF LocalDocuments, Pending
  <2>5. CASE written \in server
    BY <2>3, <2>4, <2>5 DEF Known, Registrations
  <2>6. CASE written \notin server
    <3>1. \A e \in Device \ {d} : written \notin LocalDocuments(e)
      <4>1. \A e \in Device \ {d} : written \notin Pending(e)
        BY <2>2 DEF PatientInv, DocumentsInv, PendingOwned
      <4>. QED  BY <1>1, <2>6, <4>1 DEF LocalDocuments, CacheCommitted
    <3>2. written \in LocalDocuments(d)
      BY <2>2 DEF LocalDocuments
    <3>3. Known' = [Known EXCEPT ![d] = @ \cup {written}]
      BY <2>3, <2>4, <3>1, <3>2 DEF Known
    <3>4. Registrations' = [Registrations EXCEPT ![d] = @ \ {written}]
      BY <2>3, <2>4, <3>1 DEF Registrations, LocalDocuments
    <3>5. written \in Registrations[d]
      BY <2>2, <2>6 DEF Registrations
    <3>. QED  BY <2>3, <3>3, <3>4, <3>5, DirectoryNames
  <2>. QED  BY <2>5, <2>6
<1>6. CASE AcknowledgeBatch(d)
  <2> DEFINE first == Head(mutations[d])
  <2>1. /\ first \in server /\ UNCHANGED server
        /\ cache'[d] = cache[d] \cup {first}
        /\ mutations'[d] = Tail(mutations[d]) /\ mutations[d] # <<>>
    BY <1>1, <1>6 DEF AcknowledgeBatch
  <2>2. first \in Pending(d) /\ Pending(d)' \subseteq Pending(d)
        /\ Pending(d) \subseteq {first} \cup Pending(d)'
    BY <1>3, <2>1 DEF Pending
  <2>. HIDE DEF first
  <2>3. LocalDocuments(d)' = LocalDocuments(d)
    BY <2>1, <2>2 DEF LocalDocuments
  <2>4. Pending(d)' \ server = Pending(d) \ server
    BY <2>1, <2>2
  <2>. QED  BY <1>2, <2>1, <2>3, <2>4 DEF Known, Registrations
<1>7. CASE RejectBatch(d)
  <2> DEFINE first == Head(mutations[d])
  <2>1. /\ first \notin server /\ UNCHANGED <<server, cache>>
        /\ mutations'[d] = Tail(mutations[d]) /\ mutations[d] # <<>>
    BY <1>1, <1>7 DEF RejectBatch
  <2>2. first \in Pending(d) /\ Pending(d)' \subseteq Pending(d)
        /\ Pending(d) \subseteq {first} \cup Pending(d)'
    BY <1>3, <2>1 DEF Pending
  <2>. HIDE DEF first
  <2>3. Known' = Known
    BY <1>2, <2>1, <2>2 DEF Known, LocalDocuments
  <2>4. CASE first \in Pending(d)'
    <3>1. Pending(d)' = Pending(d)
      BY <2>2, <2>4
    <3>. QED  BY <1>2, <2>1, <2>3, <3>1 DEF Registrations
  <2>5. CASE first \notin Pending(d)'
    <3>1. Pending(d)' = Pending(d) \ {first}
      BY <2>2, <2>5
    <3>2. Registrations' = [Registrations EXCEPT ![d] = @ \ {first}]
      BY <1>2, <2>1, <3>1 DEF Registrations
    <3>3. first \in Registrations[d]
      BY <2>1, <2>2 DEF Registrations
    <3>. QED  BY <2>1, <2>3, <3>2, <3>3, DirectoryNames
  <2>. QED  BY <2>4, <2>5
<1>8. CASE UNCHANGED <<server, cache, mutations>>
  BY <1>8 DEF Known, Registrations, LocalDocuments, Pending
<1>. QED
  BY <1>4, <1>5, <1>6, <1>7, <1>8 DEF FirestoreStep, GoOffline, LeaveOffline, ListenFails

\* Every step of a system of patient users is one of the directory, or leaves it alone.
LEMMA DirectoryStep ==
    ASSUME PatientInv, FormsInv, KnownInv, [Next]_vars
    PROVE  Directory!Next \/ UNCHANGED <<server, Known, Registrations>>
<1>1. CASE UNCHANGED <<server, cache, mutations>>
  BY <1>1 DEF Known, Registrations, LocalDocuments, Pending
<1>2. \/ UNCHANGED <<server, cache, mutations>>
      \/ \E d \in Device : AccountCreated(d) \/ FirestoreStep(d)
  BY DEF Next, vars, firestoreVars, Open, Leave, Edit, processInput, GetDocuments, Callback,
     LateMismatch, UsernameRefused, QueryFailed, Restart, LibraryRestart
<1>. QED  BY <1>1, <1>2, CreatedRegisters, LibraryStep DEF Directory!Next

\* For patient users the query, the callback and the queued write of a device amount to one
\* atomic step that checks a name against all that the device knows and takes it, for any
\* number of devices (CreateAccountView.swift:47-79).
THEOREM AccountsImplementDirectory == Spec => ImplementsDirectory
<1>1. Init => (Patient => Directory!Init)
  <2> SUFFICES ASSUME Init PROVE Directory!Init
    OBVIOUS
  <2>1. /\ server = Existing /\ cache = [d \in Device |-> CreatedBy(d)]
        /\ \A e \in Device : Pending(e) = {}
    BY DEF Init, FirestoreInit, Pending, ToSet
  <2>2. Known \in [Device -> SUBSET Existing] /\ Registrations = [d \in Device |-> {}]
    BY <2>1 DEF Known, Registrations, LocalDocuments
  <2>. QED  BY <2>1, <2>2, DirectoryNames
<1>2. (Patient => PatientInv /\ FormsInv /\ KnownInv) /\ [Next]_vars
        => [Patient => Directory!Next]_(Directory!directoryVars)
  <2>1. UNCHANGED <<server, Known, Registrations>> => UNCHANGED Directory!directoryVars
    BY DEF Directory!directoryVars, Known, Registrations
  <2>. QED  BY <2>1, DirectoryStep
<1>. QED  BY <1>1, <1>2, KnownInvariant, PTL DEF Spec, ImplementsDirectory
=============================================================================
