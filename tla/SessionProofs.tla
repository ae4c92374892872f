----------------------------- MODULE SessionProofs -----------------------------
(***************************************************************************)
(* Session is well typed, nobody is at the map without an account, an      *)
(* account takes its credentials, only a late answer leaves one behind a   *)
(* logout or misleads a LoginView, and Session implements SessionRegister, *)
(* whatever the numbers of devices, screens, taps and queries in flight.   *)
(***************************************************************************)
EXTENDS Session, FirestoreProofs

-----------------------------------------------------------------------------

\* The initial state is well typed.
LEMMA InitTypeOK == Init => TypeOK
<1> SUFFICES ASSUME Init PROVE TypeOK
  OBVIOUS
<1>1. FirestoreTypeOK(Request, Account)
  BY SessionAssumption, FirestoreInitType DEF Init
<1>2. BlankLogin \in LoginState /\ BlankMap \in MapState
  BY SessionAssumption DEF BlankLogin, BlankMap, LoginState, MapState
<1>3. 0 \in 0 .. MaxTaps
  BY BoundsAssumption
<1>. QED  BY <1>1, <1>2, <1>3 DEF Init, TypeOK

\* A request made by a tap on Login is a request.
LEMMA LoginRequestType ==
    ASSUME TypeOK, NEW d \in Device, NEW i \in Screen, LogIn(d, i)
    PROVE  /\ LoginRequest(d, i, taps[d] + 1) \in Request
           /\ <<LoginRequest(d, i, taps[d] + 1)>> \in Seq(Request)
           /\ ToSet(<<LoginRequest(d, i, taps[d] + 1)>>) = {LoginRequest(d, i, taps[d] + 1)}
<1>1. login[d][i] \in LoginState /\ taps[d] \in 0 .. MaxTaps /\ taps[d] < MaxTaps
  BY DEF TypeOK, LogIn
<1>2. taps[d] + 1 \in 1 .. MaxTaps
  BY <1>1, BoundsAssumption
<1>3. login[d][i].username \in Username /\ Hash[login[d][i].password] \in Digest
  BY <1>1 DEF LoginState, Digest
<1>4. LoginRequest(d, i, taps[d] + 1) \in Request
  BY <1>2, <1>3 DEF LoginRequest, Request, AccountData
<1>. QED  BY <1>4 DEF ToSet

\* Every step keeps the types.
LEMMA NextTypeOK == TypeOK /\ [Next]_vars => TypeOK'
<1> SUFFICES ASSUME TypeOK, [Next]_vars PROVE TypeOK'
  OBVIOUS
<1>0. FirestoreTypeOK(Request, Account)
  BY DEF TypeOK
<1>1. CASE SignUpElsewhere
  BY <1>1 DEF SignUpElsewhere, TypeOK, FirestoreTypeOK, sessionVars
<1>2. ASSUME NEW d \in Device, NEW i \in Screen, Edit(d, i) PROVE TypeOK'
  <2>1. FirestoreTypeOK(Request, Account)'
    BY <1>0, <1>2 DEF Edit, firestoreVars, FirestoreTypeOK
  <2>2. login \in [Device -> [Screen -> LoginState]]
    BY DEF TypeOK
  <2>3. CASE \E text \in Username : login' = [login EXCEPT ![d][i].username = text]
    <3>1. \A text \in Username : [login[d][i] EXCEPT !.username = text] \in LoginState
      BY <2>2 DEF LoginState
    <3>2. login' \in [Device -> [Screen -> LoginState]]
      BY <2>2, <2>3, <3>1
    <3>. QED  BY <1>2, <2>1, <3>2 DEF Edit, TypeOK
  <2>4. CASE \E text \in Password : login' = [login EXCEPT ![d][i].password = text]
    <3>1. \A text \in Password : [login[d][i] EXCEPT !.password = text] \in LoginState
      BY <2>2 DEF LoginState
    <3>2. login' \in [Device -> [Screen -> LoginState]]
      BY <2>2, <2>4, <3>1
    <3>. QED  BY <1>2, <2>1, <3>2 DEF Edit, TypeOK
  <2>. QED  BY <1>2, <2>3, <2>4 DEF Edit
<1>3. ASSUME NEW d \in Device, NEW i \in Screen, LogIn(d, i) PROVE TypeOK'
  <2>1. GetDocuments(d, <<LoginRequest(d, i, taps[d] + 1)>>)
    BY <1>3 DEF LogIn
  <2>2. FirestoreTypeOK(Request, Account)'
    BY <1>0, <1>3, <2>1, LoginRequestType, GetDocumentsType
  <2>3. taps' \in [Device -> 0 .. MaxTaps]
    BY <1>3, BoundsAssumption DEF LogIn, TypeOK
  <2>. QED  BY <1>3, <2>2, <2>3 DEF LogIn, TypeOK
<1>4. ASSUME NEW d \in Device, NEW i \in Screen, LogOut(d, i) PROVE TypeOK'
  <2>1. FirestoreTypeOK(Request, Account)'
    BY <1>0, <1>4 DEF LogOut, firestoreVars, FirestoreTypeOK
  <2>. login[d][i] \in LoginState /\ map[d][i] \in MapState
    BY DEF TypeOK
  <2>2. [login[d][i] EXCEPT !.isLoggedIn = FALSE] \in LoginState
    BY DEF LoginState
  <2>3. [map[d][i] EXCEPT !.switchToLogin = TRUE] \in MapState
    BY DEF MapState
  <2>. QED  BY <1>4, <2>1, <2>2, <2>3 DEF LogOut, TypeOK
<1>5. ASSUME NEW d \in Device, Callback(d) PROVE TypeOK'
  <2> DEFINE answer == Head(callbacks[d])
  <2>1. CallbackRuns(d) /\ UNCHANGED <<server, cache, mutations, offline, listens, taps, map>>
    BY <1>5 DEF Callback, LoggedIn, LoginRefused, QueryFailed, sessionVars
  <2>2. FirestoreTypeOK(Request, Account)' /\ answer \in AnswerOf(Request, Account)
    BY <1>0, <2>1, CallbackRunsType DEF FirestoreTypeOK
  <2>3. answer.request.view \in Screen /\ answer.documents \in SUBSET Account
    BY <2>2 DEF AnswerOf, Request
  <2>7. login[d][answer.request.view] \in LoginState
    BY <2>3 DEF TypeOK
  <2>4. CASE LoggedIn(d)
    <3>1. AccountAfter(d, answer) \subseteq Username \cup {Guest}
      <4>1. \A document \in Account : document.data.Username \in Username
        BY SessionAssumption DEF AccountData
      <4>. QED  BY <2>3, <4>1 DEF AccountAfter, TypeOK
    <3>2. account' \in [Device -> Username \cup {Guest}]
      BY <2>4, <3>1 DEF LoggedIn, TypeOK
    <3>3. Switched(login[d][answer.request.view]) \in LoginState
      BY <2>7 DEF Switched, LoginState
    <3>4. login' \in [Device -> [Screen -> LoginState]]
      BY <2>3, <2>4, <3>3 DEF LoggedIn, TypeOK
    <3>5. late' \subseteq Device
      BY <2>4 DEF LoggedIn, LateAfter, TypeOK
    <3>. QED  BY <2>1, <2>2, <3>2, <3>4, <3>5 DEF TypeOK
  <2>5. CASE LoginRefused(d)
    <3>1. [login[d][answer.request.view] EXCEPT !.displayLoginError = TRUE] \in LoginState
      BY <2>7 DEF LoginState
    <3>2. login' \in [Device -> [Screen -> LoginState]]
      BY <2>3, <2>5, <3>1 DEF LoginRefused, TypeOK
    <3>. QED  BY <2>1, <2>2, <2>5, <3>2 DEF TypeOK, LoginRefused
  <2>6. CASE QueryFailed(d)
    BY <2>1, <2>2, <2>6 DEF TypeOK, QueryFailed, sessionVars
  <2>. QED  BY <1>5, <2>4, <2>5, <2>6 DEF Callback
<1>6. ASSUME NEW d \in Device, Restart(d) PROVE TypeOK'
  <2>1. FirestoreTypeOK(Request, Account)'
    BY <1>0, <1>6, LibraryRestartType DEF Restart
  <2>. QED
    BY <1>6, <2>1, SessionAssumption
       DEF Restart, TypeOK, BlankLogin, BlankMap, LoginState, MapState
<1>7. ASSUME NEW d \in Device, FirestoreStep(d), UNCHANGED sessionVars PROVE TypeOK'
  BY <1>0, <1>7, FirestoreStepType DEF TypeOK, sessionVars
<1>8. CASE UNCHANGED vars
  BY <1>8 DEF vars, firestoreVars, sessionVars, TypeOK, FirestoreTypeOK
<1>. QED
  BY <1>1, <1>2, <1>3, <1>4, <1>5, <1>6, <1>7, <1>8 DEF Next

\* The variables always have their types.
THEOREM SessionTypeOK == Spec => []TypeOK
<1>1. Init => TypeOK
  BY InitTypeOK
<1>2. TypeOK /\ [Next]_vars => TypeOK'
  BY NextTypeOK
<1>. QED  BY <1>1, <1>2, PTL DEF Spec

-----------------------------------------------------------------------------
(***************************************************************************)
(* Nobody is at the map without an account.  A login answer switches a    *)
(* view only when it leaves an account behind; what takes the account     *)
(* away, Log Out, must therefore hide every map there is.  It does         *)
(* because of Nesting: a LoginView inside the one logged out from cannot   *)
(* have switched yet.                                                      *)
(***************************************************************************)

\* What device d has of the three parts of SessionInv that relate its variables.
NestingOf(d) ==
    /\ \A i \in Screen : login[d][i].switchView => Reached(d, i)
    /\ \A request \in Outstanding(d) : Reached(d, request.view)
MapImpliesAccountOf(d) == \A i \in Screen : MapShown(d, i) => account[d] # Guest

\* An outstanding request was sent from one of the screens.
LEMMA OutstandingView ==
    ASSUME TypeOK, NEW d \in Device, NEW request \in Outstanding(d)
    PROVE  request \in Request /\ request.view \in Screen
<1>1. /\ listens[d] \subseteq Request
      /\ callbacks[d] \in Seq(AnswerOf(Request, Account))
  BY DEF TypeOK, FirestoreTypeOK
<1>2. \A answer \in ToSet(callbacks[d]) : answer \in AnswerOf(Request, Account)
  BY <1>1, ElementsType
<1>3. request \in Request
  BY <1>1, <1>2 DEF Outstanding, AnswerOf
<1>. QED  BY <1>3 DEF Request

\* The same after a step.
LEMMA OutstandingViewNext ==
    ASSUME TypeOK', NEW d \in Device, NEW request \in Outstanding(d)'
    PROVE  request.view \in Screen
<1>1. /\ listens'[d] \subseteq Request
      /\ callbacks'[d] \in Seq(AnswerOf(Request, Account))
  BY DEF TypeOK, FirestoreTypeOK
<1>2. \A answer \in ToSet(callbacks'[d]) : answer \in AnswerOf(Request, Account)
  BY <1>1, ElementsType
<1>3. request \in Request
  BY <1>1, <1>2 DEF Outstanding, AnswerOf
<1>. QED  BY <1>3 DEF Request

\* The nesting of the screens only grows while no view takes its switches back.
LEMMA ReachedGrows ==
    ASSUME NEW d \in Device, NEW i \in Screen, Reached(d, i),
           \A j \in Screen :
              /\ login[d][j].switchView => login'[d][j].switchView
              /\ map[d][j].switchToLogin => map'[d][j].switchToLogin
    PROVE  Reached(d, i)'
<1>1. \A j \in 1 .. i - 1 : j \in Screen
  BY BoundsAssumption DEF Screen
<1>. QED  BY <1>1 DEF Reached

\* A step that opens maps and sends requests only at the end of the nesting keeps it.
LEMMA NestingKept ==
    ASSUME TypeOK, TypeOK', NEW d \in Device, NestingOf(d),
           \A j \in Screen :
              /\ login[d][j].switchView => login'[d][j].switchView
              /\ map[d][j].switchToLogin => map'[d][j].switchToLogin
              /\ login'[d][j].switchView => login[d][j].switchView \/ Reached(d, j),
           \A request \in Outstanding(d)' :
              request \in Outstanding(d) \/ Reached(d, request.view)
    PROVE  NestingOf(d)'
<1>1. ASSUME NEW i \in Screen, login'[d][i].switchView PROVE Reached(d, i)'
  <2>1. Reached(d, i)
    BY <1>1 DEF NestingOf
  <2>. QED  BY <2>1, ReachedGrows
<1>2. ASSUME NEW request \in Outstanding(d)' PROVE Reached(d, request.view)'
  <2>1. Reached(d, request.view)
    BY <1>2 DEF NestingOf
  <2>2. request.view \in Screen
    BY <1>2, OutstandingViewNext
  <2>. QED  BY <2>1, <2>2, ReachedGrows
<1>. QED  BY <1>1, <1>2 DEF NestingOf

\* A device none of whose parts a step touches keeps its part of the invariant.
LEMMA DeviceUntouched ==
    ASSUME NEW d \in Device, NestingOf(d), MapImpliesAccountOf(d),
           login'[d] = login[d], map'[d] = map[d], account'[d] = account[d],
           Outstanding(d)' \subseteq Outstanding(d)
    PROVE  NestingOf(d)' /\ MapImpliesAccountOf(d)'
BY DEF NestingOf, MapImpliesAccountOf, MapShown, Reached

\* Initially every screen is closed and nothing is outstanding.
LEMMA InitInv == Init => \A d \in Device : NestingOf(d) /\ MapImpliesAccountOf(d)
<1> SUFFICES ASSUME Init, NEW d \in Device PROVE NestingOf(d) /\ MapImpliesAccountOf(d)
  OBVIOUS
<1>1. \A i \in Screen : ~ login[d][i].switchView
  BY DEF Init, BlankLogin
<1>2. listens[d] = {} /\ callbacks[d] = <<>>
  BY DEF Init, FirestoreInit
<1>3. Outstanding(d) = {}
  BY <1>2 DEF Outstanding, ToSet
<1>. QED  BY <1>1, <1>3 DEF NestingOf, MapImpliesAccountOf, MapShown

\* A tap on Login sends its request from a screen that is there.
LEMMA LogInKeepsInv ==
    ASSUME TypeOK, TypeOK', NEW d \in Device, NEW i \in Screen, LogIn(d, i),
           NEW e \in Device, NestingOf(e), MapImpliesAccountOf(e)
    PROVE  NestingOf(e)' /\ MapImpliesAccountOf(e)'
<1> DEFINE request == LoginRequest(d, i, taps[d] + 1)
<1>1. FirestoreTypeOK(Request, Account) /\ GetDocuments(d, <<request>>)
  BY DEF TypeOK, LogIn
<1>2. <<request>> \in Seq(Request) /\ ToSet(<<request>>) = {request}
  BY LoginRequestType
<1>3. Outstanding(e)' \subseteq Outstanding(e) \cup (IF e = d THEN {request} ELSE {})
  BY <1>1, <1>2, GetDocumentsOutstanding
<1>4. Reached(d, request.view)
  BY DEF LogIn, LoginShown, LoginRequest
<1>5. NestingOf(e)'
  BY <1>3, <1>4, NestingKept DEF LogIn
<1>6. MapImpliesAccountOf(e)'
  BY DEF LogIn, MapImpliesAccountOf, MapShown, Reached
<1>. QED  BY <1>5, <1>6

\* Log Out leaves no map of its device on the screen.
LEMMA LogOutKeepsInv ==
    ASSUME TypeOK, TypeOK', NEW d \in Device, NEW i \in Screen, LogOut(d, i),
           NEW e \in Device, NestingOf(e), MapImpliesAccountOf(e)
    PROVE  NestingOf(e)' /\ MapImpliesAccountOf(e)'
<1>1. Outstanding(e)' = Outstanding(e)
  BY DEF LogOut, firestoreVars, Outstanding
<1>2. /\ login \in [Device -> [Screen -> LoginState]]
      /\ map \in [Device -> [Screen -> MapState]]
  BY DEF TypeOK
<1>3. CASE e # d
  BY <1>1, <1>2, <1>3, DeviceUntouched DEF LogOut, TypeOK
<1>4. CASE e = d
  <2>1. \A j \in Screen : login'[d][j].switchView = login[d][j].switchView
    BY <1>2 DEF LogOut, LoginState
  <2>2. /\ map'[d][i].switchToLogin
        /\ \A j \in Screen \ {i} : map'[d][j] = map[d][j]
    BY <1>2 DEF LogOut, MapState
  <2>3. NestingOf(e)'
    BY <1>1, <1>4, <2>1, <2>2, NestingKept
  <2>4. Reached(d, i) /\ ~ map[d][i].switchToLogin
    BY DEF LogOut, MapShown
  <2>5. ASSUME NEW k \in Screen, MapShown(d, k)' PROVE FALSE
    <3>1. login[d][k].switchView /\ ~ map'[d][k].switchToLogin
      BY <2>1, <2>5 DEF MapShown
    <3>2. k # i
      BY <2>2, <3>1
    <3>3. CASE k < i
      <4>1. map[d][k].switchToLogin
        BY <2>4, <3>3 DEF Reached, Screen
      <4>. QED  BY <2>2, <3>1, <3>2, <4>1
    <3>4. CASE i < k
      <4>1. Reached(d, k)
        BY <1>4, <3>1 DEF NestingOf
      <4>2. map[d][i].switchToLogin
        BY <3>4, <4>1 DEF Reached, Screen
      <4>. QED  BY <2>4, <4>2
    <3>. QED  BY <3>2, <3>3, <3>4, BoundsAssumption DEF Screen
  <2>. QED  BY <1>4, <2>3, <2>5 DEF MapImpliesAccountOf
<1>. QED  BY <1>3, <1>4

\* A callback that opens a map leaves an account behind.
LEMMA CallbackKeepsInv ==
    ASSUME TypeOK, TypeOK', NEW d \in Device, Callback(d),
           NEW e \in Device, NestingOf(e), MapImpliesAccountOf(e)
    PROVE  NestingOf(e)' /\ MapImpliesAccountOf(e)'
<1> DEFINE request == Head(callbacks[d]).request
<1>1. CallbackRuns(d) /\ UNCHANGED <<listens, map>>
  BY DEF Callback, LoggedIn, LoginRefused, QueryFailed, sessionVars
<1>2. /\ Outstanding(e)' \subseteq Outstanding(e)
      /\ request \in Outstanding(d)
  BY <1>1, CallbackOutstanding DEF TypeOK
<1>3. request.view \in Screen
  BY <1>2, OutstandingView
<1>4. login \in [Device -> [Screen -> LoginState]]
  BY DEF TypeOK
<1>5. CASE LoggedIn(d)
  <2>1. PICK name \in AccountAfter(d, Head(callbacks[d])) \ {Guest} :
           account' = [account EXCEPT ![d] = name]
    BY <1>5 DEF LoggedIn
  <2>2. login' = [login EXCEPT ![d][request.view] = Switched(@)]
    BY <1>5 DEF LoggedIn
  <2>3. CASE e # d
    BY <1>1, <1>2, <1>4, <2>1, <2>2, <2>3, DeviceUntouched DEF TypeOK
  <2>4. CASE e = d
    <3>1. account'[e] # Guest
      BY <2>1, <2>4 DEF TypeOK
    <3>2. MapImpliesAccountOf(e)'
      BY <3>1 DEF MapImpliesAccountOf
    <3>3. Reached(d, request.view)
      BY <1>2, <2>4 DEF NestingOf
    <3>4. /\ \A j \in Screen \ {request.view} : login'[d][j] = login[d][j]
          /\ login'[d][request.view].switchView
      BY <1>3, <1>4, <2>2 DEF Switched, LoginState
    <3>5. NestingOf(e)'
      BY <1>1, <1>2, <2>4, <3>3, <3>4, NestingKept
    <3>. QED  BY <3>2, <3>5
  <2>. QED  BY <2>3, <2>4
<1>6. CASE LoginRefused(d)
  <2>1. /\ login' = [login EXCEPT ![d][request.view].displayLoginError = TRUE]
        /\ UNCHANGED account
    BY <1>6 DEF LoginRefused
  <2>2. \A j \in Screen : login'[e][j].switchView = login[e][j].switchView
    BY <1>3, <1>4, <2>1 DEF LoginState
  <2>3. NestingOf(e)'
    BY <1>1, <1>2, <2>2, NestingKept
  <2>4. \A j \in Screen : Reached(e, j)' => Reached(e, j)
    BY <1>1, <2>2, BoundsAssumption DEF Reached, Screen
  <2>5. MapImpliesAccountOf(e)'
    BY <1>1, <2>1, <2>2, <2>4 DEF MapImpliesAccountOf, MapShown
  <2>. QED  BY <2>3, <2>5
<1>7. CASE QueryFailed(d)
  BY <1>1, <1>2, <1>7, DeviceUntouched DEF QueryFailed, sessionVars
<1>. QED  BY <1>5, <1>6, <1>7 DEF Callback

\* A restart forgets screens and requests alike.
LEMMA RestartKeepsInv ==
    ASSUME TypeOK, TypeOK', NEW d \in Device, Restart(d),
           NEW e \in Device, NestingOf(e), MapImpliesAccountOf(e)
    PROVE  NestingOf(e)' /\ MapImpliesAccountOf(e)'
<1>1. /\ listens' = [listens EXCEPT ![d] = {}]
      /\ callbacks' = [callbacks EXCEPT ![d] = <<>>]
  BY DEF Restart, LibraryRestart
<1>2. CASE e # d
  <2>1. Outstanding(e)' = Outstanding(e)
    BY <1>1, <1>2 DEF Outstanding, TypeOK, FirestoreTypeOK
  <2>. QED  BY <1>2, <2>1, DeviceUntouched DEF Restart, TypeOK
<1>3. CASE e = d
  <2>1. Outstanding(e)' = {}
    BY <1>1, <1>3 DEF Outstanding, TypeOK, FirestoreTypeOK, ToSet
  <2>2. \A i \in Screen : ~ login'[e][i].switchView
    BY <1>3 DEF Restart, BlankLogin, TypeOK
  <2>. QED  BY <2>1, <2>2 DEF NestingOf, MapImpliesAccountOf, MapShown
<1>. QED  BY <1>2, <1>3

\* The invariant that carries MapImpliesAccount through a step.
SessionInv == TypeOK /\ Nesting /\ MapImpliesAccount

\* SessionInv, one device at a time.
LEMMA SessionInvByDevice ==
    SessionInv <=> TypeOK /\ \A d \in Device : NestingOf(d) /\ MapImpliesAccountOf(d)
BY DEF SessionInv, Nesting, MapImpliesAccount, NestingOf, MapImpliesAccountOf

\* Every step keeps the invariant.
LEMMA NextInv == SessionInv /\ [Next]_vars => SessionInv'
<1> SUFFICES ASSUME SessionInv, [Next]_vars PROVE SessionInv'
  OBVIOUS
<1>1. TypeOK /\ TypeOK'
  BY NextTypeOK DEF SessionInv
<1>2. ASSUME NEW e \in Device PROVE NestingOf(e)' /\ MapImpliesAccountOf(e)'
  <2>1. NestingOf(e) /\ MapImpliesAccountOf(e)
    BY SessionInvByDevice
  <2>2. CASE SignUpElsewhere
    BY <2>1, <2>2, DeviceUntouched DEF SignUpElsewhere, sessionVars, Outstanding
  <2>3. ASSUME NEW d \in Device, NEW i \in Screen, Edit(d, i)
        PROVE  NestingOf(e)' /\ MapImpliesAccountOf(e)'
    <3>1. Outstanding(e)' = Outstanding(e) /\ UNCHANGED <<map, account>>
      BY <2>3 DEF Edit, firestoreVars, Outstanding
    <3>2. \A j \in Screen : login'[e][j].switchView = login[e][j].switchView
      <4>1. login \in [Device -> [Screen -> LoginState]]
        BY <1>1 DEF TypeOK
      <4>2. CASE \E text \in Username : login' = [login EXCEPT ![d][i].username = text]
        BY <4>1, <4>2 DEF LoginState
      <4>3. CASE \E text \in Password : login' = [login EXCEPT ![d][i].password = text]
        BY <4>1, <4>3 DEF LoginState
      <4>. QED  BY <2>3, <4>2, <4>3 DEF Edit
    <3>3. NestingOf(e)'
      BY <1>1, <2>1, <3>1, <3>2, NestingKept
    <3>4. \A j \in Screen : Reached(e, j)' => Reached(e, j)
      BY <3>1, <3>2, BoundsAssumption DEF Reached, Screen
    <3>5. MapImpliesAccountOf(e)'
      BY <2>1, <3>1, <3>2, <3>4 DEF MapImpliesAccountOf, MapShown
    <3>. QED  BY <3>3, <3>5
  <2>4. ASSUME NEW d \in Device, NEW i \in Screen, LogIn(d, i)
        PROVE  NestingOf(e)' /\ MapImpliesAccountOf(e)'
    BY <1>1, <2>1, <2>4, LogInKeepsInv
  <2>5. ASSUME NEW d \in Device, NEW i \in Screen, LogOut(d, i)
        PROVE  NestingOf(e)' /\ MapImpliesAccountOf(e)'
    BY <1>1, <2>1, <2>5, LogOutKeepsInv
  <2>6. ASSUME NEW d \in Device, Callback(d)
        PROVE  NestingOf(e)' /\ MapImpliesAccountOf(e)'
    BY <1>1, <2>1, <2>6, CallbackKeepsInv
  <2>7. ASSUME NEW d \in Device, Restart(d)
        PROVE  NestingOf(e)' /\ MapImpliesAccountOf(e)'
    BY <1>1, <2>1, <2>7, RestartKeepsInv
  <2>8. ASSUME NEW d \in Device, FirestoreStep(d), UNCHANGED sessionVars
        PROVE  NestingOf(e)' /\ MapImpliesAccountOf(e)'
    <3>1. Outstanding(e)' \subseteq Outstanding(e)
      BY <1>1, <2>8, StepOutstanding DEF TypeOK
    <3>. QED  BY <2>1, <2>8, <3>1, DeviceUntouched DEF sessionVars
  <2>9. CASE UNCHANGED vars
    BY <2>1, <2>9, DeviceUntouched DEF vars, firestoreVars, sessionVars, Outstanding
  <2>. QED  BY <2>2, <2>3, <2>4, <2>5, <2>6, <2>7, <2>8, <2>9 DEF Next
<1>. QED
  BY <1>1, <1>2
     DEF SessionInv, Nesting, MapImpliesAccount, NestingOf, MapImpliesAccountOf

\* The invariant holds throughout.
LEMMA SessionInvariance == Spec => []SessionInv
<1>1. Init => SessionInv
  BY InitTypeOK, InitInv, SessionInvByDevice
<1>2. SessionInv /\ [Next]_vars => SessionInv'
  BY NextInv
<1>. QED  BY <1>1, <1>2, PTL DEF Spec

\* Views switch and requests wait only where the nesting of screens has got to, however
\* many queries each device has in flight.
THEOREM SessionNesting == Spec => []Nesting
<1>1. SessionInv => Nesting
  BY DEF SessionInv
<1>. QED  BY <1>1, SessionInvariance, PTL

\* Nobody is at the map without an account, for any number of devices, nested screens,
\* taps and queries in flight.
THEOREM SessionMapImpliesAccount == Spec => []MapImpliesAccount
<1>1. SessionInv => MapImpliesAccount
  BY DEF SessionInv
<1>. QED  BY <1>1, SessionInvariance, PTL

-----------------------------------------------------------------------------
(***************************************************************************)
(* The account is one registered with the credentials that were typed:    *)
(* nobody writes documents in this module, so what a device has cached    *)
(* and what its answers hold is on the server, and matches the query.      *)
(***************************************************************************)

\* Every answer device e has not handled yet is truthful about the server.
AnswersTruthful(e) ==
    \A answer \in ToSet(callbacks[e]) : Truthful(answer, server)

AnswersFromServer ==
    \A d \in Device :
        mutations[d] = <<>> /\ cache[d] \subseteq server /\ AnswersTruthful(d)

\* In such a state a device can show nothing that is not on the server.
LEMMA LocalFromServer ==
    ASSUME AnswersFromServer, NEW d \in Device
    PROVE  LocalDocuments(d) \subseteq server /\ Pending(d) = {}
BY DEF AnswersFromServer, LocalDocuments, Pending, ToSet

\* A committed document stays, and so do true answers.
LEMMA ServerGrows ==
    ASSUME NEW e \in Device, server \subseteq server',
           \A answer \in ToSet(callbacks'[e]) : Truthful(answer, server)
    PROVE  AnswersTruthful(e)'
BY DEF AnswersTruthful, Truthful, Matches

\* Steps of the library leave the queue empty and cache what the server holds.
LEMMA StepFromServer ==
    ASSUME TypeOK, AnswersFromServer, NEW d \in Device, FirestoreStep(d), NEW e \in Device
    PROVE  mutations'[e] = <<>> /\ cache'[e] \subseteq server /\ UNCHANGED server
<1>1. mutations[d] = <<>> /\ mutations[e] = <<>> /\ cache[e] \subseteq server
  BY DEF AnswersFromServer
<1>2. cache \in [Device -> SUBSET Account]
  BY DEF TypeOK, FirestoreTypeOK
<1>3. CASE RaiseSynced(d)
  BY <1>1, <1>2, <1>3 DEF RaiseSynced
<1>4. CASE GoOffline(d) \/ LeaveOffline(d) \/ ListenFails(d)
  BY <1>1, <1>4 DEF GoOffline, LeaveOffline, ListenFails
<1>. QED
  BY <1>1, <1>3, <1>4 DEF FirestoreStep, CommitWrite, AcknowledgeBatch, RejectBatch

\* Every step keeps answers true to the server.
LEMMA NextFromServer ==
    TypeOK /\ AnswersFromServer /\ [Next]_vars => AnswersFromServer'
<1> SUFFICES ASSUME TypeOK, AnswersFromServer, [Next]_vars, NEW e \in Device
             PROVE  /\ mutations'[e] = <<>> /\ cache'[e] \subseteq server'
                    /\ AnswersTruthful(e)'
  BY DEF AnswersFromServer
<1> USE DEF TypeOK
<1>1. /\ mutations[e] = <<>> /\ cache[e] \subseteq server
      /\ AnswersTruthful(e)
  BY DEF AnswersFromServer
<1>2. CASE UNCHANGED <<cache, mutations, callbacks>> /\ server \subseteq server'
  <2>1. \A answer \in ToSet(callbacks'[e]) : Truthful(answer, server)
    BY <1>1, <1>2 DEF AnswersTruthful
  <2>. QED  BY <1>1, <1>2, <2>1, ServerGrows
<1>3. ASSUME NEW d \in Device, NEW i \in Screen, LogIn(d, i)
      PROVE  /\ mutations'[e] = <<>> /\ cache'[e] \subseteq server'
             /\ AnswersTruthful(e)'
  <2>1. GetDocuments(d, <<LoginRequest(d, i, taps[d] + 1)>>)
    BY <1>3 DEF LogIn
  <2>2. \A answer \in ToSet(callbacks'[e]) : Truthful(answer, server)
    <3>1. ASSUME NEW answer \in ToSet(callbacks'[e]), answer \notin ToSet(callbacks[e])
          PROVE  \E request \in Request : answer \in AnswersTo(d, request)
      BY <1>3, <2>1, <3>1, LoginRequestType, GetDocumentsNewAnswers
    <3>. QED  BY <1>1, <3>1, LocalFromServer, NewAnswers DEF AnswersTruthful
  <2>3. UNCHANGED <<server, cache, mutations>>
    BY <2>1 DEF GetDocuments
  <2>. QED  BY <1>1, <2>2, <2>3, ServerGrows
<1>4. ASSUME NEW d \in Device, Callback(d)
      PROVE  /\ mutations'[e] = <<>> /\ cache'[e] \subseteq server'
             /\ AnswersTruthful(e)'
  <2>1. CallbackRuns(d) /\ UNCHANGED <<server, cache, mutations>>
    BY <1>4 DEF Callback, LoggedIn, LoginRefused, QueryFailed
  <2>2. \A answer \in ToSet(callbacks'[e]) : Truthful(answer, server)
    BY <1>1, <2>1, CallbackNoNewAnswers DEF AnswersTruthful
  <2>. QED  BY <1>1, <2>1, <2>2, ServerGrows
<1>5. ASSUME NEW d \in Device, Restart(d)
      PROVE  /\ mutations'[e] = <<>> /\ cache'[e] \subseteq server'
             /\ AnswersTruthful(e)'
  <2>1. callbacks' = [callbacks EXCEPT ![d] = <<>>] /\ UNCHANGED <<server, cache, mutations>>
    BY <1>5 DEF Restart, LibraryRestart
  <2>2. ToSet(callbacks'[e]) \subseteq ToSet(callbacks[e])
    BY <2>1 DEF ToSet, FirestoreTypeOK
  <2>3. \A answer \in ToSet(callbacks'[e]) : Truthful(answer, server)
    BY <1>1, <2>2 DEF AnswersTruthful
  <2>. QED  BY <1>1, <2>1, <2>3, ServerGrows
<1>6. ASSUME NEW d \in Device, FirestoreStep(d)
      PROVE  /\ mutations'[e] = <<>> /\ cache'[e] \subseteq server'
             /\ AnswersTruthful(e)'
  <2>1. mutations'[e] = <<>> /\ cache'[e] \subseteq server /\ UNCHANGED server
    BY <1>6, StepFromServer
  <2>2. \A answer \in ToSet(callbacks'[e]) : Truthful(answer, server)
    <3>1. ASSUME NEW answer \in ToSet(callbacks'[e]), answer \notin ToSet(callbacks[e])
          PROVE  \E request \in Request : answer \in AnswersTo(d, request)
      BY <1>6, <3>1, StepNewAnswers
    <3>. QED  BY <1>1, <1>6, <3>1, LocalFromServer, NewAnswers DEF AnswersTruthful
  <2>. QED  BY <2>1, <2>2, ServerGrows
<1>. QED
  BY <1>2, <1>3, <1>4, <1>5, <1>6
     DEF Next, SignUpElsewhere, Edit, LogOut, vars, firestoreVars

\* A step that puts somebody into `account` found the typed credentials on the server.
LEMMA StepNeedsCredentials ==
    ASSUME TypeOK, AnswersFromServer, [Next]_vars, NEW d \in Device,
           account'[d] # account[d], account'[d] # Guest
    PROVE  /\ account'[d] = Head(callbacks[d]).request.query.Username
           /\ \E document \in server : document.data = Head(callbacks[d]).request.query
<1> DEFINE answer == Head(callbacks[d])
<1>1. LoggedIn(d)
  <2>1. ASSUME NEW e \in Device, LoggedIn(e) PROVE e = d
    BY <2>1 DEF LoggedIn, TypeOK
  <2>2. account \in [Device -> Username \cup {Guest}]
    BY DEF TypeOK
  <2>3. ASSUME NEW e \in Device, Restart(e) PROVE FALSE
    BY <2>2, <2>3 DEF Restart
  <2>4. ASSUME NEW e \in Device, NEW i \in Screen, LogOut(e, i) PROVE FALSE
    BY <2>2, <2>4 DEF LogOut
  <2>. QED
    BY <2>1, <2>3, <2>4
       DEF Next, SignUpElsewhere, Edit, LogIn, Callback, LoginRefused, QueryFailed,
           vars, sessionVars
<1>2. CallbackRuns(d)
  BY <1>1 DEF LoggedIn
<1>3. Truthful(answer, server)
  BY <1>2, CallbackNoNewAnswers DEF AnswersFromServer, AnswersTruthful, TypeOK
<1>4. PICK name \in AccountAfter(d, answer) : account' = [account EXCEPT ![d] = name]
  BY <1>1 DEF LoggedIn
<1>5. account'[d] = name
  BY <1>4 DEF TypeOK
<1>6. PICK document \in answer.documents : name = document.data.Username
  BY <1>4, <1>5 DEF AccountAfter
<1>7. document \in server /\ Matches(answer.request.query, document)
  BY <1>3, <1>6 DEF Truthful
<1>8. answer.request.query \in AccountData
  <2>1. answer \in AnswerOf(Request, Account)
    BY <1>2, CallbackRunsType DEF TypeOK
  <2>. QED  BY <2>1 DEF AnswerOf, Request
<1>9. document.data \in AccountData
  BY <1>7, SessionAssumption DEF TypeOK, FirestoreTypeOK
<1>10. /\ document.data.Username = answer.request.query.Username
       /\ document.data.Password = answer.request.query.Password
  BY <1>7, <1>8 DEF Matches, AccountData
<1>11. document.data = answer.request.query
  BY <1>8, <1>9, <1>10 DEF AccountData
<1>. QED  BY <1>5, <1>6, <1>7, <1>11

\* `account` only ever names somebody registered with the user name and the password in
\* the query that the running callback answers, for any interleaving of queries, answers
\* from the server or the cache, registrations elsewhere and restarts.
THEOREM SessionNeedsCredentials == Spec => AccountNeedsCredentials
<1>1. Init => TypeOK /\ AnswersFromServer
  <2>1. Init => AnswersFromServer
    BY DEF Init, FirestoreInit, AnswersFromServer, AnswersTruthful, ToSet
  <2>. QED  BY <2>1, InitTypeOK
<1>2. TypeOK /\ AnswersFromServer /\ [Next]_vars => (TypeOK /\ AnswersFromServer)'
  BY NextTypeOK, NextFromServer
<1>3. TypeOK /\ AnswersFromServer /\ [Next]_vars =>
        [\A d \in Device : account'[d] # account[d] /\ account'[d] # Guest =>
            /\ account'[d] = Head(callbacks[d]).request.query.Username
            /\ \E document \in server :
                  document.data = Head(callbacks[d]).request.query]_vars
  BY StepNeedsCredentials
<1>. QED  BY <1>1, <1>2, <1>3, PTL DEF Spec, AccountNeedsCredentials

-----------------------------------------------------------------------------
(***************************************************************************)
(* Late answers.  A callback that finds its LoginView on display is the    *)
(* only one that changes screens; unless a late answer has written         *)
(* `account`, nobody is logged in there, so that the test of the global    *)
(* variable is one of the answer.                                          *)
(***************************************************************************)

\* A MapView gives way to a LoginView only once it has been shown itself.
ScreensInOrder(d) == \A i \in Screen : map[d][i].switchToLogin => login[d][i].switchView

\* At a LoginView nobody is logged in, but for late answers.
GuestShown(d) == \A i \in Screen : LoginShown(d, i) /\ d \notin late => account[d] = Guest

TimelyOf(d) == ScreensInOrder(d) /\ GuestShown(d)

TimelyInv == \A d \in Device : TimelyOf(d)

\* Initially no screen has switched and nobody is logged in.
LEMMA InitTimely == Init => TimelyInv
BY DEF Init, BlankMap, TimelyInv, TimelyOf, ScreensInOrder, GuestShown

\* One screen is shown: a LoginView and another screen never are together.
LEMMA OneScreenShown ==
    ASSUME NEW d \in Device, ScreensInOrder(d), NEW i \in Screen, NEW j \in Screen,
           LoginShown(d, i), LoginShown(d, j) \/ MapShown(d, j)
    PROVE  LoginShown(d, j) /\ i = j
<1>1. i \in Int /\ j \in Int /\ 1 <= i /\ 1 <= j
  BY BoundsAssumption DEF Screen
<1>2. ~ login[d][i].switchView /\ Reached(d, i) /\ Reached(d, j)
  BY DEF LoginShown, MapShown
<1>3. ~ (i < j)
  BY <1>1, <1>2 DEF Reached
<1>4. ASSUME j < i PROVE FALSE
  <2>1. login[d][j].switchView /\ map[d][j].switchToLogin
    BY <1>1, <1>2, <1>4 DEF Reached
  <2>. QED  BY <2>1 DEF LoginShown, MapShown
<1>. QED  BY <1>1, <1>3, <1>4 DEF LoginShown, MapShown

\* Steps that leave the switches alone show what was shown.
LEMMA ShownKept ==
    ASSUME NEW e \in Device,
           \A j \in Screen : login'[e][j].switchView = login[e][j].switchView,
           map'[e] = map[e]
    PROVE  \A j \in Screen :
              /\ LoginShown(e, j)' <=> LoginShown(e, j)
              /\ MapShown(e, j)' <=> MapShown(e, j)
<1>1. \A j \in Screen : \A k \in 1 .. j - 1 : k \in Screen
  BY BoundsAssumption DEF Screen
<1>2. \A j \in Screen : Reached(e, j)' <=> Reached(e, j)
  BY <1>1 DEF Reached
<1>. QED  BY <1>2 DEF LoginShown, MapShown

\* A device whose switches and account a step leaves alone.
LEMMA TimelyUntouched ==
    ASSUME NEW e \in Device, TimelyOf(e),
           \A j \in Screen : login'[e][j].switchView = login[e][j].switchView,
           map'[e] = map[e], account'[e] = account[e], e \in late => e \in late'
    PROVE  TimelyOf(e)'
<1>1. \A j \in Screen : LoginShown(e, j)' <=> LoginShown(e, j)
  BY ShownKept
<1>2. ScreensInOrder(e)'
  BY DEF TimelyOf, ScreensInOrder
<1>3. GuestShown(e)'
  BY <1>1 DEF TimelyOf, GuestShown
<1>. QED  BY <1>2, <1>3 DEF TimelyOf

\* After Log Out nobody is logged in.
LEMMA LogOutTimely ==
    ASSUME TypeOK, NEW d \in Device, NEW i \in Screen, LogOut(d, i),
           NEW e \in Device, TimelyOf(e)
    PROVE  TimelyOf(e)'
<1>1. /\ login \in [Device -> [Screen -> LoginState]]
      /\ map \in [Device -> [Screen -> MapState]]
      /\ account \in [Device -> Username \cup {Guest}]
  BY DEF TypeOK
<1>2. \A j \in Screen : login'[e][j].switchView = login[e][j].switchView
  BY <1>1 DEF LogOut, LoginState
<1>3. CASE e # d
  BY <1>1, <1>2, <1>3, TimelyUntouched DEF LogOut
<1>4. CASE e = d
  <2>1. account'[d] = Guest
    BY <1>1 DEF LogOut
  <2>2. \A j \in Screen \ {i} : map'[d][j] = map[d][j]
    BY <1>1 DEF LogOut
  <2>3. login[d][i].switchView
    BY DEF LogOut, MapShown
  <2>4. ScreensInOrder(d)'
    BY <1>2, <1>4, <2>2, <2>3 DEF ScreensInOrder, TimelyOf
  <2>. QED  BY <1>4, <2>1, <2>4 DEF TimelyOf, GuestShown
<1>. QED  BY <1>3, <1>4

\* The callback runs for a screen the nesting has got to.
LEMMA CallbackFindsView ==
    ASSUME TypeOK, NEW d \in Device, NestingOf(d), CallbackRuns(d), UNCHANGED listens
    PROVE  /\ Head(callbacks[d]).request \in Outstanding(d)
           /\ Head(callbacks[d]).request.view \in Screen
           /\ Reached(d, Head(callbacks[d]).request.view)
<1>1. Head(callbacks[d]).request \in Outstanding(d)
  BY CallbackOutstanding DEF TypeOK
<1>2. Head(callbacks[d]).request.view \in Screen
  BY <1>1, OutstandingView
<1>. QED  BY <1>1, <1>2 DEF NestingOf

\* An answer to the LoginView on display puts the map in its place.
LEMMA LoggedInShowsMap ==
    ASSUME TypeOK, NEW d \in Device, NestingOf(d), TimelyOf(d), LoggedIn(d),
           NEW v \in Screen, v = Head(callbacks[d]).request.view, ~ login[d][v].switchView
    PROVE  /\ ScreensInOrder(d)'
           /\ \A j \in Screen : ~ LoginShown(d, j)'
           /\ LoginShown(d, v) /\ MapShown(d, v)'
<1>1. /\ CallbackRuns(d) /\ UNCHANGED <<listens, map>>
      /\ login' = [login EXCEPT ![d][v] = Switched(@)]
      /\ login \in [Device -> [Screen -> LoginState]]
  BY DEF LoggedIn, TypeOK
<1>2. v \in Screen /\ Reached(d, v)
  BY <1>1, CallbackFindsView
<1>3. /\ login'[d][v].switchView
      /\ \A j \in Screen \ {v} : login'[d][j] = login[d][j]
  BY <1>1, <1>2 DEF Switched, LoginState
<1>4. ScreensInOrder(d) /\ ~ map[d][v].switchToLogin
  BY <1>2 DEF TimelyOf, ScreensInOrder
<1>5. ScreensInOrder(d)'
  BY <1>1, <1>3, <1>4 DEF ScreensInOrder
<1>6. ASSUME NEW j \in Screen, LoginShown(d, j)' PROVE FALSE
  <2>1. j \in Int /\ v \in Int /\ 1 <= j /\ 1 <= v
    BY <1>2, BoundsAssumption DEF Screen
  <2>2. j # v /\ ~ login'[d][j].switchView
    BY <1>3, <1>6 DEF LoginShown
  <2>3. CASE v < j
    <3>1. map'[d][v].switchToLogin
      BY <1>6, <2>1, <2>3 DEF LoginShown, Reached
    <3>. QED  BY <1>1, <1>4, <3>1
  <2>4. CASE j < v
    <3>1. login[d][j].switchView
      BY <1>2, <2>1, <2>4 DEF Reached
    <3>. QED  BY <1>3, <2>2, <3>1
  <2>. QED  BY <2>1, <2>2, <2>3, <2>4
<1>7. \A j \in Screen :
         /\ login[d][j].switchView => login'[d][j].switchView
         /\ map[d][j].switchToLogin => map'[d][j].switchToLogin
  BY <1>1, <1>3
<1>8. Reached(d, v)'
  BY <1>2, <1>7, ReachedGrows
<1>9. MapShown(d, v)'
  BY <1>1, <1>3, <1>4, <1>8 DEF MapShown
<1>. QED  BY <1>2, <1>5, <1>6, <1>9 DEF LoginShown

\* Any other answer leaves the screens as they are.
LEMMA LoggedInBehind ==
    ASSUME TypeOK, NEW d \in Device, NestingOf(d), LoggedIn(d),
           login[d][Head(callbacks[d]).request.view].switchView
    PROVE  \A e \in Device : \A j \in Screen :
              login'[e][j].switchView = login[e][j].switchView
<1> DEFINE v == Head(callbacks[d]).request.view
<1>1. /\ CallbackRuns(d) /\ UNCHANGED listens
      /\ login' = [login EXCEPT ![d][v] = Switched(@)]
      /\ login \in [Device -> [Screen -> LoginState]]
  BY DEF LoggedIn, TypeOK
<1>2. v \in Screen
  BY <1>1, CallbackFindsView
<1>3. Switched(login[d][v]).switchView
  BY <1>1, <1>2 DEF Switched, LoginState
<1>. QED  BY <1>1, <1>2, <1>3

\* A refused login shows its message and switches no view.
LEMMA RefusedSwitchesNothing ==
    ASSUME TypeOK, NEW d \in Device, LoginRefused(d),
           Head(callbacks[d]).request.view \in Screen
    PROVE  \A e \in Device : \A j \in Screen :
              login'[e][j].switchView = login[e][j].switchView
<1>1. login \in [Device -> [Screen -> LoginState]]
  BY DEF TypeOK
<1>2. login' = [login EXCEPT ![d][Head(callbacks[d]).request.view].displayLoginError = TRUE]
  BY DEF LoginRefused
<1>. QED  BY <1>1, <1>2 DEF LoginState

\* An answer fills `account` behind a LoginView only if it is late.
LEMMA CallbackTimely ==
    ASSUME TypeOK, NEW d \in Device, NestingOf(d), TimelyOf(d), Callback(d),
           NEW e \in Device, TimelyOf(e)
    PROVE  TimelyOf(e)'
<1> DEFINE answer == Head(callbacks[d])
           v == answer.request.view
<1>1. CallbackRuns(d) /\ UNCHANGED <<listens, map>>
  BY DEF Callback, LoggedIn, LoginRefused, QueryFailed, sessionVars
<1>2. v \in Screen
  BY <1>1, CallbackFindsView
<1>3. /\ login \in [Device -> [Screen -> LoginState]]
      /\ account \in [Device -> Username \cup {Guest}]
  BY DEF TypeOK
<1>4. e \in late => e \in late'
  BY DEF Callback, LoggedIn, LoginRefused, QueryFailed, sessionVars, LateAfter
<1>5. CASE e # d
  BY <1>1, <1>3, <1>4, <1>5, TimelyUntouched
     DEF Callback, LoggedIn, LoginRefused, QueryFailed, sessionVars
<1>6. CASE e = d /\ LoggedIn(d)
  <2>1. PICK name \in AccountAfter(d, answer) \ {Guest} :
           account' = [account EXCEPT ![d] = name]
    BY <1>6 DEF LoggedIn
  <2>2. late' = LateAfter(d, answer)
    BY <1>6 DEF LoggedIn
  <2>3. CASE ~ login[d][v].switchView
    BY <1>2, <1>6, <2>3, LoggedInShowsMap DEF TimelyOf, GuestShown
  <2>4. CASE login[d][v].switchView
    <3>1. \A j \in Screen : login'[d][j].switchView = login[d][j].switchView
      BY <1>6, <2>4, LoggedInBehind
    <3>2. CASE answer.documents = {}
      <4>1. account'[d] = account[d]
        BY <1>3, <2>1, <3>2 DEF AccountAfter
      <4>. QED  BY <1>1, <1>4, <1>6, <3>1, <4>1, TimelyUntouched
    <3>3. CASE answer.documents # {}
      <4>1. d \in late'
        BY <2>2, <2>4, <3>3 DEF LateAfter
      <4>2. ScreensInOrder(d)'
        BY <1>1, <3>1 DEF TimelyOf, ScreensInOrder
      <4>. QED  BY <1>6, <4>1, <4>2 DEF TimelyOf, GuestShown
    <3>. QED  BY <3>2, <3>3
  <2>. QED  BY <2>3, <2>4
<1>7. CASE e = d /\ LoginRefused(d)
  <2>1. UNCHANGED account
    BY <1>7 DEF LoginRefused
  <2>. QED  BY <1>1, <1>2, <1>4, <1>7, <2>1, RefusedSwitchesNothing, TimelyUntouched
<1>8. CASE e = d /\ QueryFailed(d)
  BY <1>1, <1>4, <1>8, TimelyUntouched DEF QueryFailed, sessionVars
<1>. QED  BY <1>5, <1>6, <1>7, <1>8 DEF Callback

\* A restart starts over.
LEMMA RestartTimely ==
    ASSUME TypeOK, NEW d \in Device, Restart(d), NEW e \in Device, TimelyOf(e)
    PROVE  TimelyOf(e)'
<1>1. CASE e # d
  BY <1>1, TimelyUntouched DEF Restart, TypeOK
<1>2. CASE e = d
  BY <1>2 DEF Restart, BlankMap, TypeOK, TimelyOf, ScreensInOrder, GuestShown
<1>. QED  BY <1>1, <1>2

\* What a user types is in no switch.
LEMMA EditSwitchesNothing ==
    ASSUME TypeOK, NEW d \in Device, NEW i \in Screen, Edit(d, i)
    PROVE  \A e \in Device : \A j \in Screen :
              login'[e][j].switchView = login[e][j].switchView
<1>1. login \in [Device -> [Screen -> LoginState]]
  BY DEF TypeOK
<1>2. CASE \E text \in Username : login' = [login EXCEPT ![d][i].username = text]
  BY <1>1, <1>2 DEF LoginState
<1>3. CASE \E text \in Password : login' = [login EXCEPT ![d][i].password = text]
  BY <1>1, <1>3 DEF LoginState
<1>. QED  BY <1>2, <1>3 DEF Edit

\* Every step keeps the invariant.
LEMMA NextTimely == SessionInv /\ TimelyInv /\ [Next]_vars => TimelyInv'
<1> SUFFICES ASSUME SessionInv, TimelyInv, [Next]_vars, NEW e \in Device PROVE TimelyOf(e)'
  BY DEF TimelyInv
<1>1. TypeOK /\ \A d \in Device : NestingOf(d) /\ TimelyOf(d)
  BY SessionInvByDevice DEF TimelyInv
<1>2. ASSUME UNCHANGED <<map, account, late>>,
             \A j \in Screen : login'[e][j].switchView = login[e][j].switchView
      PROVE  TimelyOf(e)'
  BY <1>1, <1>2, TimelyUntouched
<1>3. CASE SignUpElsewhere \/ UNCHANGED vars
  BY <1>2, <1>3 DEF SignUpElsewhere, vars, sessionVars
<1>4. ASSUME NEW d \in Device, NEW i \in Screen, Edit(d, i) PROVE TimelyOf(e)'
  BY <1>1, <1>2, <1>4, EditSwitchesNothing DEF Edit
<1>5. ASSUME NEW d \in Device, NEW i \in Screen, LogIn(d, i) PROVE TimelyOf(e)'
  BY <1>2, <1>5 DEF LogIn
<1>6. ASSUME NEW d \in Device, NEW i \in Screen, LogOut(d, i) PROVE TimelyOf(e)'
  BY <1>1, <1>6, LogOutTimely
<1>7. ASSUME NEW d \in Device, Callback(d) PROVE TimelyOf(e)'
  BY <1>1, <1>7, CallbackTimely
<1>8. ASSUME NEW d \in Device, Restart(d) PROVE TimelyOf(e)'
  BY <1>1, <1>8, RestartTimely
<1>9. ASSUME NEW d \in Device, FirestoreStep(d), UNCHANGED sessionVars PROVE TimelyOf(e)'
  BY <1>2, <1>9 DEF sessionVars
<1>. QED  BY <1>3, <1>4, <1>5, <1>6, <1>7, <1>8, <1>9 DEF Next

\* The invariant holds throughout.
LEMMA TimelyInvariance == Spec => []TimelyInv
<1>1. Init => TimelyInv
  BY InitTimely
<1>2. SessionInv /\ TimelyInv /\ [Next]_vars => TimelyInv'
  BY NextTimely
<1>. QED  BY <1>1, <1>2, SessionInvariance, PTL DEF Spec

\* Nobody is logged in while a LoginView is shown, however many queries are under way,
\* unless an answer came to a LoginView that had given way before.
THEOREM SessionLoggedOutMeansNoAccount == Spec => []LoggedOutMeansNoAccount
<1>1. TimelyInv => LoggedOutMeansNoAccount
  BY DEF TimelyInv, TimelyOf, GuestShown, LoggedOutMeansNoAccount
<1>. QED  BY <1>1, TimelyInvariance, PTL

\* The callback that switches a view found an account, or was misled by a late answer.
LEMMA LoginFoundAccount ==
    ASSUME TypeOK, NEW d \in Device, NestingOf(d), TimelyOf(d), LoggedIn(d),
           ~ login[d][Head(callbacks[d]).request.view].switchView, d \notin late
    PROVE  Head(callbacks[d]).documents # {}
<1>1. CallbackRuns(d) /\ UNCHANGED listens
  BY DEF LoggedIn
<1>2. LoginShown(d, Head(callbacks[d]).request.view)
  BY <1>1, CallbackFindsView DEF LoginShown
<1>3. account[d] = Guest
  BY <1>1, <1>2, CallbackFindsView DEF TimelyOf, GuestShown
<1>4. AccountAfter(d, Head(callbacks[d])) # {Guest}
  BY DEF LoggedIn
<1>. QED  BY <1>3, <1>4 DEF AccountAfter

\* Only a login switches a LoginView.
LEMMA SwitchedByLogin ==
    ASSUME SessionInv, [Next]_vars, NEW d \in Device, NEW i \in Screen,
           login'[d][i].switchView, ~ login[d][i].switchView
    PROVE  LoggedIn(d) /\ Head(callbacks[d]).request.view = i
<1>1. /\ TypeOK /\ login \in [Device -> [Screen -> LoginState]]
      /\ \A e \in Device : NestingOf(e)
  BY SessionInvByDevice DEF TypeOK
<1>2. ASSUME NEW e \in Device, Callback(e)
      PROVE  Head(callbacks[e]).request.view \in Screen
  <2>1. CallbackRuns(e) /\ UNCHANGED listens
    BY <1>2 DEF Callback, LoggedIn, LoginRefused, QueryFailed
  <2>. QED  BY <1>1, <2>1, CallbackFindsView
<1>3. ASSUME NEW e \in Device, LoggedIn(e), e # d \/ Head(callbacks[e]).request.view # i
      PROVE  FALSE
  <2>1. login' = [login EXCEPT ![e][Head(callbacks[e]).request.view] = Switched(@)]
    BY <1>3 DEF LoggedIn
  <2>. QED  BY <1>1, <1>3, <2>1
<1>4. ASSUME NEW e \in Device, LoginRefused(e) PROVE FALSE
  <2>1. Head(callbacks[e]).request.view \in Screen
    BY <1>2, <1>4 DEF Callback
  <2>. QED  BY <1>1, <1>4, <2>1, RefusedSwitchesNothing
<1>5. ASSUME NEW e \in Device, NEW j \in Screen, Edit(e, j) PROVE FALSE
  BY <1>1, <1>5, EditSwitchesNothing
<1>6. ASSUME NEW e \in Device, NEW j \in Screen, LogOut(e, j) PROVE FALSE
  <2>1. login' = [login EXCEPT ![e][j].isLoggedIn = FALSE]
    BY <1>6 DEF LogOut
  <2>. QED  BY <1>1, <2>1 DEF LoginState
<1>7. ASSUME NEW e \in Device, Restart(e) PROVE FALSE
  BY <1>1, <1>7 DEF Restart, BlankLogin
<1>. QED
  BY <1>3, <1>4, <1>5, <1>6, <1>7
     DEF Next, SignUpElsewhere, LogIn, Callback, QueryFailed, vars, sessionVars

\* The map replaces a LoginView on an answer that holds an account or after a late answer,
\* for any number of queries in flight.
THEOREM SessionOnlyLateAnswersMislead == Spec => OnlyLateAnswersMislead
<1>1. SessionInv /\ TimelyInv /\ [Next]_vars =>
        [\A d \in Device : \A i \in Screen :
            login'[d][i].switchView /\ ~ login[d][i].switchView =>
                Head(callbacks[d]).documents # {} \/ d \in late]_vars
  <2> SUFFICES ASSUME SessionInv, TimelyInv, [Next]_vars, NEW d \in Device, NEW i \in Screen,
                      login'[d][i].switchView, ~ login[d][i].switchView, d \notin late
               PROVE  Head(callbacks[d]).documents # {}
    OBVIOUS
  <2>1. LoggedIn(d) /\ Head(callbacks[d]).request.view = i
    BY SwitchedByLogin
  <2>2. TypeOK /\ NestingOf(d) /\ TimelyOf(d)
    BY SessionInvByDevice DEF TimelyInv
  <2>. QED  BY <2>1, <2>2, LoginFoundAccount
<1>. QED
  BY <1>1, SessionInvariance, TimelyInvariance, PTL DEF Spec, OnlyLateAnswersMislead

-----------------------------------------------------------------------------
(***************************************************************************)
(* The refinement.  The user of a device is the account while a map is     *)
(* shown.  An answer that opens a map finds nobody using the device, for   *)
(* only one screen is shown; any other answer is one that was overdue.     *)
(***************************************************************************)
UserOf(d) == IF \E i \in Screen : MapShown(d, i) THEN account[d] ELSE Guest
User == [d \in Device |-> UserOf(d)]

OverdueAt(d) == \E request \in Outstanding(d) : login[d][request.view].switchView
OverdueDevices == {d \in Device : OverdueAt(d)}

\* Who is logged in, at a map or behind it, is registered.
AccountRegistered ==
    \A d \in Device :
        account[d] # Guest => \E document \in server : document.data.Username = account[d]

\* The names of Sessions, in terms of the variables of Session.
LEMMA SessionsNames ==
    /\ Sessions!Init <=> /\ server = Existing
                         /\ User = [d \in Device |-> Guest]
                         /\ OverdueDevices = {}
    /\ \A d \in Device : Sessions!Takes(d) <=>
          \E document \in server : User' = [User EXCEPT ![d] = document.data.Username]
    /\ \A d \in Device : Sessions!LogIn(d) <=>
          /\ User[d] = Guest
          /\ Sessions!Takes(d)
          /\ OverdueDevices' \in {OverdueDevices, OverdueDevices \cup {d}}
          /\ UNCHANGED server
    /\ \A d \in Device : Sessions!Overdue(d) <=>
          /\ d \in OverdueDevices
          /\ \/ UNCHANGED User
             \/ User[d] # Guest /\ Sessions!Takes(d)
          /\ OverdueDevices' \in {OverdueDevices, OverdueDevices \ {d}}
          /\ UNCHANGED server
    /\ \A d \in Device : Sessions!LogOut(d) <=>
          /\ User' = [User EXCEPT ![d] = Guest]
          /\ OverdueDevices' \in {OverdueDevices, OverdueDevices \ {d}}
          /\ UNCHANGED server
    /\ Sessions!SignUp <=>
          /\ \E document \in Account : server' = server \cup {document}
          /\ UNCHANGED <<User, OverdueDevices>>
BY DEF User, UserOf, OverdueDevices, OverdueAt, Sessions!Init, Sessions!Takes,
       Sessions!LogIn, Sessions!Overdue, Sessions!LogOut, Sessions!SignUp

\* A step that touches neither the switches of a device nor its account leaves its user.
LEMMA UserKept ==
    ASSUME NEW e \in Device,
           \A j \in Screen : login'[e][j].switchView = login[e][j].switchView,
           map'[e] = map[e], account'[e] = account[e]
    PROVE  UserOf(e)' = UserOf(e)
<1>1. \A j \in Screen : MapShown(e, j)' <=> MapShown(e, j)
  BY ShownKept
<1>. QED  BY <1>1 DEF UserOf

\* Answers to a device that a step leaves waiting are as overdue as before.
LEMMA OverdueKept ==
    ASSUME TypeOK, NEW e \in Device,
           \A j \in Screen : login'[e][j].switchView = login[e][j].switchView,
           Outstanding(e)' = Outstanding(e)
    PROVE  OverdueAt(e)' <=> OverdueAt(e)
<1>1. \A request \in Outstanding(e) : request.view \in Screen
  BY OutstandingView
<1>. QED  BY <1>1 DEF OverdueAt

\* What is overdue at one device only moves that device in or out of the set.
LEMMA OverdueMoves ==
    ASSUME NEW d \in Device, \A e \in Device \ {d} : OverdueAt(e)' <=> OverdueAt(e)
    PROVE  /\ (OverdueAt(d)' <=> OverdueAt(d)) => OverdueDevices' = OverdueDevices
           /\ ~ OverdueAt(d)' => OverdueDevices' = OverdueDevices \ {d}
           /\ OverdueAt(d)' => OverdueDevices' = OverdueDevices \cup {d}
BY DEF OverdueDevices

\* Steps of one device leave what the others wait for.
LEMMA OthersWait ==
    ASSUME TypeOK, NEW d \in Device, NEW e \in Device, e # d,
           \/ FirestoreStep(d)
           \/ CallbackRuns(d) /\ UNCHANGED listens
           \/ LibraryRestart(d)
           \/ \E requests : GetDocuments(d, requests)
    PROVE  Outstanding(e)' = Outstanding(e)
<1>1. callbacks'[e] = callbacks[e] /\ listens'[e] = listens[e]
  <2>. USE DEF TypeOK, FirestoreTypeOK
  <2>1. CASE RaiseSynced(d)
    BY <2>1 DEF RaiseSynced
  <2>2. CASE GoOffline(d)
    BY <2>2 DEF GoOffline
  <2>3. CASE ListenFails(d)
    BY <2>3 DEF ListenFails
  <2>4. CASE LeaveOffline(d) \/ CommitWrite(d) \/ AcknowledgeBatch(d) \/ RejectBatch(d)
    BY <2>4 DEF LeaveOffline, CommitWrite, AcknowledgeBatch, RejectBatch
  <2>5. CASE CallbackRuns(d) /\ UNCHANGED listens
    BY <2>5 DEF CallbackRuns
  <2>6. CASE LibraryRestart(d)
    BY <2>6 DEF LibraryRestart
  <2>7. CASE \E requests : GetDocuments(d, requests)
    BY <2>7 DEF GetDocuments
  <2>. QED  BY <2>1, <2>2, <2>3, <2>4, <2>5, <2>6, <2>7 DEF FirestoreStep
<1>. QED  BY <1>1 DEF Outstanding

\* A callback answers the request it was raised for and no other.
LEMMA CallbackAnswersOne ==
    ASSUME TypeOK, NEW d \in Device, CallbackRuns(d), UNCHANGED listens,
           NEW request \in Outstanding(d), request # Head(callbacks[d]).request
    PROVE  request \in Outstanding(d)'
<1>1. callbacks \in [Device -> Seq(AnswerOf(Request, Account))]
  BY DEF TypeOK, FirestoreTypeOK
<1>2. callbacks[d] # <<>> /\ callbacks'[d] = Tail(callbacks[d])
  BY <1>1 DEF CallbackRuns
<1>3. ToSet(callbacks[d]) \subseteq {Head(callbacks[d])} \cup ToSet(callbacks'[d])
  BY <1>1, <1>2, TailElements
<1>. QED  BY <1>3 DEF Outstanding

\* A step that switches nothing and leaves the users alone: answers of d may have been
\* overdue, and may be so no longer.
LEMMA QuietStep ==
    ASSUME TypeOK, TypeOK', NEW d \in Device, UNCHANGED <<server, map, account>>,
           \A e \in Device : \A j \in Screen :
              login'[e][j].switchView = login[e][j].switchView,
           \A e \in Device \ {d} : Outstanding(e)' = Outstanding(e),
           \A request \in Outstanding(d)' :
              request \in Outstanding(d) \/ ~ login[d][request.view].switchView
    PROVE  Sessions!Overdue(d) \/ UNCHANGED <<server, User, OverdueDevices>>
<1>1. User' = User
  BY UserKept DEF User
<1>2. \A e \in Device \ {d} : OverdueAt(e)' <=> OverdueAt(e)
  BY OverdueKept
<1>3. OverdueAt(d)' => OverdueAt(d)
  BY OutstandingViewNext DEF OverdueAt
<1>4. CASE OverdueAt(d)' <=> OverdueAt(d)
  BY <1>1, <1>2, <1>4, OverdueMoves
<1>5. CASE OverdueAt(d) /\ ~ OverdueAt(d)'
  <2>1. d \in OverdueDevices /\ OverdueDevices' = OverdueDevices \ {d}
    BY <1>2, <1>5, OverdueMoves DEF OverdueDevices
  <2>. QED  BY <1>1, <2>1, SessionsNames
<1>. QED  BY <1>3, <1>4, <1>5

\* An answer to the LoginView on display lets a registered user in.
LEMMA LoggedInOpens ==
    ASSUME SessionInv, TypeOK', TimelyInv, AccountRegistered', NEW d \in Device, LoggedIn(d),
           NEW v \in Screen, v = Head(callbacks[d]).request.view, ~ login[d][v].switchView
    PROVE  Sessions!LogIn(d)
<1>1. /\ TypeOK /\ NestingOf(d) /\ TimelyOf(d)
      /\ login \in [Device -> [Screen -> LoginState]]
      /\ account \in [Device -> Username \cup {Guest}]
  BY SessionInvByDevice DEF TimelyInv, TypeOK
<1>2. /\ CallbackRuns(d) /\ UNCHANGED <<server, listens, map>>
      /\ login' = [login EXCEPT ![d][v] = Switched(@)]
  BY DEF LoggedIn
<1>3. PICK name \in AccountAfter(d, Head(callbacks[d])) \ {Guest} :
         account' = [account EXCEPT ![d] = name]
  BY DEF LoggedIn
<1>4. /\ login'[d][v].switchView
      /\ \A j \in Screen \ {v} : login'[d][j] = login[d][j]
      /\ \A e \in Device \ {d} : login'[e] = login[e] /\ account'[e] = account[e]
  BY <1>1, <1>2, <1>3 DEF Switched, LoginState
<1>5. UserOf(d) = Guest
  <2>1. LoginShown(d, v)
    BY <1>1, LoggedInShowsMap
  <2>2. \A j \in Screen : MapShown(d, j) => LoginShown(d, j)
    BY <1>1, <2>1, OneScreenShown DEF TimelyOf
  <2>. QED  BY <2>2 DEF UserOf, LoginShown, MapShown
<1>6. UserOf(d)' = name
  <2>1. MapShown(d, v)' /\ account'[d] = name
    BY <1>1, <1>3, LoggedInShowsMap
  <2>. QED  BY <2>1 DEF UserOf
<1>7. \A e \in Device \ {d} : UserOf(e)' = UserOf(e)
  BY <1>2, <1>4, UserKept
<1>8. PICK document \in server : document.data.Username = name
  <2>1. account'[d] = name /\ name # Guest
    BY <1>1, <1>3
  <2>. QED  BY <1>2, <2>1 DEF AccountRegistered
<1>9. Sessions!Takes(d)
  <2>1. User' = [User EXCEPT ![d] = name]
    BY <1>6, <1>7 DEF User
  <2>. QED  BY <1>8, <2>1, SessionsNames
<1>10. \A e \in Device \ {d} : OverdueAt(e)' <=> OverdueAt(e)
  BY <1>1, <1>2, <1>4, OthersWait, OverdueKept
<1>11. ASSUME OverdueAt(d) PROVE OverdueAt(d)'
  <2>1. PICK request \in Outstanding(d) : login[d][request.view].switchView
    BY <1>11 DEF OverdueAt
  <2>2. request \in Outstanding(d)'
    BY <1>1, <1>2, <2>1, CallbackAnswersOne
  <2>3. request.view \in Screen /\ request.view # v
    BY <1>1, <2>1, OutstandingView
  <2>. QED  BY <1>4, <2>1, <2>2, <2>3 DEF OverdueAt
<1>12. OverdueDevices' \in {OverdueDevices, OverdueDevices \cup {d}}
  BY <1>10, <1>11, OverdueMoves
<1>. QED  BY <1>2, <1>5, <1>9, <1>12, SessionsNames DEF User

\* Any other answer was overdue.  At a map it may put another registered user there; at a
\* LoginView it fills `account`, but lets nobody in.
LEMMA LoggedInOverdue ==
    ASSUME SessionInv, TypeOK', AccountRegistered', NEW d \in Device, LoggedIn(d),
           login[d][Head(callbacks[d]).request.view].switchView
    PROVE  Sessions!Overdue(d)
<1>1. /\ TypeOK /\ NestingOf(d) /\ MapImpliesAccountOf(d)
      /\ account \in [Device -> Username \cup {Guest}]
      /\ login \in [Device -> [Screen -> LoginState]]
  BY SessionInvByDevice DEF TypeOK
<1>2. /\ CallbackRuns(d) /\ UNCHANGED <<server, listens, map>>
      /\ login' = [login EXCEPT ![d][Head(callbacks[d]).request.view] = Switched(@)]
  BY DEF LoggedIn
<1>3. PICK name \in AccountAfter(d, Head(callbacks[d])) \ {Guest} :
         account' = [account EXCEPT ![d] = name]
  BY DEF LoggedIn
<1>4. \A e \in Device : \A j \in Screen : login'[e][j].switchView = login[e][j].switchView
  BY <1>1, LoggedInBehind
<1>5. \A e \in Device \ {d} : UserOf(e)' = UserOf(e)
  BY <1>1, <1>2, <1>3, <1>4, UserKept
<1>6. d \in OverdueDevices
  BY <1>1, <1>2, CallbackFindsView DEF OverdueDevices, OverdueAt
<1>7. OverdueDevices' \in {OverdueDevices, OverdueDevices \ {d}}
  <2>1. \A e \in Device \ {d} : OverdueAt(e)' <=> OverdueAt(e)
    BY <1>1, <1>2, <1>4, OthersWait, OverdueKept
  <2>. QED  BY <1>6, <2>1, OverdueMoves DEF OverdueDevices
<1>8. UNCHANGED User \/ (User[d] # Guest /\ Sessions!Takes(d))
  <2>1. CASE \E i \in Screen : MapShown(d, i)
    <3>1. UserOf(d) = account[d] /\ UserOf(d) # Guest
      BY <1>1, <2>1 DEF UserOf, MapImpliesAccountOf
    <3>2. \E i \in Screen : MapShown(d, i)'
      BY <1>2, <1>4, <2>1, ShownKept
    <3>3. UserOf(d)' = name /\ account'[d] = name
      BY <1>1, <1>3, <3>2 DEF UserOf
    <3>4. PICK document \in server : document.data.Username = name
      BY <1>2, <1>3, <3>3 DEF AccountRegistered
    <3>5. User' = [User EXCEPT ![d] = document.data.Username]
      BY <1>5, <3>3, <3>4 DEF User
    <3>. QED  BY <3>1, <3>5, SessionsNames DEF User
  <2>2. CASE ~ \E i \in Screen : MapShown(d, i)
    <3>1. ~ \E i \in Screen : MapShown(d, i)'
      BY <1>2, <1>4, <2>2, ShownKept
    <3>2. UserOf(d)' = UserOf(d)
      BY <2>2, <3>1 DEF UserOf
    <3>. QED  BY <1>5, <3>2 DEF User
  <2>. QED  BY <2>1, <2>2
<1>. QED  BY <1>2, <1>6, <1>7, <1>8, SessionsNames

\* Log Out leaves nobody at the device; a restart, no answers overdue either.
LEMMA SessionCloses ==
    ASSUME TypeOK, TypeOK', NEW d \in Device,
           Restart(d) \/ \E i \in Screen : LogOut(d, i)
    PROVE  Sessions!LogOut(d)
<1>1. /\ login \in [Device -> [Screen -> LoginState]]
      /\ map \in [Device -> [Screen -> MapState]]
      /\ account \in [Device -> Username \cup {Guest}]
  BY DEF TypeOK
<1>2. UNCHANGED server
  BY DEF Restart, LibraryRestart, LogOut, firestoreVars
<1>3. \A e \in Device \ {d} :
         login'[e] = login[e] /\ map'[e] = map[e] /\ account'[e] = account[e]
  BY <1>1 DEF Restart, LogOut
<1>4. UserOf(d)' = Guest
  <2>1. account'[d] = Guest
    BY <1>1 DEF Restart, LogOut
  <2>. QED  BY <2>1 DEF UserOf
<1>5. User' = [User EXCEPT ![d] = Guest]
  <2>1. \A e \in Device \ {d} : UserOf(e)' = UserOf(e)
    BY <1>3, UserKept
  <2>. QED  BY <1>4, <2>1 DEF User
<1>6. \A e \in Device \ {d} : Outstanding(e)' = Outstanding(e)
  BY OthersWait DEF Restart, LogOut, firestoreVars, Outstanding
<1>7. \A e \in Device \ {d} : OverdueAt(e)' <=> OverdueAt(e)
  BY <1>3, <1>6, OverdueKept
<1>8. OverdueDevices' \in {OverdueDevices, OverdueDevices \ {d}}
  <2>1. CASE Restart(d)
    <3>1. Outstanding(d)' = {}
      BY <2>1 DEF Restart, LibraryRestart, Outstanding, ToSet, TypeOK, FirestoreTypeOK
    <3>. QED  BY <1>7, <3>1, OverdueMoves DEF OverdueAt
  <2>2. ASSUME NEW i \in Screen, LogOut(d, i)
        PROVE  OverdueDevices' \in {OverdueDevices, OverdueDevices \ {d}}
    <3>1. \A j \in Screen : login'[d][j].switchView = login[d][j].switchView
      BY <1>1, <2>2 DEF LogOut, LoginState
    <3>2. Outstanding(d)' = Outstanding(d)
      BY <2>2 DEF LogOut, firestoreVars, Outstanding
    <3>. QED  BY <1>7, <3>1, <3>2, OverdueKept, OverdueMoves
  <2>. QED  BY <2>1, <2>2
<1>. QED  BY <1>2, <1>5, <1>8, SessionsNames

\* Every step is a step of SessionRegister, or changes nothing it speaks of.
LEMMA SessionsStep ==
    ASSUME SessionInv, TypeOK', TimelyInv, AnswersFromServer, AccountRegistered', [Next]_vars
    PROVE  Sessions!Next \/ UNCHANGED <<server, User, OverdueDevices>>
<1>1. TypeOK /\ \A d \in Device : NestingOf(d)
  BY SessionInvByDevice
<1>2. CASE SignUpElsewhere
  <2>1. UNCHANGED <<User, OverdueDevices>>
    BY <1>2, UserKept, OverdueKept, <1>1
       DEF SignUpElsewhere, sessionVars, User, OverdueDevices, Outstanding
  <2>. QED  BY <1>2, <2>1, SessionsNames DEF SignUpElsewhere, Sessions!Next
<1>3. ASSUME NEW d \in Device, NEW i \in Screen, Edit(d, i)
      PROVE  Sessions!Overdue(d) \/ UNCHANGED <<server, User, OverdueDevices>>
  <2>1. UNCHANGED <<server, map, account>> /\ \A e \in Device : Outstanding(e)' = Outstanding(e)
    BY <1>3 DEF Edit, firestoreVars, Outstanding
  <2>2. \A e \in Device : \A j \in Screen :
           login'[e][j].switchView = login[e][j].switchView
    BY <1>1, <1>3, EditSwitchesNothing
  <2>. QED  BY <1>1, <2>1, <2>2, QuietStep
<1>4. ASSUME NEW d \in Device, NEW i \in Screen, LogIn(d, i)
      PROVE  Sessions!Overdue(d) \/ UNCHANGED <<server, User, OverdueDevices>>
  <2> DEFINE request == LoginRequest(d, i, taps[d] + 1)
  <2>1. /\ FirestoreTypeOK(Request, Account) /\ GetDocuments(d, <<request>>)
        /\ <<request>> \in Seq(Request) /\ ToSet(<<request>>) = {request}
    BY <1>1, <1>4, LoginRequestType DEF TypeOK, LogIn
  <2>2. Outstanding(d)' \subseteq Outstanding(d) \cup {request}
    BY <2>1, GetDocumentsOutstanding
  <2>3. ~ login[d][request.view].switchView
    BY <1>4 DEF LogIn, LoginShown, LoginRequest
  <2>4. \A e \in Device \ {d} : Outstanding(e)' = Outstanding(e)
    BY <1>1, <2>1, OthersWait
  <2>5. UNCHANGED <<server, login, map, account>>
    BY <1>4 DEF LogIn, GetDocuments
  <2>. HIDE DEF request
  <2>. QED  BY <1>1, <2>2, <2>3, <2>4, <2>5, QuietStep
<1>5. ASSUME NEW d \in Device, LoggedIn(d) PROVE Sessions!LogIn(d) \/ Sessions!Overdue(d)
  <2>1. Head(callbacks[d]).request.view \in Screen
    BY <1>1, <1>5, CallbackFindsView DEF LoggedIn
  <2>. QED  BY <1>5, <2>1, LoggedInOpens, LoggedInOverdue
<1>6. ASSUME NEW d \in Device, LoginRefused(d) \/ QueryFailed(d)
      PROVE  Sessions!Overdue(d) \/ UNCHANGED <<server, User, OverdueDevices>>
  <2>1. CallbackRuns(d) /\ UNCHANGED <<server, listens, map, account>>
    BY <1>6 DEF LoginRefused, QueryFailed, sessionVars
  <2>2. Head(callbacks[d]).request.view \in Screen
    BY <1>1, <2>1, CallbackFindsView
  <2>3. \A e \in Device : \A j \in Screen :
           login'[e][j].switchView = login[e][j].switchView
    BY <1>1, <1>6, <2>2, RefusedSwitchesNothing DEF QueryFailed, sessionVars
  <2>4. \A e \in Device \ {d} : Outstanding(e)' = Outstanding(e)
    BY <1>1, <2>1, OthersWait
  <2>5. Outstanding(d)' \subseteq Outstanding(d)
    BY <1>1, <2>1, CallbackOutstanding DEF TypeOK
  <2>. QED  BY <1>1, <2>1, <2>3, <2>4, <2>5, QuietStep
<1>7. ASSUME NEW d \in Device, Restart(d) \/ \E i \in Screen : LogOut(d, i)
      PROVE  Sessions!LogOut(d)
  BY <1>1, <1>7, SessionCloses
<1>8. ASSUME NEW d \in Device, FirestoreStep(d), UNCHANGED sessionVars
      PROVE  Sessions!Overdue(d) \/ UNCHANGED <<server, User, OverdueDevices>>
  <2>1. UNCHANGED server
    BY <1>1, <1>8, StepFromServer
  <2>2. Outstanding(d)' \subseteq Outstanding(d)
    BY <1>1, <1>8, StepOutstanding DEF TypeOK
  <2>3. \A e \in Device \ {d} : Outstanding(e)' = Outstanding(e)
    BY <1>1, <1>8, OthersWait
  <2>. QED  BY <1>1, <1>8, <2>1, <2>2, <2>3, QuietStep DEF sessionVars
<1>9. CASE UNCHANGED vars
  BY <1>9 DEF vars, firestoreVars, sessionVars, User, UserOf, OverdueDevices, OverdueAt,
              Outstanding, MapShown, Reached
<1>. QED
  BY <1>2, <1>3, <1>4, <1>5, <1>6, <1>7, <1>8, <1>9 DEF Next, Callback, Sessions!Next

\* Who gets into `account` is registered, and nobody is ever removed.
LEMMA NextRegistered ==
    TypeOK /\ AnswersFromServer /\ AccountRegistered /\ [Next]_vars => AccountRegistered'
<1> SUFFICES ASSUME TypeOK, AnswersFromServer, AccountRegistered, [Next]_vars,
                    NEW d \in Device, account'[d] # Guest
             PROVE  \E document \in server' : document.data.Username = account'[d]
  BY DEF AccountRegistered
<1>1. server \subseteq server'
  <2>1. ASSUME NEW e \in Device, FirestoreStep(e) PROVE UNCHANGED server
    BY <2>1, StepFromServer
  <2>. QED
    BY <2>1 DEF Next, SignUpElsewhere, Edit, LogIn, GetDocuments, LogOut, Callback, LoggedIn,
                LoginRefused, QueryFailed, Restart, LibraryRestart, vars, firestoreVars
<1>2. CASE account'[d] = account[d]
  BY <1>1, <1>2 DEF AccountRegistered
<1>3. CASE account'[d] # account[d]
  BY <1>1, <1>3, StepNeedsCredentials
<1>. QED  BY <1>2, <1>3

\* Query, callback, nested screens and the global variable amount to a register of who
\* uses each device, which a login fills from the registered accounts and a logout or a
\* restart clears, however many queries are under way; nobody takes over a session of
\* somebody else unless an answer to an earlier login is overdue.
THEOREM SessionImplementsSessions == Spec => ImplementsSessions
<1>1. Init => Sessions!Init
  <2> SUFFICES ASSUME Init PROVE Sessions!Init
    OBVIOUS
  <2>1. User = [d \in Device |-> Guest]
    BY DEF Init, User, UserOf
  <2>2. \A d \in Device : Outstanding(d) = {}
    BY DEF Init, FirestoreInit, Outstanding, ToSet
  <2>3. OverdueDevices = {}
    BY <2>2 DEF OverdueDevices, OverdueAt
  <2>. QED  BY <2>1, <2>3, SessionsNames DEF Init, FirestoreInit
<1>2. /\ SessionInv /\ SessionInv' /\ TimelyInv /\ AnswersFromServer /\ AccountRegistered'
      /\ [Next]_vars
      => [Sessions!Next]_(Sessions!registerVars)
  <2>1. UNCHANGED <<server, User, OverdueDevices>> => UNCHANGED Sessions!registerVars
    BY DEF Sessions!registerVars, User, UserOf, OverdueDevices, OverdueAt
  <2>. QED  BY <2>1, SessionsStep DEF SessionInv
<1>3. Init => AnswersFromServer /\ AccountRegistered
  BY DEF Init, FirestoreInit, AnswersFromServer, AnswersTruthful, ToSet, AccountRegistered
<1>4. SessionInv /\ AnswersFromServer /\ AccountRegistered /\ [Next]_vars
        => (AnswersFromServer /\ AccountRegistered)'
  BY NextFromServer, NextRegistered DEF SessionInv
<1>. QED
  BY <1>1, <1>2, <1>3, <1>4, SessionInvariance, TimelyInvariance, PTL
     DEF Spec, ImplementsSessions, Sessions!Spec
=============================================================================
