-------------------------------- MODULE Session --------------------------------
(***************************************************************************)
(* Logging in and out: LoginView, the Log Out button of MapView and the   *)
(* global variable `account` they share.                                  *)
(*                                                                        *)
(* The screens nest: the i-th LoginView turns into the i-th MapView when  *)
(* its switchView is set, and the i-th MapView turns into a new LoginView *)
(* when its switchToLogin is set.  The callback of a login query keeps    *)
(* the LoginView it was sent from, and writes `account` whatever screen   *)
(* is shown by then.                                                      *)
(***************************************************************************)
EXTENDS Firestore

CONSTANTS
    Username, Password,     \* what can be typed
    Hash,                   \* Hash[p]: BCryptSwift.hashPassword with the app's fixed salt
    Account,                \* the accounts that may ever be registered, anywhere
    Existing,               \* those committed before the run
    Guest,                  \* account = nil
    MaxInFlight,            \* bound: login queries a device may have under way
    MaxScreens,             \* bound: nested LoginView/MapView pairs
    MaxTaps                 \* bound: taps of the Login button

Digest == {Hash[p] : p \in Password}

\* What LoginView queries for; the other fields of a document only fill `account`.
AccountData == [Username : Username, Password : Digest]

ASSUME SessionAssumption ==
    /\ "" \in Username /\ "" \in Password
    /\ DOMAIN Hash = Password
    /\ \A document \in Account : document.data \in AccountData
    /\ Existing \subseteq Account
    /\ Guest \notin Username

ASSUME BoundsAssumption ==
    /\ MaxInFlight \in Nat
    /\ MaxScreens \in Nat \ {0}
    /\ MaxTaps \in Nat

Screen == 1 .. MaxScreens

Request == [query : AccountData, view : Screen, tap : 1 .. MaxTaps]

VARIABLES
    login,      \* login[d][i]: the @State of the i-th LoginView of d
    map,        \* map[d][i]: the @State of the i-th MapView of d
    account,    \* account[d]: the global `account`, by its username
    taps,       \* taps[d]: login queries sent since the app was installed
    late        \* the devices whose `account` was written by an answer to a LoginView that
                \* had given way before, and not cleared since (history)

sessionVars == <<login, map, account, taps, late>>
vars == <<firestoreVars, sessionVars>>

LoginState ==
    [username : Username, password : Password,
     switchView : BOOLEAN, isLoggedIn : BOOLEAN, displayLoginError : BOOLEAN]
MapState == [switchToLogin : BOOLEAN]

TypeOK ==
    /\ FirestoreTypeOK(Request, Account)
    /\ login \in [Device -> [Screen -> LoginState]]
    /\ map \in [Device -> [Screen -> MapState]]
    /\ account \in [Device -> Username \cup {Guest}]
    /\ taps \in [Device -> 0 .. MaxTaps]
    /\ late \subseteq Device

\* Every screen around the i-th pair has given way to the next.
Reached(d, i) ==
    \A j \in 1 .. i - 1 : login[d][j].switchView /\ map[d][j].switchToLogin
LoginShown(d, i) == Reached(d, i) /\ ~ login[d][i].switchView
MapShown(d, i) == Reached(d, i) /\ login[d][i].switchView /\ ~ map[d][i].switchToLogin

-----------------------------------------------------------------------------

BlankLogin ==
    [username |-> "", password |-> "",
     switchView |-> FALSE, isLoggedIn |-> FALSE, displayLoginError |-> FALSE]
BlankMap == [switchToLogin |-> FALSE]

Init ==
    /\ FirestoreInit(Existing, [d \in Device |-> {}])
    /\ login = [d \in Device |-> [i \in Screen |-> BlankLogin]]
    /\ map = [d \in Device |-> [i \in Screen |-> BlankMap]]
    /\ account = [d \in Device |-> Guest]
    /\ taps = [d \in Device |-> 0]
    /\ late = {}

-----------------------------------------------------------------------------
(***************************************************************************)
(* The user.                                                              *)
(***************************************************************************)

Edit(d, i) ==
    /\ LoginShown(d, i)
    /\ \/ \E text \in Username : login' = [login EXCEPT ![d][i].username = text]
       \/ \E text \in Password : login' = [login EXCEPT ![d][i].password = text]
    /\ UNCHANGED <<firestoreVars, map, account, taps, late>>

\* Mutant of LoginRequest: the password is not part of the query.
RequestByName(d, i, tap) ==
    [query |-> [Username |-> login[d][i].username], view |-> i, tap |-> tap]

LoginRequest(d, i, tap) ==
    [query |-> [Username |-> login[d][i].username, Password |-> Hash[login[d][i].password]],
     view |-> i, tap |-> tap]

\* A tap on Login.  Nothing disables the button while a query is under way.
LogIn(d, i) ==
    /\ LoginShown(d, i)
    /\ Cardinality(listens[d]) + Len(callbacks[d]) < MaxInFlight
    /\ taps[d] < MaxTaps
    /\ taps' = [taps EXCEPT ![d] = @ + 1]
    /\ GetDocuments(d, <<LoginRequest(d, i, taps[d] + 1)>>)
    /\ UNCHANGED <<login, map, account, late>>

\* Mutant of LogOut: the global variable keeps the account.
LogOutKeepingAccount(d, i) ==
    /\ MapShown(d, i)
    /\ i < MaxScreens
    /\ login' = [login EXCEPT ![d][i].isLoggedIn = FALSE]
    /\ map' = [map EXCEPT ![d][i].switchToLogin = TRUE]
    /\ late' = late \ {d}
    /\ UNCHANGED <<firestoreVars, account, taps>>

\* A tap on Log Out.  The new LoginView starts from its defaults.
LogOut(d, i) ==
    /\ MapShown(d, i)
    /\ i < MaxScreens
    /\ login' = [login EXCEPT ![d][i].isLoggedIn = FALSE]
    /\ account' = [account EXCEPT ![d] = Guest]
    /\ map' = [map EXCEPT ![d][i].switchToLogin = TRUE]
    /\ late' = late \ {d}
    /\ UNCHANGED <<firestoreVars, taps>>

-----------------------------------------------------------------------------
(***************************************************************************)
(* The callback of the login query.                                       *)
(***************************************************************************)

\* Mutant of AccountAfter: the account is named after the field, not the document.
AccountTyped(d, answer) ==
    IF answer.documents = {} THEN {account[d]}
    ELSE {login[d][answer.request.view].username}

\* Mutant of AccountAfter: the fields of the document are mixed up.
AccountMixedUp(d, answer) ==
    IF answer.documents = {} THEN {account[d]}
    ELSE {document.data.Password : document \in answer.documents}

\* `account` after the loop over the documents: the last one wins, none leaves it alone.
AccountAfter(d, answer) ==
    IF answer.documents = {} THEN {account[d]}
    ELSE {document.data.Username : document \in answer.documents}

\* The three assignments of a successful login.
Switched(s) ==
    [s EXCEPT !.isLoggedIn = TRUE, !.displayLoginError = FALSE, !.switchView = TRUE]

\* An answer that writes `account` is late if its LoginView has switched before.
LateAfter(d, answer) ==
    IF answer.documents # {} /\ login[d][answer.request.view].switchView
      THEN late \cup {d} ELSE late

\* Mutant of LoggedIn: the view is switched without looking at `account`.
LoggedInUnchecked(d) ==
    LET answer == Head(callbacks[d])
        i == answer.request.view
    IN /\ CallbackRuns(d)
       /\ ~ answer.err
       /\ \E name \in AccountAfter(d, answer) : account' = [account EXCEPT ![d] = name]
       /\ login' = [login EXCEPT ![d][i] = Switched(@)]
       /\ late' = LateAfter(d, answer)
       /\ UNCHANGED <<server, cache, mutations, offline, listens, map, taps>>

\* The test is of the global variable, not of the answer.
LoggedIn(d) ==
    LET answer == Head(callbacks[d])
        i == answer.request.view
    IN /\ CallbackRuns(d)
       /\ ~ answer.err
       /\ \E name \in AccountAfter(d, answer) \ {Guest} :
             account' = [account EXCEPT ![d] = name]
       /\ login' = [login EXCEPT ![d][i] = Switched(@)]
       /\ late' = LateAfter(d, answer)
       /\ UNCHANGED <<server, cache, mutations, offline, listens, map, taps>>

\* Mutant of LoginRefused: the view that asked is shown again.
LoginRefusedTakingBack(d) ==
    LET answer == Head(callbacks[d])
        i == answer.request.view
    IN /\ CallbackRuns(d)
       /\ ~ answer.err
       /\ AccountAfter(d, answer) = {Guest}
       /\ login' = [login EXCEPT ![d][i].displayLoginError = TRUE, ![d][i].switchView = FALSE]
       /\ UNCHANGED <<server, cache, mutations, offline, listens, map, account, taps, late>>

LoginRefused(d) ==
    LET answer == Head(callbacks[d])
        i == answer.request.view
    IN /\ CallbackRuns(d)
       /\ ~ answer.err
       /\ AccountAfter(d, answer) = {Guest}
       /\ login' = [login EXCEPT ![d][i].displayLoginError = TRUE]
       /\ UNCHANGED <<server, cache, mutations, offline, listens, map, account, taps, late>>

\* An error is only printed.
QueryFailed(d) ==
    /\ CallbackRuns(d)
    /\ Head(callbacks[d]).err
    /\ UNCHANGED <<server, cache, mutations, offline, listens, sessionVars>>

Callback(d) == LoggedIn(d) \/ LoginRefused(d) \/ QueryFailed(d)

-----------------------------------------------------------------------------

\* The app is killed and started again: variables and @State are back at their defaults.
Restart(d) ==
    /\ LibraryRestart(d)
    /\ login' = [login EXCEPT ![d] = [i \in Screen |-> BlankLogin]]
    /\ map' = [map EXCEPT ![d] = [i \in Screen |-> BlankMap]]
    /\ account' = [account EXCEPT ![d] = Guest]
    /\ late' = late \ {d}
    /\ UNCHANGED taps

\* Somebody registers on another installation of the app.
SignUpElsewhere ==
    /\ \E document \in Account : server' = server \cup {document}
    /\ UNCHANGED <<cache, mutations, offline, listens, callbacks, sessionVars>>

Next ==
    \/ SignUpElsewhere
    \/ \E d \in Device :
          \/ \E i \in Screen : Edit(d, i) \/ LogIn(d, i) \/ LogOut(d, i)
          \/ Callback(d)
          \/ Restart(d)
          \/ FirestoreStep(d) /\ UNCHANGED sessionVars

\* As for registration: queued callbacks run, waiting requests are answered.
Fairness ==
    \A d \in Device :
        /\ WF_vars(Callback(d))
        /\ WF_vars(Raise(d) /\ UNCHANGED sessionVars)

Spec == Init /\ [][Next]_vars /\ Fairness
-----------------------------------------------------------------------------
(***************************************************************************)
(* Properties.                                                            *)
(***************************************************************************)

\* Nobody is at the map without an account, however often Login is tapped and whenever
\* the answers come, before or after a logout (LoginView.swift:64-67, MapView.swift:60-63).
MapImpliesAccount ==
    \A d \in Device : \A i \in Screen : MapShown(d, i) => account[d] # Guest

\* A view has switched, or waits for an answer, only where the nesting has got to: an
\* answer never opens the map inside a screen that is not there yet (LoginView.swift:27,
\* 93-95 and MapView.swift:38, 74-75).
Nesting ==
    \A d \in Device :
        /\ \A i \in Screen : login[d][i].switchView => Reached(d, i)
        /\ \A request \in Outstanding(d) : Reached(d, request.view)

\* The account is only ever set to one registered with the user name and the password
\* that were in the fields when Login was tapped (LoginView.swift:48-61).
AccountNeedsCredentials ==
    [][\A d \in Device : account'[d] # account[d] /\ account'[d] # Guest =>
          /\ account'[d] = Head(callbacks[d]).request.query.Username
          /\ \E document \in server : document.data = Head(callbacks[d]).request.query]_vars

\* The map replaces a LoginView only on an answer that holds an account: the branch
\* "the user successfully logged in" (LoginView.swift:64).
LoginOnlyOnMatch ==
    [][\A d \in Device : \A i \in Screen :
          login'[d][i].switchView /\ ~ login[d][i].switchView =>
              Head(callbacks[d]).documents # {}]_vars

\* LoginOnlyOnMatch is broken by late answers and by nothing else: the test of the global
\* variable (LoginView.swift:64) says yes to an empty answer only if, since the last logout
\* or restart, an answer to a LoginView that had already given way has written `account`.
OnlyLateAnswersMislead ==
    [][\A d \in Device : \A i \in Screen :
          login'[d][i].switchView /\ ~ login[d][i].switchView =>
              Head(callbacks[d]).documents # {} \/ d \in late]_vars

\* A user who has logged out, or never logged in, leaves no account behind, however many
\* queries are under way; only an answer that comes late, to a LoginView that had already
\* given way, may fill it again (MapView.swift:61-63, LoginView.swift:59).
LoggedOutMeansNoAccount ==
    \A d \in Device : \A i \in Screen :
        LoginShown(d, i) /\ d \notin late => account[d] = Guest

\* The session of a device: whose map is shown, and whether answers are still to come to
\* a LoginView that has given way.
Sessions == INSTANCE SessionRegister WITH
    registered <- server,
    user <- [d \in Device |->
               IF \E i \in Screen : MapShown(d, i) THEN account[d] ELSE Guest],
    overdue <- {d \in Device :
                  \E request \in Outstanding(d) : login[d][request.view].switchView}

\* The queries, their callbacks, the nested screens and the global variable amount to a
\* register that a login fills and a logout clears; a user is exchanged for another without
\* a logout only where an answer is overdue.
ImplementsSessions == Sessions!Spec
=============================================================================
