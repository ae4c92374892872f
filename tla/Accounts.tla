------------------------------- MODULE Accounts -------------------------------
(***************************************************************************)
(* CreateAccountView: registering an account, on several devices at once. *)
(*                                                                        *)
(* A view asks the server whether a user name is taken and writes the     *)
(* account when the answer comes back.  Between the two the user may edit *)
(* the form, tap again, leave the screen, and other devices may register. *)
(* The answer's handler reads the form and the error flags as they are    *)
(* when it runs, not as they were at the tap.                             *)
(***************************************************************************)
EXTENDS Firestore

CONSTANTS
    Username,       \* what can be typed as a user name
    Password,       \* what can be typed as a password
    ValidUsername,  \* those that isUsernameValid accepts
    ValidPassword,  \* those that isPasswordValid accepts
    Hash,           \* Hash[p]: BCryptSwift.hashPassword with the app's fixed salt
    Existing,       \* the accounts committed before the run
    MaxTaps,        \* bound: taps per device that send a query
    MaxViews,       \* bound: times a device opens the screen
    Scopes          \* the users and bounds a behaviour may have: records with the fields
                    \* patient: users leave a view alone while it waits for an answer
                    \* devices: the installations that are in use
                    \* taps, views: for each device, its share of MaxTaps and MaxViews

ASSUME InputsAssumption ==
    /\ "" \in Username /\ ValidUsername \subseteq Username \ {""}
    /\ "" \in Password /\ ValidPassword \subseteq Password \ {""}
    /\ DOMAIN Hash = Password

ASSUME BoundsAssumption ==
    /\ MaxTaps \in Nat /\ MaxViews \in Nat
    /\ Scopes \subseteq [patient : BOOLEAN, devices : SUBSET Device,
                        taps : [Device -> 0 .. MaxTaps], views : [Device -> 0 .. MaxViews]]

\* The k-th CreateAccountView a device has opened.
View == Device \X (1 .. MaxViews)
Host(v) == v[1]

\* The key addDocument makes up: told apart by the device and the tap it answers;
\* number 0 is left to the accounts of earlier runs.
DocumentId == Device \X (0 .. MaxTaps)
AccountData == [Username : Username, Password : {Hash[p] : p \in Password}]
Account == [id : DocumentId, data : AccountData]

Request == [query : [Username : Username], view : View, tap : 1 .. MaxTaps]

\* A device that has created an account holds it in its cache.
CreatedBy(d) == {document \in Existing : document.id[1] = d}

ASSUME ExistingAssumption ==
    /\ Existing \subseteq {document \in Account : document.id[2] = 0}
    /\ \A one, other \in Existing :
          one.data.Username = other.data.Username => one = other

VARIABLES
    screen,     \* screen[v] \in {"unopened", "shown", "closed"}
    state,      \* state[v]: the @State of v
    taps,       \* taps[d]: queries sent by the views of d
    scope       \* the scope of this behaviour, which stays as it is

accountsVars == <<screen, state, taps>>
vars == <<firestoreVars, accountsVars, scope>>

Patient == scope.patient

ViewState ==
    [username : Username, password : Password, confirmPassword : Password,
     displayUsernameError : BOOLEAN, displayUsernameFormatError : BOOLEAN,
     displayPasswordFormatError : BOOLEAN, displayPasswordsMatchError : BOOLEAN]

TypeOK ==
    /\ FirestoreTypeOK(Request, Account)
    /\ screen \in [View -> {"unopened", "shown", "closed"}]
    /\ state \in [View -> ViewState]
    /\ taps \in [Device -> 0 .. MaxTaps]
    /\ scope \in Scopes

\* v waits for the answer to one of its requests.
Waiting(v) == \E request \in Outstanding(Host(v)) : request.view = v

\* The user may act on v: it is on the screen, and a patient user lets it finish.
Usable(v) == screen[v] = "shown" /\ (Patient => ~ Waiting(v))

-----------------------------------------------------------------------------

BlankState ==
    [username |-> "", password |-> "", confirmPassword |-> "",
     displayUsernameError |-> FALSE, displayUsernameFormatError |-> FALSE,
     displayPasswordFormatError |-> FALSE, displayPasswordsMatchError |-> FALSE]

Init ==
    /\ FirestoreInit(Existing, [d \in Device |-> CreatedBy(d)])
    /\ screen = [v \in View |-> "unopened"]
    /\ state = [v \in View |-> BlankState]
    /\ taps = [d \in Device |-> 0]
    /\ scope \in Scopes

-----------------------------------------------------------------------------
(***************************************************************************)
(* The user.                                                              *)
(***************************************************************************)

\* The link of the login screen pushes a new view: one at a time on a device.
Open(v) ==
    /\ screen[v] = "unopened"
    /\ Host(v) \in scope.devices /\ v[2] <= scope.views[Host(v)]
    /\ \A other \in View : Host(other) = Host(v) =>
          screen[other] # "shown" /\ (other[2] < v[2] => screen[other] = "closed")
    /\ screen' = [screen EXCEPT ![v] = "shown"]
    /\ UNCHANGED <<firestoreVars, state, taps>>

\* The back button.  Requests under way keep the view's storage alive.
Leave(v) ==
    /\ Usable(v)
    /\ screen' = [screen EXCEPT ![v] = "closed"]
    /\ UNCHANGED <<firestoreVars, state, taps>>

Edit(v) ==
    /\ Usable(v)
    /\ \/ \E text \in Username : state' = [state EXCEPT ![v].username = text]
       \/ \E text \in Password : state' = [state EXCEPT ![v].password = text]
       \/ \E text \in Password : state' = [state EXCEPT ![v].confirmPassword = text]
    /\ UNCHANGED <<firestoreVars, screen, taps>>

\* Mutant of isPasswordValid: the result of the match is ignored.
AnyPassword(password) == password \in Password

isUsernameValid(username) == username \in ValidUsername
isPasswordValid(password) == password \in ValidPassword
isPasswordMatch(passwordOne, passwordTwo) == passwordOne = passwordTwo

UsernameRequest(v, tap) ==
    [query |-> [Username |-> state[v].username], view |-> v, tap |-> tap]

\* The flags as the first lines of processInput set them.
Checked(s) ==
    [s EXCEPT !.displayUsernameError = FALSE,
              !.displayUsernameFormatError = ~ isUsernameValid(s.username),
              !.displayPasswordFormatError = ~ isPasswordValid(s.password),
              !.displayPasswordsMatchError = ~ isPasswordMatch(s.password, s.confirmPassword)]

\* A tap on Create Account: the query is sent when both formats are right, whether
\* or not the passwords match.
processInput(v) ==
    /\ Usable(v)
    /\ state' = [state EXCEPT ![v] = Checked(@)]
    /\ IF ~ state'[v].displayPasswordFormatError /\ ~ state'[v].displayUsernameFormatError
         THEN /\ taps[Host(v)] < scope.taps[Host(v)]
              /\ taps' = [taps EXCEPT ![Host(v)] = @ + 1]
              /\ GetDocuments(Host(v), <<UsernameRequest(v, taps[Host(v)] + 1)>>)
         ELSE UNCHANGED <<firestoreVars, taps>>
    /\ UNCHANGED screen

-----------------------------------------------------------------------------
(***************************************************************************)
(* The callback of the query.  `answer` is the head of the main queue.    *)
(***************************************************************************)

\* The condition under which the callback goes on to write: nobody has the name and
\* none of the four error flags is set by now.
MayCreate(answer, s) ==
    /\ answer.documents = {}
    /\ ~ s.displayPasswordsMatchError
    /\ ~ s.displayUsernameFormatError
    /\ ~ s.displayPasswordFormatError
    /\ ~ s.displayUsernameError

\* Mutant of NewAccount: the password is stored as it was typed.
PlainAccount(answer) ==
    LET s == state[answer.request.view]
    IN [id |-> <<Host(answer.request.view), answer.request.tap>>,
        data |-> [Username |-> s.username, Password |-> s.password]]

NewAccount(answer) ==
    LET s == state[answer.request.view]
    IN [id |-> <<Host(answer.request.view), answer.request.tap>>,
        data |-> [Username |-> s.username, Password |-> Hash[s.password]]]

\* The account is written from the present content of the form and the view dismissed.
AccountCreated(d) ==
    LET answer == Head(callbacks[d])
        v == answer.request.view
    IN /\ CallbackRuns(d)
       /\ ~ answer.err
       /\ MayCreate(answer, state[v])
       /\ state[v].password = state[v].confirmPassword
       /\ AddDocument(d, NewAccount(answer))
       /\ screen' = [screen EXCEPT ![v] = "closed"]
       /\ UNCHANGED <<server, cache, offline, listens, state, taps>>

\* The passwords no longer match.
LateMismatch(d) ==
    LET answer == Head(callbacks[d])
        v == answer.request.view
    IN /\ CallbackRuns(d)
       /\ ~ answer.err
       /\ MayCreate(answer, state[v])
       /\ state[v].password # state[v].confirmPassword
       /\ state' = [state EXCEPT ![v].displayPasswordsMatchError = TRUE]
       /\ UNCHANGED <<server, cache, mutations, offline, listens, screen, taps>>

\* Everything else is reported as a taken user name.
UsernameRefused(d) ==
    LET answer == Head(callbacks[d])
        v == answer.request.view
    IN /\ CallbackRuns(d)
       /\ ~ answer.err
       /\ ~ MayCreate(answer, state[v])
       /\ state' = [state EXCEPT ![v].displayUsernameError = TRUE]
       /\ UNCHANGED <<server, cache, mutations, offline, listens, screen, taps>>

\* An error is only printed.
QueryFailed(d) ==
    /\ CallbackRuns(d)
    /\ Head(callbacks[d]).err
    /\ UNCHANGED <<server, cache, mutations, offline, listens, accountsVars>>

Callback(d) ==
    AccountCreated(d) \/ LateMismatch(d) \/ UsernameRefused(d) \/ QueryFailed(d)

\* The app is killed and started again: the screens are gone with their callbacks.
Restart(d) ==
    /\ LibraryRestart(d)
    /\ screen' = [v \in View |->
          IF Host(v) = d /\ screen[v] = "shown" THEN "closed" ELSE screen[v]]
    /\ UNCHANGED <<state, taps>>

-----------------------------------------------------------------------------

Next ==
    /\ \/ \E v \in View : Open(v) \/ Leave(v) \/ Edit(v) \/ processInput(v)
       \/ \E d \in Device :
             /\ d \in scope.devices
             /\ \/ Callback(d)
                \/ Restart(d)
                \/ FirestoreStep(d) /\ UNCHANGED accountsVars
    /\ UNCHANGED scope

\* Queued callbacks run, and a waiting request is answered from the network or, when
\* the online state timer fires, from the cache.  Users owe nothing.
Fairness ==
    \A d \in Device :
        /\ WF_vars(Callback(d) /\ UNCHANGED scope)
        /\ WF_vars(Raise(d) /\ UNCHANGED <<accountsVars, scope>>)

Spec == Init /\ [][Next]_vars /\ Fairness
-----------------------------------------------------------------------------
(***************************************************************************)
(* Properties.                                                            *)
(***************************************************************************)

\* Every account there is, on its way to the server or committed.
Accounts == server \cup UNION {Pending(d) : d \in Device}

\* A device whose users wait for answers never creates two accounts with one user name,
\* however its answers, its queued writes, the loss of connection and restarts interleave:
\* what it has written is in the answer to its next query (CreateAccountView.swift:60).
OneAccountPerDevice ==
    Patient => \A one, other \in Accounts :
        one.id[1] = other.id[1] /\ one.data.Username = other.data.Username => one = other

\* No two accounts have the same user name: what the check of the callback and the text
\* "That username already exists!" promise (CreateAccountView.swift:60 and 169).
UniqueUsernames ==
    \A one, other \in Accounts : one.data.Username = other.data.Username => one = other

\* An account made by a patient user has a user name and a password of the required format,
\* though the check is made at the tap and the write later, from the form as it then is
\* (CreateAccountView.swift:46 and 68-75).
AccountsWellFormed ==
    Patient => \A account \in Accounts \ Existing :
        /\ account.data.Username \in ValidUsername
        /\ \E p \in ValidPassword : account.data.Password = Hash[p]

\* Every request of a screen is answered and handled, or dies with the process: no view
\* waits for ever, on a network that may never come back (query_listener.cc:99-124).
RequestsSettle == \A v \in View : Waiting(v) ~> ~ Waiting(v)

\* The accounts as a directory of which each device knows a part.
Directory == INSTANCE AccountDirectory WITH
    Document <- {account \in Account :
                    /\ account.data.Username \in ValidUsername
                    /\ \E p \in ValidPassword : account.data.Password = Hash[p]},
    Registered <- Existing,
    committed <- server,
    known <- [d \in Device |-> LocalDocuments(d) \cap server],
    pending <- [d \in Device |-> Pending(d) \ server]

\* For patient users the query, the callback and the queued write of a device amount to
\* one atomic step that checks a name against all that the device knows and takes it,
\* whatever the other devices do in between (CreateAccountView.swift:47-79).
ImplementsDirectory ==
    /\ Patient => Directory!Init
    /\ [][Patient => Directory!Next]_(Directory!directoryVars)
=============================================================================
