# Pindex in TLA+

Pindex is an iOS app: users register and log in, see a map with two pins, open
the bulletin board behind a pin, read its posts and add new ones. The whole
state that users share is in a Firestore database, which every screen queries and
writes directly. There is no server code; what the app relies on is the Firestore
client library, which is vendored under `Pods/`.

This directory models the app's own logic - the screens, their callbacks and the
global variables between them - over a model of the Firestore client, and that client
itself one level further down: listeners, watch targets, the watch stream, the write stream
and the gRPC stream under them. TLC checks the modules on small instances; TLAPS proves their safety properties and
refinements for instances of any size. Paths below are relative to `src/Pindex/Pindex/` unless they start
with `Firestore/`, which stands for
`src/Pindex/Pods/FirebaseFirestore/Firestore/core/src/firebase/firestore/`.

## 1. Inventory

| Component | Source | State | Operations |
|---|---|---|---|
| Account creation | `CreateAccountView.swift` | `@State`: texts of the form, four error flags | edit, Create Account (`processInput`), callback of the name query, leave |
| Input formats | `CreateAccountView.swift:99-143` | none | `isUsernameValid`, `isPasswordValid`, `isPasswordMatch` |
| Login and session | `LoginView.swift`, `../MapView.swift:27-79` | `@State`: texts, `switchView`, `isLoggedIn`, `displayLoginError`, `switchToLogin`; global `account` | edit, Login, callback of the login query, Log Out |
| Bulletin board | `BulletinBoardView.swift` | `@State`: `posts`, `showingPostView`; global `currentBulletinBoard` | appear (count the posts, ask for 30 pages), callbacks, disappear, open a post |
| Creating a post | `NewPost.swift` | the text fields, the binding to the board's `posts` | Create Post, Cancel |
| Post, PostView | `Post.swift`, `PostView.swift` | none | show |
| Map screen | `../MapView.swift` | `pins`, `selectedPin`, `action` | select and deselect a pin, `updateUIView`, callbacks of the coordinates |
| Location manager | `../MapView.swift:226-298` | `lastLocation`; globals `mStruct`, `mStructView`, `needToCenterLocation` | location updates, centring |
| App and scene delegates | `AppDelegate.swift`, `SceneDelegate.swift` | globals `db`, `salt` | start |
| Firestore queries, cache and writes (vendored) | `Firestore/local`, `Firestore/core` | document cache, mutation queue, requests | `getDocuments`, `addDocument`, snapshots, acknowledgements, restart |
| Firestore client (vendored) | `Firestore/api/query_core.mm`, `Firestore/core/event_manager.mm`, `query_listener.cc`, `sync_engine.mm`, `Firestore/remote/remote_store.mm`, `remote_event.cc`, `stream.mm`, `online_state_tracker.cc` | listeners, views, listen targets, the watch stream, acknowledgements due, the online state and its timer | listen and stop listening, the stream's start, open, read, close, backoff and idle timeout, the online state timeout |
| Firestore client, write path (vendored) | `Firestore/remote/remote_store.mm:345-503`, `write_stream.mm`, `stream.mm`, `Firestore/local/local_store.mm` | the persisted mutation queue, the write pipeline, the write stream and whether its handshake is complete | queue a write, fill the pipeline, handshake, results, errors of writes and of the handshake, backoff, idle timeout, restart |
| gRPC stream (vendored) | `Firestore/remote/grpc_stream.cc`, `grpc_completion.cc`, `grpc_connection.cc` | completions, buffered writes, whether the call is finished, the observer | start, write, finish in four ways, the callbacks of completions |
| BCrypt (vendored) | `Pods/BCryptSwift` | none | `hashPassword` |

How they interact. `LoginView` pushes `CreateAccountView` and is *replaced* by
`MapView` when its `switchView` is set; `MapView` is replaced by a new `LoginView`
when its `switchToLogin` is set, so that a session is a nest of screens that only
grows. A pin's action sets the global `currentBulletinBoard` and the map pushes a
board. The screens talk to each other by globals and bindings only. All of them
call Firestore and get its answers in callbacks on the main queue.

What is hard here. The app has one thread of its own, but every query is a gap:
between the call and its callback the user may edit the form, tap again, leave
the screen, log out or open another board; other devices may write; the
connection may go; the app may be killed. Callbacks then read `self`'s `@State` and
the globals as they are when they run. Answers come in any order, and from the
local cache when the client is offline. Writes are queued, acknowledged later,
refused without notice (no completion block is passed), and survive the app.

In the client a call crosses two queues, the app's and the worker's, and a third thread
polls gRPC. A target is watched, left and watched again while confirmations of the earlier
requests are still on their way; the stream fails with some of them outstanding; timers
race answers; the worker blocks on the polling thread in order to tear a stream down.

What makes each part correct:

- *Account creation*: a user name belongs to one account; what is written was
  checked; a refusal has its true reason; no form waits for ever.
- *Login and session*: the map is shown to somebody who is logged in, and only
  after a match; `account` is a registered account whose credentials were
  entered; a logout leaves nothing behind.
- *Bulletin board*: it shows posts of its own board, each once, all of them, and
  is not left waiting.
- *Firestore*: every query is answered once; an answer holds the matching
  documents of the server or of the local view, queued writes included; the cache
  answers only a client that knows itself offline.
- *Watch targets*: the acknowledgements waited for are the ones that are due, and what the
  server said of an earlier watch is not taken for the present one.
- *Write path*: every write reaches the server, in the order it was made, and leaves the queue when
  the server has applied it, or refused it, and for no other reason.
- *gRPC stream*: nothing refers to a stream that is gone; its call is finished once; the
  worker never blocks for good; a failure is reported.
- *Map screen*: a tap opens the board of that pin; after going back every pin can be
  tapped; a tap brings the pins whose coordinates are known to their places; the map is centred on the
  user once a location is known, and never on the fallback.

## 2. Modules

| Module | Models | Composed of |
|---|---|---|
| `Firestore` | the client of each device and the document server | |
| `Accounts` | `CreateAccountView` on several devices | extends `Firestore` |
| `AccountDirectory` | registration as one atomic check-and-take against what a device knows | abstract |
| `Session` | `LoginView`, Log Out, global `account` | extends `Firestore` |
| `SessionRegister` | who uses a device, and where answers are overdue | abstract |
| `BulletinBoard` | `BulletinBoardView`, `NewPost`, `PostView` | extends `Firestore` |
| `MapScreen` | `MapView` with its `Map`, `Coordinator` and `LocationManager` | |
| `OnlineStateTracker` | the tracker, as operators on a record | |
| `WatchChangeAggregator` | the targets of one stream, as operators on a function | |
| `FirestoreClient` | listeners, views, targets, the watch stream and the backend behind it | extends `OnlineStateTracker`, `WatchChangeAggregator` |
| `QueryService` | one-shot queries, each answered in one step | abstract |
| `WriteStream` | the mutation queue, the write pipeline, the write stream and the server behind it | refines the queue of `Firestore` |
| `GrpcStream` | `GrpcStream`, its completions and gRPC's polling thread | |
| `FirestoreProofs` | types, outstanding requests, truth and completeness of answers | extends `Firestore` |
| `AccountsProofs` | the theorems about `Accounts` | extends `Accounts`, `FirestoreProofs` |
| `SessionProofs` | the theorems about `Session` | extends `Session`, `FirestoreProofs` |
| `BulletinBoardProofs` | the theorems about `BulletinBoard` | extends `BulletinBoard`, `FirestoreProofs` |
| `MapScreenProofs` | the theorems about `MapScreen` | extends `MapScreen` |
| `FirestoreClientProofs` | the theorems about `FirestoreClient`, its tracker and its targets | extends `FirestoreClient` |
| `WriteStreamProofs` | the theorems about `WriteStream` | extends `WriteStream` |
| `GrpcStreamProofs` | the theorems about `GrpcStream` | extends `GrpcStream` |
| `MCAccounts`, `MCSession`, `MCBulletinBoard`, `MCMapScreen`, `MCFirestoreClient`, `MCWriteStream`, `MCGrpcStream` | constants of the instances | |

### Firestore

`server` is the set of committed documents. Per device there are the remote
document `cache`, the persisted queue of `mutations`, whether the client knows
itself `offline`, the `listens` (requests without a first snapshot) and the
`callbacks` raised but not yet run on the main queue. A request carries its query and
whatever its closure captures. It is answered

- from the server (`RaiseSynced`): the target is current, the snapshot is no longer
  "from cache" (`Firestore/core/query_listener.cc:99-124`);
- from the local documents view, when the online state becomes Offline
  (`GoOffline`, all waiting listeners at once, if there are any, `Firestore/core/event_manager.mm:89-104`)
  or when it already is (`GetDocuments`);
- with an error (`ListenFails`).

`LocalDocuments` is the cache under the queued writes, as in
`Firestore/local/local_documents_view.mm:168-215`. A queued write is committed
(`CommitWrite`: in the order of the queue, several may be on their way), acknowledged and moved to the cache (`AcknowledgeBatch`), or
refused (`RejectBatch`). `LibraryRestart` loses requests and callbacks and keeps what is
in LevelDB.

Abstractions. A call of the app and the task it enqueues on the library's worker
queue are one action: tasks run in the order of the calls, the app reads no library state
directly, and every effect on the app comes through `callbacks`, which are delayed
arbitrarily. The server's evaluation of a query and the raising of the snapshot are
one action. Documents are never changed or deleted, because the app never does so;
hence a cache only grows. Limbo documents, garbage collection and transactions have no
counterpart. That queries are answered like this - from the cache only when
offline, from the server completely otherwise, and in the end always - is what
`FirestoreClient` shows of the code below; that writes are committed, acknowledged and
refused like this is what `WriteStream` shows.

### Accounts

A view is a pair of a device and a number, `state[v]` its `@State`, `screen[v]` whether it
has been opened, shown, closed. `processInput` is the tap; the callback is split by
its branches into `AccountCreated`, `LateMismatch`, `UsernameRefused` and
`QueryFailed`. As in the code the callback reads the present form and flags. A view
that was left keeps its state as long as a closure refers to it. `Patient` tells whether users
leave a view alone while it waits; the code does not enforce it. The variable `scope`, chosen in `Init` and
kept, holds the patience, the devices in use and the bounds of a behaviour, so that one run covers both kinds of users.
An account of a device that is not in use is one that others have registered before.
The two formats are given by the sets `ValidUsername` and `ValidPassword`.

### Session

`login[d][i]` and `map[d][i]` are the states of the i-th nested pair of screens; which
one is on display follows from `switchView` and `switchToLogin`. `LogIn` does not disable
the button, so `MaxInFlight` queries may be under way. The callback is split into
`LoggedIn`, `LoginRefused` and `QueryFailed`: it assigns `account` in its loop and tests
`account`, not the answer. `SignUpElsewhere` lets accounts appear on the server.
`late` is a history variable: the devices whose `account` was last written by an answer that came when its LoginView had already
given way to a map; a logout or a restart, which clear `account`, take a device out of it.

### BulletinBoard

Each opening of a board is a `visit` with an `@State` of its own; each appearance is a
`load` that empties `posts` and sends the count query and the page queries in one call,
in the order of the code. `PageLoaded` appends the documents of one answer in any
order; `PageDiscarded` is an answer for a visit that is over; `PostsCounted` is the
callback of `getNumberOfPosts`, whose counter nobody reads. `CreatePost` writes the document
without a `PostNumber` and appends the local copy, numbered by the length of the array.
`PopToMap` is the choice SwiftUI has when `onDisappear` resets the map's `mapAction`
under a pushed `PostView`: both outcomes, popped or not, are in the model. Posts are
told apart by key, board and number; title, content and dates are left out.
`failed` and `wasOffline` are history variables: the pages of the present load that ended in an error, and the devices
that were offline at some moment of it; the latter is kept by every step (`Records`).

`scope` is as in `Accounts`; `PageLimit`, `Patient`,
`MaxVisits`, `MaxLoads` and `MaxPosts` read it.

Not modelled inside these components: first and last name, the deprecated
`getPosts` (nothing calls it) and printing.

### MapScreen

One thread: events and renders. A write to `@State` makes the map `dirty`, and SwiftUI
renders before the next input (`Render`): the body is evaluated, the `Text` that only
exists with a selected pin appears and sets `action`, and `updateUIView` stores `mStruct`,
sets the region and rebuilds the annotations, which calls the delegate (`UpdateAnnotations`).
Whether MapKit tells the delegate of the deselection that comes with a removal is left
open; so is whether writing an equal value asks for another render. `Push` is the
navigation link opening the board, `Back` the return. Each evaluation of the body makes a new `Map`
with a new `LocationManager` (`MapView.swift:130`), so a render caused by state
loses the location until the manager reports one; a render caused by a location
or an authorization (`didUpdateLocations`, `didChangeAuthorization`: the manager's published values) does not. A Map is told by where it is: the one on display
(`rendered`), and, if the global `mStruct` holds another, that one (`earlier`); the managers of both may report, at any moment or never.

### FirestoreClient, with OnlineStateTracker and WatchChangeAggregator

`GetDocuments` is a call on the app's queue; it enqueues a task for the worker
(`AddQueryListener`). An answer is an event for the app's queue (`RunEvent`), which mutes the
listener, asks for its removal (`RemoveQueryListener`) and calls back. `listeners`, `views` and `listened`
are what `EventManager`, `SyncEngine` and `RemoteStore` keep; `synced` the views that
are current. The stream runs through `StreamOpens`, `StreamFails`, `BackoffElapses` and
`IdleTimeout`; the messages of the backend are handled by `OnTargetChange`,
`OnDocumentChange`, `OnTargetError` and `OnSnapshot`, all of which first make the client Online.
`net` holds the requests and responses on their way and what the backend serves; its actions
(`ServerTakes`, `ServerSendsDocuments`, `ServerCallsCurrent`, `ServerSnapshot`, `ServerRejects`, `Commit`) are
external and follow the protocol the code relies on. A stream that closes loses all of it.

Abstractions: a query and its target are one (the local store gives it the same target
id each time); documents are counted; every snapshot carries a resume token, so each active
target is part of each remote event. Resume tokens on a new watch, existence
filters, `NoChange` and `Reset`, limbo documents and `DisableNetwork` have no counterpart: the app neither
deletes documents nor touches the network switch.
`since`, `overlapped` and `crossed` are history variables; the last two name the two
situations, described under Findings, in which the properties would not hold.

### WriteStream

A batch holds one document, as each `addDocument` makes one. `pipeline` is the start of `queue`
that has been sent or will be with the handshake; `FillWritePipeline` is what every write, result,
rejection and restart ends with, and it starts the stream (`StartIfNeeded`). `tasks` are the callbacks of
the gRPC stream on the worker: one read is outstanding, so at most one response is among them and
the others wait in `call`; the first failed operation (`OnOperationFailed`) cancels a response behind it and
puts the finish in its place, whose callback (`OnStreamFinish`) closes the stream. `CloseWithError` is
`Stream::Close` with `OnWriteStreamClose`: a permanent error after the handshake is taken for one of the first
write (`HandleWriteError`), any other leaves the pipeline alone and backs off. A change of
connectivity closes the stream in one step. The server applies or refuses what it is sent,
in order; it answers as long as the call lives, and may go on with what it was sent
before a call was lost (`late`, `LateCommit`), racing the same batches sent again.

Abstractions: aborted writes are retried like those of a broken connection; stream tokens
decide nothing in this client; a refused batch is refused always, and one that is committed
is accepted when it is sent again (its rules could deny an update where they allowed the creation; the
code takes that for a refusal). `rejected` and `unheard` are history variables; the second holds the committed
batches of the pipeline at the moment the refusal of a write cancels the responses still to come - a refused handshake adds none -
and names the situation, described under Findings, in which a committed write is given up.

### GrpcStream

A completion is on gRPC's queue (`cq`), taken off it by the polling thread (`returning`), enqueued
on the worker (`callbacks`), and run. `completions` is what the stream still tracks, `cancelled` those
whose callback has been emptied. `FinishGrpcCall` and `Shutdown` block the worker: they are
split at each wait (`worker.at`), and the polling thread moves in between.
The half second of `TryLastWrite` is `LastWriteOver`, which may come at any time. The
observer may finish the stream from inside `OnStreamRead`; that is the second
disjunct of `OnRead`. The stream is destroyed by its owner at the end of either way of finishing.

### Abstract specifications

`AccountDirectory` has, for each device, one step that checks a name and takes it, against the committed accounts
the device knows of and its own pending ones; then the server commits or refuses. What a device knows only grows, and all it has registered is in it.
Nothing is checked against the accounts of all devices, since the code does not: that is what `accounts_race` shows.
`ImplementsDirectory` maps `committed` to the server's accounts, `known` to the committed accounts in a device's local view and `pending`
to the queued ones not committed yet: taps, queries, edits and restarts
are stutters, answers let a device learn. `SessionRegister` says who is logged in on each device, and on which devices answers of an earlier
login are overdue: there, and only there, one registered user may take the place of another without a logout, and never the place of nobody.
`ImplementsSessions` maps `user` to `account` while a map is shown and to nobody otherwise, and `overdue` to the devices
with a query under way from a LoginView that has given way.
`QueryService` has one answer per request: from the cache only while `offline` and then at
once, from the server or as an error otherwise. `ImplementsQueryService` maps `offline` to the tracker being
Offline and an answer to what the first event raised for a listener carried. `Firestore` itself is the
abstract specification of `WriteStream`: `ImplementsQueue` maps `server` to `committed` and the one device's
queue and cache to those of the client; pipeline, stream, handshakes, resending and restarts are stutters.

## 3. Runs

| Run | Instance | Properties | Shows |
|---|---|---|---|
| `accounts` | 2 devices, one in use, the other has registered a name; two scopes of 2 queries: 2 views, patient; 1 view, any user | `TypeOK`, `OneAccountPerDevice`, `AccountsWellFormed`, `RequestsSettle`, `ImplementsDirectory` | for patient users registration is atomic against what the device knows, across offline periods, refused and delayed writes and restarts; whatever the user does, every request is answered or dies with the process |
| `accounts_race` | 2 devices in use, 1 query each, no account at first | `UniqueUsernames` **violated** | two devices with full caches look one free name up and both register it |
| `session` | 3 queries, 2 in flight, 3 nested logins | `TypeOK`, `MapImpliesAccount`, `Nesting`, `LoggedOutMeansNoAccount`, `AccountNeedsCredentials`, `OnlyLateAnswersMislead`, `ImplementsSessions` | login and logout are a register but for overdue answers; the account matches the credentials of a query; only a late answer leaves an account behind a logout or lets a wrong password in |
| `session_stale` | 3 queries, 2 in flight, 2 nested logins | `LoginOnlyOnMatch` **violated** | after a double tap and a logout, a failed login opens the map |
| `board` | three scopes: 2 visits, 2 loads, 1 page, any user; 1 visit, 2 loads, 1 page, 1 new post, any user; 2 visits, 3 loads, 2 pages, 2 new posts, patient | `TypeOK`, `PostsOfCurrentBoard`, `EachPageListedOnce`, `PagesArrive` | late answers never mix boards; for patient users each numbered post is listed exactly once; no board is left waiting |
| `board_twice` | 1 visit, 2 loads, 2 pages, any user | `NoOldPosts` **violated** | answers of an earlier load are appended to a later one |
| `board_reload` | 2 visits, 2 loads | `AllPostsListed` **violated** | a post of the app is never loaded again |
| `map` | 2 pins, unbounded | `TypeOK`, `OpensTappedBoard`, `PinsCanBeTapped`, `CentresOnUser`, `TapOpensBoard`, `TapPlacesPins` | a tap opens its board and places the pins whose coordinates are known, and the map is never centred on the fallback, through every order of renders, delegate calls, coordinates, locations and authorizations, which may never come |
| `client` | 2 calls of one query, 1 connection failure, 1 new document, 3 responses on their way | `TypeOK`, `NoAssertionFails`, `OutstandingIsInFlight`, `SyncedViewsComplete`, `CalledOnce`, `ImplementsQueryService`, `QueriesAnswered` | queries are answered once, completely, and in the end, through failures, timeouts, rejections and re-listening |
| `client_untimed` | as `client` | `UnknownIsTimed` **violated** | a query can wait in the Unknown state without a timer |
| `writes` | 5 writes, pipeline of 4, 2 losses | `TypeOK`, `NoAssertionFails`, `OnlyRefusedDropped`, `ImplementsQueue`, `WritesSettle` | writes are applied in order, acknowledged when applied, given up only when refused, and none is forgotten, through refusals, lost responses, reconnections and restarts |
| `grpc` | 4 reads, 4 writes | `TypeOK`, `NothingOutlivesStream`, `CallFinishedOnce`, `WritesOneByOne`, `WorkerReleased`, `FailureReported` | a stream is torn down safely and completely, whoever finishes it and when |

**Why the bounds are enough.** A race of registrations needs two devices, a
double registration on one device two queries with a write between them; over two
views they also pass a refused write, an offline period or a restart between two attempts. One user name is
taken by a device that is not known, one is free, one has the wrong format; one password has the right format, one the wrong. A stale
login needs two queries in flight and a third after the logout, within two nested
screens; a third pair shows that nothing depends on the first two. For boards, two
boards and two visits mix boards; two loads of one visit mix loads; two pages
already come in both orders; a page has two posts, one or none. Screens,
devices and texts of one kind are alike for the code; no constant of it is compared
with these bounds, except that the code asks for 30 pages and the model for
`PageLimit`. Devices have cached the seeded posts but one (`Cached`): a device that is
offline during a load and has not cached a post may go without it, and `EachPageListedOnce` allows that and no more.

Two calls of one query share a view, and the second may come before, while, or after the
first is removed; so the target is watched twice on one stream with the first
unwatch outstanding. One failure hits the stream in every one of these states and the
second attempt then succeeds or hangs. Targets of different queries meet only in the tracker, the stream
and the snapshots; instances with two queries and three calls were checked for
the safety properties in smaller bounds (no new document or no failure), four calls in part, and are
too large for the full set; the safety properties are proved for any number of queries and calls. `MaxWatchStreamFailures` is 1, the code's constant. Reads and
writes of a stream are alike; four of each let a write fail while another waits and a read
is outstanding, and a write follow a failure. The map has two pins in the code.
In `writes` four batches on their way are the fewest with which a refusal can cancel a response that
has come (see Findings), and the fifth finds the pipeline full; two losses let the first and the second
attempt at the same batches be lost. The code's limit is ten; it is compared with the length of the pipeline only.
Six writes were checked as well, with the same result.

**Patience.** Several properties hold only for users who wait for an answer before
touching the screen again. The screens do nothing to enforce it, so each of these
stands beside one without patience: `board_twice` and the other scopes of `accounts` and `board` show what
happens then. The properties of `session` need none: users tap Login as often as they like, and what a second query in flight
can do is said by `late` and `overdue`, with `session_stale` as the example. `PostsOfCurrentBoard` needs no patience. `AccountsWellFormed` is of this kind too: a form edited between tap
and answer is stored as edited, with the flags of the tap.

**Fairness.** Users owe nothing: no tap is fair. Weakly fair are the callbacks of a
device (the main queue runs what it is given) and, for each device, the raising of
answers: as long as a request waits, either the server answers it, or it fails,
or the client finds itself offline and answers from the cache. The last is what the
code does about an unreachable server: a stream that fails or stays silent for
`kOnlineStateTimeout` sets the state Offline
(`Firestore/remote/online_state_tracker.cc:55-105`); `QueriesAnswered` of `client` shows it of
that code. No step of the server is fair:
writes may stay queued for ever. Commits and acknowledgements need no fairness
because no liveness property waits for them.

In `client` both queues run what is on them, timers fire, a connection attempt ends in one way or the other
(the HTTP/2 transport gives up after its own timeouts), an open stream delivers, and the backend goes on
with what it was asked. That the connection fails at most `MaxFailures` times bounds
the model; `QueriesAnswered` does not need the last attempt to succeed, since
the first failure or the timer makes the client Offline, but where `UnknownIsTimed` is violated it
does need that attempt to end. In `grpc` nothing is assumed of a live call, a read may wait for ever; a call that has
failed or been cancelled returns its operations, as gRPC promises. In `writes` the worker runs its tasks and timers,
the server answers what a live call brings it, and a call that has ended lets its read fail; connections
break at most `MaxLosses` times, since on a network that always fails no write could settle. In `map` SwiftUI renders and pushes when asked, and nothing
else is fair: coordinates, locations and authorizations may never come, and the user may never tap. Nothing in the code redraws the map
when the coordinates of a pin arrive (`MapView.swift:102-117`), so that without a tap or a location the pins may stay at 0,0;
`TapPlacesPins` says what does hold.

**Deadlock** is checked in the runs of the screens: an app on which nothing can happen any more
would be found. `client`, `writes` and `grpc` really end, with all requests answered, all writes settled and the stream
destroyed; that they do not end too early is said by their liveness properties.

## 4. Findings

Five properties taken from comments and texts of the code do not hold; each has a
run above and is described in `PROJECT.json`. Other disagreements were met on the way and have
no run:

- Mismatched passwords (`CreateAccountView.swift:46`): the query is sent all the same, and
  the callback's else branch reports a taken user name (line 85). The branch meant for the mismatch,
  line 81, is reached only if the form is edited meanwhile.
- The pattern for user names (`CreateAccountView.swift:101`) accepts characters that the message at
  line 174 forbids.
- The coordinates of the pins arrive in a callback that changes an array and asks for no redraw
  (`MapView.swift:105`): until a tap, a location or an authorization the pins stay where they were first placed, at 0,0.
- A post created before all pages have arrived can take an id that a page repeats
  (`NewPost.swift:49`, `BulletinBoardView.swift:120-137`).
- A target error that crosses a request of the client (`Firestore/remote/remote_store.mm:331-343`): `RemoveTarget` resets the
  count of responses due while one is on its way, so that the count of the next
  watch of that target never returns to zero (`remote_event.h:198` takes the count for
  the responses waited for) and its listeners wait until the stream closes. `crossed` exempts these targets.
- A target watched again before its unwatch is confirmed, where the first watch had been called current:
  `current_` is dropped only with the target state, and the two confirmations need
  not leave the count at zero in between, so the new view is called synced on the word given to the old one
  (`remote_event.cc:153-173`, against `remote_event.h:148-151`). `overlapped` exempts these targets; the answer may then lack documents
  committed before the call. It takes two calls if the target is left and watched again at once; it
takes four, with a rejection that crosses a request between them, if the target is watched while its count has come apart:
the client cannot tell then what is due, so these watches are in `overlapped` too.
- A second listener of a view that is already synced is answered at once with documents older than its call.
- A stream left open by a target error after the last target is not marked idle, since only
  `StopListening` does that; it stays open.
- When a write fails while two responses are still to be handled, the callback of the failure
  cancels the second one (`Firestore/remote/grpc_stream.cc:230-247`). If the server ended the call because it refused a later write, the
  pipeline then starts with a write that the server has *applied*, and `HandleWriteError` gives that one up:
  "the request itself was the problem" (`Firestore/remote/remote_store.mm:489`). Its document disappears
  from the local view until a query brings it back, and the refused write is sent once more. Four writes
  in the pipeline are needed: two applied, one refused, one that fails. `unheard` exempts these batches; without it
  `OnlyRefusedDropped` and `ImplementsQueue` fail in 15 steps.
- `grpc_stream.cc:202-206` says that when `Shutdown` drains, completions are empty or
  only "finish". A message written between a failed operation and the callback of its finish is there too. It comes back
  as quickly, so `WorkerReleased` holds.

## 5. Proofs

`tlapm` checks every step of the eight modules whose names end in `Proofs`. They prove every invariant and every
action property the passing runs check, and all four refinements. The proofs use the named assumptions on the
constants and nothing else:

- `Accounts`: the empty text can be typed (fields start with it), `Hash` is defined on the passwords, accounts
  have a user name and a hashed password that occur among the texts, those of earlier runs have different
  user names;
- `Session`: `Guest` (nil) is not a user name;
- `BulletinBoard`: the board nobody opened (`DefaultBoard`, the initial value of the global) is none of the pins' boards, the
  seeded posts are finitely many, and the cached ones are among them;
- `MapScreen`: no pin, and the board before the first tap, are told from the pins;
- `FirestoreClient`: the query of each call has a target; `OnlineStateTracker`: the number of failures
  allowed is at least one, the code's constant;
- `GrpcStream`: there is at least one read (`Start` issues it); `WriteStream`: the pipeline takes at least
  one write;
- bounds are natural numbers.

The numbers of devices, views, screens, boards, pages, pins, targets, calls, taps, queries in flight, documents, failures, reads and
writes are arbitrary, and no theorem has a hypothesis beyond these assumptions.
`Patient` is part of the properties it occurs in.

- `AccountsTypeOK` and `AccountsOnePerDevice`: on devices whose users wait for answers
  (`Patient`), no device creates two accounts with one name. `OneAccountPerDevice` is not
  inductive: that an answer without documents allows the write depends on when it was made.
  The invariant is `PatientInv`. Its part `DocumentsInv` says that a device's own accounts,
  committed or queued, are in its local view through every acknowledgement, refusal and
  restart (`OwnInView`), so that an answer from the server and one from the cache both hold
  them, and that each unhandled answer still does (`AnswersComplete`, `StepDocuments`).
  `RequestsInv` says that a device waits for one answer at most, for the view on its screen,
  whose form still has the queried name (`OneAtATime`, `RequestsShown`); this is where
  patience is used (`UsableIdle`). Hence nothing can have been written between the query and its
  callback, and the account of the callback is new to the device (`WriteKeepsInv`).
- `SessionTypeOK`: `Spec => []TypeOK`, by induction over the actions; the
  library's part is proved once, in `FirestoreProofs`, for any types of requests and documents.
- `SessionNesting` and `SessionMapImpliesAccount`. `MapImpliesAccount` is not
  inductive: Log Out sets `account` to nil and hides *its* map, and must hide every
  map there is. The invariant is `SessionInv`, the conjunction with `TypeOK` and
  `Nesting`: a view has switched, or waits for an answer, only if all screens around
  it have given way. `Nesting` is kept because screens never take their switches
  back except by a restart, which also drops the requests (`NestingKept`,
  `ReachedGrows`), and because the library makes up no requests
  (`StepOutstanding`, `GetDocumentsOutstanding`, `CallbackOutstanding`). With it, no
  view inside the one logged out from can have switched (`LogOutKeepsInv`), and a
  callback that switches a view leaves an account (`CallbackKeepsInv`).
- `SessionNeedsCredentials`: the action property `AccountNeedsCredentials`, from the
  invariant `AnswersFromServer`: nothing is queued, caches hold committed documents,
  and every unhandled answer is truthful, that is, its documents are committed and
  match its query. The steps of the library keep this (`StepNewAnswers`,
  `GetDocumentsNewAnswers`, `CallbackNoNewAnswers`, `NewAnswers`); the server only grows.
- `StreamTypeOK`, `StreamNothingOutlives`, `StreamCallFinishedOnce` and `StreamWritesOneByOne`. None
  of the four properties is inductive: that nothing refers to a destroyed stream depends on what the
  worker did with each completion before it blocked, and on what the polling thread did meanwhile.
  The invariant `StreamInv` follows a completion along its way. It is in one place at a time
  (`Distinct`, `Owned`), and a new one is new because only issued ones are about (`AllIssued`). What gRPC
  has is tracked, and what is on its way is tracked or cancelled (`Owned`). The worker blocks only after
  cancelling all it tracks, and at other times has cancelled nothing that it tracks (`Marked`), so that
  a callback that is not cancelled always finds an open stream (`Live`). The call is finished at the
  end of the worker's first wait and the flag is set at its start (`FinishedOnce`); an unfinished
  stream always has a read outstanding (`LastRead`), so `Shutdown` never takes a started call for one
  that was not. A write is with gRPC or on its way back only while the writer is active
  (`Writing`). `StreamStep` takes the actions one by one.

- `AccountsAreWellFormed`: with `PatientInv`, the form of a view that waits has passed the checks
  (`FormsChecked`), and the callback reads that form.
- `AccountsImplementDirectory`, for any number of devices. Another device may register between the answer and the write, so the
  name need not be free on the server; it is free among what the device knows. `KnownInv` carries that: caches hold committed accounts only
  (`CacheCommitted`), and an answer that waits for its callback holds all accounts of its name that are in the local view of its
  device (`AnswersKnown`) - nothing enters that view while a patient user waits but what an answer brings. With `PatientInv` the
  callback registers a name that is in neither (`NameIsFree`); commits, refusals and answers are the other steps of
  `AccountDirectory` and everything else is a stutter.
- `SessionLoggedOutMeansNoAccount`, `SessionOnlyLateAnswersMislead` and `SessionImplementsSessions`, for any number of queries in
  flight. The invariant `TimelyInv` says that screens give way in the order of their nesting (`ScreensInOrder`), so that one is shown
  at a time (`OneScreenShown`), and that a LoginView is shown to nobody with an account unless the device is in `late` (`GuestShown`). An answer to the
  LoginView that is shown finds `account` as the last logout left it or as a late answer has; one to a screen inside which others have
  opened makes the device late. For the refinement, the accounts a device may have got from an answer are registered
  (`AccountRegistered`, from `AnswersFromServer`), and an answer that changes the user of a map comes to a LoginView that has given
  way, which is what `overdue` records.
- `BoardTypeOK`, `BoardPostsOfCurrentBoard` and `BoardEachPageListedOnce`. That the posts are of the current board needs to know
  of each request on its way that it is of an earlier visit, or of this one and then for this board (`SentBefore`), and
  that each request is on its way once (`RequestsOnce`). The third adds
  `OneLoad`, where patience is used, that an answer holds all the posts of its page that are cached
  and none of another page (`AnswerInv`), and that the answers to a load without an offline moment hold all that the
  server has (`OnlineInv`). The counting of the property is replaced by `PageListed`, which
  says the same with positions; one lemma shows that the counting follows from it.
- `MapScreenTypeOK`, `MapOpensTappedBoard`, `MapPinsCanBeTapped` and `MapCentresOnUser`, from `MapInv`: a tap fixes
  the board until the next one (`TappedInv`), the link follows the `Text` (`LinkInv`), and a map that no
  change of state has outdated shows the selection (`RenderedInv`), and `mStruct` always holds the Map on display, so that no other is
  alive to report (`StructInv`).
- `ClientTypeOK` and `ClientNoAssertionFails`. The assertions of the tracker hold because a stream that is not started finds a new
  tracker (`TrackerInv`); `OfflineInv`, that no view is synced while the client is Offline, keeps a new listener
  from being answered by the server and from the cache at once.
- `ClientCalledOnce` and `ClientImplementsQueryService`, from `CallsInv`: what a request has come to decides which
  events may still be on the main queue for it (`CallInv`), and its tasks come in order and once
  (`TaskInv`). A mute listener is the only way that a second event does not become a second call.
- `ClientOutstandingIsInFlight`, from `CountInv`: a stream that is not open has nothing on its way and a new aggregator
  (`ClosedInv`). The cardinalities are counted by positions in a sequence (`Spots`), one more at its
  end and one less at its front (`SpotsAppend`, `SpotsTail`).
- `ClientSyncedViewsComplete` is the deepest one. A view is synced on a "current" that was sent long before, and the property
  is about what was on its way when the target was watched. `SyncInv` says of each target of an open stream, unless it is exempt:
  if it was watched when nothing of it was on its way, its confirmation comes before its data, documents on
  their way reach what the view needs, and "current" comes after them (`Fresh`); if it was left, the last thing on
  its way is the unwatch or its confirmation, and when that has been handled nothing is on its way and the target is not current
  (`Gone`), which is what the next watch starts from; and after a server has confirmed an end it
  says nothing of that target until it adds it again (`EndInv`). With `CountInv`, a count of zero
  tells the client that the confirmation is in, so it believes the "current" of this watch. The attempt to prove it
  showed that watches made after a crossed rejection had to be in `overlapped` (see Findings).
- `WritesTypeOK`, `WritesNoAssertionFails`, `WritesOnlyRefusedDropped` and `WritesImplementQueue`, from `WritesInv`: the pipeline
  is a prefix of the queue (`QueueInv`); the responses not handled are those of its first batches and the rest is with
  the server (`ResponsesInv`); so a refusal finds the refused batch at the front, or one whose response was
  cancelled (`RefusalInv`). What is left of an old call are successive batches, and what was queued before them is committed
  (`LateInv`), so that a batch committed late is next in the order of the queue.

Only model-checked: the liveness properties `RequestsSettle`, `PagesArrive`, `TapOpensBoard`, `TapPlacesPins`, `QueriesAnswered`,
`WritesSettle`, `WorkerReleased` and `FailureReported`. Liveness under fairness and `ENABLED` are out of the prover's reach, as is
induction over data: `Take`, `Seek` and the queries of a load are defined by ranges of
positions, not by recursion, so that what they return could be proved.

## 6. Not modelled, and what could follow

Not modelled: BCrypt (a constant function), the app and scene delegates (they start Firebase and show
the first screen), the older copies named `X 2.swift` (not in the target), the unit tests (read as
documentation), the rest of the pods (gRPC Core, BoringSSL, LevelDB, Protobuf, Abseil and others are
libraries below the Firestore client; they make up nearly all of the tree's lines). Of the Firestore client: stream tokens, transactions, limbo resolution, existence filters, garbage
collection - the app never deletes or changes a document.

What could follow, in this order:

1. Proofs about the abstract specifications themselves: a device of `AccountDirectory` gives a name to one account, `QueryService` answers
   from the cache only a client that is offline, so that these facts carry over to the code by the refinements.
2. What the exemptions cost: from how many calls on `crossed` and `overlapped` can hold a target, and that `unheard` is
   empty as long as the pipeline is shorter than four.
3. Safety halves of the liveness properties: that what each of them waits for stays possible until it comes.
