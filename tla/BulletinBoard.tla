----------------------------- MODULE BulletinBoard -----------------------------
(***************************************************************************)
(* A bulletin board: BulletinBoardView, which loads its posts page by     *)
(* page each time it appears, the NewPost sheet above it and the PostView *)
(* it pushes.                                                             *)
(*                                                                        *)
(* The page queries are sent together and answered one by one, in any     *)
(* order.  Each answer is appended to the @State `posts` of the view that *)
(* asked, whether or not it is still on the screen and whatever it has    *)
(* loaded since; NewPost appends to the same array.                       *)
(***************************************************************************)
EXTENDS Firestore

CONSTANTS
    Board,          \* the boards that pins of the map open
    Seeded,         \* posts on the server before the run, numbered by hand
    Cached,         \* those of them the devices have in their caches
    Scopes          \* the users and bounds a behaviour may have: records with the fields
                    \*   patient  users leave a board alone until its queries are answered
                    \*   pages    pages asked for: 30 in the code, one number each
                    \*   visits   bound: times a device opens a board
                    \*   loads    bound: times its boards appear
                    \*   posts    bound: posts it creates

DefaultBoard == "B Board"

\* Posts of the console have a number, posts of the app do not; the first component of
\* a document's key tells who wrote it.
NumberedPost ==
    [id : {"console"} \X Nat, data : [ID : Board, PostNumber : Nat]]
ASSUME BoardAssumption ==
    /\ DefaultBoard \notin Board
    /\ Seeded \subseteq NumberedPost /\ IsFiniteSet(Seeded)
    /\ Cached \subseteq Seeded
    /\ Scopes \subseteq
           [patient : BOOLEAN, pages : Nat, visits : Nat, loads : Nat, posts : Nat]

VARIABLE scope      \* the scope of this behaviour, which stays as it is

PageLimit == scope.pages
Patient == scope.patient
MaxVisits == scope.visits
MaxLoads == scope.loads
MaxPosts == scope.posts

AppPost ==
    [id : Device \X (1 .. MaxPosts), data : [ID : Board]]
PostDocument == NumberedPost \cup AppPost

Page == 0 .. PageLimit - 1
PageRequest ==
    [query : [ID : Board, PostNumber : Page], visit : 1 .. MaxVisits, load : 1 .. MaxLoads]
CountRequest ==
    [query : [ID : Board], visit : 1 .. MaxVisits, load : 1 .. MaxLoads]
Request == PageRequest \cup CountRequest
IsPage(request) == "PostNumber" \in DOMAIN request.query

\* An element of `posts`: what it shows and the id ForEach identifies it by.
Post == [document : PostDocument, id : Nat]

VARIABLES
    screen,                 \* screen[d] \in {"map", "board", "post"}: the top of the stack
    currentBulletinBoard,   \* the global variable of each device
    visit,                  \* visit[d]: boards opened; each has an @State of its own
    load,                   \* load[d]: times loadPostsWithPaging has run
    posts,                  \* posts[d]: the @State of the board opened last
    showingPostView,        \* showingPostView[d]: the NewPost sheet is up
    created,                \* created[d]: posts created
    failed,                 \* failed[d]: numbers of the last load whose query failed (history)
    wasOffline              \* devices that were offline during their last load (history)

boardVars ==
    <<screen, currentBulletinBoard, visit, load, posts, showingPostView, created, failed>>
vars == <<firestoreVars, boardVars, scope, wasOffline>>

TypeOK ==
    /\ FirestoreTypeOK(Request, PostDocument)
    /\ screen \in [Device -> {"map", "board", "post"}]
    /\ currentBulletinBoard \in [Device -> Board \cup {DefaultBoard}]
    /\ visit \in [Device -> 0 .. MaxVisits]
    /\ load \in [Device -> 0 .. MaxLoads]
    /\ posts \in [Device -> Seq(Post)]
    /\ showingPostView \in [Device -> BOOLEAN]
    /\ created \in [Device -> 0 .. MaxPosts]
    /\ failed \in [Device -> SUBSET Page]
    /\ wasOffline \subseteq Device

\* The requests the board on display still waits for.
Awaited(d) == {request \in Outstanding(d) : request.visit = visit[d]}

\* The board of d takes a tap.
Usable(d) ==
    screen[d] = "board" /\ ~ showingPostView[d] /\ (Patient => Awaited(d) = {})

-----------------------------------------------------------------------------

Init ==
    /\ scope \in Scopes
    /\ FirestoreInit(Seeded, [d \in Device |-> Cached])
    /\ screen = [d \in Device |-> "map"]
    /\ currentBulletinBoard = [d \in Device |-> DefaultBoard]
    /\ visit = [d \in Device |-> 0]
    /\ load = [d \in Device |-> 0]
    /\ posts = [d \in Device |-> <<>>]
    /\ showingPostView = [d \in Device |-> FALSE]
    /\ created = [d \in Device |-> 0]
    /\ failed = [d \in Device |-> {}]
    /\ wasOffline = {}

-----------------------------------------------------------------------------
(***************************************************************************)
(* onAppear and onDisappear.                                              *)
(***************************************************************************)

\* The query of getNumberOfPosts, whose callback only counts in a local variable.
CountQuery(d) == [ID |-> currentBulletinBoard'[d]]

PageQuery(d, number) ==
    [ID |-> currentBulletinBoard'[d], PostNumber |-> number]

\* The queries of one load in the order of the calls.
LoadRequests(d, queries) ==
    [i \in DOMAIN queries |->
        [query |-> queries[i], visit |-> visit'[d], load |-> load'[d]]]

\* Mutant of loadPostsWithPaging: the pages are counted from one.
loadPagesFromOne(d) ==
    /\ load[d] < MaxLoads
    /\ load' = [load EXCEPT ![d] = @ + 1]
    /\ posts' = [posts EXCEPT ![d] = <<>>]
    /\ failed' = [failed EXCEPT ![d] = {}]
    /\ GetDocuments(d, LoadRequests(d,
           <<CountQuery(d)>> \o [i \in 1 .. PageLimit |-> PageQuery(d, i)]))

\* The array is emptied, the posts are counted and every page is asked for.
loadPostsWithPaging(d) ==
    /\ load[d] < MaxLoads
    /\ load' = [load EXCEPT ![d] = @ + 1]
    /\ posts' = [posts EXCEPT ![d] = <<>>]
    /\ failed' = [failed EXCEPT ![d] = {}]
    /\ GetDocuments(d, LoadRequests(d,
           <<CountQuery(d)>> \o [i \in 1 .. PageLimit |-> PageQuery(d, i - 1)]))

Disappear(d) == posts' = [posts EXCEPT ![d] = <<>>]

\* A pin of the map is tapped: its action names the board, and the link pushes a new view.
OpenBoard(d, board) ==
    /\ screen[d] = "map"
    /\ visit[d] < MaxVisits
    /\ currentBulletinBoard' = [currentBulletinBoard EXCEPT ![d] = board]
    /\ visit' = [visit EXCEPT ![d] = @ + 1]
    /\ screen' = [screen EXCEPT ![d] = "board"]
    /\ loadPostsWithPaging(d)
    /\ UNCHANGED <<showingPostView, created>>

\* Back to the map.
CloseBoard(d) ==
    /\ Usable(d)
    /\ Disappear(d)
    /\ screen' = [screen EXCEPT ![d] = "map"]
    /\ UNCHANGED <<firestoreVars, currentBulletinBoard, visit, load, showingPostView,
                   created, failed>>

\* A row is tapped: PostView covers the board, which disappears but keeps its @State.
OpenPost(d) ==
    /\ Usable(d)
    /\ posts[d] # <<>>
    /\ Disappear(d)
    /\ screen' = [screen EXCEPT ![d] = "post"]
    /\ UNCHANGED <<firestoreVars, currentBulletinBoard, visit, load, showingPostView,
                   created, failed>>

\* Back from PostView: the same board appears again.
ClosePost(d) ==
    /\ screen[d] = "post"
    /\ screen' = [screen EXCEPT ![d] = "board"]
    /\ UNCHANGED <<currentBulletinBoard, visit, showingPostView, created>>
    /\ loadPostsWithPaging(d)

\* onDisappear has set mapAction to 0, which deactivates the board's own link: SwiftUI
\* may take the whole stack back to the map.
PopToMap(d) ==
    /\ screen[d] = "post"
    /\ screen' = [screen EXCEPT ![d] = "map"]
    /\ UNCHANGED <<firestoreVars, currentBulletinBoard, visit, load, posts,
                   showingPostView, created, failed>>

-----------------------------------------------------------------------------
(***************************************************************************)
(* The callback of a page.                                                *)
(***************************************************************************)

\* Mutant of PagePosts: the id is taken before the page number is added on.
PagePostsFromPrevious(answer, order) ==
    [i \in DOMAIN order |->
        [document |-> order[i], id |-> answer.request.query.PostNumber + i - 2]]

\* The posts of one answer in the order of its documents, numbered on from the page.
PagePosts(answer, order) ==
    [i \in DOMAIN order |->
        [document |-> order[i], id |-> answer.request.query.PostNumber + i - 1]]

\* Mutant of PageLoaded: the array outlives its view, as a shared one would.
PageLoadedAnywhere(d) ==
    LET answer == Head(callbacks[d])
    IN /\ CallbackRuns(d)
       /\ ~ answer.err
       /\ IsPage(answer.request)
       /\ \E order \in SetToSeqs(answer.documents) :
             posts' = [posts EXCEPT ![d] = @ \o PagePosts(answer, order)]
       /\ UNCHANGED <<server, cache, mutations, offline, listens, screen,
                      currentBulletinBoard, visit, load, showingPostView, created, failed>>

\* The view that asked is still there: its array grows.
PageLoaded(d) ==
    LET answer == Head(callbacks[d])
    IN /\ CallbackRuns(d)
       /\ ~ answer.err
       /\ IsPage(answer.request)
       /\ answer.request.visit = visit[d]
       /\ \E order \in SetToSeqs(answer.documents) :
             posts' = [posts EXCEPT ![d] = @ \o PagePosts(answer, order)]
       /\ UNCHANGED <<server, cache, mutations, offline, listens, screen,
                      currentBulletinBoard, visit, load, showingPostView, created, failed>>

\* The view is gone and its array with it.
PageDiscarded(d) ==
    /\ CallbackRuns(d)
    /\ ~ Head(callbacks[d]).err
    /\ IsPage(Head(callbacks[d]).request)
    /\ Head(callbacks[d]).request.visit # visit[d]
    /\ UNCHANGED <<server, cache, mutations, offline, listens, boardVars>>

\* getNumberOfPosts has returned 0 long before its callback counts, or prints an error.
PostsCounted(d) ==
    /\ CallbackRuns(d)
    /\ ~ IsPage(Head(callbacks[d]).request)
    /\ UNCHANGED <<server, cache, mutations, offline, listens, boardVars>>

\* An error is only printed.
PageFailed(d) ==
    LET request == Head(callbacks[d]).request
    IN /\ CallbackRuns(d)
       /\ Head(callbacks[d]).err
       /\ IsPage(request)
       /\ failed' = [failed EXCEPT ![d] =
              IF request.load = load[d] THEN @ \cup {request.query.PostNumber} ELSE @]
       /\ UNCHANGED <<server, cache, mutations, offline, listens, screen,
                      currentBulletinBoard, visit, load, posts, showingPostView, created>>

Callback(d) == PageLoaded(d) \/ PageDiscarded(d) \/ PageFailed(d) \/ PostsCounted(d)

-----------------------------------------------------------------------------
(***************************************************************************)
(* The NewPost sheet.                                                     *)
(***************************************************************************)

ShowNewPost(d) ==
    /\ Usable(d)
    /\ showingPostView' = [showingPostView EXCEPT ![d] = TRUE]
    /\ UNCHANGED <<firestoreVars, screen, currentBulletinBoard, visit, load, posts,
                   created, failed>>

CancelPost(d) ==
    /\ showingPostView[d]
    /\ showingPostView' = [showingPostView EXCEPT ![d] = FALSE]
    /\ UNCHANGED <<firestoreVars, screen, currentBulletinBoard, visit, load, posts,
                   created, failed>>

\* The document has no PostNumber; the local copy takes the length of the array as id.
CreatePost(d) ==
    LET document == [id |-> <<d, created[d] + 1>>,
                     data |-> [ID |-> currentBulletinBoard[d]]]
    IN /\ showingPostView[d]
       /\ created[d] < MaxPosts
       /\ created' = [created EXCEPT ![d] = @ + 1]
       /\ AddDocument(d, document)
       /\ posts' = [posts EXCEPT ![d] =
                       Append(@, [document |-> document, id |-> Len(posts[d])])]
       /\ showingPostView' = [showingPostView EXCEPT ![d] = FALSE]
       /\ UNCHANGED <<server, cache, offline, listens, callbacks, screen,
                      currentBulletinBoard, visit, load, failed>>

-----------------------------------------------------------------------------

\* The app is killed and started again.
Restart(d) ==
    /\ LibraryRestart(d)
    /\ screen' = [screen EXCEPT ![d] = "map"]
    /\ currentBulletinBoard' = [currentBulletinBoard EXCEPT ![d] = DefaultBoard]
    /\ posts' = [posts EXCEPT ![d] = <<>>]
    /\ showingPostView' = [showingPostView EXCEPT ![d] = FALSE]
    /\ UNCHANGED <<visit, load, created, failed>>

\* What every step leaves alone, and what is remembered of it.
Records ==
    /\ UNCHANGED scope
    /\ wasOffline' = {d \in Device :
          offline'[d] \/ (d \in wasOffline /\ load'[d] = load[d])}

Next ==
    /\ \E d \in Device :
          \/ \E board \in Board : OpenBoard(d, board)
          \/ CloseBoard(d) \/ OpenPost(d) \/ ClosePost(d) \/ PopToMap(d)
          \/ ShowNewPost(d) \/ CancelPost(d) \/ CreatePost(d)
          \/ Callback(d)
          \/ Restart(d)
          \/ FirestoreStep(d) /\ UNCHANGED boardVars
    /\ Records

\* As for the other screens: queued callbacks run, waiting requests are answered.
Fairness ==
    \A d \in Device :
        /\ WF_vars(Callback(d) /\ Records)
        /\ WF_vars(Raise(d) /\ UNCHANGED boardVars /\ Records)

Spec == Init /\ [][Next]_vars /\ Fairness
-----------------------------------------------------------------------------
(***************************************************************************)
(* Properties.                                                            *)
(***************************************************************************)

\* How often the board of d lists a document.
Listed(d, document) == Cardinality({i \in DOMAIN posts[d] : posts[d][i].document = document})

\* The answer to this number of the present load is still to come.
OnItsWay(d, number) ==
    \E request \in Awaited(d) :
        IsPage(request) /\ request.load = load[d] /\ request.query.PostNumber = number

\* `posts` holds posts of the current board only, though answers for a board opened
\* earlier keep coming in ("all posts for the current bulletin", BulletinBoardView.swift:17).
PostsOfCurrentBoard ==
    \A d \in Device : \A i \in DOMAIN posts[d] :
        posts[d][i].document.data.ID = currentBulletinBoard[d]

\* For users who let a board load, a numbered post is listed when its page has been
\* answered, not before and not twice, unless the query failed; only a client that was
\* offline and has not cached the post may go without it.  Nothing is lost or doubled by
\* the order of the answers, the connection, writes of the user or restarts
\* (BulletinBoardView.swift:81-144).
EachPageListedOnce ==
    Patient => \A d \in Device : screen[d] = "board" =>
        \A document \in Seeded :
            /\ document.data.ID = currentBulletinBoard[d]
            /\ document.data.PostNumber \in Page
            => IF \/ OnItsWay(d, document.data.PostNumber)
                  \/ document.data.PostNumber \in failed[d]
                 THEN Listed(d, document) = 0
                 ELSE \/ Listed(d, document) = 1
                      \/ Listed(d, document) = 0 /\ document \notin Cached /\ d \in wasOffline

\* A board that goes on being displayed gets the answers to all its pages
\* (query_listener.cc:99-124).
PagesArrive == \A d \in Device : Awaited(d) # {} ~> Awaited(d) = {}

\* "need to remove all old posts before loading new ones" (BulletinBoardView.swift:83):
\* no load leaves a post in the list twice.
NoOldPosts ==
    \A d \in Device : \A document \in Seeded : Listed(d, document) <= 1

\* A loaded board lists every post it has: "looping through firestore to get all posts
\* from this bulletin board and add them to the array above" (BulletinBoardView.swift:123).
AllPostsListed ==
    \A d \in Device : screen[d] = "board" /\ Awaited(d) = {} /\ failed[d] = {} =>
        \A document \in LocalDocuments(d) :
            document.data.ID = currentBulletinBoard[d] => Listed(d, document) > 0
=============================================================================
