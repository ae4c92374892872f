-------------------------- MODULE BulletinBoardProofs --------------------------
(***************************************************************************)
(* BulletinBoard is well typed, boards are never mixed, and for patient   *)
(* users each numbered post is listed once when its page has come:        *)
(* whatever the numbers of devices, boards, posts, pages, visits and      *)
(* loads, and whatever part of the posts the devices have cached.         *)
(***************************************************************************)
EXTENDS BulletinBoard, FirestoreProofs

-----------------------------------------------------------------------------
(***************************************************************************)
(* The invariant, part by part.                                           *)
(***************************************************************************)

\* An answer holds finitely many documents, all that it should and none it should not.
AnswerInv(answer) ==
    /\ IsFiniteSet(answer.documents)
    /\ \A document \in answer.documents : Matches(answer.request.query, document)
    /\ Complete(answer, Cached)

\* The seeded posts stay on the server, those cached in the caches.
LibraryInv ==
    /\ IsFiniteSet(server) /\ Seeded \subseteq server
    /\ \A d \in Device :
          /\ IsFiniteSet(cache[d]) /\ Cached \subseteq cache[d]
          /\ \A answer \in ToSet(callbacks[d]) : AnswerInv(answer)

\* A board that is open is one a pin opened, and only it has the sheet above it.
ScreenInv(d) ==
    /\ screen[d] # "map" => visit[d] >= 1 /\ currentBulletinBoard[d] \in Board
    /\ showingPostView[d] => screen[d] = "board"

\* What a device waits for it asked for in this visit or earlier, in this load or earlier;
\* the present load is of this visit, and in this visit it asked for posts of the current
\* board only.
SentBefore(d) ==
    \A request \in Outstanding(d) :
        /\ request.visit <= visit[d] /\ request.load <= load[d]
        /\ request.load = load[d] => request.visit = visit[d]
        /\ request.visit = visit[d] => request.query.ID = currentBulletinBoard[d]

OfCurrentBoard(d) ==
    \A i \in DOMAIN posts[d] : posts[d][i].document.data.ID = currentBulletinBoard[d]

\* Patient users wait for one load at a time.
OneLoad(d) ==
    /\ screen[d] = "post" => Awaited(d) = {}
    /\ \A request \in Awaited(d) : request.load = load[d]

\* A list of posts without a document, or with the document once at most.
Without(list, document) == \A i \in DOMAIN list : list[i].document # document
OnceAtMost(list, document) ==
    \A i, j \in DOMAIN list : list[i].document = document /\ list[j].document = document => i = j

ListedOnce(d, document) ==
    /\ OnceAtMost(posts[d], document)
    /\ document \in Cached \/ d \notin wasOffline => ~ Without(posts[d], document)

\* EachPageListedOnce without the counting: a page on its way has not failed, one on its
\* way or failed is not listed, any other is.
PageListed(d, document) ==
    LET number == document.data.PostNumber
    IN /\ OnItsWay(d, number) => number \notin failed[d]
       /\ IF OnItsWay(d, number) \/ number \in failed[d]
            THEN Without(posts[d], document)
            ELSE ListedOnce(d, document)

PagesListed(d) ==
    screen[d] = "board" =>
        \A document \in Seeded :
            document.data.ID = currentBulletinBoard[d] /\ document.data.PostNumber \in Page
                => PageListed(d, document)

TypeInv == TypeOK /\ scope \in Scopes /\ LibraryInv /\ \A d \in Device : ScreenInv(d)

BoardOf(d) == RequestsOnce(d) /\ SentBefore(d) /\ OfCurrentBoard(d)
BoardInv == TypeInv /\ \A d \in Device : BoardOf(d)

\* A device that has been online all through its load has been answered by the server.
OnlineOf(d) ==
    /\ offline[d] => d \in wasOffline
    /\ d \notin wasOffline => \A answer \in ToSet(callbacks[d]) :
          answer.request.load = load[d] => Complete(answer, Seeded)
OnlineInv == \A d \in Device : OnlineOf(d)

PagesOf(d) == OneLoad(d) /\ PagesListed(d)
PagesInv == Patient => \A d \in Device : PagesOf(d)

-----------------------------------------------------------------------------
(***************************************************************************)
(* Types.                                                                 *)
(***************************************************************************)

\* The bounds of a scope are numbers.
LEMMA ScopeType ==
    ASSUME scope \in Scopes
    PROVE  /\ PageLimit \in Nat /\ MaxVisits \in Nat /\ MaxLoads \in Nat /\ MaxPosts \in Nat
           /\ Page \subseteq Nat
           /\ \A i \in 1 .. PageLimit : i - 1 \in Page
           /\ \A n \in Page : n + 1 \in 1 .. PageLimit
<1>1. PageLimit \in Nat /\ MaxVisits \in Nat /\ MaxLoads \in Nat /\ MaxPosts \in Nat
  BY BoardAssumption DEF PageLimit, MaxVisits, MaxLoads, MaxPosts
<1>. QED  BY <1>1 DEF Page

\* No step changes what the scope determines.
LEMMA SameScope ==
    ASSUME UNCHANGED scope
    PROVE  /\ Request' = Request /\ PostDocument' = PostDocument /\ Post' = Post
           /\ Page' = Page /\ (Patient' <=> Patient)
           /\ MaxVisits' = MaxVisits /\ MaxLoads' = MaxLoads /\ MaxPosts' = MaxPosts
BY DEF Request, PageRequest, CountRequest, PostDocument, AppPost, Post, Page, PageLimit,
       Patient, MaxVisits, MaxLoads, MaxPosts

\* The library has the same types before and after a step.
LEMMA LibraryTyped ==
    ASSUME TypeOK, UNCHANGED scope
    PROVE  \E R, D :
              /\ R = Request /\ R = Request' /\ D = PostDocument /\ D = PostDocument'
              /\ FirestoreTypeOK(R, D)
              /\ FirestoreTypeOK(R, D)' => FirestoreTypeOK(Request, PostDocument)'
<1>1. Request' = Request /\ PostDocument' = PostDocument
  BY SameScope
<1>2. PICK R, D : R = Request /\ D = PostDocument
  OBVIOUS
<1>3. FirestoreTypeOK(R, D)
  BY <1>2 DEF TypeOK
<1>4. FirestoreTypeOK(R, D)' => FirestoreTypeOK(Request, PostDocument)'
  BY <1>1, <1>2 DEF FirestoreTypeOK
<1>. QED  BY <1>1, <1>2, <1>3, <1>4

\* A request is one for a page or the count, and a page request has its number.
LEMMA RequestType ==
    ASSUME scope \in Scopes, NEW request \in Request
    PROVE  /\ request.visit \in 1 .. MaxVisits /\ request.load \in 1 .. MaxLoads
           /\ request.query.ID \in Board
           /\ IsPage(request) => /\ request.query.PostNumber \in Page
                                 /\ request.query.PostNumber \in Nat
                                 /\ DOMAIN request.query = {"ID", "PostNumber"}
<1>1. CASE request \in PageRequest
  BY <1>1, ScopeType DEF PageRequest
<1>2. CASE request \in CountRequest
  <2>1. request.query \in [ID : Board]
    BY <1>2 DEF CountRequest
  <2>2. DOMAIN request.query = {"ID"}
    BY <2>1
  <2>3. ~ IsPage(request)
    BY <2>2 DEF IsPage
  <2>. QED  BY <1>2, <2>3 DEF CountRequest
<1>. QED  BY <1>1, <1>2 DEF Request

\* What is outstanding are requests.
LEMMA OutstandingType ==
    ASSUME TypeOK, NEW d \in Device
    PROVE  Outstanding(d) \subseteq Request
<1>1. /\ listens[d] \subseteq Request
      /\ callbacks[d] \in Seq(AnswerOf(Request, PostDocument))
  BY DEF TypeOK, FirestoreTypeOK
<1>2. \A answer \in ToSet(callbacks[d]) : answer \in AnswerOf(Request, PostDocument)
  BY <1>1, ElementsType
<1>. QED  BY <1>1, <1>2 DEF Outstanding, AnswerOf

\* The queries of a load: the count, then the pages from zero.
Queries(board, limit) ==
    <<[ID |-> board]>>
        \o [i \in 1 .. limit |-> [ID |-> board, PostNumber |-> i - 1]]

\* A load asks first for all posts of the board and then for each number.
LEMMA QueriesAre ==
    ASSUME NEW board, NEW limit \in Nat
    PROVE  LET queries == Queries(board, limit)
           IN  /\ DOMAIN queries = 1 .. limit + 1
               /\ queries[1] = [ID |-> board]
               /\ \A i \in 1 .. limit :
                     queries[i + 1] = [ID |-> board, PostNumber |-> i - 1]
<1> DEFINE pages == [i \in 1 .. limit |-> [ID |-> board, PostNumber |-> i - 1]]
           S == {[ID |-> board]} \cup {[ID |-> board, PostNumber |-> i - 1] : i \in 1 .. limit}
           first == <<[ID |-> board]>>
<1>1. pages \in Seq(S) /\ Len(pages) = limit /\ DOMAIN pages = 1 .. limit
  <2>1. pages \in [1 .. limit -> S]
    OBVIOUS
  <2> HIDE DEF pages, S
  <2>. QED  BY <2>1
<1>2. first \in Seq(S) /\ Len(first) = 1 /\ first[1] = [ID |-> board]
  OBVIOUS
<1>3. \A i \in 1 .. limit : pages[i] = [ID |-> board, PostNumber |-> i - 1]
  OBVIOUS
<1> HIDE DEF pages, S, first
<1>4. /\ DOMAIN (first \o pages) = 1 .. limit + 1
      /\ (first \o pages)[1] = first[1]
      /\ \A i \in 1 .. limit : (first \o pages)[i + 1] = pages[i]
  <2>1. /\ DOMAIN (first \o pages) = 1 .. Len(first) + Len(pages)
        /\ \A i \in 1 .. Len(first) : (first \o pages)[i] = first[i]
        /\ \A i \in 1 .. Len(pages) : (first \o pages)[Len(first) + i] = pages[i]
    <3>1. first \in Seq(S) /\ pages \in Seq(S)
      BY <1>1, <1>2
    <3>2. \A s, t \in Seq(S) :
             /\ DOMAIN (s \o t) = 1 .. Len(s) + Len(t)
             /\ \A i \in 1 .. Len(s) : (s \o t)[i] = s[i]
             /\ \A i \in 1 .. Len(t) : (s \o t)[Len(s) + i] = t[i]
      BY ConcatPlaces
    <3>. QED  BY <3>1, <3>2
  <2>2. \A i \in 1 .. limit : 1 + i = i + 1
    OBVIOUS
  <2>3. 1 + limit = limit + 1 /\ 1 \in 1 .. 1
    OBVIOUS
  <2>. QED  BY <1>1, <1>2, <2>1, <2>2, <2>3
<1>. QED  BY <1>2, <1>3, <1>4 DEF Queries, first, pages

\* What one load asks for.
LoadList(board, limit, v, l) ==
    [i \in DOMAIN Queries(board, limit) |->
        [query |-> Queries(board, limit)[i], visit |-> v, load |-> l]]

\* The requests of a load are typed, different, and all of that visit and load.
LEMMA LoadListIs ==
    ASSUME scope \in Scopes, NEW board \in Board,
           NEW v \in 1 .. MaxVisits, NEW l \in 1 .. MaxLoads
    PROVE  LET requests == LoadList(board, PageLimit, v, l)
           IN  /\ requests \in Seq(Request)
               /\ AllDifferent(requests)
               /\ \A request \in ToSet(requests) :
                     request.visit = v /\ request.load = l /\ request.query.ID = board
               /\ \A number \in Page : \E request \in ToSet(requests) :
                     IsPage(request) /\ request.query.PostNumber = number
<1> DEFINE queries == Queries(board, PageLimit)
           requests == LoadList(board, PageLimit, v, l)
<1>1. PageLimit \in Nat
  BY ScopeType
<1>2. /\ DOMAIN queries = 1 .. PageLimit + 1
      /\ queries[1] = [ID |-> board]
      /\ \A i \in 1 .. PageLimit : queries[i + 1] = [ID |-> board, PostNumber |-> i - 1]
  BY <1>1, QueriesAre
<1>3. /\ DOMAIN requests = 1 .. PageLimit + 1
      /\ \A i \in 1 .. PageLimit + 1 :
            requests[i] = [query |-> queries[i], visit |-> v, load |-> l]
  BY <1>2 DEF LoadList
<1>4. ASSUME NEW i \in 1 .. PageLimit + 1
      PROVE  \/ i = 1 /\ queries[i] = [ID |-> board]
             \/ i - 1 \in 1 .. PageLimit /\ queries[i] = [ID |-> board, PostNumber |-> i - 2]
  <2>1. CASE i = 1
    BY <1>2, <2>1
  <2>2. CASE i # 1
    <3>1. i - 1 \in 1 .. PageLimit /\ (i - 1) + 1 = i /\ (i - 1) - 1 = i - 2
      BY <1>1, <2>2
    <3>2. queries[(i - 1) + 1] = [ID |-> board, PostNumber |-> (i - 1) - 1]
      BY <1>2, <3>1
    <3>. QED  BY <3>1, <3>2
  <2>. QED  BY <2>1, <2>2
<1> HIDE DEF queries, requests
<1>5. ASSUME NEW i \in 1 .. PageLimit + 1 PROVE requests[i] \in Request
  <2>1. CASE queries[i] = [ID |-> board]
    BY <1>3, <2>1 DEF Request, CountRequest
  <2>2. CASE i - 1 \in 1 .. PageLimit /\ queries[i] = [ID |-> board, PostNumber |-> i - 2]
    <3>1. i - 2 \in Page
      BY <1>1, <2>2 DEF Page
    <3>. QED  BY <1>3, <2>2, <3>1 DEF Request, PageRequest
  <2>. QED  BY <1>4, <2>1, <2>2
<1>6. requests \in Seq(Request)
  <2>1. requests \in [1 .. PageLimit + 1 -> Request]
    <3>1. requests = [i \in 1 .. PageLimit + 1 |-> requests[i]]
      BY <1>2 DEF requests, LoadList, queries
    <3>. QED  BY <1>5, <3>1
  <2>2. PageLimit + 1 \in Nat
    BY <1>1
  <2>. QED  BY <2>1, <2>2
<1>7. AllDifferent(requests)
  <2>1. ASSUME NEW i \in 1 .. PageLimit + 1, NEW j \in 1 .. PageLimit + 1, queries[i] = queries[j]
        PROVE  i = j
    <3>1. [ID |-> board] # [ID |-> board, PostNumber |-> i - 2]
          /\ [ID |-> board] # [ID |-> board, PostNumber |-> j - 2]
      <4>1. DOMAIN [ID |-> board] = {"ID"}
        OBVIOUS
      <4>2. \A n : DOMAIN [ID |-> board, PostNumber |-> n] = {"ID", "PostNumber"}
        OBVIOUS
      <4>. QED  BY <4>1, <4>2
    <3>2. CASE i = 1 \/ j = 1
      BY <1>4, <2>1, <3>1, <3>2
    <3>3. CASE i # 1 /\ j # 1
      <4>1. /\ queries[i] = [ID |-> board, PostNumber |-> i - 2]
            /\ queries[j] = [ID |-> board, PostNumber |-> j - 2]
        BY <1>4, <3>3
      <4>2. queries[i].PostNumber = i - 2 /\ queries[j].PostNumber = j - 2
        BY <4>1
      <4>3. i - 2 = j - 2
        BY <2>1, <4>2
      <4>. QED  BY <1>1, <4>3
    <3>. QED  BY <3>2, <3>3
  <2>2. \A i \in 1 .. PageLimit + 1 : requests[i].query = queries[i]
    BY <1>3
  <2>. QED  BY <1>3, <2>1, <2>2 DEF AllDifferent
<1>8. ASSUME NEW request \in ToSet(requests)
      PROVE  request.visit = v /\ request.load = l /\ request.query.ID = board
  <2>1. PICK i \in 1 .. PageLimit + 1 : request = requests[i]
    BY <1>3 DEF ToSet
  <2>2. request = [query |-> queries[i], visit |-> v, load |-> l]
    BY <1>3, <2>1
  <2>3. queries[i].ID = board
    <3>1. CASE queries[i] = [ID |-> board]
      BY <3>1
    <3>2. CASE queries[i] = [ID |-> board, PostNumber |-> i - 2]
      BY <3>2
    <3>. QED  BY <1>4, <3>1, <3>2
  <2>. QED  BY <2>2, <2>3
<1>9. ASSUME NEW number \in Page
      PROVE  \E request \in ToSet(requests) :
                IsPage(request) /\ request.query.PostNumber = number
  <2>1. number + 1 \in 1 .. PageLimit /\ (number + 1) + 1 \in 1 .. PageLimit + 1
        /\ (number + 1) - 1 = number
    BY <1>1, ScopeType
  <2>2. queries[(number + 1) + 1] = [ID |-> board, PostNumber |-> (number + 1) - 1]
    BY <1>2, <2>1
  <2>3. requests[(number + 1) + 1].query = [ID |-> board, PostNumber |-> number]
    BY <1>3, <2>1, <2>2
  <2>4. DOMAIN [ID |-> board, PostNumber |-> number] = {"ID", "PostNumber"}
    OBVIOUS
  <2>5. requests[(number + 1) + 1] \in ToSet(requests)
    BY <1>3, <2>1 DEF ToSet
  <2>. QED  BY <2>3, <2>4, <2>5 DEF IsPage
<1>. QED  BY <1>6, <1>7, <1>8, <1>9 DEF requests

\* A new answer holds what it should, from the server or the local store.
LEMMA NewAnswerInv ==
    ASSUME TypeInv, NEW d \in Device, NEW request, NEW answer \in AnswersTo(d, request)
    PROVE  AnswerInv(answer)
<1>1. /\ IsFiniteSet(server) /\ Seeded \subseteq server
      /\ IsFiniteSet(cache[d]) /\ Cached \subseteq cache[d]
  BY DEF TypeInv, LibraryInv
<1>2. IsFiniteSet(Pending(d))
  <2>1. mutations[d] \in Seq(PostDocument)
    BY DEF TypeInv, TypeOK, FirestoreTypeOK
  <2>. QED  BY <2>1, ElementsType DEF Pending
<1>3. IsFiniteSet(server \cup Pending(d)) /\ IsFiniteSet(LocalDocuments(d))
  BY <1>1, <1>2, FS_Union DEF LocalDocuments
<1>4. Truthful(answer, server \cup LocalDocuments(d))
  BY NewAnswers
<1>5. IsFiniteSet(answer.documents)
  <2>1. \/ answer.documents = {}
        \/ answer.documents \subseteq server \cup Pending(d)
        \/ answer.documents \subseteq LocalDocuments(d)
    BY DEF AnswersTo, Answer, ErrorAnswer
  <2>. QED  BY <1>3, <2>1, FS_Subset, FS_EmptySet
<1>6. Cached \subseteq server \cup Pending(d) /\ Cached \subseteq LocalDocuments(d)
  BY <1>1, BoardAssumption DEF LocalDocuments
<1>7. Complete(answer, Cached)
  BY <1>6, NewAnswers
<1>. QED  BY <1>4, <1>5, <1>7 DEF AnswerInv, Truthful

\* A step that leaves server and caches alone and adds no answers but new ones.
LEMMA LibraryKept ==
    ASSUME TypeInv, NEW d \in Device, UNCHANGED <<server, cache>>,
           \A e \in Device : \A new \in ToSet(callbacks'[e]) :
              \/ new \in ToSet(callbacks[e])
              \/ \E request : new \in AnswersTo(d, request)
    PROVE  LibraryInv'
<1>1. ASSUME NEW e \in Device, NEW new \in ToSet(callbacks'[e]) PROVE AnswerInv(new)
  BY <1>1, NewAnswerInv DEF TypeInv, LibraryInv
<1>. QED  BY <1>1 DEF TypeInv, LibraryInv, AnswerInv, Complete

\* The library keeps what the server has and what is cached.
LEMMA StepLibraryInv ==
    ASSUME TypeInv, UNCHANGED scope, NEW d \in Device, FirestoreStep(d)
    PROVE  LibraryInv'
<1>1. PICK R, D : FirestoreTypeOK(R, D)
  BY LibraryTyped DEF TypeInv
<1>2. ASSUME NEW e \in Device, NEW new \in ToSet(callbacks'[e]) PROVE AnswerInv(new)
  <2>1. new \in ToSet(callbacks[e]) \/ \E request \in R : new \in AnswersTo(d, request)
    BY <1>1, <1>2, StepNewAnswers
  <2>. QED  BY <2>1, NewAnswerInv DEF TypeInv, LibraryInv
<1>3. cache \in [Device -> SUBSET D] /\ mutations \in [Device -> Seq(D)]
  BY <1>1 DEF FirestoreTypeOK
<1>4. IsFiniteSet(server) /\ Seeded \subseteq server
      /\ \A e \in Device : IsFiniteSet(cache[e]) /\ Cached \subseteq cache[e]
  BY DEF TypeInv, LibraryInv
<1>5. IsFiniteSet(server') /\ Seeded \subseteq server'
  <2>1. CASE CommitWrite(d)
    <3>1. PICK document : server' = server \cup {document}
      BY <2>1 DEF CommitWrite
    <3>. QED  BY <1>4, <3>1, FS_AddElement
  <2>. QED
    BY <1>4, <2>1
       DEF FirestoreStep, RaiseSynced, GoOffline, LeaveOffline, ListenFails,
           AcknowledgeBatch, RejectBatch
<1>6. ASSUME NEW e \in Device PROVE IsFiniteSet(cache'[e]) /\ Cached \subseteq cache'[e]
  <2>1. CASE RaiseSynced(d)
    <3>1. PICK request : cache' = [cache EXCEPT ![d] =
                            @ \cup {document \in server : Matches(request.query, document)}]
      BY <2>1 DEF RaiseSynced
    <3>2. IsFiniteSet({document \in server : Matches(request.query, document)})
      BY <1>4, FS_Subset
    <3>3. IsFiniteSet(cache[d] \cup {document \in server : Matches(request.query, document)})
      BY <1>4, <3>2, FS_Union
    <3>. QED  BY <1>3, <1>4, <3>1, <3>3
  <2>2. CASE AcknowledgeBatch(d)
    <3>1. cache' = [cache EXCEPT ![d] = @ \cup {Head(mutations[d])}]
      BY <2>2 DEF AcknowledgeBatch
    <3>2. IsFiniteSet(cache[d] \cup {Head(mutations[d])})
      BY <1>4, FS_AddElement
    <3>. QED  BY <1>3, <1>4, <3>1, <3>2
  <2>. QED
    BY <1>4, <2>1, <2>2
       DEF FirestoreStep, GoOffline, LeaveOffline, ListenFails, CommitWrite, RejectBatch
<1>. QED  BY <1>2, <1>5, <1>6 DEF LibraryInv, AnswerInv, Complete

-----------------------------------------------------------------------------
(***************************************************************************)
(* One load.                                                              *)
(***************************************************************************)

\* The board, visit and load that a step leaves device d with; what it asks for.
Sent(d) == LoadList(currentBulletinBoard'[d], PageLimit, visit'[d], load'[d])

\* A load of device d, on a board that is open by the end of the step.
Loads(d) ==
    /\ loadPostsWithPaging(d)
    /\ currentBulletinBoard'[d] \in Board
    /\ visit'[d] \in 1 .. MaxVisits
    /\ UNCHANGED scope

\* The load number goes up, and the requests of the load carry it.
LEMMA LoadSends ==
    ASSUME TypeInv, NEW d \in Device, Loads(d)
    PROVE  /\ load' = [load EXCEPT ![d] = @ + 1]
           /\ load'[d] = load[d] + 1 /\ load[d] \in Nat /\ load'[d] \in 1 .. MaxLoads
           /\ posts' = [posts EXCEPT ![d] = <<>>]
           /\ failed' = [failed EXCEPT ![d] = {}]
           /\ GetDocuments(d, Sent(d))
<1>1. /\ load \in [Device -> 0 .. MaxLoads] /\ MaxLoads \in Nat
      /\ load[d] < MaxLoads /\ load' = [load EXCEPT ![d] = @ + 1]
  BY ScopeType DEF TypeInv, TypeOK, Loads, loadPostsWithPaging
<1>2. GetDocuments(d, Sent(d))
  BY DEF Loads, loadPostsWithPaging, Sent, LoadList, LoadRequests, Queries, CountQuery, PageQuery
<1>. QED  BY <1>1, <1>2 DEF Loads, loadPostsWithPaging

\* They are different requests, one for each page, all for the board.
LEMMA SentIs ==
    ASSUME TypeInv, NEW d \in Device, Loads(d)
    PROVE  /\ Sent(d) \in Seq(Request)
           /\ AllDifferent(Sent(d))
           /\ \A request \in ToSet(Sent(d)) :
                 /\ request.visit = visit'[d] /\ request.load = load'[d]
                 /\ request.query.ID = currentBulletinBoard'[d]
           /\ \A number \in Page : \E request \in ToSet(Sent(d)) :
                 IsPage(request) /\ request.query.PostNumber = number
<1>1. PICK board, v, l : board = currentBulletinBoard'[d] /\ v = visit'[d] /\ l = load'[d]
  OBVIOUS
<1>2. scope \in Scopes /\ board \in Board /\ v \in 1 .. MaxVisits /\ l \in 1 .. MaxLoads
  BY <1>1, LoadSends DEF Loads, TypeInv
<1>3. Sent(d) = LoadList(board, PageLimit, v, l)
  BY <1>1 DEF Sent
<1>. QED  BY <1>1, <1>2, <1>3, LoadListIs

\* A load leaves the library well typed, the rest of it alone, and its answers are true.
LEMMA LoadLibrary ==
    ASSUME TypeInv, NEW d \in Device, Loads(d)
    PROVE  /\ FirestoreTypeOK(Request, PostDocument)'
           /\ UNCHANGED <<server, cache, mutations>>
           /\ LibraryInv'
<1>1. PICK R, D : /\ R = Request
                  /\ FirestoreTypeOK(R, D)
                  /\ FirestoreTypeOK(R, D)' => FirestoreTypeOK(Request, PostDocument)'
  BY LibraryTyped DEF TypeInv, Loads
<1>2. PICK requests : requests = Sent(d)
  OBVIOUS
<1>3. requests \in Seq(R) /\ GetDocuments(d, requests)
  BY <1>1, <1>2, SentIs, LoadSends
<1>4. FirestoreTypeOK(R, D)'
  BY <1>1, <1>3, GetDocumentsType
<1>5. UNCHANGED <<server, cache, mutations>>
  BY <1>3 DEF GetDocuments
<1>6. \A e \in Device : \A new \in ToSet(callbacks'[e]) :
         new \in ToSet(callbacks[e]) \/ \E request : new \in AnswersTo(d, request)
  BY <1>1, <1>3, GetDocumentsNewAnswers
<1>. QED  BY <1>1, <1>4, <1>5, <1>6, LibraryKept

-----------------------------------------------------------------------------
(***************************************************************************)
(* Type correctness, with what it rests on: the posts of an answer form a *)
(* sequence only because they are finitely many, and a sheet or a load    *)
(* names a board only because one is open.                                *)
(***************************************************************************)

\* The answer at the head of the queue.
LEMMA HeadAnswer ==
    ASSUME TypeInv, NEW d \in Device, CallbackRuns(d), UNCHANGED listens
    PROVE  LET answer == Head(callbacks[d])
           IN  /\ answer \in AnswerOf(Request, PostDocument)
               /\ answer.request \in Request /\ answer.documents \subseteq PostDocument
               /\ AnswerInv(answer)
               /\ answer \in ToSet(callbacks[d])
               /\ answer.request \in Outstanding(d)
<1>1. PICK R, D : R = Request /\ D = PostDocument
  OBVIOUS
<1>2. FirestoreTypeOK(R, D)
  BY <1>1 DEF TypeInv, TypeOK
<1>3. Head(callbacks[d]) \in AnswerOf(R, D)
  BY <1>2, CallbackRunsType
<1>4. Head(callbacks[d]) \in ToSet(callbacks[d])
  BY <1>2, CallbackNoNewAnswers
<1>5. Head(callbacks[d]).request \in Outstanding(d)
  BY <1>2, CallbackOutstanding
<1>. QED  BY <1>1, <1>3, <1>4, <1>5 DEF AnswerOf, TypeInv, LibraryInv

\* Whatever their order, the posts of a page are posts.
LEMMA PagePostsType ==
    ASSUME TypeInv, NEW d \in Device, CallbackRuns(d), UNCHANGED listens,
           IsPage(Head(callbacks[d]).request),
           NEW order \in SetToSeqs(Head(callbacks[d]).documents)
    PROVE  /\ order \in Seq(Head(callbacks[d]).documents)
           /\ PagePosts(Head(callbacks[d]), order) \in Seq(Post)
           /\ DOMAIN PagePosts(Head(callbacks[d]), order) = DOMAIN order
           /\ \A i \in DOMAIN order :
                 PagePosts(Head(callbacks[d]), order)[i].document = order[i]
<1> DEFINE answer == Head(callbacks[d])
           list == PagePosts(answer, order)
<1>1. /\ answer.request \in Request /\ answer.documents \subseteq PostDocument
      /\ IsFiniteSet(answer.documents)
  BY HeadAnswer DEF AnswerInv
<1>2. answer.request.query.PostNumber \in Nat
  BY <1>1, RequestType DEF TypeInv
<1>3. order \in Seq(answer.documents)
  BY <1>1, OrderType
<1>4. Len(order) \in Nat /\ DOMAIN order = 1 .. Len(order)
  BY <1>3, LenProperties
<1>5. /\ DOMAIN list = 1 .. Len(order)
      /\ \A i \in 1 .. Len(order) :
            list[i] = [document |-> order[i], id |-> answer.request.query.PostNumber + i - 1]
  BY <1>4 DEF PagePosts
<1>6. list = [i \in 1 .. Len(order) |-> list[i]]
  BY <1>4 DEF PagePosts
<1> HIDE DEF answer, list
<1>7. ASSUME NEW i \in 1 .. Len(order) PROVE list[i] \in Post
  <2>1. order[i] \in PostDocument
    BY <1>1, <1>3, <1>4
  <2>2. answer.request.query.PostNumber + i - 1 \in Nat
    BY <1>2, <1>4
  <2>. QED  BY <1>5, <2>1, <2>2 DEF Post
<1>8. list \in Seq(Post)
  <2>1. list \in [1 .. Len(order) -> Post]
    BY <1>7, <1>6
  <2>. QED  BY <1>4, <2>1
<1>9. \A i \in DOMAIN order : list[i].document = order[i]
  BY <1>4, <1>5
<1>. QED  BY <1>3, <1>4, <1>5, <1>8, <1>9 DEF list, answer

\* A load, with the rest of its step.
LEMMA LoadType ==
    ASSUME TypeInv, NEW d \in Device, Loads(d),
           screen' \in [Device -> {"map", "board", "post"}],
           currentBulletinBoard' \in [Device -> Board \cup {DefaultBoard}],
           visit' \in [Device -> 0 .. MaxVisits],
           UNCHANGED <<showingPostView, created>>, wasOffline' \subseteq Device,
           \A e \in Device : ScreenInv(e)'
    PROVE  TypeInv'
<1>1. scope' = scope /\ scope \in Scopes
  BY DEF Loads, TypeInv
<1>2. FirestoreTypeOK(Request, PostDocument)' /\ LibraryInv'
  BY LoadLibrary
<1>3. load' \in [Device -> 0 .. MaxLoads]
  <2>1. load \in [Device -> 0 .. MaxLoads]
    BY DEF TypeInv, TypeOK
  <2>2. load[d] + 1 \in 0 .. MaxLoads /\ load' = [load EXCEPT ![d] = @ + 1]
    BY <1>1, LoadSends, ScopeType
  <2>. QED  BY <2>1, <2>2
<1>4. posts' \in [Device -> Seq(Post)] /\ failed' \in [Device -> SUBSET Page]
  <2>1. /\ <<>> \in Seq(Post)
        /\ posts \in [Device -> Seq(Post)] /\ failed \in [Device -> SUBSET Page]
    BY DEF TypeInv, TypeOK
  <2>2. posts' = [posts EXCEPT ![d] = <<>>] /\ failed' = [failed EXCEPT ![d] = {}]
    BY LoadSends
  <2>. QED  BY <2>1, <2>2
<1>5. showingPostView' \in [Device -> BOOLEAN] /\ created' \in [Device -> 0 .. MaxPosts]
  BY DEF TypeInv, TypeOK
<1>6. TypeOK'
  BY <1>1, <1>2, <1>3, <1>4, <1>5, SameScope DEF TypeOK
<1>. QED  BY <1>1, <1>2, <1>6 DEF TypeInv

\* Opening a board and coming back to it.
LEMMA LoadTypeInv ==
    ASSUME TypeInv, NEW d \in Device, UNCHANGED scope, wasOffline' \subseteq Device,
           ClosePost(d) \/ \E board \in Board : OpenBoard(d, board)
    PROVE  Loads(d) /\ TypeInv'
<1>1. /\ screen \in [Device -> {"map", "board", "post"}]
      /\ currentBulletinBoard \in [Device -> Board \cup {DefaultBoard}]
      /\ visit \in [Device -> 0 .. MaxVisits]
      /\ MaxVisits \in Nat
      /\ \A e \in Device : ScreenInv(e)
  BY ScopeType DEF TypeInv, TypeOK
<1>2. CASE ClosePost(d)
  <2>1. visit[d] \in 1 .. MaxVisits /\ currentBulletinBoard[d] \in Board
    BY <1>1, <1>2 DEF ClosePost, ScreenInv
  <2>2. Loads(d)
    BY <1>2, <2>1 DEF ClosePost, Loads
  <2>3. screen' = [screen EXCEPT ![d] = "board"]
        /\ UNCHANGED <<currentBulletinBoard, visit, showingPostView, created>>
    BY <1>2 DEF ClosePost
  <2>4. \A e \in Device : ScreenInv(e)'
    BY <1>1, <2>1, <2>3 DEF ScreenInv
  <2>. QED  BY <1>1, <2>2, <2>3, <2>4, LoadType
<1>3. ASSUME NEW board \in Board, OpenBoard(d, board) PROVE Loads(d) /\ TypeInv'
  <2>1. /\ currentBulletinBoard' = [currentBulletinBoard EXCEPT ![d] = board]
        /\ visit' = [visit EXCEPT ![d] = @ + 1] /\ visit[d] < MaxVisits
        /\ screen' = [screen EXCEPT ![d] = "board"]
        /\ UNCHANGED <<showingPostView, created>>
    BY <1>3 DEF OpenBoard
  <2>2. visit[d] + 1 \in 1 .. MaxVisits /\ visit[d] + 1 \in 0 .. MaxVisits /\ visit[d] + 1 >= 1
    BY <1>1, <2>1
  <2>3. visit'[d] = visit[d] + 1 /\ currentBulletinBoard'[d] = board
    BY <1>1, <2>1
  <2>4. Loads(d)
    BY <1>3, <2>2, <2>3 DEF OpenBoard, Loads
  <2>5. \A e \in Device : ScreenInv(e)'
    BY <1>1, <2>1, <2>2, <2>3 DEF ScreenInv
  <2>6. /\ screen' \in [Device -> {"map", "board", "post"}]
        /\ currentBulletinBoard' \in [Device -> Board \cup {DefaultBoard}]
        /\ visit' \in [Device -> 0 .. MaxVisits]
    BY <1>1, <2>1, <2>2
  <2>. QED  BY <2>1, <2>4, <2>5, <2>6, LoadType
<1>. QED  BY <1>2, <1>3

\* Taps that ask for nothing.
LEMMA TapTypeInv ==
    ASSUME TypeInv, NEW d \in Device, UNCHANGED scope, wasOffline' \subseteq Device,
           CloseBoard(d) \/ OpenPost(d) \/ PopToMap(d) \/ ShowNewPost(d) \/ CancelPost(d)
    PROVE  TypeInv'
<1>1. UNCHANGED firestoreVars
  BY DEF CloseBoard, OpenPost, PopToMap, ShowNewPost, CancelPost
<1>2. LibraryInv'
  BY <1>1 DEF firestoreVars, TypeInv, LibraryInv, AnswerInv, Complete
<1>3. FirestoreTypeOK(Request, PostDocument)'
  BY <1>1, SameScope DEF TypeInv, TypeOK, FirestoreTypeOK, firestoreVars
<1>4. posts' \in [Device -> Seq(Post)]
  <2>1. <<>> \in Seq(Post) /\ posts \in [Device -> Seq(Post)]
    BY DEF TypeInv, TypeOK
  <2>2. posts' = posts \/ posts' = [posts EXCEPT ![d] = <<>>]
    BY DEF CloseBoard, OpenPost, PopToMap, ShowNewPost, CancelPost, Disappear
  <2>. QED  BY <2>1, <2>2
<1>5. /\ screen' \in [Device -> {"map", "board", "post"}]
      /\ showingPostView' \in [Device -> BOOLEAN]
  BY DEF TypeInv, TypeOK, CloseBoard, OpenPost, PopToMap, ShowNewPost, CancelPost
<1>6. UNCHANGED <<currentBulletinBoard, visit, load, created, failed>>
  BY DEF CloseBoard, OpenPost, PopToMap, ShowNewPost, CancelPost
<1>7. TypeOK'
  BY <1>3, <1>4, <1>5, <1>6, SameScope DEF TypeInv, TypeOK
<1>8. \A e \in Device : ScreenInv(e)'
  BY <1>6 DEF TypeInv, TypeOK, ScreenInv, CloseBoard, OpenPost, PopToMap, ShowNewPost, CancelPost, Usable
<1>. QED  BY <1>2, <1>7, <1>8 DEF TypeInv

\* The post that Create writes and lists.
NewPost(d) ==
    [id |-> <<d, created[d] + 1>>, data |-> [ID |-> currentBulletinBoard[d]]]

\* Create Post keeps the types.
LEMMA CreateTypeInv ==
    ASSUME TypeInv, NEW d \in Device, UNCHANGED scope, wasOffline' \subseteq Device, CreatePost(d)
    PROVE  TypeInv'
<1>1. /\ created \in [Device -> 0 .. MaxPosts] /\ MaxPosts \in Nat /\ created[d] < MaxPosts
      /\ currentBulletinBoard[d] \in Board
  BY ScopeType DEF TypeInv, TypeOK, CreatePost, ScreenInv
<1>2. created[d] + 1 \in 1 .. MaxPosts /\ created[d] + 1 \in 0 .. MaxPosts
  BY <1>1
<1>3. NewPost(d) \in PostDocument
  BY <1>1, <1>2 DEF NewPost, PostDocument, AppPost
<1>4. /\ AddDocument(d, NewPost(d))
      /\ created' = [created EXCEPT ![d] = @ + 1]
      /\ posts' = [posts EXCEPT ![d] =
                      Append(@, [document |-> NewPost(d), id |-> Len(posts[d])])]
      /\ showingPostView' = [showingPostView EXCEPT ![d] = FALSE]
      /\ UNCHANGED <<server, cache, offline, listens, callbacks, screen,
                     currentBulletinBoard, visit, load, failed>>
  BY DEF CreatePost, NewPost
<1>5. posts' \in [Device -> Seq(Post)]
  <2>1. posts \in [Device -> Seq(Post)]
    BY DEF TypeInv, TypeOK
  <2>2. [document |-> NewPost(d), id |-> Len(posts[d])] \in Post
    BY <1>3, <2>1 DEF Post
  <2>. QED  BY <1>4, <2>1, <2>2
<1>6. FirestoreTypeOK(Request, PostDocument)'
  <2>1. mutations' \in [Device -> Seq(PostDocument)]
    BY <1>3, <1>4 DEF AddDocument, TypeInv, TypeOK, FirestoreTypeOK
  <2>. QED  BY <1>4, <2>1, SameScope DEF TypeInv, TypeOK, FirestoreTypeOK
<1>7. created' \in [Device -> 0 .. MaxPosts] /\ showingPostView' \in [Device -> BOOLEAN]
  BY <1>1, <1>2, <1>4 DEF TypeInv, TypeOK
<1>8. TypeOK'
  BY <1>4, <1>5, <1>6, <1>7, SameScope DEF TypeInv, TypeOK
<1>9. LibraryInv'
  BY <1>4 DEF TypeInv, LibraryInv, AnswerInv, Complete
<1>10. \A e \in Device : ScreenInv(e)'
  BY <1>4 DEF TypeInv, TypeOK, ScreenInv
<1>. QED  BY <1>8, <1>9, <1>10 DEF TypeInv

\* The four callbacks.
LEMMA CallbackTypeInv ==
    ASSUME TypeInv, NEW d \in Device, UNCHANGED scope, wasOffline' \subseteq Device, Callback(d)
    PROVE  TypeInv'
<1> DEFINE answer == Head(callbacks[d])
<1>1. /\ CallbackRuns(d)
      /\ UNCHANGED <<server, cache, mutations, offline, listens, screen,
                     currentBulletinBoard, visit, load, showingPostView, created>>
  BY DEF Callback, PageLoaded, PageDiscarded, PageFailed, PostsCounted, boardVars
<1>2. PICK R, D : /\ R = Request /\ D = PostDocument
                  /\ FirestoreTypeOK(R, D)
                  /\ FirestoreTypeOK(R, D)' => FirestoreTypeOK(Request, PostDocument)'
  BY LibraryTyped DEF TypeInv
<1>3. FirestoreTypeOK(Request, PostDocument)'
  <2>1. callbacks' \in [Device -> Seq(AnswerOf(R, D))]
    BY <1>1, <1>2, CallbackRunsType
  <2>. QED  BY <1>1, <1>2, <2>1 DEF FirestoreTypeOK
<1>4. LibraryInv'
  <2>1. \A e \in Device : ToSet(callbacks'[e]) \subseteq ToSet(callbacks[e])
    BY <1>1, <1>2, CallbackNoNewAnswers
  <2>. QED  BY <1>1, <2>1, LibraryKept
<1>5. posts' \in [Device -> Seq(Post)]
  <2>1. posts \in [Device -> Seq(Post)]
    BY DEF TypeInv, TypeOK
  <2>2. CASE PageLoaded(d)
    <3>1. IsPage(answer.request)
          /\ \E order \in SetToSeqs(answer.documents) :
                posts' = [posts EXCEPT ![d] = @ \o PagePosts(answer, order)]
      BY <2>2 DEF PageLoaded
    <3>2. PICK order \in SetToSeqs(answer.documents) :
             posts' = [posts EXCEPT ![d] = @ \o PagePosts(answer, order)]
      BY <3>1
    <3>3. PagePosts(answer, order) \in Seq(Post)
      BY <1>1, <3>1, PagePostsType
    <3>. QED  BY <2>1, <3>2, <3>3
  <2>. QED
    BY <2>1, <2>2 DEF Callback, PageDiscarded, PageFailed, PostsCounted, boardVars
<1>6. failed' \in [Device -> SUBSET Page]
  <2>1. failed \in [Device -> SUBSET Page]
    BY DEF TypeInv, TypeOK
  <2>2. CASE PageFailed(d)
    <3>1. answer.request \in Request
      BY <1>1, HeadAnswer
    <3>2. answer.request.query.PostNumber \in Page
      BY <2>2, <3>1, RequestType DEF PageFailed, TypeInv
    <3>. QED  BY <2>1, <2>2, <3>2 DEF PageFailed
  <2>. QED
    BY <2>1, <2>2 DEF Callback, PageLoaded, PageDiscarded, PostsCounted, boardVars
<1>7. TypeOK'
  BY <1>1, <1>3, <1>5, <1>6, SameScope DEF TypeInv, TypeOK
<1>8. \A e \in Device : ScreenInv(e)'
  BY <1>1 DEF TypeInv, ScreenInv
<1>. QED  BY <1>4, <1>7, <1>8 DEF TypeInv

\* A restart.
LEMMA RestartTypeInv ==
    ASSUME TypeInv, NEW d \in Device, UNCHANGED scope, wasOffline' \subseteq Device, Restart(d)
    PROVE  TypeInv'
<1>1. /\ LibraryRestart(d)
      /\ screen' = [screen EXCEPT ![d] = "map"]
      /\ currentBulletinBoard' = [currentBulletinBoard EXCEPT ![d] = DefaultBoard]
      /\ posts' = [posts EXCEPT ![d] = <<>>]
      /\ showingPostView' = [showingPostView EXCEPT ![d] = FALSE]
      /\ UNCHANGED <<visit, load, created, failed>>
  BY DEF Restart
<1>2. PICK R, D : /\ FirestoreTypeOK(R, D)
                  /\ FirestoreTypeOK(R, D)' => FirestoreTypeOK(Request, PostDocument)'
  BY LibraryTyped DEF TypeInv
<1>3. FirestoreTypeOK(Request, PostDocument)'
  BY <1>1, <1>2, LibraryRestartType
<1>4. TypeOK'
  BY <1>1, <1>3, SameScope DEF TypeInv, TypeOK
<1>5. \A e \in Device : ToSet(callbacks'[e]) \subseteq ToSet(callbacks[e])
  BY <1>1, <1>2 DEF LibraryRestart, ToSet, FirestoreTypeOK
<1>6. LibraryInv'
  BY <1>1, <1>5, LibraryKept DEF LibraryRestart
<1>7. \A e \in Device : ScreenInv(e)'
  BY <1>1 DEF TypeInv, TypeOK, ScreenInv
<1>. QED  BY <1>4, <1>6, <1>7 DEF TypeInv

\* Every step keeps types, library and screens.
LEMMA NextTypeInv == TypeInv /\ [Next]_vars => TypeInv'
<1> SUFFICES ASSUME TypeInv, [Next]_vars PROVE TypeInv'
  OBVIOUS
<1>1. UNCHANGED scope /\ wasOffline' \subseteq Device
  BY DEF Next, Records, vars, TypeInv, TypeOK
<1>2. ASSUME NEW d \in Device, FirestoreStep(d), UNCHANGED boardVars PROVE TypeInv'
  <2>1. PICK R, D : /\ FirestoreTypeOK(R, D)
                    /\ FirestoreTypeOK(R, D)' => FirestoreTypeOK(Request, PostDocument)'
    BY <1>1, LibraryTyped DEF TypeInv
  <2>2. FirestoreTypeOK(Request, PostDocument)'
    BY <1>2, <2>1, FirestoreStepType
  <2>3. TypeOK'
    BY <1>1, <1>2, <2>2, SameScope DEF TypeInv, TypeOK, boardVars
  <2>4. LibraryInv'
    BY <1>1, <1>2, StepLibraryInv
  <2>. QED  BY <1>1, <1>2, <2>3, <2>4 DEF TypeInv, ScreenInv, boardVars
<1>3. CASE UNCHANGED vars
  <2>1. TypeOK'
    BY <1>1, <1>3, SameScope DEF TypeInv, TypeOK, FirestoreTypeOK, vars, firestoreVars, boardVars
  <2>2. LibraryInv'
    BY <1>3 DEF TypeInv, LibraryInv, AnswerInv, Complete, vars, firestoreVars
  <2>. QED  BY <1>1, <1>3, <2>1, <2>2 DEF TypeInv, ScreenInv, vars, boardVars
<1>. QED
  BY <1>1, <1>2, <1>3, LoadTypeInv, TapTypeInv, CreateTypeInv, CallbackTypeInv, RestartTypeInv
     DEF Next

\* The initial state is well typed.
LEMMA InitTypeInv == Init => TypeInv
<1> SUFFICES ASSUME Init PROVE TypeInv
  OBVIOUS
<1>1. scope \in Scopes /\ FirestoreInit(Seeded, [d \in Device |-> Cached])
  BY DEF Init
<1>2. /\ Seeded \subseteq PostDocument /\ Cached \subseteq PostDocument
      /\ IsFiniteSet(Seeded) /\ IsFiniteSet(Cached)
  BY BoardAssumption, FS_Subset DEF PostDocument
<1>3. FirestoreTypeOK(Request, PostDocument)
  BY <1>1, <1>2, FirestoreInitType
<1>4. 0 \in 0 .. MaxVisits /\ 0 \in 0 .. MaxLoads /\ 0 \in 0 .. MaxPosts
  BY <1>1, ScopeType
<1>5. TypeOK
  BY <1>3, <1>4 DEF Init, TypeOK
<1>6. LibraryInv
  <2>1. \A d \in Device : callbacks[d] = <<>> /\ cache[d] = Cached
    BY <1>1 DEF FirestoreInit
  <2>. QED  BY <1>1, <1>2, <2>1 DEF LibraryInv, FirestoreInit, ToSet
<1>7. \A d \in Device : ScreenInv(d)
  BY DEF Init, ScreenInv
<1>. QED  BY <1>1, <1>5, <1>6, <1>7 DEF TypeInv

\* The variables always have their types.
THEOREM BoardTypeOK == Spec => []TypeOK
<1>1. TypeInv => TypeOK
  BY DEF TypeInv
<1>. QED  BY <1>1, InitTypeInv, NextTypeInv, PTL DEF Spec

-----------------------------------------------------------------------------
(***************************************************************************)
(* Boards are not mixed: an answer is appended only in the visit that     *)
(* asked, and in that visit the device asked for one board.                *)
(***************************************************************************)

\* A device that owes no more and is where it was.
LEMMA BoardKept ==
    ASSUME NEW e \in Device, BoardOf(e), RequestsOnce(e)',
           Outstanding(e)' \subseteq Outstanding(e),
           visit'[e] = visit[e], load'[e] = load[e],
           \/ currentBulletinBoard'[e] = currentBulletinBoard[e] /\ posts'[e] = posts[e]
           \/ currentBulletinBoard'[e] = currentBulletinBoard[e] /\ posts'[e] = <<>>
           \/ currentBulletinBoard'[e] = currentBulletinBoard[e] /\ OfCurrentBoard(e)'
           \/ Outstanding(e)' = {} /\ posts'[e] = <<>>
    PROVE  BoardOf(e)'
<1>1. OfCurrentBoard(e)'
  <2>1. posts'[e] = <<>> => OfCurrentBoard(e)'
    BY DEF OfCurrentBoard
  <2>. QED  BY <2>1 DEF BoardOf, OfCurrentBoard
<1>2. SentBefore(e)'
  <2>1. Outstanding(e)' = {} \/ currentBulletinBoard'[e] = currentBulletinBoard[e]
    OBVIOUS
  <2>2. Outstanding(e)' = {} => SentBefore(e)'
    BY DEF SentBefore
  <2>. QED  BY <2>1, <2>2 DEF BoardOf, SentBefore
<1>. QED  BY <1>1, <1>2 DEF BoardOf

\* What a load adds to what a device waits for.
LEMMA LoadOwes ==
    ASSUME BoardInv, NEW d \in Device, Loads(d), NEW e \in Device
    PROVE  /\ RequestsOnce(e)'
           /\ Outstanding(e)' =
                 Outstanding(e) \cup (IF e = d THEN ToSet(Sent(d)) ELSE {})
<1>1. TypeInv /\ RequestsOnce(e) /\ SentBefore(d)
  BY DEF BoardInv, BoardOf
<1>2. PICK R, D : R = Request /\ FirestoreTypeOK(R, D)
  BY <1>1, LibraryTyped DEF TypeInv, Loads
<1>3. PICK requests : requests = Sent(d)
  OBVIOUS
<1>4. requests \in Seq(R) /\ AllDifferent(requests) /\ GetDocuments(d, requests)
  BY <1>1, <1>2, <1>3, SentIs, LoadSends
<1>5. ToSet(requests) \cap Outstanding(d) = {}
  <2>1. ASSUME NEW request \in ToSet(requests), request \in Outstanding(d) PROVE FALSE
    <3>1. request.load = load'[d] /\ request.load <= load[d]
      BY <1>1, <1>3, <2>1, SentIs DEF SentBefore
    <3>. QED  BY <1>1, <3>1, LoadSends
  <2>. QED  BY <2>1
<1>6. /\ RequestsOnce(e)'
      /\ Outstanding(e)' = Outstanding(e) \cup (IF e = d THEN ToSet(requests) ELSE {})
  BY <1>1, <1>2, <1>4, <1>5, GetDocumentsOwes
<1>. QED  BY <1>3, <1>6

\* A load of a new visit, or of the same one.
LEMMA LoadBoard ==
    ASSUME BoardInv, NEW d \in Device, UNCHANGED scope, wasOffline' \subseteq Device,
           ClosePost(d) \/ \E board \in Board : OpenBoard(d, board),
           NEW e \in Device
    PROVE  BoardOf(e)'
<1>1. TypeInv /\ Loads(d) /\ BoardOf(e)
  BY LoadTypeInv DEF BoardInv
<1>2. /\ RequestsOnce(e)'
      /\ Outstanding(e)' = Outstanding(e) \cup (IF e = d THEN ToSet(Sent(d)) ELSE {})
  BY <1>1, LoadOwes
<1>3. /\ currentBulletinBoard \in [Device -> Board \cup {DefaultBoard}]
      /\ visit \in [Device -> 0 .. MaxVisits] /\ MaxVisits \in Nat
      /\ load \in [Device -> 0 .. MaxLoads] /\ MaxLoads \in Nat
      /\ posts \in [Device -> Seq(Post)]
  BY <1>1, ScopeType DEF TypeInv, TypeOK
<1>4. /\ load' = [load EXCEPT ![d] = @ + 1] /\ posts' = [posts EXCEPT ![d] = <<>>]
      /\ load'[d] = load[d] + 1
  BY <1>1, LoadSends
<1>5. CASE e # d
  <2>1. /\ visit'[e] = visit[e] /\ currentBulletinBoard'[e] = currentBulletinBoard[e]
        /\ load'[e] = load[e] /\ posts'[e] = posts[e]
    BY <1>3, <1>4, <1>5 DEF ClosePost, OpenBoard
  <2>. QED  BY <1>1, <1>2, <1>5, <2>1, BoardKept
<1>6. CASE e = d
  <2>1. \/ visit'[d] = visit[d] /\ currentBulletinBoard'[d] = currentBulletinBoard[d]
        \/ visit'[d] = visit[d] + 1
    BY <1>3 DEF ClosePost, OpenBoard
  <2>2. visit[d] \in Nat /\ load[d] \in Nat
    BY <1>3
  <2>3. OfCurrentBoard(d)'
    BY <1>3, <1>4 DEF OfCurrentBoard
  <2>4. ASSUME NEW request \in Outstanding(d)'
        PROVE  /\ request.visit <= visit'[d] /\ request.load <= load'[d]
               /\ request.load = load'[d] => request.visit = visit'[d]
               /\ request.visit = visit'[d] => request.query.ID = currentBulletinBoard'[d]
    <3>1. CASE request \in ToSet(Sent(d))
      <4>1. /\ request.visit = visit'[d] /\ request.load = load'[d]
            /\ request.query.ID = currentBulletinBoard'[d]
        BY <1>1, <3>1, SentIs
      <4>2. visit'[d] \in Nat /\ load'[d] \in Nat
        BY <1>4, <2>1, <2>2
      <4>. QED  BY <4>1, <4>2
    <3>2. CASE request \in Outstanding(d)
      <4>1. /\ request.visit <= visit[d] /\ request.load <= load[d]
            /\ request.visit = visit[d] => request.query.ID = currentBulletinBoard[d]
        BY <1>1, <1>6, <3>2 DEF BoardOf, SentBefore
      <4>2. request.visit \in Nat /\ request.load \in Nat
        <5>1. request \in Request
          BY <1>1, <3>2, OutstandingType DEF TypeInv
        <5>. QED  BY <1>1, <5>1, RequestType, ScopeType DEF TypeInv
      <4>. QED  BY <1>4, <2>1, <2>2, <4>1, <4>2
    <3>. QED  BY <1>2, <1>6, <2>4, <3>1, <3>2
  <2>. QED  BY <1>2, <1>6, <2>3, <2>4 DEF BoardOf, SentBefore
<1>. QED  BY <1>5, <1>6

\* Every entry of two lists in a row is one of the first or of the second.
LEMMA ConcatEntries ==
    ASSUME NEW S, NEW s \in Seq(S), NEW t \in Seq(S), NEW i \in DOMAIN (s \o t)
    PROVE  \/ i \in DOMAIN s /\ (s \o t)[i] = s[i]
           \/ i - Len(s) \in DOMAIN t /\ (s \o t)[i] = t[i - Len(s)]
<1>1. /\ Len(s) \in Nat /\ DOMAIN s = 1 .. Len(s)
      /\ Len(t) \in Nat /\ DOMAIN t = 1 .. Len(t)
      /\ i \in 1 .. Len(s) + Len(t)
      /\ \A k \in 1 .. Len(s) : (s \o t)[k] = s[k]
      /\ \A k \in 1 .. Len(t) : (s \o t)[Len(s) + k] = t[k]
  BY ConcatPlaces
<1>2. CASE i <= Len(s)
  BY <1>1, <1>2
<1>3. CASE i > Len(s)
  <2>1. i - Len(s) \in 1 .. Len(t) /\ i = Len(s) + (i - Len(s))
    BY <1>1, <1>3
  <2>2. (s \o t)[Len(s) + (i - Len(s))] = t[i - Len(s)]
    BY <1>1, <2>1
  <2>. QED  BY <1>1, <2>1, <2>2
<1>. QED  BY <1>1, <1>2, <1>3

\* A callback appends posts of the visit's board.
LEMMA CallbackBoard ==
    ASSUME BoardInv, NEW d \in Device, Callback(d), NEW e \in Device
    PROVE  /\ BoardOf(e)'
           /\ Outstanding(e)' = Outstanding(e)
                 \ (IF e = d THEN {Head(callbacks[d]).request} ELSE {})
<1> DEFINE answer == Head(callbacks[d])
<1>1. /\ CallbackRuns(d) /\ UNCHANGED <<listens, visit, load, currentBulletinBoard>>
      /\ TypeInv /\ BoardOf(e)
  BY DEF Callback, PageLoaded, PageDiscarded, PageFailed, PostsCounted, boardVars, BoardInv
<1>2. PICK R, D : FirestoreTypeOK(R, D)
  BY <1>1 DEF TypeInv, TypeOK
<1>3. /\ RequestsOnce(e)'
      /\ Outstanding(e)' = Outstanding(e) \ (IF e = d THEN {answer.request} ELSE {})
  BY <1>1, <1>2, CallbackOwes DEF BoardOf
<1>4. OfCurrentBoard(e)' \/ posts'[e] = posts[e]
  <2>1. posts \in [Device -> Seq(Post)]
    BY <1>1 DEF TypeInv, TypeOK
  <2>2. CASE e = d /\ PageLoaded(d)
    <3>1. /\ IsPage(answer.request) /\ answer.request.visit = visit[d]
          /\ \E order \in SetToSeqs(answer.documents) :
                posts' = [posts EXCEPT ![d] = @ \o PagePosts(answer, order)]
      BY <2>2 DEF PageLoaded
    <3>2. PICK order \in SetToSeqs(answer.documents) :
             posts' = [posts EXCEPT ![d] = @ \o PagePosts(answer, order)]
      BY <3>1
    <3> DEFINE list == PagePosts(answer, order)
    <3>3. /\ order \in Seq(answer.documents) /\ list \in Seq(Post) /\ DOMAIN list = DOMAIN order
          /\ \A i \in DOMAIN order : list[i].document = order[i]
      BY <1>1, <3>1, PagePostsType
    <3>4. /\ answer.request \in Outstanding(d) /\ AnswerInv(answer)
          /\ answer.request \in Request
      BY <1>1, HeadAnswer
    <3>5. answer.request.query.ID = currentBulletinBoard[d]
      BY <1>1, <2>2, <3>1, <3>4 DEF BoardOf, SentBefore
    <3>6. "ID" \in DOMAIN answer.request.query
      BY <1>1, <3>1, <3>4, RequestType DEF TypeInv
    <3>7. \A document \in answer.documents : document.data.ID = currentBulletinBoard[d]
      BY <3>4, <3>5, <3>6 DEF AnswerInv, Matches
    <3> HIDE DEF list
    <3>8. \A i \in DOMAIN list : list[i].document.data.ID = currentBulletinBoard[d]
      <4>1. \A i \in DOMAIN order : order[i] \in answer.documents
        BY <3>3
      <4>. QED  BY <3>3, <3>7, <4>1
    <3>9. posts'[d] = posts[d] \o list /\ posts[d] \in Seq(Post)
      BY <2>1, <3>2 DEF list
    <3>10. \A i \in DOMAIN posts'[d] : posts'[d][i].document.data.ID = currentBulletinBoard[d]
      <4>1. ASSUME NEW i \in DOMAIN (posts[d] \o list)
            PROVE  \/ i \in DOMAIN posts[d] /\ (posts[d] \o list)[i] = posts[d][i]
                   \/ \E j \in DOMAIN list : (posts[d] \o list)[i] = list[j]
        BY <3>3, <3>9, <4>1, ConcatEntries
      <4>. QED  BY <1>1, <2>2, <3>8, <3>9, <4>1 DEF BoardOf, OfCurrentBoard
    <3>. QED  BY <1>1, <2>2, <3>10 DEF OfCurrentBoard
  <2>3. CASE e # d /\ PageLoaded(d)
    BY <2>1, <2>3 DEF PageLoaded
  <2>. QED
    BY <2>2, <2>3 DEF Callback, PageDiscarded, PageFailed, PostsCounted, boardVars
<1>5. BoardOf(e)'
  BY <1>1, <1>3, <1>4, BoardKept
<1>. QED  BY <1>3, <1>5

\* The new post is one of the current board.
LEMMA CreateBoard ==
    ASSUME BoardInv, NEW d \in Device, CreatePost(d), NEW e \in Device
    PROVE  BoardOf(e)' /\ Outstanding(e)' = Outstanding(e)
<1> DEFINE post == [document |-> NewPost(d), id |-> Len(posts[d])]
<1>1. /\ posts' = [posts EXCEPT ![d] = Append(@, post)]
      /\ UNCHANGED <<listens, callbacks, currentBulletinBoard, visit, load>>
  BY DEF CreatePost, NewPost
<1>2. TypeInv /\ BoardOf(e) /\ posts \in [Device -> Seq(Post)]
  BY DEF BoardInv, TypeInv, TypeOK
<1>3. RequestsOnce(e)' /\ Outstanding(e)' = Outstanding(e)
  BY <1>1, <1>2 DEF BoardOf, RequestsOnce, Outstanding
<1>4. OfCurrentBoard(e)' \/ posts'[e] = posts[e]
  <2>1. CASE e # d
    BY <1>1, <1>2, <2>1
  <2>2. CASE e = d
    <3>1. post.document.data.ID = currentBulletinBoard[d]
      BY DEF NewPost
    <3> HIDE DEF post
    <3>2. posts'[d] = Append(posts[d], post) /\ posts[d] \in Seq(Post)
      BY <1>1, <1>2
    <3>3. \A i \in DOMAIN posts'[d] :
             posts'[d][i] = post \/ (i \in DOMAIN posts[d] /\ posts'[d][i] = posts[d][i])
      BY <3>2
    <3>. QED  BY <1>1, <1>2, <2>2, <3>1, <3>3 DEF BoardOf, OfCurrentBoard
  <2>. QED  BY <2>1, <2>2
<1>. QED  BY <1>1, <1>2, <1>3, <1>4, BoardKept

\* A restart forgets requests, board and posts alike.
LEMMA RestartBoard ==
    ASSUME BoardInv, NEW d \in Device, Restart(d), NEW e \in Device
    PROVE  /\ BoardOf(e)'
           /\ e # d => Outstanding(e)' = Outstanding(e)
           /\ e = d => Outstanding(e)' = {}
<1>1. /\ listens' = [listens EXCEPT ![d] = {}] /\ callbacks' = [callbacks EXCEPT ![d] = <<>>]
      /\ currentBulletinBoard' = [currentBulletinBoard EXCEPT ![d] = DefaultBoard]
      /\ posts' = [posts EXCEPT ![d] = <<>>]
      /\ UNCHANGED <<visit, load>>
  BY DEF Restart, LibraryRestart
<1>2. BoardOf(e) /\ TypeOK
  BY DEF BoardInv, TypeInv
<1>3. CASE e # d
  <2>1. /\ listens'[e] = listens[e] /\ callbacks'[e] = callbacks[e] /\ posts'[e] = posts[e]
        /\ currentBulletinBoard'[e] = currentBulletinBoard[e]
    BY <1>1, <1>2, <1>3 DEF TypeOK, FirestoreTypeOK
  <2>2. RequestsOnce(e)' /\ Outstanding(e)' = Outstanding(e)
    BY <1>2, <2>1 DEF BoardOf, RequestsOnce, Outstanding
  <2>. QED  BY <1>1, <1>2, <1>3, <2>1, <2>2, BoardKept
<1>4. CASE e = d
  <2>1. listens'[e] = {} /\ callbacks'[e] = <<>> /\ posts'[e] = <<>>
    BY <1>1, <1>2, <1>4 DEF TypeOK, FirestoreTypeOK
  <2>2. RequestsOnce(e)' /\ Outstanding(e)' = {}
    BY <2>1 DEF RequestsOnce, AnsweredOnce, Outstanding, ToSet
  <2>. QED  BY <1>1, <1>2, <1>4, <2>1, <2>2, BoardKept
<1>. QED  BY <1>3, <1>4

\* Other taps, and the library's own steps, leave the requests alone.
LEMMA QuietBoard ==
    ASSUME BoardInv, UNCHANGED scope, NEW d \in Device,
           \/ CloseBoard(d) \/ OpenPost(d) \/ PopToMap(d) \/ ShowNewPost(d) \/ CancelPost(d)
           \/ FirestoreStep(d) /\ UNCHANGED boardVars
           \/ UNCHANGED vars,
           NEW e \in Device
    PROVE  BoardOf(e)' /\ Outstanding(e)' = Outstanding(e)
<1>1. TypeInv /\ BoardOf(e) /\ TypeOK
  BY DEF BoardInv, TypeInv
<1>2. RequestsOnce(e)' /\ Outstanding(e)' = Outstanding(e)
  <2>1. CASE FirestoreStep(d)
    <3>1. PICK R, D : FirestoreTypeOK(R, D)
      BY <1>1 DEF TypeOK
    <3>. QED  BY <1>1, <2>1, <3>1, StepOwes DEF BoardOf
  <2>2. CASE UNCHANGED firestoreVars
    BY <1>1, <2>2 DEF firestoreVars, BoardOf, RequestsOnce, Outstanding
  <2>. QED
    BY <2>1, <2>2 DEF CloseBoard, OpenPost, PopToMap, ShowNewPost, CancelPost, vars
<1>3. /\ UNCHANGED <<currentBulletinBoard, visit, load>>
      /\ UNCHANGED posts \/ posts' = [posts EXCEPT ![d] = <<>>]
  BY DEF CloseBoard, OpenPost, PopToMap, ShowNewPost, CancelPost, Disappear, vars, boardVars
<1>4. posts'[e] = posts[e] \/ posts'[e] = <<>>
  BY <1>1, <1>3 DEF TypeOK
<1>. QED  BY <1>1, <1>2, <1>3, <1>4, BoardKept

\* Every step keeps boards apart.
LEMMA NextBoardInv == BoardInv /\ [Next]_vars => BoardInv'
<1> SUFFICES ASSUME BoardInv, [Next]_vars PROVE BoardInv'
  OBVIOUS
<1>1. TypeInv' /\ UNCHANGED scope /\ wasOffline' \subseteq Device
  BY NextTypeInv DEF BoardInv, Next, Records, vars, TypeInv, TypeOK
<1>2. ASSUME NEW e \in Device PROVE BoardOf(e)'
  <2>1. CASE UNCHANGED vars
    BY <1>1, <2>1, QuietBoard
  <2>. QED
    BY <1>1, <2>1, LoadBoard, CallbackBoard, CreateBoard, RestartBoard, QuietBoard DEF Next
<1>. QED  BY <1>1, <1>2 DEF BoardInv

\* Initially no device waits for anything.
LEMMA InitBoardInv == Init => BoardInv
<1> SUFFICES ASSUME Init, NEW d \in Device PROVE BoardOf(d)
  BY InitTypeInv DEF BoardInv
<1>1. listens[d] = {} /\ callbacks[d] = <<>> /\ posts[d] = <<>>
  BY DEF Init, FirestoreInit
<1>2. RequestsOnce(d) /\ Outstanding(d) = {}
  BY <1>1 DEF RequestsOnce, AnsweredOnce, Outstanding, ToSet
<1>. QED  BY <1>1, <1>2 DEF BoardOf, SentBefore, OfCurrentBoard

\* Posts of different boards are never mixed, whatever board is opened while answers for
\* another are still to come, and whatever answers are late, failed or from the cache.
THEOREM BoardPostsOfCurrentBoard == Spec => []PostsOfCurrentBoard
<1>1. BoardInv => PostsOfCurrentBoard
  BY DEF BoardInv, BoardOf, OfCurrentBoard, PostsOfCurrentBoard
<1>. QED  BY <1>1, InitBoardInv, NextBoardInv, PTL DEF Spec

-----------------------------------------------------------------------------
(***************************************************************************)
(* Each page is listed once.  A user who waits has one load under way, so *)
(* the answer to a number of the load is still to come, or has come once: *)
(* with the posts of that number and no others, or with an error.         *)
(***************************************************************************)

\* Posts put behind a list that are not of this document change nothing for it.
LEMMA ConcatWithout ==
    ASSUME NEW S, NEW s \in Seq(S), NEW t \in Seq(S), NEW document, Without(t, document)
    PROVE  /\ Without(s \o t, document) <=> Without(s, document)
           /\ OnceAtMost(s, document) => OnceAtMost(s \o t, document)
<1>1. /\ Len(s) \in Nat /\ DOMAIN s = 1 .. Len(s)
      /\ Len(t) \in Nat /\ DOMAIN t = 1 .. Len(t)
      /\ DOMAIN (s \o t) = 1 .. Len(s) + Len(t)
      /\ \A i \in 1 .. Len(s) : (s \o t)[i] = s[i]
  BY ConcatPlaces
<1> DEFINE both == s \o t
<1>2. ASSUME NEW i \in DOMAIN both
      PROVE  \/ i \in DOMAIN s /\ both[i] = s[i]
             \/ i - Len(s) \in DOMAIN t /\ both[i] = t[i - Len(s)]
  BY ConcatEntries
<1>3. \A i \in DOMAIN s : i \in DOMAIN both /\ both[i] = s[i]
  BY <1>1
<1> HIDE DEF both
<1>4. \A i \in DOMAIN both :
         both[i].document = document => i \in DOMAIN s /\ both[i] = s[i]
  BY <1>2 DEF Without
<1>5. Without(both, document) <=> Without(s, document)
  BY <1>3, <1>4 DEF Without
<1>6. OnceAtMost(s, document) => OnceAtMost(both, document)
  BY <1>4 DEF OnceAtMost
<1>. QED  BY <1>5, <1>6 DEF both

\* Behind a list without the document they decide.
LEMMA ConcatAfterWithout ==
    ASSUME NEW S, NEW s \in Seq(S), NEW t \in Seq(S), NEW document, Without(s, document)
    PROVE  /\ Without(s \o t, document) <=> Without(t, document)
           /\ OnceAtMost(t, document) => OnceAtMost(s \o t, document)
<1>1. /\ Len(s) \in Nat /\ DOMAIN s = 1 .. Len(s)
      /\ Len(t) \in Nat /\ DOMAIN t = 1 .. Len(t)
      /\ DOMAIN (s \o t) = 1 .. Len(s) + Len(t)
      /\ \A i \in 1 .. Len(t) : (s \o t)[Len(s) + i] = t[i]
  BY ConcatPlaces
<1> DEFINE both == s \o t
<1>2. ASSUME NEW i \in DOMAIN both
      PROVE  \/ i \in DOMAIN s /\ both[i] = s[i]
             \/ i - Len(s) \in DOMAIN t /\ both[i] = t[i - Len(s)]
  BY ConcatEntries
<1>3. \A i \in DOMAIN t : Len(s) + i \in DOMAIN both /\ both[Len(s) + i] = t[i]
  BY <1>1
<1>4. DOMAIN both \subseteq Int
  BY <1>1
<1> HIDE DEF both
<1>5. \A i \in DOMAIN both :
         both[i].document = document =>
            i - Len(s) \in DOMAIN t /\ both[i] = t[i - Len(s)]
  BY <1>2 DEF Without
<1>6. Without(both, document) <=> Without(t, document)
  BY <1>3, <1>5 DEF Without
<1>7. ASSUME OnceAtMost(t, document), NEW i \in DOMAIN both, NEW j \in DOMAIN both,
             both[i].document = document, both[j].document = document
      PROVE  i = j
  <2>1. i - Len(s) = j - Len(s)
    BY <1>5, <1>7 DEF OnceAtMost
  <2>. QED  BY <1>1, <1>4, <2>1
<1>. QED  BY <1>6, <1>7 DEF both, OnceAtMost

\* A page is asked for once in a load.
LEMMA SamePage ==
    ASSUME scope \in Scopes, NEW one \in Request, NEW other \in Request,
           IsPage(one), IsPage(other), one.visit = other.visit, one.load = other.load,
           one.query.ID = other.query.ID, one.query.PostNumber = other.query.PostNumber
    PROVE  one = other
<1>1. ASSUME NEW request \in CountRequest PROVE ~ IsPage(request)
  <2>1. request.query \in [ID : Board]
    BY DEF CountRequest
  <2>2. DOMAIN request.query = {"ID"}
    BY <2>1
  <2>. QED  BY <2>2 DEF IsPage
<1>2. one \in PageRequest /\ other \in PageRequest
  BY <1>1 DEF Request
<1>3. one.query \in [ID : Board, PostNumber : Page]
      /\ other.query \in [ID : Board, PostNumber : Page]
  BY <1>2 DEF PageRequest
<1>4. one.query = other.query
  BY <1>3
<1>. QED  BY <1>2, <1>4 DEF PageRequest

-----------------------------------------------------------------------------
(***************************************************************************)
(* Loads without an offline moment, whose pages come from the server.     *)
(***************************************************************************)

\* Within a load no offline moment is forgotten.
Remembers(e) == load'[e] = load[e] /\ e \in wasOffline => e \in wasOffline'

\* Within a load the answers that come are complete, unless the device goes offline.
LEMMA OnlineKept ==
    ASSUME NEW e \in Device, OnlineOf(e), Records, load'[e] = load[e],
           \A new \in ToSet(callbacks'[e]) :
              new \in ToSet(callbacks[e]) \/ offline'[e] \/ Complete(new, Seeded)
    PROVE  OnlineOf(e)'
<1>1. e \in wasOffline' <=> offline'[e] \/ e \in wasOffline
  BY DEF Records
<1>2. \A answer : Complete(answer, Seeded)' <=> Complete(answer, Seeded)
  BY DEF Complete, Matches
<1>. QED  BY <1>1, <1>2 DEF OnlineOf

\* A new load drops what is known of the old one: all answers are of old ones, or the device
\* is offline.
LEMMA OnlineLoads ==
    ASSUME BoardInv, NEW d \in Device, Loads(d), Records, NEW e \in Device, OnlineOf(e)
    PROVE  OnlineOf(e)'
<1>1. /\ load' = [load EXCEPT ![d] = @ + 1] /\ load'[d] = load[d] + 1 /\ load[d] \in Nat
      /\ GetDocuments(d, Sent(d)) /\ TypeInv /\ SentBefore(d)
      /\ load \in [Device -> 0 .. MaxLoads]
  BY LoadSends DEF BoardInv, BoardOf, TypeInv, TypeOK
<1>2. UNCHANGED offline /\ (e # d \/ ~ offline[e] => callbacks'[e] = callbacks[e])
  BY <1>1 DEF GetDocuments, TypeInv, TypeOK, FirestoreTypeOK
<1>3. CASE e # d
  <2>1. load'[e] = load[e]
    BY <1>1, <1>3
  <2>. QED  BY <1>2, <1>3, <2>1, OnlineKept
<1>4. CASE e = d
  <2>1. ASSUME NEW answer \in ToSet(callbacks[d]) PROVE answer.request.load # load[d] + 1
    <3>1. answer.request \in Outstanding(d)
      BY DEF Outstanding
    <3>2. answer.request \in Request /\ answer.request.load <= load[d]
      BY <1>1, <3>1, OutstandingType DEF TypeInv, SentBefore
    <3>3. answer.request.load \in Nat
      BY <1>1, <3>2, RequestType, ScopeType DEF TypeInv
    <3>. QED  BY <1>1, <3>2, <3>3
  <2>2. offline'[d] => d \in wasOffline'
    BY DEF Records
  <2>. QED  BY <1>1, <1>2, <1>4, <2>1, <2>2 DEF OnlineOf
<1>. QED  BY <1>3, <1>4

\* What the library answers is from the server as long as it does not go offline.
LEMMA OnlineAnswers ==
    ASSUME TypeInv, NEW d \in Device, FirestoreStep(d),
           NEW e \in Device, NEW new \in ToSet(callbacks'[e])
    PROVE  new \in ToSet(callbacks[e]) \/ offline'[e] \/ Complete(new, Seeded)
<1>1. PICK R, D : FirestoreTypeOK(R, D)
  BY DEF TypeInv, TypeOK
<1> DEFINE A == AnswerOf(R, D)
<1>2. /\ callbacks \in [Device -> Seq(A)] /\ callbacks[d] \in Seq(A)
      /\ listens[d] \subseteq R /\ Pending(d) \subseteq D /\ server \subseteq D
      /\ offline \in [Device -> BOOLEAN]
  BY <1>1 DEF FirestoreTypeOK, Pending, ToSet
<1>3. Seeded \subseteq server
  BY DEF TypeInv, LibraryInv
<1> HIDE DEF A
<1>4. ASSUME NEW answer \in A, callbacks' = [callbacks EXCEPT ![d] = Append(@, answer)],
             Complete(answer, Seeded)
      PROVE  new \in ToSet(callbacks[e]) \/ Complete(new, Seeded)
  <2>1. ToSet(Append(callbacks[d], answer)) = ToSet(callbacks[d]) \cup {answer}
    BY <1>2, AppendElements
  <2>. QED  BY <1>2, <1>4, <2>1
<1>5. CASE RaiseSynced(d)
  <2>1. PICK request \in listens[d] :
           callbacks' = [callbacks EXCEPT ![d] =
                            Append(@, Answer(request, server \cup Pending(d)))]
    BY <1>5 DEF RaiseSynced
  <2>2. Answer(request, server \cup Pending(d)) \in A
    BY <1>2, <2>1 DEF Answer, AnswerOf, A
  <2>3. Complete(Answer(request, server \cup Pending(d)), Seeded)
    BY <1>3 DEF Answer, Complete
  <2>. QED  BY <1>4, <2>1, <2>2, <2>3
<1>6. CASE ListenFails(d)
  <2>1. PICK request \in listens[d] :
           callbacks' = [callbacks EXCEPT ![d] = Append(@, ErrorAnswer(request))]
    BY <1>6 DEF ListenFails
  <2>2. ErrorAnswer(request) \in A /\ Complete(ErrorAnswer(request), Seeded)
    BY <1>2, <2>1 DEF ErrorAnswer, Complete, AnswerOf, A
  <2>. QED  BY <1>4, <2>1, <2>2
<1>7. CASE GoOffline(d)
  <2>1. offline'[d]
    BY <1>2, <1>7 DEF GoOffline
  <2>2. e # d => callbacks'[e] = callbacks[e]
    BY <1>2, <1>7 DEF GoOffline
  <2>. QED  BY <2>1, <2>2
<1>. QED
  BY <1>5, <1>6, <1>7 DEF FirestoreStep, LeaveOffline, CommitWrite, AcknowledgeBatch, RejectBatch

\* Every step keeps it.
LEMMA NextOnlineInv == BoardInv /\ OnlineInv /\ [Next]_vars => OnlineInv'
<1> SUFFICES ASSUME BoardInv, OnlineInv, [Next]_vars, NEW e \in Device PROVE OnlineOf(e)'
  BY DEF OnlineInv
<1>1. OnlineOf(e) /\ TypeInv
  BY DEF OnlineInv, BoardInv
<1>2. CASE UNCHANGED vars
  BY <1>1, <1>2 DEF OnlineOf, Complete, vars, firestoreVars, boardVars
<1>3. CASE Next
  <2>1. Records /\ UNCHANGED scope /\ wasOffline' \subseteq Device
    BY <1>3 DEF Next, Records
  <2>2. PICK d \in Device :
          \/ ClosePost(d) \/ \E board \in Board : OpenBoard(d, board)
          \/ CloseBoard(d) \/ OpenPost(d) \/ PopToMap(d) \/ ShowNewPost(d) \/ CancelPost(d)
          \/ CreatePost(d)
          \/ Callback(d)
          \/ Restart(d)
          \/ FirestoreStep(d) /\ UNCHANGED boardVars
    BY <1>3 DEF Next
  <2>3. PICK R, D : FirestoreTypeOK(R, D)
    BY <1>1 DEF TypeInv, TypeOK
  <2>4. CASE ClosePost(d) \/ \E board \in Board : OpenBoard(d, board)
    BY <1>1, <2>1, <2>4, LoadTypeInv, OnlineLoads
  <2>5. CASE \/ CloseBoard(d) \/ OpenPost(d) \/ PopToMap(d) \/ ShowNewPost(d) \/ CancelPost(d)
             \/ CreatePost(d)
    <3>1. UNCHANGED <<callbacks, load>>
      BY <2>5 DEF CloseBoard, OpenPost, PopToMap, ShowNewPost, CancelPost, CreatePost,
                  firestoreVars
    <3>. QED  BY <1>1, <2>1, <3>1, OnlineKept
  <2>6. CASE Callback(d)
    <3>1. CallbackRuns(d) /\ UNCHANGED load
      BY <2>6 DEF Callback, PageLoaded, PageDiscarded, PageFailed, PostsCounted, boardVars
    <3>2. ToSet(callbacks'[e]) \subseteq ToSet(callbacks[e])
      BY <2>3, <3>1, CallbackNoNewAnswers
    <3>. QED  BY <1>1, <2>1, <3>1, <3>2, OnlineKept
  <2>7. CASE Restart(d)
    <3>1. UNCHANGED load /\ callbacks' = [callbacks EXCEPT ![d] = <<>>]
      BY <2>7 DEF Restart, LibraryRestart
    <3>2. ToSet(callbacks'[e]) \subseteq ToSet(callbacks[e])
      BY <2>3, <3>1 DEF FirestoreTypeOK, ToSet
    <3>. QED  BY <1>1, <2>1, <3>1, <3>2, OnlineKept
  <2>8. CASE FirestoreStep(d) /\ UNCHANGED boardVars
    <3>1. UNCHANGED load
      BY <2>8 DEF boardVars
    <3>2. \A new \in ToSet(callbacks'[e]) :
             new \in ToSet(callbacks[e]) \/ offline'[e] \/ Complete(new, Seeded)
      BY <1>1, <2>8, OnlineAnswers
    <3>. QED  BY <1>1, <2>1, <3>1, <3>2, OnlineKept
  <2>. QED  BY <2>2, <2>4, <2>5, <2>6, <2>7, <2>8
<1>. QED  BY <1>2, <1>3

\* Initially every device is online and has no answers.
LEMMA InitOnlineInv == Init => OnlineInv
<1> SUFFICES ASSUME Init, NEW d \in Device PROVE OnlineOf(d)
  BY DEF OnlineInv
<1>1. ~ offline[d] /\ callbacks[d] = <<>>
  BY DEF Init, FirestoreInit
<1>. QED  BY <1>1 DEF OnlineOf, ToSet

-----------------------------------------------------------------------------
(***************************************************************************)
(* The pages.                                                             *)
(***************************************************************************)

\* A page of which the step changed nothing that matters stays listed as it was.
LEMMA PageKept ==
    ASSUME NEW e \in Device, NEW document, PageListed(e, document),
           OnItsWay(e, document.data.PostNumber)' <=> OnItsWay(e, document.data.PostNumber),
           document.data.PostNumber \in failed'[e] <=> document.data.PostNumber \in failed[e],
           Without(posts[e], document)' <=> Without(posts[e], document),
           OnceAtMost(posts[e], document) => OnceAtMost(posts[e], document)',
           e \in wasOffline => e \in wasOffline'
    PROVE  PageListed(e, document)'
BY DEF PageListed, ListedOnce

\* A device of which the step changed nothing.
LEMMA PagesUntouched ==
    ASSUME NEW e \in Device, PagesOf(e), UNCHANGED scope, Outstanding(e)' = Outstanding(e),
           visit'[e] = visit[e], load'[e] = load[e], screen'[e] = screen[e],
           currentBulletinBoard'[e] = currentBulletinBoard[e],
           posts'[e] = posts[e], failed'[e] = failed[e], Remembers(e)
    PROVE  PagesOf(e)'
<1>1. Awaited(e)' = Awaited(e) /\ Page' = Page
  BY SameScope DEF Awaited
<1>2. \A number : OnItsWay(e, number)' <=> OnItsWay(e, number)
  BY <1>1 DEF OnItsWay
<1>3. OneLoad(e)'
  BY <1>1 DEF PagesOf, OneLoad
<1>4. PagesListed(e)'
  BY <1>1, <1>2, PageKept DEF PagesOf, PagesListed, Without, OnceAtMost, Remembers
<1>. QED  BY <1>3, <1>4 DEF PagesOf

\* A device whose board is not on display, with nothing to wait for if its post is.
LEMMA PagesHidden ==
    ASSUME NEW e \in Device, screen'[e] # "board", screen'[e] = "post" => Awaited(e)' = {},
           \A request \in Awaited(e)' : request.load = load'[e]
    PROVE  PagesOf(e)'
BY DEF PagesOf, OneLoad, PagesListed

\* A load waits for every page, and for nothing else of this visit.
LEMMA LoadPages ==
    ASSUME BoardInv, NEW d \in Device, UNCHANGED scope, wasOffline' \subseteq Device,
           ClosePost(d) \/ \E board \in Board : OpenBoard(d, board),
           NEW e \in Device, PagesOf(e), Remembers(e)
    PROVE  PagesOf(e)'
<1>1. TypeInv /\ Loads(d) /\ SentBefore(d)
  BY LoadTypeInv DEF BoardInv, BoardOf
<1>2. Outstanding(e)' = Outstanding(e) \cup (IF e = d THEN ToSet(Sent(d)) ELSE {})
  BY <1>1, LoadOwes
<1>3. /\ visit \in [Device -> 0 .. MaxVisits] /\ MaxVisits \in Nat
      /\ screen \in [Device -> {"map", "board", "post"}]
      /\ currentBulletinBoard \in [Device -> Board \cup {DefaultBoard}]
      /\ load \in [Device -> 0 .. MaxLoads] /\ posts \in [Device -> Seq(Post)]
      /\ failed \in [Device -> SUBSET Page]
  BY <1>1, ScopeType DEF TypeInv, TypeOK
<1>4. /\ load' = [load EXCEPT ![d] = @ + 1]
      /\ posts' = [posts EXCEPT ![d] = <<>>] /\ failed' = [failed EXCEPT ![d] = {}]
  BY <1>1, LoadSends
<1>5. screen' = [screen EXCEPT ![d] = "board"]
  BY DEF ClosePost, OpenBoard
<1>6. CASE e # d
  <2>1. visit'[e] = visit[e] /\ currentBulletinBoard'[e] = currentBulletinBoard[e]
    BY <1>3, <1>6 DEF ClosePost, OpenBoard
  <2>2. /\ load'[e] = load[e] /\ screen'[e] = screen[e]
        /\ posts'[e] = posts[e] /\ failed'[e] = failed[e]
    BY <1>3, <1>4, <1>5, <1>6
  <2>3. Outstanding(e)' = Outstanding(e)
    BY <1>2, <1>6
  <2>. QED  BY <2>1, <2>2, <2>3, PagesUntouched
<1>7. CASE e = d
  <2>1. \A request \in Outstanding(d) : request.visit # visit'[d]
    <3>1. CASE ClosePost(d)
      BY <1>7, <3>1 DEF ClosePost, PagesOf, OneLoad, Awaited
    <3>2. CASE \E board \in Board : OpenBoard(d, board)
      <4>1. visit'[d] = visit[d] + 1
        BY <1>3, <3>2 DEF OpenBoard
      <4>2. ASSUME NEW request \in Outstanding(d) PROVE request.visit # visit'[d]
        <5>1. request \in Request
          BY <1>1, OutstandingType DEF TypeInv
        <5>2. request.visit \in Nat /\ visit[d] \in Nat
          BY <1>1, <1>3, <5>1, RequestType, ScopeType DEF TypeInv
        <5>. QED  BY <1>1, <4>1, <5>2 DEF SentBefore
      <4>. QED  BY <4>2
    <3>. QED  BY <3>1, <3>2
  <2>2. /\ \A request \in ToSet(Sent(d)) :
              request.visit = visit'[d] /\ request.load = load'[d]
        /\ \A number \in Page : \E request \in ToSet(Sent(d)) :
              IsPage(request) /\ request.query.PostNumber = number
    BY <1>1, SentIs
  <2>3. Awaited(d)' = ToSet(Sent(d))
    BY <1>2, <1>7, <2>1, <2>2 DEF Awaited
  <2>4. screen'[d] = "board" /\ posts'[d] = <<>> /\ failed'[d] = {}
    BY <1>3, <1>4, <1>5
  <2>5. OneLoad(d)'
    BY <2>2, <2>3, <2>4 DEF OneLoad
  <2>6. \A number \in Page : OnItsWay(d, number)'
    BY <2>2, <2>3 DEF OnItsWay
  <2>7. \A document : Without(posts[d], document)'
    BY <2>4 DEF Without
  <2>8. PagesListed(d)'
    BY <2>4, <2>6, <2>7, SameScope DEF PagesListed, PageListed
  <2>. QED  BY <1>7, <2>5, <2>8 DEF PagesOf
<1>. QED  BY <1>6, <1>7

\* Taps: a board is left when its answers are in.
LEMMA TapPages ==
    ASSUME BoardInv, Patient, UNCHANGED scope, NEW d \in Device,
           \/ CloseBoard(d) \/ OpenPost(d) \/ PopToMap(d) \/ ShowNewPost(d) \/ CancelPost(d)
           \/ FirestoreStep(d) /\ UNCHANGED boardVars
           \/ UNCHANGED vars,
           NEW e \in Device, PagesOf(e), Remembers(e)
    PROVE  PagesOf(e)'
<1>1. Outstanding(e)' = Outstanding(e)
  BY QuietBoard
<1>2. /\ screen \in [Device -> {"map", "board", "post"}] /\ posts \in [Device -> Seq(Post)]
  BY DEF BoardInv, TypeInv, TypeOK
<1>3. UNCHANGED <<currentBulletinBoard, visit, load, failed>>
  BY DEF CloseBoard, OpenPost, PopToMap, ShowNewPost, CancelPost, vars, boardVars
<1>4. Awaited(e)' = Awaited(e)
  BY <1>1, <1>3 DEF Awaited
<1>5. CASE screen'[e] = screen[e] /\ posts'[e] = posts[e]
  BY <1>1, <1>3, <1>5, PagesUntouched
<1>6. CASE e = d /\ (CloseBoard(d) \/ PopToMap(d) \/ OpenPost(d))
  <2>1. \A request \in Awaited(e)' : request.load = load'[e]
    BY <1>3, <1>4 DEF PagesOf, OneLoad
  <2>2. screen'[e] # "board"
    BY <1>2, <1>6 DEF CloseBoard, OpenPost, PopToMap
  <2>3. screen'[e] = "post" => Awaited(e) = {}
    BY <1>2, <1>6 DEF CloseBoard, OpenPost, PopToMap, Usable
  <2>. QED  BY <1>4, <2>1, <2>2, <2>3, PagesHidden
<1>. QED
  BY <1>2, <1>5, <1>6
     DEF CloseBoard, OpenPost, PopToMap, ShowNewPost, CancelPost, Disappear, vars, boardVars

\* The new post is not one of the console.
LEMMA CreatePages ==
    ASSUME BoardInv, UNCHANGED scope, NEW d \in Device, CreatePost(d),
           NEW e \in Device, PagesOf(e), Remembers(e)
    PROVE  PagesOf(e)'
<1> DEFINE post == [document |-> NewPost(d), id |-> Len(posts[d])]
<1>1. /\ posts' = [posts EXCEPT ![d] = Append(@, post)]
      /\ UNCHANGED <<screen, currentBulletinBoard, visit, load, failed>>
  BY DEF CreatePost, NewPost
<1>2. posts \in [Device -> Seq(Post)]
  BY DEF BoardInv, TypeInv, TypeOK
<1>3. Outstanding(e)' = Outstanding(e)
  BY CreateBoard
<1>4. CASE e # d
  BY <1>1, <1>2, <1>3, <1>4, PagesUntouched
<1>5. CASE e = d
  <2>1. post.document \notin Seeded
    <3>1. DOMAIN NewPost(d).data = {"ID"}
      BY DEF NewPost
    <3>2. \A document \in NumberedPost : DOMAIN document.data = {"ID", "PostNumber"}
      BY DEF NumberedPost
    <3>3. "PostNumber" \in {"ID", "PostNumber"} /\ "PostNumber" \notin {"ID"}
      OBVIOUS
    <3>. QED  BY <3>1, <3>2, <3>3, BoardAssumption
  <2> HIDE DEF post
  <2>2. posts'[d] = Append(posts[d], post) /\ posts[d] \in Seq(Post)
    BY <1>1, <1>2
  <2>3. /\ \A i \in DOMAIN posts[d] : i \in DOMAIN posts'[d] /\ posts'[d][i] = posts[d][i]
        /\ \A i \in DOMAIN posts'[d] :
              posts'[d][i] = post \/ (i \in DOMAIN posts[d] /\ posts'[d][i] = posts[d][i])
    BY <2>2
  <2>4. ASSUME NEW document \in Seeded
        PROVE  /\ Without(posts[d], document)' <=> Without(posts[d], document)
               /\ OnceAtMost(posts[d], document) => OnceAtMost(posts[d], document)'
    BY <2>1, <2>3 DEF Without, OnceAtMost
  <2>5. Awaited(d)' = Awaited(d)
    BY <1>1, <1>3, <1>5 DEF Awaited
  <2>6. \A number : OnItsWay(d, number)' <=> OnItsWay(d, number)
    BY <1>1, <2>5 DEF OnItsWay
  <2>7. \A document \in Seeded : PageListed(d, document) => PageListed(d, document)'
    BY <1>1, <1>5, <2>4, <2>6, PageKept DEF Remembers
  <2>8. PagesListed(d)'
    BY <1>1, <1>5, <2>7, SameScope DEF PagesOf, PagesListed
  <2>9. OneLoad(d)'
    BY <1>1, <1>5, <2>5 DEF PagesOf, OneLoad
  <2>. QED  BY <1>5, <2>8, <2>9 DEF PagesOf
<1>. QED  BY <1>4, <1>5

\* A restart goes to the map and waits for nothing.
LEMMA RestartPages ==
    ASSUME BoardInv, UNCHANGED scope, NEW d \in Device, Restart(d),
           NEW e \in Device, PagesOf(e), Remembers(e)
    PROVE  PagesOf(e)'
<1>1. TypeOK
  BY DEF BoardInv, TypeInv
<1>2. CASE e # d
  <2>1. Outstanding(e)' = Outstanding(e)
    BY <1>2, RestartBoard
  <2>. QED  BY <1>1, <1>2, <2>1, PagesUntouched DEF TypeOK, Restart
<1>3. CASE e = d
  <2>1. Outstanding(e)' = {}
    BY <1>3, RestartBoard
  <2>2. screen'[e] = "map" /\ Awaited(e)' = {}
    BY <1>1, <1>3, <2>1 DEF TypeOK, Restart, Awaited
  <2>. QED  BY <2>2, PagesHidden
<1>. QED  BY <1>2, <1>3

\* The answer to a page brings each document of its number once, and no other number.
LEMMA PageAnswers ==
    ASSUME BoardInv, NEW d \in Device, PageLoaded(d),
           NEW order \in SetToSeqs(Head(callbacks[d]).documents),
           NEW document \in Seeded, document.data.ID = currentBulletinBoard[d],
           OnlineOf(d), Head(callbacks[d]).request.load = load[d]
    PROVE  LET answer == Head(callbacks[d])
               list == PagePosts(answer, order)
           IN  /\ list \in Seq(Post)
               /\ OnceAtMost(list, document)
               /\ ~ Without(list, document)
                     => document.data.PostNumber = answer.request.query.PostNumber
               /\ document.data.PostNumber = answer.request.query.PostNumber
                  /\ (document \in Cached \/ d \notin wasOffline)
                     => ~ Without(list, document)
<1> DEFINE answer == Head(callbacks[d])
           list == PagePosts(answer, order)
           number == answer.request.query.PostNumber
<1>1. /\ TypeInv /\ CallbackRuns(d) /\ UNCHANGED listens /\ ~ answer.err
      /\ IsPage(answer.request) /\ answer.request.visit = visit[d] /\ SentBefore(d)
  BY DEF BoardInv, BoardOf, PageLoaded
<1>2. /\ order \in Seq(answer.documents) /\ list \in Seq(Post) /\ DOMAIN list = DOMAIN order
      /\ \A i \in DOMAIN order : list[i].document = order[i]
  BY <1>1, PagePostsType
<1>3. /\ answer.request \in Outstanding(d) /\ answer.request \in Request /\ AnswerInv(answer)
  BY <1>1, HeadAnswer
<1>4. /\ answer.request.query.ID = currentBulletinBoard[d]
      /\ DOMAIN answer.request.query = {"ID", "PostNumber"}
  BY <1>1, <1>3, RequestType DEF SentBefore, TypeInv
<1>5. ToSet(order) = answer.documents /\ AllDifferent(order)
  BY <1>3, OrderComplete DEF AnswerInv
<1>6. DOMAIN document.data = {"ID", "PostNumber"}
  BY BoardAssumption DEF NumberedPost
<1>7. Matches(answer.request.query, document) <=> document.data.PostNumber = number
  BY <1>4, <1>6 DEF Matches
<1> HIDE DEF list
<1>8. OnceAtMost(list, document)
  BY <1>2, <1>5 DEF OnceAtMost, AllDifferent
<1>9. Without(list, document) <=> document \notin answer.documents
  BY <1>2, <1>5 DEF Without, ToSet
<1>10. document \in answer.documents => document.data.PostNumber = number
  BY <1>3, <1>7 DEF AnswerInv
<1>11. document.data.PostNumber = number /\ (document \in Cached \/ d \notin wasOffline)
          => document \in answer.documents
  <2>1. d \notin wasOffline => Complete(answer, Seeded)
    BY <1>1, HeadAnswer DEF OnlineOf
  <2>. QED  BY <1>1, <1>3, <1>7, <2>1 DEF AnswerInv, Complete
<1>. QED  BY <1>2, <1>8, <1>9, <1>10, <1>11 DEF list

\* The number of the answer is on its way no more, every other is as before.
LEMMA AnswerArrives ==
    ASSUME BoardInv, NEW d \in Device, Callback(d), OneLoad(d)
    PROVE  LET request == Head(callbacks[d]).request
           IN  /\ OneLoad(d)'
               /\ \A number :
                     ~ (/\ IsPage(request) /\ request \in Awaited(d)
                        /\ request.query.PostNumber = number)
                        => (OnItsWay(d, number)' <=> OnItsWay(d, number))
               /\ IsPage(request) /\ request \in Awaited(d)
                     => \A number : request.query.PostNumber = number
                           => OnItsWay(d, number) /\ ~ OnItsWay(d, number)'
<1> DEFINE request == Head(callbacks[d]).request
<1>1. /\ CallbackRuns(d) /\ UNCHANGED <<listens, visit, load, currentBulletinBoard, screen>>
      /\ TypeInv /\ SentBefore(d)
  BY DEF Callback, PageLoaded, PageDiscarded, PageFailed, PostsCounted, boardVars,
         BoardInv, BoardOf
<1>2. Outstanding(d)' = Outstanding(d) \ {request}
  BY CallbackBoard
<1>3. Awaited(d)' = Awaited(d) \ {request}
  BY <1>1, <1>2 DEF Awaited
<1>4. OneLoad(d)'
  BY <1>1, <1>3 DEF OneLoad
<1>5. ASSUME NEW number,
             ~ (IsPage(request) /\ request \in Awaited(d) /\ request.query.PostNumber = number)
      PROVE  OnItsWay(d, number)' <=> OnItsWay(d, number)
  BY <1>1, <1>3, <1>5 DEF OnItsWay
<1>6. ASSUME IsPage(request), request \in Awaited(d),
             NEW number, request.query.PostNumber = number
      PROVE  OnItsWay(d, number) /\ ~ OnItsWay(d, number)'
  <2>1. OnItsWay(d, number)
    BY <1>6 DEF OnItsWay, OneLoad
  <2>2. ASSUME NEW other \in Awaited(d)', IsPage(other), other.query.PostNumber = number
        PROVE  FALSE
    <3>1. /\ other \in Awaited(d) /\ other # request
          /\ other \in Outstanding(d) /\ request \in Outstanding(d)
          /\ other.visit = visit[d] /\ request.visit = visit[d]
      BY <1>3, <1>6, <2>2 DEF Awaited
    <3>2. other \in Request /\ request \in Request
      BY <1>1, <3>1, OutstandingType DEF TypeInv
    <3>3. other.load = request.load
      BY <1>6, <3>1 DEF OneLoad
    <3>4. other.query.ID = request.query.ID
      BY <1>1, <3>1 DEF SentBefore
    <3>5. other = request
      BY <1>1, <1>6, <2>2, <3>1, <3>2, <3>3, <3>4, SamePage DEF TypeInv
    <3>. QED  BY <3>1, <3>5
  <2>3. ~ OnItsWay(d, number)'
    BY <2>2 DEF OnItsWay
  <2>. QED  BY <2>1, <2>3
<1>. QED  BY <1>4, <1>5, <1>6

\* A page that has come, and the pages that have not.
LEMMA LoadedPages ==
    ASSUME BoardInv, NEW d \in Device, PageLoaded(d), UNCHANGED scope, PagesOf(d),
           OnlineOf(d), Remembers(d)
    PROVE  PagesOf(d)'
<1> DEFINE request == Head(callbacks[d]).request
<1>1. /\ Callback(d) /\ CallbackRuns(d) /\ IsPage(request) /\ request.visit = visit[d]
      /\ UNCHANGED <<listens, visit, load, currentBulletinBoard, screen, failed>>
      /\ \E order \in SetToSeqs(Head(callbacks[d]).documents) :
            posts' = [posts EXCEPT ![d] = @ \o PagePosts(Head(callbacks[d]), order)]
  BY DEF Callback, PageLoaded
<1>2. PICK order \in SetToSeqs(Head(callbacks[d]).documents) :
         posts' = [posts EXCEPT ![d] = @ \o PagePosts(Head(callbacks[d]), order)]
  BY <1>1
<1> DEFINE list == PagePosts(Head(callbacks[d]), order)
<1>3. posts'[d] = posts[d] \o list /\ posts[d] \in Seq(Post)
  BY <1>2 DEF BoardInv, TypeInv, TypeOK
<1>4. request \in Awaited(d)
  BY <1>1, HeadAnswer DEF BoardInv, Awaited
<1>5. /\ OneLoad(d)'
      /\ \A number : request.query.PostNumber # number
            => (OnItsWay(d, number)' <=> OnItsWay(d, number))
      /\ \A number : request.query.PostNumber = number
            => OnItsWay(d, number) /\ ~ OnItsWay(d, number)'
  BY <1>1, <1>4, AnswerArrives DEF PagesOf
<1>6. ASSUME NEW document \in Seeded, document.data.ID = currentBulletinBoard[d],
             PageListed(d, document)
      PROVE  PageListed(d, document)'
  <2> DEFINE number == document.data.PostNumber
  <2>1. /\ list \in Seq(Post)
        /\ OnceAtMost(list, document)
        /\ ~ Without(list, document) => number = request.query.PostNumber
        /\ number = request.query.PostNumber /\ (document \in Cached \/ d \notin wasOffline)
              => ~ Without(list, document)
    BY <1>4, <1>6, PageAnswers DEF PagesOf, OneLoad
  <2> HIDE DEF list
  <2>2. CASE number # request.query.PostNumber
    <3>1. /\ Without(posts[d] \o list, document) <=> Without(posts[d], document)
          /\ OnceAtMost(posts[d], document) => OnceAtMost(posts[d] \o list, document)
      BY <1>3, <2>1, <2>2, ConcatWithout
    <3>2. /\ Without(posts[d], document)' <=> Without(posts[d], document)
          /\ OnceAtMost(posts[d], document) => OnceAtMost(posts[d], document)'
      BY <1>3, <3>1 DEF Without, OnceAtMost
    <3>. QED  BY <1>1, <1>5, <1>6, <2>2, <3>2, PageKept DEF Remembers
  <2>3. CASE number = request.query.PostNumber
    <3>1. Without(posts[d], document) /\ number \notin failed[d]
      BY <1>5, <1>6, <2>3 DEF PageListed
    <3>2. /\ Without(posts[d] \o list, document) <=> Without(list, document)
          /\ OnceAtMost(posts[d] \o list, document)
      BY <1>3, <2>1, <3>1, ConcatAfterWithout
    <3>3. ListedOnce(d, document)'
      BY <1>1, <1>3, <2>1, <2>3, <3>2 DEF ListedOnce, Without, OnceAtMost, Remembers
    <3>4. ~ OnItsWay(d, number)' /\ number \notin failed'[d]
      BY <1>1, <1>5, <2>3, <3>1
    <3>. QED  BY <3>3, <3>4 DEF PageListed
  <2>. QED  BY <2>2, <2>3
<1>7. PagesListed(d)'
  BY <1>1, <1>6, SameScope DEF PagesOf, PagesListed
<1>. QED  BY <1>5, <1>7 DEF PagesOf

\* A page that failed.
LEMMA FailedPages ==
    ASSUME BoardInv, NEW d \in Device, PageFailed(d), UNCHANGED scope, PagesOf(d), Remembers(d)
    PROVE  PagesOf(d)'
<1> DEFINE request == Head(callbacks[d]).request
<1>1. /\ Callback(d) /\ CallbackRuns(d) /\ IsPage(request)
      /\ UNCHANGED <<listens, visit, load, currentBulletinBoard, screen, posts>>
      /\ failed' = [failed EXCEPT ![d] =
            IF request.load = load[d] THEN @ \cup {request.query.PostNumber} ELSE @]
  BY DEF Callback, PageFailed
<1>2. failed'[d] = IF request.load = load[d]
                     THEN failed[d] \cup {request.query.PostNumber} ELSE failed[d]
  BY <1>1 DEF BoardInv, TypeInv, TypeOK
<1>3. request.load = load[d] <=> request \in Awaited(d)
  <2>1. request \in Outstanding(d)
    BY <1>1, HeadAnswer DEF BoardInv
  <2>2. request.load = load[d] => request.visit = visit[d]
    BY <2>1 DEF BoardInv, BoardOf, SentBefore
  <2>. QED  BY <2>1, <2>2 DEF PagesOf, OneLoad, Awaited
<1>4. /\ OneLoad(d)'
      /\ \A number : ~ (request \in Awaited(d) /\ request.query.PostNumber = number)
            => (OnItsWay(d, number)' <=> OnItsWay(d, number))
      /\ request \in Awaited(d)
            => \A number : request.query.PostNumber = number
                  => OnItsWay(d, number) /\ ~ OnItsWay(d, number)'
  BY <1>1, AnswerArrives DEF PagesOf
<1> HIDE DEF request
<1>5. ASSUME NEW document \in Seeded, PageListed(d, document)
      PROVE  PageListed(d, document)'
  <2> DEFINE number == document.data.PostNumber
  <2>1. CASE request \in Awaited(d) /\ request.query.PostNumber = number
    <3>1. Without(posts[d], document)
      BY <1>4, <1>5, <2>1 DEF PageListed
    <3>2. Without(posts[d], document)'
      BY <1>1, <3>1 DEF Without
    <3>3. ~ OnItsWay(d, number)' /\ number \in failed'[d]
      BY <1>2, <1>3, <1>4, <2>1
    <3>. QED  BY <3>2, <3>3 DEF PageListed
  <2>2. CASE ~ (request \in Awaited(d) /\ request.query.PostNumber = number)
    <3>1. OnItsWay(d, number)' <=> OnItsWay(d, number)
      BY <1>4, <2>2
    <3>2. number \in failed'[d] <=> number \in failed[d]
      BY <1>2, <1>3, <2>2
    <3>3. /\ Without(posts[d], document)' <=> Without(posts[d], document)
          /\ OnceAtMost(posts[d], document) => OnceAtMost(posts[d], document)'
      BY <1>1 DEF Without, OnceAtMost
    <3>. QED  BY <1>1, <1>5, <3>1, <3>2, <3>3, PageKept DEF Remembers
  <2>. QED  BY <2>1, <2>2
<1>6. PagesListed(d)'
  BY <1>1, <1>5, SameScope DEF PagesOf, PagesListed
<1>. QED  BY <1>4, <1>6 DEF PagesOf

\* Answers that bring the board nothing.
LEMMA OtherPages ==
    ASSUME BoardInv, NEW d \in Device, PageDiscarded(d) \/ PostsCounted(d),
           UNCHANGED scope, PagesOf(d), Remembers(d)
    PROVE  PagesOf(d)'
<1> DEFINE request == Head(callbacks[d]).request
<1>1. Callback(d) /\ UNCHANGED boardVars
  BY DEF Callback, PageDiscarded, PostsCounted
<1>2. ~ (IsPage(request) /\ request \in Awaited(d))
  BY DEF PageDiscarded, PostsCounted, Awaited
<1>3. /\ OneLoad(d)'
      /\ \A number : OnItsWay(d, number)' <=> OnItsWay(d, number)
  BY <1>1, <1>2, AnswerArrives DEF PagesOf
<1>4. \A document : PageListed(d, document) => PageListed(d, document)'
  BY <1>1, <1>3, PageKept DEF boardVars, Without, OnceAtMost, Remembers
<1>5. PagesListed(d)'
  BY <1>1, <1>4, SameScope DEF boardVars, PagesOf, PagesListed
<1>. QED  BY <1>3, <1>5 DEF PagesOf

\* Every step of patient users keeps the pages in order.
LEMMA NextPagesInv == BoardInv /\ OnlineInv /\ PagesInv /\ [Next]_vars => PagesInv'
<1> SUFFICES ASSUME BoardInv, OnlineInv, PagesInv, [Next]_vars, Patient', NEW e \in Device
             PROVE  PagesOf(e)'
  BY DEF PagesInv
<1>1. UNCHANGED scope /\ wasOffline' \subseteq Device /\ Remembers(e) /\ OnlineOf(e)
  BY DEF Next, Records, vars, Remembers, OnlineInv, BoardInv, TypeInv, TypeOK
<1>2. Patient /\ PagesOf(e)
  BY <1>1, SameScope DEF PagesInv
<1>3. ASSUME NEW d \in Device, Callback(d) PROVE PagesOf(e)'
  <2>1. CASE e = d
    BY <1>1, <1>2, <1>3, <2>1, LoadedPages, FailedPages, OtherPages DEF Callback
  <2>2. CASE e # d
    <3>1. Outstanding(e)' = Outstanding(e)
      BY <1>3, <2>2, CallbackBoard
    <3>2. /\ UNCHANGED <<visit, load, screen, currentBulletinBoard>>
          /\ posts'[e] = posts[e] /\ failed'[e] = failed[e]
      BY <1>3, <2>2
         DEF Callback, PageLoaded, PageDiscarded, PageFailed, PostsCounted, boardVars,
             BoardInv, TypeInv, TypeOK
    <3>. QED  BY <1>1, <1>2, <3>1, <3>2, PagesUntouched
  <2>. QED  BY <2>1, <2>2
<1>4. CASE UNCHANGED vars
  BY <1>1, <1>2, <1>4, TapPages
<1>. QED
  BY <1>1, <1>2, <1>3, <1>4, LoadPages, TapPages, CreatePages, RestartPages DEF Next

\* Initially no board is on display.
LEMMA InitPagesInv == Init => PagesInv
<1> SUFFICES ASSUME Init, NEW d \in Device PROVE PagesOf(d)
  BY DEF PagesInv
<1>1. screen[d] = "map" /\ listens[d] = {} /\ callbacks[d] = <<>>
  BY DEF Init, FirestoreInit
<1>2. Awaited(d) = {}
  BY <1>1 DEF Awaited, Outstanding, ToSet
<1>. QED  BY <1>1, <1>2 DEF PagesOf, OneLoad, PagesListed

\* How often a list holds a document, counted.
LEMMA ListedCount ==
    ASSUME TypeOK, NEW d \in Device, NEW document
    PROVE  /\ Without(posts[d], document) => Listed(d, document) = 0
           /\ OnceAtMost(posts[d], document) /\ ~ Without(posts[d], document)
                 => Listed(d, document) = 1
<1> DEFINE places == {i \in DOMAIN posts[d] : posts[d][i].document = document}
<1>1. Listed(d, document) = Cardinality(places)
  BY DEF Listed
<1>2. Without(posts[d], document) => places = {}
  BY DEF Without
<1>3. ASSUME OnceAtMost(posts[d], document), ~ Without(posts[d], document)
      PROVE  \E i : places = {i}
  <2>1. PICK i \in DOMAIN posts[d] : posts[d][i].document = document
    BY <1>3 DEF Without
  <2>2. places = {i}
    BY <1>3, <2>1 DEF OnceAtMost
  <2>. QED  BY <2>2
<1> HIDE DEF places
<1>. QED  BY <1>1, <1>2, <1>3, FS_EmptySet, FS_Singleton

\* For users who let a board load, every numbered post of the board is listed once when
\* its page has come and not before, whatever the order of the answers, the connection,
\* the posts written meanwhile and the restarts; only a post that is not in the cache may be
\* missing, and only if the device was offline during the load.
THEOREM BoardEachPageListedOnce == Spec => []EachPageListedOnce
<1>1. BoardInv /\ PagesInv => EachPageListedOnce
  <2> SUFFICES ASSUME BoardInv, PagesInv, Patient, NEW d \in Device, screen[d] = "board",
                      NEW document \in Seeded,
                      document.data.ID = currentBulletinBoard[d],
                      document.data.PostNumber \in Page
               PROVE  IF \/ OnItsWay(d, document.data.PostNumber)
                         \/ document.data.PostNumber \in failed[d]
                        THEN Listed(d, document) = 0
                        ELSE \/ Listed(d, document) = 1
                             \/ /\ Listed(d, document) = 0
                                /\ document \notin Cached /\ d \in wasOffline
    BY DEF EachPageListedOnce
  <2>1. PageListed(d, document)
    BY DEF PagesInv, PagesOf, PagesListed
  <2>2. /\ Without(posts[d], document) => Listed(d, document) = 0
        /\ OnceAtMost(posts[d], document) /\ ~ Without(posts[d], document)
              => Listed(d, document) = 1
    BY ListedCount DEF BoardInv, TypeInv
  <2>. QED  BY <2>1, <2>2 DEF PageListed, ListedOnce
<1>. QED
  BY <1>1, InitBoardInv, InitOnlineInv, InitPagesInv, NextBoardInv, NextOnlineInv, NextPagesInv,
     PTL DEF Spec
=============================================================================
