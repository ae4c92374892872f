---------------------------- MODULE FirestoreProofs ----------------------------
(***************************************************************************)
(* What the operations of Firestore preserve, for every screen that uses  *)
(* them: the types of the library's variables, and that no step of the    *)
(* library adds to the requests a device has outstanding.                 *)
(***************************************************************************)
EXTENDS Firestore, SequenceTheorems, FiniteSetTheorems, TLAPS

\* The answers to a list of requests form a sequence of answers.
LEMMA AnswersType ==
    ASSUME NEW Request, NEW Document,
           NEW requests \in Seq(Request),
           NEW documents \in SUBSET Document
    PROVE  [i \in DOMAIN requests |-> Answer(requests[i], documents)]
              \in Seq(AnswerOf(Request, Document))
<1> DEFINE A == AnswerOf(Request, Document)
           f == [i \in 1 .. Len(requests) |-> Answer(requests[i], documents)]
<1>1. DOMAIN requests = 1 .. Len(requests)
  OBVIOUS
<1>2. ASSUME NEW i \in 1 .. Len(requests) PROVE Answer(requests[i], documents) \in A
  <2>1. requests[i] \in Request
    OBVIOUS
  <2>. QED  BY <2>1 DEF Answer, AnswerOf
<1>3. f \in [1 .. Len(requests) -> A]
  BY <1>2
<1>4. Len(requests) \in Nat
  OBVIOUS
<1>. QED  BY <1>1, <1>3, <1>4

\* The elements of a sequence of requests: finitely many requests.
LEMMA ElementsType ==
    ASSUME NEW Request, NEW requests \in Seq(Request)
    PROVE  ToSet(requests) \subseteq Request /\ IsFiniteSet(ToSet(requests))
<1> DEFINE I == 1 .. Len(requests)
<1>1. Len(requests) \in Nat /\ DOMAIN requests = I
  OBVIOUS
<1>2. ToSet(requests) = {requests[i] : i \in I}
  BY <1>1 DEF ToSet
<1>3. requests \in [I -> ToSet(requests)]
  BY <1>1, <1>2
<1>4. \A r \in ToSet(requests) : \E i \in I : requests[i] = r
  BY <1>2
<1>5. requests \in Surjection(I, ToSet(requests))
  BY <1>3, <1>4 DEF Surjection
<1>6. IsFiniteSet(I)
  BY <1>1, FS_Interval
<1>7. IsFiniteSet(ToSet(requests))
  BY <1>5, <1>6, FS_Surjection
<1>8. \A i \in I : requests[i] \in Request
  OBVIOUS
<1>. QED  BY <1>2, <1>7, <1>8

\* The orders in which a finite set of requests can be answered are sequences of them.
LEMMA OrderType ==
    ASSUME NEW S, IsFiniteSet(S), NEW order \in SetToSeqs(S)
    PROVE  order \in Seq(S)
<1>1. Cardinality(S) \in Nat
  BY FS_CardinalityType
<1>2. order \in [1 .. Cardinality(S) -> S]
  BY DEF SetToSeqs
<1>. QED  BY <1>1, <1>2

\* The library starts well typed.
LEMMA FirestoreInitType ==
    ASSUME NEW Request, NEW Document, NEW existing \in SUBSET Document,
           NEW cached \in [Device -> SUBSET Document], FirestoreInit(existing, cached)
    PROVE  FirestoreTypeOK(Request, Document)
BY FS_EmptySet DEF FirestoreInit, FirestoreTypeOK

\* Every step of the library keeps its variables in their types.
LEMMA FirestoreStepType ==
    ASSUME NEW Request, NEW Document, FirestoreTypeOK(Request, Document),
           NEW d \in Device, FirestoreStep(d)
    PROVE  FirestoreTypeOK(Request, Document)'
<1> DEFINE A == AnswerOf(Request, Document)
<1> USE DEF FirestoreTypeOK
<1>0. Pending(d) \in SUBSET Document
  BY DEF Pending, ToSet
<1>1. CASE RaiseSynced(d)
  <2>1. PICK request \in listens[d] :
          /\ cache' = [cache EXCEPT ![d] =
                        @ \cup {document \in server : Matches(request.query, document)}]
          /\ callbacks' = [callbacks EXCEPT ![d] =
                        Append(@, Answer(request, server \cup Pending(d)))]
          /\ listens' = [listens EXCEPT ![d] = @ \ {request}]
          /\ offline' = [offline EXCEPT ![d] = FALSE]
          /\ UNCHANGED <<server, mutations>>
    BY <1>1 DEF RaiseSynced
  <2>2. Answer(request, server \cup Pending(d)) \in A
    BY <1>0 DEF Answer, AnswerOf
  <2>3. callbacks' \in [Device -> Seq(A)]
    BY <2>1, <2>2
  <2>4. \A e \in Device : IsFiniteSet(listens'[e])
    BY <2>1, FS_RemoveElement
  <2>. QED  BY <2>1, <2>3, <2>4
<1>2. CASE GoOffline(d)
  <2>1. PICK order \in SetToSeqs(listens[d]) :
          callbacks' = [callbacks EXCEPT ![d] =
              @ \o [i \in DOMAIN order |-> Answer(order[i], LocalDocuments(d))]]
    BY <1>2 DEF GoOffline
  <2>2. order \in Seq(Request)
    BY OrderType
  <2>3. LocalDocuments(d) \in SUBSET Document
    BY <1>0 DEF LocalDocuments
  <2>4. [i \in DOMAIN order |-> Answer(order[i], LocalDocuments(d))] \in Seq(A)
    BY <2>2, <2>3, AnswersType
  <2>5. callbacks' \in [Device -> Seq(A)]
    BY <2>1, <2>4
  <2>6. \A e \in Device : IsFiniteSet(listens'[e])
    BY <1>2, FS_EmptySet DEF GoOffline
  <2>. QED  BY <1>2, <2>5, <2>6 DEF GoOffline
<1>3. CASE LeaveOffline(d)
  BY <1>3 DEF LeaveOffline
<1>4. CASE ListenFails(d)
  <2>1. PICK request \in listens[d] :
          /\ listens' = [listens EXCEPT ![d] = @ \ {request}]
          /\ callbacks' = [callbacks EXCEPT ![d] = Append(@, ErrorAnswer(request))]
          /\ offline' = [offline EXCEPT ![d] = FALSE]
          /\ UNCHANGED <<server, cache, mutations>>
    BY <1>4 DEF ListenFails
  <2>2. ErrorAnswer(request) \in A
    BY DEF ErrorAnswer, AnswerOf
  <2>3. callbacks' \in [Device -> Seq(A)]
    BY <2>1, <2>2
  <2>4. \A e \in Device : IsFiniteSet(listens'[e])
    BY <2>1, FS_RemoveElement
  <2>. QED  BY <2>1, <2>3, <2>4
<1>5. CASE CommitWrite(d)
  <2>1. PICK i \in DOMAIN mutations[d] : server' = server \cup {mutations[d][i]}
    BY <1>5 DEF CommitWrite
  <2>2. mutations[d][i] \in Document
    OBVIOUS
  <2>. QED  BY <1>5, <2>1, <2>2 DEF CommitWrite
<1>6. CASE AcknowledgeBatch(d)
  BY <1>6 DEF AcknowledgeBatch
<1>7. CASE RejectBatch(d)
  BY <1>7 DEF RejectBatch
<1>. QED
  BY <1>1, <1>2, <1>3, <1>4, <1>5, <1>6, <1>7 DEF FirestoreStep

\* So does a call of getDocuments with requests of the right type,
LEMMA GetDocumentsType ==
    ASSUME NEW Request, NEW Document, FirestoreTypeOK(Request, Document),
           NEW d \in Device, NEW requests \in Seq(Request), GetDocuments(d, requests)
    PROVE  FirestoreTypeOK(Request, Document)'
<1> DEFINE A == AnswerOf(Request, Document)
<1> USE DEF FirestoreTypeOK
<1>1. CASE offline[d]
  <2>1. LocalDocuments(d) \in SUBSET Document
    BY DEF LocalDocuments, Pending, ToSet
  <2>2. [i \in DOMAIN requests |-> Answer(requests[i], LocalDocuments(d))] \in Seq(A)
    BY <2>1, AnswersType
  <2> DEFINE answers == [i \in DOMAIN requests |-> Answer(requests[i], LocalDocuments(d))]
  <2>4. callbacks' = [callbacks EXCEPT ![d] = @ \o answers]
    BY <1>1 DEF GetDocuments
  <2>5. answers \in Seq(A)
    BY <2>2
  <2> HIDE DEF answers
  <2>3. callbacks' \in [Device -> Seq(A)]
    BY <2>4, <2>5
  <2>. QED  BY <1>1, <2>3 DEF GetDocuments
<1>2. CASE ~ offline[d]
  <2>1. ToSet(requests) \subseteq Request /\ IsFiniteSet(ToSet(requests))
    BY ElementsType
  <2>2. listens' = [listens EXCEPT ![d] = @ \cup ToSet(requests)]
    BY <1>2 DEF GetDocuments
  <2>3. ASSUME NEW e \in Device PROVE IsFiniteSet(listens'[e])
    <3>1. IsFiniteSet(listens[d] \cup ToSet(requests))
      BY <2>1, FS_Union
    <3>. QED  BY <2>2, <3>1
  <2>. QED  BY <1>2, <2>1, <2>3 DEF GetDocuments
<1>. QED  BY <1>1, <1>2

\* the start of a callback,
LEMMA CallbackRunsType ==
    ASSUME NEW Request, NEW Document, FirestoreTypeOK(Request, Document),
           NEW d \in Device, CallbackRuns(d)
    PROVE  /\ callbacks' \in [Device -> Seq(AnswerOf(Request, Document))]
           /\ Head(callbacks[d]) \in AnswerOf(Request, Document)
BY DEF CallbackRuns, FirestoreTypeOK

\* and the end of the process.
LEMMA LibraryRestartType ==
    ASSUME NEW Request, NEW Document, FirestoreTypeOK(Request, Document),
           NEW d \in Device, LibraryRestart(d)
    PROVE  FirestoreTypeOK(Request, Document)'
BY FS_EmptySet DEF FirestoreTypeOK, LibraryRestart

-----------------------------------------------------------------------------
(***************************************************************************)
(* Outstanding requests.                                                  *)
(***************************************************************************)

\* The elements of the sequences that the queue of callbacks goes through.
LEMMA AppendElements ==
    ASSUME NEW S, NEW s \in Seq(S), NEW x \in S
    PROVE  ToSet(Append(s, x)) = ToSet(s) \cup {x}
<1> DEFINE t == Append(s, x)
<1>1. /\ Len(s) \in Nat /\ DOMAIN s = 1 .. Len(s) /\ DOMAIN t = 1 .. Len(s) + 1
      /\ \A i \in 1 .. Len(s) : t[i] = s[i]
      /\ t[Len(s) + 1] = x
  OBVIOUS
<1> HIDE DEF t
<1>2. ASSUME NEW y \in ToSet(t) PROVE y \in ToSet(s) \cup {x}
  BY <1>1 DEF ToSet
<1>3. ASSUME NEW y \in ToSet(s) PROVE y \in ToSet(t)
  <2>1. PICK i \in 1 .. Len(s) : y = s[i]
    BY <1>1 DEF ToSet
  <2>2. i \in DOMAIN t /\ y = t[i]
    BY <1>1, <2>1
  <2>. QED  BY <2>2 DEF ToSet
<1>4. x \in ToSet(t)
  <2>1. Len(s) + 1 \in DOMAIN t
    BY <1>1
  <2>. QED  BY <1>1, <2>1 DEF ToSet
<1>5. ToSet(t) = ToSet(s) \cup {x}
  BY <1>2, <1>3, <1>4
<1>. QED  BY <1>5 DEF t

\* The same for two queues in a row,
LEMMA ConcatElements ==
    ASSUME NEW S, NEW s \in Seq(S), NEW t \in Seq(S)
    PROVE  ToSet(s \o t) \subseteq ToSet(s) \cup ToSet(t)
BY DEF ToSet

\* and for a queue and what its head leaves.
LEMMA TailElements ==
    ASSUME NEW S, NEW s \in Seq(S), s # <<>>
    PROVE  /\ ToSet(Tail(s)) \subseteq ToSet(s) /\ Head(s) \in ToSet(s)
           /\ ToSet(s) \subseteq {Head(s)} \cup ToSet(Tail(s))
<1>1. /\ Len(s) \in Nat \ {0} /\ DOMAIN s = 1 .. Len(s)
      /\ Tail(s) \in Seq(S) /\ Len(Tail(s)) = Len(s) - 1
      /\ \A i \in 1 .. Len(s) - 1 : Tail(s)[i] = s[i + 1]
      /\ Head(s) = s[1]
  OBVIOUS
<1>2. DOMAIN Tail(s) = 1 .. Len(s) - 1
  BY <1>1
<1>3. ASSUME NEW x \in ToSet(Tail(s)) PROVE x \in ToSet(s)
  <2>1. PICK i \in 1 .. Len(s) - 1 : x = Tail(s)[i]
    BY <1>2 DEF ToSet
  <2>2. x = s[i + 1] /\ i + 1 \in DOMAIN s
    BY <1>1, <2>1
  <2>. QED  BY <2>2 DEF ToSet
<1>4. Head(s) \in ToSet(s)
  <2>1. 1 \in DOMAIN s
    BY <1>1
  <2>. QED  BY <1>1, <2>1 DEF ToSet
<1>5. ASSUME NEW x \in ToSet(s), x # Head(s) PROVE x \in ToSet(Tail(s))
  <2>1. PICK i \in 1 .. Len(s) : x = s[i]
    BY <1>1 DEF ToSet
  <2>2. i - 1 \in 1 .. Len(s) - 1 /\ (i - 1) + 1 = i
    BY <1>1, <1>5, <2>1
  <2>3. i - 1 \in DOMAIN Tail(s) /\ x = Tail(s)[i - 1]
    BY <1>1, <1>2, <2>1, <2>2
  <2>. QED  BY <2>3 DEF ToSet
<1>. QED  BY <1>3, <1>4, <1>5

\* No step of the library makes a request of its own.
LEMMA StepOutstanding ==
    ASSUME NEW Request, NEW Document, FirestoreTypeOK(Request, Document),
           NEW d \in Device, FirestoreStep(d), NEW e \in Device
    PROVE  Outstanding(e)' \subseteq Outstanding(e)
<1> DEFINE A == AnswerOf(Request, Document)
<1>1. callbacks[d] \in Seq(A) /\ callbacks \in [Device -> Seq(A)]
      /\ listens \in [Device -> SUBSET Request] /\ Pending(d) \in SUBSET Document
      /\ server \in SUBSET Document /\ LocalDocuments(d) \in SUBSET Document
      /\ IsFiniteSet(listens[d])
  BY DEF FirestoreTypeOK, Pending, LocalDocuments, ToSet
<1>2. CASE RaiseSynced(d)
  <2>1. PICK request \in listens[d] :
          /\ callbacks' = [callbacks EXCEPT ![d] =
                        Append(@, Answer(request, server \cup Pending(d)))]
          /\ listens' = [listens EXCEPT ![d] = @ \ {request}]
    BY <1>2 DEF RaiseSynced
  <2> DEFINE answer == Answer(request, server \cup Pending(d))
  <2>2. answer \in A /\ answer.request = request
    BY <1>1, <2>1 DEF Answer, AnswerOf
  <2>3. ToSet(callbacks'[d]) = ToSet(callbacks[d]) \cup {answer}
    BY <1>1, <2>1, <2>2, AppendElements
  <2>. QED  BY <1>1, <2>1, <2>2, <2>3 DEF Outstanding
<1>3. CASE GoOffline(d)
  <2>1. PICK order \in SetToSeqs(listens[d]) :
          callbacks' = [callbacks EXCEPT ![d] =
              @ \o [i \in DOMAIN order |-> Answer(order[i], LocalDocuments(d))]]
    BY <1>3 DEF GoOffline
  <2> DEFINE answers == [i \in DOMAIN order |-> Answer(order[i], LocalDocuments(d))]
  <2>2. order \in Seq(listens[d]) /\ order \in Seq(Request)
    BY <1>1, OrderType
  <2>3. answers \in Seq(A)
    BY <1>1, <2>2, AnswersType
  <2>4. ASSUME NEW answer \in ToSet(answers) PROVE answer.request \in listens[d]
    <3>1. PICK i \in DOMAIN order : answer = Answer(order[i], LocalDocuments(d))
      BY <2>4 DEF ToSet
    <3>2. order[i] \in listens[d]
      BY <2>2
    <3>. QED  BY <3>1, <3>2 DEF Answer
  <2>5. callbacks'[d] = callbacks[d] \o answers
    BY <1>1, <2>1
  <2> HIDE DEF answers
  <2>6. ToSet(callbacks'[d]) \subseteq ToSet(callbacks[d]) \cup ToSet(answers)
    BY <1>1, <2>3, <2>5, ConcatElements
  <2>7. listens'[d] = {} /\ (e # d => UNCHANGED <<listens[e], callbacks[e]>>)
    BY <1>1, <1>3 DEF GoOffline
  <2>. QED  BY <2>4, <2>6, <2>7 DEF Outstanding
<1>4. CASE ListenFails(d)
  <2>1. PICK request \in listens[d] :
          /\ listens' = [listens EXCEPT ![d] = @ \ {request}]
          /\ callbacks' = [callbacks EXCEPT ![d] = Append(@, ErrorAnswer(request))]
    BY <1>4 DEF ListenFails
  <2>2. ErrorAnswer(request) \in A /\ ErrorAnswer(request).request = request
    BY <1>1, <2>1 DEF ErrorAnswer, AnswerOf
  <2>3. ToSet(callbacks'[d]) = ToSet(callbacks[d]) \cup {ErrorAnswer(request)}
    BY <1>1, <2>1, <2>2, AppendElements
  <2>. QED  BY <1>1, <2>1, <2>2, <2>3 DEF Outstanding
<1>5. CASE UNCHANGED <<listens, callbacks>>
  BY <1>5 DEF Outstanding
<1>. QED
  BY <1>2, <1>3, <1>4, <1>5
     DEF FirestoreStep, LeaveOffline, CommitWrite, AcknowledgeBatch, RejectBatch

\* A call of getDocuments adds its own requests to those of its device.
LEMMA GetDocumentsOutstanding ==
    ASSUME NEW Request, NEW Document, FirestoreTypeOK(Request, Document),
           NEW d \in Device, NEW requests \in Seq(Request), GetDocuments(d, requests),
           NEW e \in Device
    PROVE  Outstanding(e)' \subseteq
              Outstanding(e) \cup (IF e = d THEN ToSet(requests) ELSE {})
<1> DEFINE A == AnswerOf(Request, Document)
<1>1. callbacks[d] \in Seq(A) /\ callbacks \in [Device -> Seq(A)]
      /\ listens \in [Device -> SUBSET Request] /\ LocalDocuments(d) \in SUBSET Document
  BY DEF FirestoreTypeOK, Pending, LocalDocuments, ToSet
<1>2. CASE offline[d]
  <2> DEFINE answers == [i \in DOMAIN requests |-> Answer(requests[i], LocalDocuments(d))]
  <2>1. answers \in Seq(A)
    BY <1>1, AnswersType
  <2>2. \A answer \in ToSet(answers) : answer.request \in ToSet(requests)
    BY DEF ToSet, Answer
  <2>3. callbacks' = [callbacks EXCEPT ![d] = @ \o answers] /\ UNCHANGED listens
    BY <1>2 DEF GetDocuments
  <2> HIDE DEF answers
  <2>4. ToSet(callbacks'[d]) \subseteq ToSet(callbacks[d]) \cup ToSet(answers)
    BY <1>1, <2>1, <2>3, ConcatElements
  <2>5. e # d => callbacks'[e] = callbacks[e]
    BY <1>1, <2>3
  <2>. QED  BY <2>2, <2>3, <2>4, <2>5 DEF Outstanding
<1>3. CASE ~ offline[d]
  <2>1. listens' = [listens EXCEPT ![d] = @ \cup ToSet(requests)] /\ UNCHANGED callbacks
    BY <1>3 DEF GetDocuments
  <2>. QED  BY <1>1, <2>1 DEF Outstanding
<1>. QED  BY <1>2, <1>3

\* The callback that runs was outstanding, and nothing is after it that was not before.
LEMMA CallbackOutstanding ==
    ASSUME NEW Request, NEW Document, FirestoreTypeOK(Request, Document),
           NEW d \in Device, CallbackRuns(d), UNCHANGED listens, NEW e \in Device
    PROVE  /\ Outstanding(e)' \subseteq Outstanding(e)
           /\ Head(callbacks[d]).request \in Outstanding(d)
<1> DEFINE A == AnswerOf(Request, Document)
<1>1. callbacks \in [Device -> Seq(A)] /\ callbacks[d] \in Seq(A)
  BY DEF FirestoreTypeOK
<1>2. callbacks[d] # <<>> /\ callbacks' = [callbacks EXCEPT ![d] = Tail(@)]
  BY DEF CallbackRuns
<1>3. ToSet(callbacks'[d]) \subseteq ToSet(callbacks[d])
      /\ Head(callbacks[d]) \in ToSet(callbacks[d])
  BY <1>1, <1>2, TailElements
<1>4. e # d => callbacks'[e] = callbacks[e]
  BY <1>1, <1>2
<1>. QED  BY <1>3, <1>4 DEF Outstanding

-----------------------------------------------------------------------------
(***************************************************************************)
(* What answers hold.                                                     *)
(***************************************************************************)

\* The answers d may raise or give at once: from the server, from the local store, or
\* an error.
AnswersTo(d, request) ==
    {ErrorAnswer(request),
     Answer(request, server \cup Pending(d)),
     Answer(request, LocalDocuments(d))}

\* Every answer after a step of the library was there before or answers a request.
LEMMA StepNewAnswers ==
    ASSUME NEW Request, NEW Document, FirestoreTypeOK(Request, Document),
           NEW d \in Device, FirestoreStep(d), NEW e \in Device,
           NEW new \in ToSet(callbacks'[e])
    PROVE  \/ new \in ToSet(callbacks[e])
           \/ e = d /\ \E request \in Request : new \in AnswersTo(d, request)
<1> DEFINE A == AnswerOf(Request, Document)
<1>1. callbacks[d] \in Seq(A) /\ callbacks \in [Device -> Seq(A)]
      /\ listens \in [Device -> SUBSET Request] /\ Pending(d) \in SUBSET Document
      /\ server \in SUBSET Document /\ LocalDocuments(d) \in SUBSET Document
      /\ IsFiniteSet(listens[d])
  BY DEF FirestoreTypeOK, Pending, LocalDocuments, ToSet
<1>2. CASE RaiseSynced(d)
  <2>1. PICK request \in listens[d] :
          callbacks' = [callbacks EXCEPT ![d] =
                        Append(@, Answer(request, server \cup Pending(d)))]
    BY <1>2 DEF RaiseSynced
  <2> DEFINE answer == Answer(request, server \cup Pending(d))
  <2>2. answer \in A /\ request \in Request
    BY <1>1, <2>1 DEF Answer, AnswerOf
  <2>3. ToSet(callbacks'[d]) = ToSet(callbacks[d]) \cup {answer}
    BY <1>1, <2>1, <2>2, AppendElements
  <2>. QED  BY <1>1, <2>1, <2>2, <2>3 DEF AnswersTo
<1>3. CASE GoOffline(d)
  <2>1. PICK order \in SetToSeqs(listens[d]) :
          callbacks' = [callbacks EXCEPT ![d] =
              @ \o [i \in DOMAIN order |-> Answer(order[i], LocalDocuments(d))]]
    BY <1>3 DEF GoOffline
  <2> DEFINE answers == [i \in DOMAIN order |-> Answer(order[i], LocalDocuments(d))]
  <2>2. order \in Seq(listens[d]) /\ order \in Seq(Request)
    BY <1>1, OrderType
  <2>3. answers \in Seq(A)
    BY <1>1, <2>2, AnswersType
  <2>4. ASSUME NEW answer \in ToSet(answers)
        PROVE  \E request \in Request : answer \in AnswersTo(d, request)
    <3>1. PICK i \in DOMAIN order : answer = Answer(order[i], LocalDocuments(d))
      BY <2>4 DEF ToSet
    <3>2. order[i] \in Request
      BY <2>2
    <3>. QED  BY <3>1, <3>2 DEF AnswersTo
  <2>5. callbacks'[d] = callbacks[d] \o answers
    BY <1>1, <2>1
  <2> HIDE DEF answers
  <2>6. ToSet(callbacks'[d]) \subseteq ToSet(callbacks[d]) \cup ToSet(answers)
    BY <1>1, <2>3, <2>5, ConcatElements
  <2>7. e # d => callbacks'[e] = callbacks[e]
    BY <1>1, <2>1
  <2>. QED  BY <2>4, <2>6, <2>7
<1>4. CASE ListenFails(d)
  <2>1. PICK request \in listens[d] :
          callbacks' = [callbacks EXCEPT ![d] = Append(@, ErrorAnswer(request))]
    BY <1>4 DEF ListenFails
  <2>2. ErrorAnswer(request) \in A /\ request \in Request
    BY <1>1, <2>1 DEF ErrorAnswer, AnswerOf
  <2>3. ToSet(callbacks'[d]) = ToSet(callbacks[d]) \cup {ErrorAnswer(request)}
    BY <1>1, <2>1, <2>2, AppendElements
  <2>. QED  BY <1>1, <2>1, <2>2, <2>3 DEF AnswersTo
<1>5. CASE UNCHANGED callbacks
  BY <1>5
<1>. QED
  BY <1>2, <1>3, <1>4, <1>5
     DEF FirestoreStep, LeaveOffline, CommitWrite, AcknowledgeBatch, RejectBatch

\* The same for a call of getDocuments,
LEMMA GetDocumentsNewAnswers ==
    ASSUME NEW Request, NEW Document, FirestoreTypeOK(Request, Document),
           NEW d \in Device, NEW requests \in Seq(Request), GetDocuments(d, requests),
           NEW e \in Device, NEW new \in ToSet(callbacks'[e])
    PROVE  \/ new \in ToSet(callbacks[e])
           \/ e = d /\ \E request \in Request : new \in AnswersTo(d, request)
<1> DEFINE A == AnswerOf(Request, Document)
           answers == [i \in DOMAIN requests |-> Answer(requests[i], LocalDocuments(d))]
<1>1. callbacks[d] \in Seq(A) /\ callbacks \in [Device -> Seq(A)]
      /\ LocalDocuments(d) \in SUBSET Document
  BY DEF FirestoreTypeOK, Pending, LocalDocuments, ToSet
<1>2. answers \in Seq(A)
  BY <1>1, AnswersType
<1>3. ASSUME NEW answer \in ToSet(answers)
      PROVE  \E request \in Request : answer \in AnswersTo(d, request)
  <2>1. PICK i \in DOMAIN requests : answer = Answer(requests[i], LocalDocuments(d))
    BY <1>3 DEF ToSet
  <2>2. requests[i] \in Request
    OBVIOUS
  <2>. QED  BY <2>1, <2>2 DEF AnswersTo
<1>4. callbacks' = [callbacks EXCEPT ![d] = @ \o answers] \/ UNCHANGED callbacks
  BY DEF GetDocuments
<1> HIDE DEF answers
<1>5. ToSet(callbacks[d] \o answers) \subseteq ToSet(callbacks[d]) \cup ToSet(answers)
  BY <1>1, <1>2, ConcatElements
<1>. QED  BY <1>1, <1>3, <1>4, <1>5

\* while a callback that runs was one of the answers, and adds none.
LEMMA CallbackNoNewAnswers ==
    ASSUME NEW Request, NEW Document, FirestoreTypeOK(Request, Document),
           NEW d \in Device, CallbackRuns(d), NEW e \in Device
    PROVE  /\ ToSet(callbacks'[e]) \subseteq ToSet(callbacks[e])
           /\ Head(callbacks[d]) \in ToSet(callbacks[d])
<1> DEFINE A == AnswerOf(Request, Document)
<1>1. callbacks \in [Device -> Seq(A)] /\ callbacks[d] \in Seq(A)
  BY DEF FirestoreTypeOK
<1>2. callbacks[d] # <<>> /\ callbacks' = [callbacks EXCEPT ![d] = Tail(@)]
  BY DEF CallbackRuns
<1>3. ToSet(callbacks'[d]) \subseteq ToSet(callbacks[d])
      /\ Head(callbacks[d]) \in ToSet(callbacks[d])
  BY <1>1, <1>2, TailElements
<1>4. e # d => callbacks'[e] = callbacks[e]
  BY <1>1, <1>2
<1>. QED  BY <1>3, <1>4

\* All that an answer holds is among these documents, and matches its query.
Truthful(answer, documents) ==
    /\ answer.documents \subseteq documents
    /\ \A document \in answer.documents : Matches(answer.request.query, document)

\* Whichever of these documents matches its query, an answer without error holds.
Complete(answer, documents) ==
    ~ answer.err => \A document \in documents :
        Matches(answer.request.query, document) => document \in answer.documents

\* New answers are truthful about what the server and the local store hold, and complete
\* about what both of them hold.
LEMMA NewAnswers ==
    ASSUME NEW d \in Device, NEW request, NEW answer \in AnswersTo(d, request)
    PROVE  /\ \A known : server \subseteq known /\ LocalDocuments(d) \subseteq known =>
                 Truthful(answer, known)
           /\ \A kept : kept \subseteq server \cup Pending(d) /\ kept \subseteq LocalDocuments(d) =>
                 Complete(answer, kept)
BY DEF AnswersTo, Truthful, Complete, Answer, ErrorAnswer, LocalDocuments

-----------------------------------------------------------------------------
(***************************************************************************)
(* Devices with one request at a time.                                    *)
(***************************************************************************)

\* Device d waits for one answer at most.
OneRequest(d) ==
    /\ Len(callbacks[d]) <= 1
    /\ callbacks[d] # <<>> => listens[d] = {}
    /\ \A one, other \in listens[d] : one = other

\* A sequence with one index has length one.
LEMMA LenOfDomain ==
    ASSUME NEW S, NEW s \in Seq(S), DOMAIN s = 1 .. 1
    PROVE  Len(s) = 1
<1>1. DOMAIN s = 1 .. Len(s) /\ Len(s) \in Nat
  BY LenProperties
<1>2. Len(s) # 0
  BY <1>1
<1>3. ASSUME Len(s) > 1 PROVE FALSE
  <2>1. 2 \in 1 .. Len(s) /\ 2 \notin 1 .. 1
    BY <1>1, <1>3
  <2>. QED  BY <1>1, <2>1
<1>. QED  BY <1>1, <1>2, <1>3

\* A set of one element has one order.
LEMMA OneOrder ==
    ASSUME NEW S, IsFiniteSet(S), \A one, other \in S : one = other,
           NEW order \in SetToSeqs(S)
    PROVE  Len(order) <= 1
<1>1. CASE S = {}
  <2>1. Cardinality(S) = 0
    BY <1>1, FS_EmptySet
  <2>2. order \in [1 .. 0 -> S]
    BY <2>1 DEF SetToSeqs
  <2>. QED  BY <2>2
<1>2. CASE S # {}
  <2>1. PICK x : S = {x}
    BY <1>2
  <2>2. Cardinality(S) = 1
    BY <2>1, FS_Singleton
  <2>3. order \in [1 .. 1 -> S]
    BY <2>2 DEF SetToSeqs
  <2>4. order \in Seq(S)
    BY OrderType
  <2>5. Len(order) = 1
    BY <2>3, <2>4, LenOfDomain
  <2>. QED  BY <2>5
<1>. QED  BY <1>1, <1>2

\* The library turns one request into one answer.
LEMMA StepOneRequest ==
    ASSUME NEW Request, NEW Document, FirestoreTypeOK(Request, Document),
           NEW d \in Device, FirestoreStep(d), NEW e \in Device, OneRequest(e)
    PROVE  OneRequest(e)'
<1> DEFINE A == AnswerOf(Request, Document)
<1>1. callbacks[d] \in Seq(A) /\ callbacks \in [Device -> Seq(A)]
      /\ listens \in [Device -> SUBSET Request] /\ IsFiniteSet(listens[d])
      /\ Pending(d) \in SUBSET Document /\ server \in SUBSET Document
      /\ LocalDocuments(d) \in SUBSET Document
  BY DEF FirestoreTypeOK, Pending, LocalDocuments, ToSet
<1>2. CASE e = d /\ (RaiseSynced(d) \/ ListenFails(d))
  <2>0. \E request \in listens[d] : \E answer :
          /\ callbacks' = [callbacks EXCEPT ![d] = Append(@, answer)]
          /\ listens' = [listens EXCEPT ![d] = @ \ {request}]
    BY <1>2 DEF RaiseSynced, ListenFails
  <2>1. PICK request, answer :
          /\ request \in listens[d]
          /\ callbacks' = [callbacks EXCEPT ![d] = Append(@, answer)]
          /\ listens' = [listens EXCEPT ![d] = @ \ {request}]
    BY <2>0
  <2>2. callbacks[d] = <<>> /\ listens[d] = {request}
    BY <1>1, <1>2, <2>1 DEF OneRequest
  <2>3. callbacks'[d] = <<answer>> /\ listens'[d] = {}
    BY <1>1, <2>1, <2>2
  <2>. QED  BY <1>2, <2>3 DEF OneRequest
<1>3. CASE e = d /\ GoOffline(d)
  <2>1. PICK order \in SetToSeqs(listens[d]) :
          /\ callbacks' = [callbacks EXCEPT ![d] =
                @ \o [i \in DOMAIN order |-> Answer(order[i], LocalDocuments(d))]]
          /\ listens' = [listens EXCEPT ![d] = {}]
    BY <1>3 DEF GoOffline
  <2> DEFINE answers == [i \in DOMAIN order |-> Answer(order[i], LocalDocuments(d))]
  <2>2. order \in Seq(listens[d]) /\ order \in Seq(Request)
    BY <1>1, OrderType
  <2>3. Len(order) <= 1
    BY <1>1, <1>3, OneOrder DEF OneRequest
  <2>4. answers \in Seq(A) /\ Len(answers) = Len(order)
    <3>1. answers \in Seq(A)
      BY <1>1, <2>2, AnswersType
    <3>2. DOMAIN answers = 1 .. Len(order) /\ Len(order) \in Nat
      BY <2>2
    <3> HIDE DEF answers
    <3>. QED  BY <3>1, <3>2
  <2>5. callbacks'[d] = callbacks[d] \o answers /\ listens'[d] = {}
    BY <1>1, <2>1
  <2> HIDE DEF answers
  <2>6. Len(callbacks'[d]) = Len(callbacks[d]) + Len(answers)
    <3>1. callbacks[d] \in Seq(A) /\ answers \in Seq(A)
      BY <1>1, <2>4
    <3> HIDE DEF A
    <3>2. Len(callbacks[d] \o answers) = Len(callbacks[d]) + Len(answers)
      BY <3>1
    <3>. QED  BY <2>5, <3>2
  <2>7. Len(callbacks[d]) + Len(order) <= 1
    <3>1. CASE listens[d] = {}
      <4>1. order = <<>>
        BY <2>2, <3>1
      <4>. QED  BY <1>1, <1>3, <4>1 DEF OneRequest
    <3>2. CASE listens[d] # {}
      <4>1. callbacks[d] = <<>>
        BY <1>3, <3>2 DEF OneRequest
      <4>. QED  BY <2>2, <2>3, <4>1
    <3>. QED  BY <3>1, <3>2
  <2>8. Len(callbacks'[d]) <= 1
    BY <2>4, <2>6, <2>7
  <2>. QED  BY <1>3, <2>5, <2>8 DEF OneRequest
<1>4. CASE UNCHANGED <<listens, callbacks>>
  BY <1>4 DEF OneRequest
<1>5. CASE e # d /\ (RaiseSynced(d) \/ GoOffline(d) \/ ListenFails(d))
  <2>1. listens'[e] = listens[e] /\ callbacks'[e] = callbacks[e]
    BY <1>1, <1>5 DEF RaiseSynced, GoOffline, ListenFails
  <2>. QED  BY <2>1 DEF OneRequest
<1>. QED
  BY <1>2, <1>3, <1>4, <1>5
     DEF FirestoreStep, LeaveOffline, CommitWrite, AcknowledgeBatch, RejectBatch

\* A device that waits for nothing may send a request.
LEMMA GetDocumentsOneRequest ==
    ASSUME NEW Request, NEW Document, FirestoreTypeOK(Request, Document),
           NEW d \in Device, NEW request \in Request, GetDocuments(d, <<request>>),
           Outstanding(d) = {}, NEW e \in Device, OneRequest(e)
    PROVE  OneRequest(e)'
<1> DEFINE A == AnswerOf(Request, Document)
           answers == [i \in DOMAIN <<request>> |-> Answer(<<request>>[i], LocalDocuments(d))]
<1>1. callbacks[d] \in Seq(A) /\ callbacks \in [Device -> Seq(A)]
      /\ listens \in [Device -> SUBSET Request] /\ LocalDocuments(d) \in SUBSET Document
  BY DEF FirestoreTypeOK, Pending, LocalDocuments, ToSet
<1>2. listens[d] = {} /\ callbacks[d] = <<>>
  <2>1. listens[d] = {} /\ ToSet(callbacks[d]) = {}
    BY DEF Outstanding
  <2>2. ASSUME callbacks[d] # <<>> PROVE FALSE
    BY <1>1, <2>1, <2>2, TailElements
  <2>. QED  BY <2>1, <2>2
<1>3. CASE e # d
  BY <1>1, <1>3 DEF GetDocuments, OneRequest
<1>4. CASE e = d /\ offline[d]
  <2>1. <<request>> \in Seq(Request) /\ DOMAIN <<request>> = 1 .. 1
    OBVIOUS
  <2>2. answers \in Seq(A) /\ DOMAIN answers = 1 .. 1
    BY <1>1, <2>1, AnswersType
  <2>3. callbacks' = [callbacks EXCEPT ![d] = @ \o answers] /\ UNCHANGED listens
    BY <1>4 DEF GetDocuments
  <2> HIDE DEF answers
  <2>4. Len(answers) = 1
    BY <2>2, LenOfDomain
  <2>5. Len(callbacks'[d]) = 1 /\ listens'[d] = {}
    BY <1>1, <1>2, <2>2, <2>3, <2>4
  <2>. QED  BY <1>4, <2>5 DEF OneRequest
<1>5. CASE e = d /\ ~ offline[d]
  <2>1. listens'[d] = ToSet(<<request>>) /\ callbacks'[d] = <<>>
    BY <1>1, <1>2, <1>5 DEF GetDocuments
  <2>. QED  BY <1>5, <2>1 DEF OneRequest, ToSet
<1>. QED  BY <1>3, <1>4, <1>5

\* The callback that runs was all the device waited for.
LEMMA CallbackOneRequest ==
    ASSUME NEW Request, NEW Document, FirestoreTypeOK(Request, Document),
           NEW d \in Device, CallbackRuns(d), UNCHANGED listens,
           NEW e \in Device, OneRequest(e)
    PROVE  /\ OneRequest(e)'
           /\ e = d => Outstanding(d)' = {} /\ callbacks'[d] = <<>>
<1> DEFINE A == AnswerOf(Request, Document)
<1>1. callbacks \in [Device -> Seq(A)] /\ callbacks[d] \in Seq(A)
  BY DEF FirestoreTypeOK
<1>2. callbacks[d] # <<>> /\ callbacks' = [callbacks EXCEPT ![d] = Tail(@)]
  BY DEF CallbackRuns
<1>3. CASE e # d
  BY <1>1, <1>2, <1>3 DEF OneRequest
<1>4. CASE e = d
  <2>1. callbacks'[d] = <<>> /\ listens'[d] = {}
    BY <1>1, <1>2, <1>4 DEF OneRequest
  <2>. QED  BY <1>4, <2>1 DEF OneRequest, Outstanding, ToSet
<1>. QED  BY <1>3, <1>4

-----------------------------------------------------------------------------
(***************************************************************************)
(* Every request is owed one answer.                                      *)
(***************************************************************************)

\* The answers of a queue are to different requests, none of which still listens.
AnsweredOnce(queue, waiting) ==
    /\ \A i, j \in DOMAIN queue : queue[i].request = queue[j].request => i = j
    /\ \A i \in DOMAIN queue : queue[i].request \notin waiting

RequestsOnce(d) == AnsweredOnce(callbacks[d], listens[d])

\* No answer of a queue is to one of these requests; no request is listed twice.
AnswersNone(queue, requests) == \A i \in DOMAIN queue : queue[i].request \notin requests
AllDifferent(requests) == \A i, j \in DOMAIN requests : requests[i] = requests[j] => i = j

\* Two sequences in a row, place by place.
LEMMA ConcatPlaces ==
    ASSUME NEW S, NEW s \in Seq(S), NEW t \in Seq(S)
    PROVE  /\ Len(s) \in Nat /\ DOMAIN s = 1 .. Len(s)
           /\ Len(t) \in Nat /\ DOMAIN t = 1 .. Len(t)
           /\ DOMAIN (s \o t) = 1 .. Len(s) + Len(t)
           /\ \A i \in 1 .. Len(s) : (s \o t)[i] = s[i]
           /\ \A i \in 1 .. Len(t) : (s \o t)[Len(s) + i] = t[i]
OBVIOUS

\* A queue and what is put behind it.
LEMMA QueueGrows ==
    ASSUME NEW A, NEW queue \in Seq(A), NEW more \in Seq(A), NEW waiting, NEW still,
           AnsweredOnce(queue, waiting), AnsweredOnce(more, still),
           AnswersNone(queue, {answer.request : answer \in ToSet(more)}),
           AnswersNone(queue, still)
    PROVE  /\ AnsweredOnce(queue \o more, still)
           /\ ToSet(queue \o more) = ToSet(queue) \cup ToSet(more)
<1> DEFINE both == queue \o more
<1>1. /\ Len(queue) \in Nat /\ DOMAIN queue = 1 .. Len(queue)
      /\ Len(more) \in Nat /\ DOMAIN more = 1 .. Len(more)
      /\ DOMAIN both = 1 .. Len(queue) + Len(more)
      /\ \A i \in 1 .. Len(queue) : both[i] = queue[i]
      /\ \A i \in 1 .. Len(more) : both[Len(queue) + i] = more[i]
  BY ConcatPlaces
<1> HIDE DEF both
<1>2. ASSUME NEW i \in DOMAIN both
      PROVE  \/ i \in DOMAIN queue /\ both[i] = queue[i]
             \/ i - Len(queue) \in DOMAIN more /\ both[i] = more[i - Len(queue)]
  <2>1. CASE i <= Len(queue)
    BY <1>1, <2>1
  <2>2. CASE i > Len(queue)
    <3>1. i - Len(queue) \in 1 .. Len(more) /\ i = Len(queue) + (i - Len(queue))
      BY <1>1, <2>2
    <3>2. both[Len(queue) + (i - Len(queue))] = more[i - Len(queue)]
      BY <1>1, <3>1
    <3>. QED  BY <1>1, <3>1, <3>2
  <2>. QED  BY <1>1, <2>1, <2>2
<1>3. ASSUME NEW i \in DOMAIN both, NEW j \in DOMAIN both, both[i].request = both[j].request
      PROVE  i = j
  <2>1. i \in Int /\ j \in Int /\ Len(queue) \in Int
    BY <1>1
  <2>2. CASE i \in DOMAIN queue /\ both[i] = queue[i]
    <3>1. ~ (j - Len(queue) \in DOMAIN more /\ both[j] = more[j - Len(queue)])
      BY <1>3, <2>2 DEF AnswersNone, ToSet
    <3>. QED  BY <1>2, <1>3, <2>2, <3>1 DEF AnsweredOnce
  <2>3. CASE i - Len(queue) \in DOMAIN more /\ both[i] = more[i - Len(queue)]
    <3>1. ~ (j \in DOMAIN queue /\ both[j] = queue[j])
      BY <1>3, <2>3 DEF AnswersNone, ToSet
    <3>2. j - Len(queue) \in DOMAIN more /\ both[j] = more[j - Len(queue)]
      BY <1>2, <3>1
    <3>3. i - Len(queue) = j - Len(queue)
      BY <1>3, <2>3, <3>2 DEF AnsweredOnce
    <3>. QED  BY <2>1, <3>3
  <2>. QED  BY <1>2, <2>2, <2>3
<1>4. ASSUME NEW i \in DOMAIN both PROVE both[i].request \notin still
  BY <1>2 DEF AnsweredOnce, AnswersNone
<1>5. ToSet(both) \subseteq ToSet(queue) \cup ToSet(more)
  BY <1>2 DEF ToSet
<1>6. ToSet(queue) \subseteq ToSet(both)
  <2>1. \A i \in 1 .. Len(queue) : i \in DOMAIN both /\ both[i] = queue[i]
    BY <1>1
  <2>. QED  BY <1>1, <2>1 DEF ToSet
<1>7. ToSet(more) \subseteq ToSet(both)
  <2>1. \A i \in 1 .. Len(more) : Len(queue) + i \in DOMAIN both /\ both[Len(queue) + i] = more[i]
    BY <1>1
  <2>. QED  BY <1>1, <2>1 DEF ToSet
<1>. QED  BY <1>3, <1>4, <1>5, <1>6, <1>7 DEF AnsweredOnce, both

\* One answer more.
LEMMA QueueAppends ==
    ASSUME NEW A, NEW queue \in Seq(A), NEW answer \in A, NEW waiting, NEW still,
           AnsweredOnce(queue, waiting), answer.request \notin still,
           \A j \in DOMAIN queue : queue[j].request # answer.request,
           \A i \in DOMAIN queue : queue[i].request \notin still
    PROVE  AnsweredOnce(Append(queue, answer), still)
<1> DEFINE longer == Append(queue, answer)
<1>1. /\ Len(queue) \in Nat /\ DOMAIN queue = 1 .. Len(queue)
      /\ DOMAIN longer = 1 .. Len(queue) + 1
      /\ \A i \in 1 .. Len(queue) : longer[i] = queue[i]
      /\ longer[Len(queue) + 1] = answer
  OBVIOUS
<1> HIDE DEF longer
<1>2. \A i \in DOMAIN longer :
         \/ i \in DOMAIN queue /\ longer[i] = queue[i]
         \/ i = Len(queue) + 1 /\ longer[i] = answer
  BY <1>1
<1>3. \A i, j \in DOMAIN longer : longer[i].request = longer[j].request => i = j
  BY <1>2 DEF AnsweredOnce
<1>4. \A i \in DOMAIN longer : longer[i].request \notin still
  BY <1>2
<1>. QED  BY <1>3, <1>4 DEF AnsweredOnce, longer

\* Every order of a finite set is one of all its elements, each once.
LEMMA OrderComplete ==
    ASSUME NEW S, IsFiniteSet(S), NEW order \in SetToSeqs(S)
    PROVE  ToSet(order) = S /\ AllDifferent(order)
<1> DEFINE I == 1 .. Cardinality(S)
<1>1. Cardinality(S) \in Nat
  BY FS_CardinalityType
<1>2. order \in [I -> S] /\ \A i, j \in I : i # j => order[i] # order[j]
  BY DEF SetToSeqs
<1>3. order \in Injection(I, S)
  BY <1>2 DEF Injection, IsInjective
<1>4. Cardinality(I) = Cardinality(S)
  BY <1>1, FS_Interval
<1>5. order \in Surjection(I, S)
  BY <1>3, <1>4, FS_Injection
<1>6. S \subseteq ToSet(order)
  BY <1>2, <1>5 DEF Surjection, ToSet
<1>7. ToSet(order) \subseteq S
  BY <1>2 DEF ToSet
<1>. QED  BY <1>2, <1>6, <1>7 DEF AllDifferent

\* A list of requests answered from one set of documents.
AnsweredFrom(requests, documents) ==
    [i \in DOMAIN requests |-> Answer(requests[i], documents)]

\* The answers to a list of different requests answer each of them once.
LEMMA AnswersOnce ==
    ASSUME NEW Request, NEW Document, NEW requests \in Seq(Request), NEW documents,
           AllDifferent(requests), NEW still,
           ToSet(requests) \cap still = {}
    PROVE  /\ AnsweredOnce(AnsweredFrom(requests, documents), still)
           /\ {answer.request : answer \in ToSet(AnsweredFrom(requests, documents))}
                 = ToSet(requests)
<1> DEFINE answers == AnsweredFrom(requests, documents)
<1>1. /\ DOMAIN answers = DOMAIN requests
      /\ \A i \in DOMAIN requests : answers[i].request = requests[i]
  BY DEF Answer, AnsweredFrom
<1> HIDE DEF answers
<1>2. AnsweredOnce(answers, still)
  BY <1>1 DEF AnsweredOnce, AllDifferent, ToSet
<1>3. {answer.request : answer \in ToSet(answers)} = ToSet(requests)
  BY <1>1 DEF ToSet
<1>. QED  BY <1>2, <1>3 DEF answers

\* The library answers what it was asked, once, and owes the rest.
LEMMA StepOwes ==
    ASSUME NEW Request, NEW Document, FirestoreTypeOK(Request, Document),
           NEW d \in Device, FirestoreStep(d), NEW e \in Device, RequestsOnce(e)
    PROVE  RequestsOnce(e)' /\ Outstanding(e)' = Outstanding(e)
<1> DEFINE A == AnswerOf(Request, Document)
<1>1. callbacks[d] \in Seq(A) /\ callbacks \in [Device -> Seq(A)]
      /\ listens \in [Device -> SUBSET Request] /\ IsFiniteSet(listens[d])
      /\ Pending(d) \in SUBSET Document /\ server \in SUBSET Document
      /\ LocalDocuments(d) \in SUBSET Document
  BY DEF FirestoreTypeOK, Pending, LocalDocuments, ToSet
<1>2. CASE e = d /\ (RaiseSynced(d) \/ ListenFails(d))
  <2>0. \E request \in listens[d] : \E answer \in A :
          /\ answer.request = request
          /\ callbacks' = [callbacks EXCEPT ![d] = Append(@, answer)]
          /\ listens' = [listens EXCEPT ![d] = @ \ {request}]
    <3>1. CASE RaiseSynced(d)
      <4>1. PICK request \in listens[d] :
              /\ callbacks' = [callbacks EXCEPT ![d] =
                            Append(@, Answer(request, server \cup Pending(d)))]
              /\ listens' = [listens EXCEPT ![d] = @ \ {request}]
        BY <3>1 DEF RaiseSynced
      <4>2. /\ Answer(request, server \cup Pending(d)) \in A
            /\ Answer(request, server \cup Pending(d)).request = request
        BY <1>1, <4>1 DEF Answer, AnswerOf
      <4>. QED  BY <4>1, <4>2
    <3>2. CASE ListenFails(d)
      <4>1. PICK request \in listens[d] :
              /\ callbacks' = [callbacks EXCEPT ![d] = Append(@, ErrorAnswer(request))]
              /\ listens' = [listens EXCEPT ![d] = @ \ {request}]
        BY <3>2 DEF ListenFails
      <4>2. ErrorAnswer(request) \in A /\ ErrorAnswer(request).request = request
        BY <1>1, <4>1 DEF ErrorAnswer, AnswerOf
      <4>. QED  BY <4>1, <4>2
    <3>. QED  BY <1>2, <3>1, <3>2
  <2>1. PICK request \in listens[d], answer \in A :
          /\ answer.request = request
          /\ callbacks' = [callbacks EXCEPT ![d] = Append(@, answer)]
          /\ listens' = [listens EXCEPT ![d] = @ \ {request}]
    BY <2>0
  <2>2. callbacks'[d] = Append(callbacks[d], answer) /\ listens'[d] = listens[d] \ {request}
    BY <1>1, <2>1
  <2>3. AnsweredOnce(callbacks[d], listens[d])
    BY <1>2 DEF RequestsOnce
  <2>4. /\ \A j \in DOMAIN callbacks[d] : callbacks[d][j].request # answer.request
        /\ \A j \in DOMAIN callbacks[d] : callbacks[d][j].request \notin listens[d] \ {request}
        /\ answer.request \notin listens[d] \ {request}
    BY <2>1, <2>3 DEF AnsweredOnce
  <2>5. AnsweredOnce(Append(callbacks[d], answer), listens[d] \ {request})
    BY <1>1, <2>3, <2>4, QueueAppends
  <2>6. ToSet(Append(callbacks[d], answer)) = ToSet(callbacks[d]) \cup {answer}
    BY <1>1, AppendElements
  <2>7. Outstanding(d)' = Outstanding(d)
    <3>1. Outstanding(d)' = (listens[d] \ {request})
             \cup {one.request : one \in ToSet(callbacks[d]) \cup {answer}}
      BY <2>2, <2>6 DEF Outstanding
    <3>2. Outstanding(d) = listens[d] \cup {one.request : one \in ToSet(callbacks[d])}
      BY DEF Outstanding
    <3>. QED  BY <2>1, <3>1, <3>2
  <2>. QED  BY <1>2, <2>2, <2>5, <2>7 DEF RequestsOnce
<1>3. CASE e = d /\ GoOffline(d)
  <2>1. PICK order \in SetToSeqs(listens[d]) :
          /\ callbacks' = [callbacks EXCEPT ![d] =
                @ \o [i \in DOMAIN order |-> Answer(order[i], LocalDocuments(d))]]
          /\ listens' = [listens EXCEPT ![d] = {}]
    BY <1>3 DEF GoOffline
  <2> DEFINE answers == [i \in DOMAIN order |-> Answer(order[i], LocalDocuments(d))]
  <2>2. order \in Seq(Request)
    BY <1>1, OrderType
  <2>3. ToSet(order) = listens[d] /\ AllDifferent(order)
    BY <1>1, OrderComplete
  <2>4. answers \in Seq(A)
    BY <1>1, <2>2, AnswersType
  <2>5. ToSet(order) \cap {} = {}
    OBVIOUS
  <2>6. /\ AnsweredOnce(answers, {})
        /\ {answer.request : answer \in ToSet(answers)} = listens[d]
    <3>1. answers = AnsweredFrom(order, LocalDocuments(d))
      BY DEF AnsweredFrom
    <3> HIDE DEF answers
    <3>. QED  BY <2>2, <2>3, <2>5, <3>1, AnswersOnce
  <2>7. callbacks'[d] = callbacks[d] \o answers /\ listens'[d] = {}
    BY <1>1, <2>1
  <2> HIDE DEF answers
  <2>8. AnsweredOnce(callbacks[d], listens[d])
    BY <1>3 DEF RequestsOnce
  <2>9. AnswersNone(callbacks[d], {answer.request : answer \in ToSet(answers)})
    BY <2>6, <2>8 DEF AnsweredOnce, AnswersNone
  <2>10. AnswersNone(callbacks[d], {})
    BY DEF AnswersNone
  <2>11. /\ AnsweredOnce(callbacks[d] \o answers, {})
         /\ ToSet(callbacks[d] \o answers) = ToSet(callbacks[d]) \cup ToSet(answers)
    BY <1>1, <2>4, <2>6, <2>8, <2>9, <2>10, QueueGrows
  <2>12. Outstanding(d)' = Outstanding(d)
    <3>1. Outstanding(d)' = {} \cup {one.request : one \in ToSet(callbacks[d]) \cup ToSet(answers)}
      BY <2>7, <2>11 DEF Outstanding
    <3>2. Outstanding(d) = listens[d] \cup {one.request : one \in ToSet(callbacks[d])}
      BY DEF Outstanding
    <3>. QED  BY <2>6, <3>1, <3>2
  <2>. QED  BY <1>3, <2>7, <2>11, <2>12 DEF RequestsOnce
<1>4. CASE UNCHANGED <<listens, callbacks>>
  BY <1>4 DEF RequestsOnce, Outstanding
<1>5. CASE e # d /\ (RaiseSynced(d) \/ GoOffline(d) \/ ListenFails(d))
  <2>1. listens'[e] = listens[e] /\ callbacks'[e] = callbacks[e]
    BY <1>1, <1>5 DEF RaiseSynced, GoOffline, ListenFails
  <2>. QED  BY <2>1 DEF RequestsOnce, Outstanding
<1>. QED
  BY <1>2, <1>3, <1>4, <1>5
     DEF FirestoreStep, LeaveOffline, CommitWrite, AcknowledgeBatch, RejectBatch

\* New requests are added to what it owes.
LEMMA GetDocumentsOwes ==
    ASSUME NEW Request, NEW Document, FirestoreTypeOK(Request, Document),
           NEW d \in Device, NEW requests \in Seq(Request), GetDocuments(d, requests),
           AllDifferent(requests), ToSet(requests) \cap Outstanding(d) = {},
           NEW e \in Device, RequestsOnce(e)
    PROVE  /\ RequestsOnce(e)'
           /\ Outstanding(e)' = Outstanding(e) \cup (IF e = d THEN ToSet(requests) ELSE {})
<1> DEFINE A == AnswerOf(Request, Document)
           answers == [i \in DOMAIN requests |-> Answer(requests[i], LocalDocuments(d))]
<1>1. callbacks[d] \in Seq(A) /\ callbacks \in [Device -> Seq(A)]
      /\ listens \in [Device -> SUBSET Request] /\ LocalDocuments(d) \in SUBSET Document
  BY DEF FirestoreTypeOK, Pending, LocalDocuments, ToSet
<1>2. Outstanding(d) = listens[d] \cup {one.request : one \in ToSet(callbacks[d])}
  BY DEF Outstanding
<1>3. \A j \in DOMAIN callbacks[d] : callbacks[d][j].request \in Outstanding(d)
  BY <1>2 DEF ToSet
<1>4. CASE e # d
  BY <1>1, <1>4 DEF GetDocuments, RequestsOnce, Outstanding
<1>5. CASE e = d /\ offline[d]
  <2>1. ToSet(requests) \cap listens[d] = {}
    BY <1>2
  <2>2. answers \in Seq(A)
    BY <1>1, AnswersType
  <2>3. /\ AnsweredOnce(answers, listens[d])
        /\ {answer.request : answer \in ToSet(answers)} = ToSet(requests)
    <3>1. answers = AnsweredFrom(requests, LocalDocuments(d))
      BY DEF AnsweredFrom
    <3> HIDE DEF answers
    <3>. QED  BY <2>1, <3>1, AnswersOnce
  <2>4. callbacks'[d] = callbacks[d] \o answers /\ listens'[d] = listens[d]
    BY <1>1, <1>5 DEF GetDocuments
  <2> HIDE DEF answers
  <2>5. AnsweredOnce(callbacks[d], listens[d])
    BY <1>5 DEF RequestsOnce
  <2>6. AnswersNone(callbacks[d], {answer.request : answer \in ToSet(answers)})
    BY <1>3, <2>3 DEF AnswersNone
  <2>7. AnswersNone(callbacks[d], listens[d])
    BY <2>5 DEF AnsweredOnce, AnswersNone
  <2>8. /\ AnsweredOnce(callbacks[d] \o answers, listens[d])
        /\ ToSet(callbacks[d] \o answers) = ToSet(callbacks[d]) \cup ToSet(answers)
    BY <1>1, <2>2, <2>3, <2>5, <2>6, <2>7, QueueGrows
  <2>9. Outstanding(d)' = Outstanding(d) \cup ToSet(requests)
    <3>1. Outstanding(d)' = listens[d] \cup {one.request : one \in ToSet(callbacks[d]) \cup ToSet(answers)}
      BY <2>4, <2>8 DEF Outstanding
    <3>. QED  BY <1>2, <2>3, <3>1
  <2>. QED  BY <1>5, <2>4, <2>8, <2>9 DEF RequestsOnce
<1>6. CASE e = d /\ ~ offline[d]
  <2>1. callbacks'[d] = callbacks[d] /\ listens'[d] = listens[d] \cup ToSet(requests)
    BY <1>1, <1>6 DEF GetDocuments
  <2>2. Outstanding(d)' = Outstanding(d) \cup ToSet(requests)
    BY <2>1 DEF Outstanding
  <2>3. \A i \in DOMAIN callbacks[d] : callbacks[d][i].request \notin ToSet(requests)
    BY <1>3
  <2>4. RequestsOnce(d)'
    BY <1>6, <2>1, <2>3 DEF RequestsOnce, AnsweredOnce
  <2>. QED  BY <1>6, <2>2, <2>4
<1>. QED  BY <1>4, <1>5, <1>6

\* A callback settles its own request and no other.
LEMMA CallbackOwes ==
    ASSUME NEW Request, NEW Document, FirestoreTypeOK(Request, Document),
           NEW d \in Device, CallbackRuns(d), UNCHANGED listens,
           NEW e \in Device, RequestsOnce(e)
    PROVE  /\ RequestsOnce(e)'
           /\ Outstanding(e)' = Outstanding(e)
                \ (IF e = d THEN {Head(callbacks[d]).request} ELSE {})
<1> DEFINE A == AnswerOf(Request, Document)
           queue == callbacks[d]
           rest == Tail(callbacks[d])
<1>1. callbacks \in [Device -> Seq(A)] /\ queue \in Seq(A) /\ queue # <<>>
      /\ callbacks' = [callbacks EXCEPT ![d] = Tail(@)]
  BY DEF FirestoreTypeOK, CallbackRuns
<1>2. CASE e # d
  BY <1>1, <1>2 DEF RequestsOnce, Outstanding
<1>3. CASE e = d
  <2>1. callbacks'[d] = rest /\ AnsweredOnce(queue, listens[d])
    BY <1>1, <1>3 DEF RequestsOnce
  <2>2. /\ Len(queue) \in Nat \ {0} /\ DOMAIN queue = 1 .. Len(queue)
        /\ DOMAIN rest = 1 .. Len(queue) - 1
        /\ \A i \in 1 .. Len(queue) - 1 : rest[i] = queue[i + 1]
        /\ Head(queue) = queue[1]
    BY <1>1
  <2>3. ToSet(queue) = {Head(queue)} \cup ToSet(rest)
    BY <1>1, TailElements
  <2> HIDE DEF queue, rest
  <2>4. \A i \in DOMAIN rest :
           i \in Int /\ i + 1 \in DOMAIN queue /\ rest[i] = queue[i + 1] /\ i + 1 # 1
    BY <2>2
  <2>5. 1 \in DOMAIN queue
    BY <2>2
  <2>6. \A i \in DOMAIN rest : rest[i].request # Head(queue).request
    BY <2>1, <2>2, <2>4, <2>5 DEF AnsweredOnce
  <2>7. AnsweredOnce(rest, listens[d])
    <3>1. ASSUME NEW i \in DOMAIN rest, NEW j \in DOMAIN rest, rest[i].request = rest[j].request
          PROVE  i = j
      <4>1. i + 1 = j + 1
        BY <2>1, <2>4, <3>1 DEF AnsweredOnce
      <4>. QED  BY <2>4, <4>1
    <3>2. \A i \in DOMAIN rest : rest[i].request \notin listens[d]
      BY <2>1, <2>4 DEF AnsweredOnce
    <3>. QED  BY <3>1, <3>2 DEF AnsweredOnce
  <2>8. Head(queue).request \notin listens[d]
    BY <2>1, <2>2, <2>5 DEF AnsweredOnce
  <2>9. \A one \in ToSet(rest) : one.request # Head(queue).request
    BY <2>6 DEF ToSet
  <2>10. Outstanding(d)' = listens[d] \cup {one.request : one \in ToSet(rest)}
    BY <2>1 DEF Outstanding
  <2>11. Outstanding(d) = listens[d]
            \cup {one.request : one \in {Head(queue)} \cup ToSet(rest)}
    BY <2>3 DEF Outstanding, queue
  <2>12. Outstanding(d)' = Outstanding(d) \ {Head(queue).request}
    BY <2>8, <2>9, <2>10, <2>11
  <2>. QED  BY <1>3, <2>1, <2>7, <2>12 DEF RequestsOnce, queue
<1>. QED  BY <1>2, <1>3
=============================================================================
