---------------------------- MODULE WriteStreamProofs ----------------------------
(***************************************************************************)
(* Proofs about the write path, for any number of writes, any limit of    *)
(* the pipeline and any number of losses.                                 *)
(*                                                                        *)
(* The invariant WritesInv ties the pipeline to what is under way on the  *)
(* call: the responses the client has not handled are those of its first  *)
(* batches, in their order, and the rest is what the server has still to  *)
(* process.  Everything else follows from that correspondence.            *)
(***************************************************************************)
EXTENDS WriteStream, SequenceTheorems, TLAPS

\* What the worker can have been handed: at most one read, one failure, and the end.
Reading == tasks \in {<<"response">>, <<"response", "failed">>, <<"failed", "response">>}

\* The responses the client has not handled.
Heard == call.responses + (IF Reading THEN 1 ELSE 0)

TaskLists == {<<>>, <<"response">>, <<"response", "failed">>, <<"failed", "response">>,
              <<"failed">>, <<"finished">>}

TasksInv ==
    /\ tasks \in TaskLists
    /\ call.responses > 0 => Reading
    /\ tasks \notin {<<>>, <<"response">>} => call.status # "open"

StreamInv ==
    /\ stream.state # "open" =>
          tasks = <<>> /\ call = NoCall /\ ~ stream.handshake /\ ~ stream.idle
    /\ stream.idle => stream.handshake /\ pipeline = <<>>

\* Until the handshake is complete, it is all that has been sent and answered.
HandshakeInv ==
    stream.state = "open" /\ ~ stream.handshake =>
        \/ call.sent = <<Handshake>> /\ ~ Reading
        \/ /\ call.sent = <<>> /\ tasks = <<"response">> /\ call.responses = 0
           /\ call.status # "permanent"

\* After it, batches are all there is.
BatchesSent == stream.handshake => call.sent \in Seq(Batch)

\* The queue is in the order of the numbers, and the pipeline holds its first batches.
Ordered(q) == \A i, j \in 1 .. Len(q) : i < j => q[i] < q[j]
UpTo(q, n) == \A i \in 1 .. Len(q) : q[i] <= n

QueueInv == Ordered(queue) /\ UpTo(queue, written) /\ IsPrefix(pipeline, queue)

\* The first h batches of the pipeline p are in C.
FirstIn(p, h, C) == h <= Len(p) /\ \A i \in 1 .. h : p[i] \in C

\* The batches of the pipeline p are h batches and those of s.
Rest(p, h, s) == Len(p) = h + Len(s) /\ \A i \in 1 .. Len(s) : p[h + i] = s[i]

\* Unhandled responses are those of the first batches of the pipeline; on a live call the
\* other batches are with the server.
ResponsesInv ==
    stream.handshake =>
        /\ FirstIn(pipeline, Heard, committed)
        /\ call.status = "open" => Rest(pipeline, Heard, call.sent)

\* After a refusal the next one is the refused batch - unless responses were cancelled.
RefusalInv ==
    stream.handshake /\ call.status = "permanent" =>
        IF tasks = <<"finished">>
          THEN pipeline # <<>> /\ Head(pipeline) \in refused \cup unheard
          ELSE Heard < Len(pipeline) /\ pipeline[Heard + 1] \in refused

\* What the server and the histories say of the batches.
BatchesInv ==
    /\ cache \subseteq committed /\ unheard \subseteq committed
    /\ committed \cap refused = {}
    /\ OnlyRefusedDropped
    /\ 1 .. written \subseteq ToSet(queue) \cup cache \cup rejected

\* What is left of an old call are successive batches: those queued before are committed.
LateInv ==
    \A batches \in late :
        /\ batches # <<>> /\ Ordered(batches) /\ UpTo(batches, written)
        /\ \A i \in 1 .. Len(queue) :
              queue[i] <= Last(batches) => queue[i] \in committed \cup ToSet(batches)

CallInv == TasksInv /\ StreamInv /\ HandshakeInv /\ BatchesSent /\ ResponsesInv /\ RefusalInv

WritesInv == TypeOK /\ QueueInv /\ CallInv /\ BatchesInv /\ LateInv

-----------------------------------------------------------------------------
(***************************************************************************)
(* The queue and its prefixes.                                            *)
(***************************************************************************)

\* A prefix, place by place.
LEMMA PrefixByPlace ==
    ASSUME NEW S, NEW s \in Seq(S), NEW t \in Seq(S)
    PROVE  IsPrefix(s, t) <=>
              Len(s) <= Len(t) /\ \A i \in 1 .. Len(s) : s[i] = t[i]
<1>1. ASSUME Len(s) <= Len(t)
      PROVE  /\ SubSeq(s, 1, Len(s)) = s
             /\ SubSeq(t, 1, Len(s)) \in Seq(S)
             /\ Len(SubSeq(t, 1, Len(s))) = Len(s)
             /\ \A i \in 1 .. Len(s) : SubSeq(t, 1, Len(s))[i] = t[i]
  BY <1>1
<1>2. ASSUME Len(s) <= Len(t), \A i \in 1 .. Len(s) : s[i] = t[i]
      PROVE  s = SubSeq(t, 1, Len(s))
  BY <1>1, <1>2, SeqEqual
<1> QED
  BY <1>1, <1>2 DEF IsPrefix

\* Seek finds the place that splits an ordered queue.
LEMMA SeekFinds ==
    ASSUME NEW q \in Seq(Nat), NEW number \in Nat, NEW k \in 1 .. Len(q) + 1,
           \A i \in 1 .. k - 1 : q[i] < number,
           \A i \in k .. Len(q) : q[i] >= number
    PROVE  Seek(q, number) = k
<1> DEFINE Splits(n) ==
        /\ \A i \in 1 .. n - 1 : q[i] < number
        /\ \A i \in n .. Len(q) : q[i] >= number
<1>1. \A i \in 1 .. Len(q) : q[i] \in Nat
  OBVIOUS
<1>2. ASSUME NEW n \in 1 .. Len(q) + 1, Splits(n)
      PROVE  n = k
  <2>1. CASE n < k
    <3>1. n \in 1 .. k - 1 /\ n \in n .. Len(q)
      BY <2>1
    <3> QED
      BY <1>1, <1>2, <3>1
  <2>2. CASE k < n
    <3>1. k \in 1 .. n - 1 /\ k \in k .. Len(q)
      BY <2>2
    <3> QED
      BY <1>1, <1>2, <3>1
  <2> QED
    BY <2>1, <2>2
<1>3. Splits(k)
  OBVIOUS
<1> HIDE DEF Splits
<1>4. k = CHOOSE n \in 1 .. Len(q) + 1 : Splits(n)
  BY <1>2, <1>3
<1> QED
  BY <1>4 DEF Seek, Splits

\* The first batch of an ordered queue is removed from its front.
LEMMA RemoveFromFront ==
    ASSUME NEW q \in Seq(Nat), Ordered(q), q # <<>>
    PROVE  RemoveMutationBatch(q, Head(q)) = Tail(q)
<1>1. Len(q) \in Nat /\ Len(q) >= 1 /\ Head(q) = q[1] /\ \A i \in 1 .. Len(q) : q[i] \in Nat
  OBVIOUS
<1>2. \A i \in 1 .. Len(q) : q[i] >= q[1]
  BY <1>1 DEF Ordered
<1>3. Seek(q, Head(q)) = 1
  <2>1. 1 \in 1 .. Len(q) + 1 /\ Head(q) \in Nat
    BY <1>1
  <2>2. \A i \in 1 .. 1 - 1 : q[i] < Head(q)
    OBVIOUS
  <2>3. \A i \in 1 .. Len(q) : q[i] >= Head(q)
    BY <1>1, <1>2
  <2> QED
    BY <2>1, <2>2, <2>3, SeekFinds
<1>4. SubSeq(q, 1, 1 - 1) = <<>> /\ SubSeq(q, 1 + 1, Len(q)) = Tail(q)
  BY <1>1, SubSeqEmpty, TailIsSubSeq
<1>5. Tail(q) \in Seq(Nat)
  BY <1>1
<1>6. (<<>> \o Tail(q)) = Tail(q)
  BY <1>5, ConcatEmptySeq
<1>7. RemoveAt(q, 1) = Tail(q)
  BY <1>4, <1>6 DEF RemoveAt
<1> QED
  BY <1>3, <1>7 DEF RemoveMutationBatch

\* What follows a prefix of an ordered queue is the rest of the queue.
LEMMA FollowingPrefix ==
    ASSUME NEW q \in Seq(Nat), Ordered(q), NEW p \in Seq(Nat), IsPrefix(p, q)
    PROVE  Following(p, q) = SubSeq(q, Len(p) + 1, Len(q))
<1> DEFINE n == Len(p)
<1>1. /\ n \in Nat /\ Len(q) \in Nat /\ n <= Len(q)
      /\ \A i \in 1 .. n : p[i] = q[i]
      /\ \A i \in 1 .. Len(q) : q[i] \in Nat
  BY PrefixByPlace
<1>2. CASE p = <<>>
  <2>1. SubSeq(q, 1, Len(q)) = q
    BY SubSeqFull
  <2> QED
    BY <1>2, <2>1 DEF Following
<1>3. CASE p # <<>>
  <2>1. n >= 1 /\ Last(p) = q[n]
    BY <1>1, <1>3 DEF Last
  <2>2. ASSUME NEW i \in 1 .. n
        PROVE  q[i] < q[n] + 1
    <3>1. n \in 1 .. Len(q) /\ i \in 1 .. Len(q)
      BY <1>1, <2>1
    <3>2. i = n \/ q[i] < q[n]
      BY <1>1, <3>1 DEF Ordered
    <3> QED
      BY <1>1, <3>1, <3>2
  <2>3. \A i \in n + 1 .. Len(q) : q[i] >= q[n] + 1
    BY <1>1, <2>1 DEF Ordered
  <2>4. Seek(q, q[n] + 1) = n + 1
    <3>1. n + 1 \in 1 .. Len(q) + 1 /\ (n + 1) - 1 = n /\ q[n] + 1 \in Nat
      BY <1>1, <2>1
    <3> HIDE DEF n
    <3> QED
      BY <2>2, <2>3, <3>1, SeekFinds
  <2> QED
    BY <1>3, <2>1, <2>4 DEF Following
<1> QED
  BY <1>2, <1>3

\* A sequence and its tail, place by place.
LEMMA TailByPlace ==
    ASSUME NEW S, NEW s \in Seq(S), s # <<>>
    PROVE  /\ Len(s) \in Nat /\ Len(s) >= 1
           /\ Head(s) = s[1] /\ Head(s) \in S
           /\ Tail(s) \in Seq(S) /\ Len(Tail(s)) = Len(s) - 1
           /\ \A i \in 1 .. Len(s) - 1 : Tail(s)[i] = s[i + 1]
           /\ Len(s) > 1 => Last(Tail(s)) = Last(s)
           /\ ToSet(s) = {Head(s)} \cup ToSet(Tail(s))
<1>1. /\ Len(s) \in Nat /\ Len(s) >= 1
      /\ Head(s) = s[1] /\ Head(s) \in S
      /\ Tail(s) \in Seq(S) /\ Len(Tail(s)) = Len(s) - 1
      /\ \A i \in 1 .. Len(s) - 1 : Tail(s)[i] = s[i + 1]
  OBVIOUS
<1>2. DOMAIN s = 1 .. Len(s) /\ DOMAIN Tail(s) = 1 .. Len(s) - 1
  BY <1>1
<1>3. Len(s) > 1 => Last(Tail(s)) = Last(s)
  BY <1>1 DEF Last
<1>4. \A i \in 1 .. Len(s) : s[i] = Head(s) \/ \E j \in 1 .. Len(s) - 1 : Tail(s)[j] = s[i]
  <2> SUFFICES ASSUME NEW i \in 1 .. Len(s), i # 1
               PROVE  \E j \in 1 .. Len(s) - 1 : Tail(s)[j] = s[i]
    BY <1>1
  <2>1. i - 1 \in 1 .. Len(s) - 1 /\ (i - 1) + 1 = i
    BY <1>1
  <2> QED
    BY <1>1, <2>1
<1>5. \A j \in 1 .. Len(s) - 1 : j + 1 \in 1 .. Len(s)
  BY <1>1
<1>6. 1 \in 1 .. Len(s)
  BY <1>1
<1>7. ToSet(s) \subseteq {Head(s)} \cup ToSet(Tail(s))
  BY <1>2, <1>4 DEF ToSet
<1>8. {Head(s)} \cup ToSet(Tail(s)) \subseteq ToSet(s)
  BY <1>1, <1>2, <1>5, <1>6 DEF ToSet
<1> QED
  BY <1>1, <1>3, <1>7, <1>8

\* The elements of a sequence.
LEMMA ToSetByPlace ==
    ASSUME NEW S, NEW s \in Seq(S)
    PROVE  /\ ToSet(s) \subseteq S
           /\ \A x : x \in ToSet(s) <=> \E i \in 1 .. Len(s) : s[i] = x
<1>1. DOMAIN s = 1 .. Len(s) /\ \A i \in 1 .. Len(s) : s[i] \in S
  OBVIOUS
<1> QED
  BY <1>1 DEF ToSet

\* Two sequences one after the other.
LEMMA ConcatByPlace ==
    ASSUME NEW S, NEW s \in Seq(S), NEW t \in Seq(S)
    PROVE  /\ s \o t \in Seq(S) /\ Len(s \o t) = Len(s) + Len(t)
           /\ \A i \in 1 .. Len(s) : (s \o t)[i] = s[i]
           /\ \A i \in 1 .. Len(t) : (s \o t)[Len(s) + i] = t[i]
OBVIOUS

\* An ordered queue without its first batch, and the pipeline with it.
LEMMA FrontLeaves ==
    ASSUME NEW q \in Seq(Batch), Ordered(q),
           NEW p \in Seq(Batch), IsPrefix(p, q), p # <<>>
    PROVE  /\ q # <<>> /\ Head(p) = Head(q)
           /\ RemoveMutationBatch(q, Head(p)) = Tail(q)
           /\ Ordered(Tail(q)) /\ IsPrefix(Tail(p), Tail(q))
<1>1. Batch \subseteq Nat /\ q \in Seq(Nat)
  BY WritesAssumption DEF Batch
<1>2. /\ Len(p) \in Nat /\ Len(q) \in Nat /\ Len(p) <= Len(q)
      /\ \A i \in 1 .. Len(p) : p[i] = q[i]
  BY PrefixByPlace
<1>3. q # <<>>
  BY <1>2
<1>4. Head(p) = Head(q)
  BY <1>2, <1>3, TailByPlace
<1>5. /\ Tail(q) \in Seq(Batch) /\ Len(Tail(q)) = Len(q) - 1
      /\ \A i \in 1 .. Len(q) - 1 : Tail(q)[i] = q[i + 1]
      /\ Tail(p) \in Seq(Batch) /\ Len(Tail(p)) = Len(p) - 1
      /\ \A i \in 1 .. Len(p) - 1 : Tail(p)[i] = p[i + 1]
  BY <1>3, TailByPlace
<1>6. Ordered(Tail(q))
  BY <1>2, <1>5 DEF Ordered
<1>7. \A i \in 1 .. Len(p) - 1 : Tail(p)[i] = Tail(q)[i]
  BY <1>2, <1>5
<1>8. IsPrefix(Tail(p), Tail(q))
  <2>1. Len(Tail(p)) <= Len(Tail(q)) /\ \A i \in 1 .. Len(Tail(p)) : Tail(p)[i] = Tail(q)[i]
    BY <1>2, <1>5, <1>7
  <2> QED
    BY <1>5, <2>1, PrefixByPlace
<1> QED
  BY <1>1, <1>3, <1>4, <1>6, <1>8, RemoveFromFront

\* The pipeline, filled up, holds the first batches of the queue still.
LEMMA FillPrefix ==
    ASSUME NEW q \in Seq(Batch), Ordered(q),
           NEW p \in Seq(Batch), IsPrefix(p, q), Len(p) <= MaxPendingWrites
    PROVE  /\ Added(p, q) \in Seq(Batch)
           /\ p \o Added(p, q) \in Seq(Batch)
           /\ Len(p \o Added(p, q)) <= MaxPendingWrites
           /\ IsPrefix(p \o Added(p, q), q)
           /\ q # <<>> => p \o Added(p, q) # <<>>
<1> DEFINE n == Len(p)
           rest == SubSeq(q, n + 1, Len(q))
           m == IF MaxPendingWrites - n < Len(rest) THEN MaxPendingWrites - n ELSE Len(rest)
           added == SubSeq(rest, 1, m)
<1>1. Batch \subseteq Nat /\ q \in Seq(Nat) /\ p \in Seq(Nat)
  BY WritesAssumption DEF Batch
<1>2. /\ n \in Nat /\ Len(q) \in Nat /\ n <= Len(q)
      /\ \A i \in 1 .. n : p[i] = q[i]
  BY PrefixByPlace
<1>3. Following(p, q) = rest
  BY <1>1, FollowingPrefix
<1>4. /\ rest \in Seq(Batch) /\ Len(rest) = Len(q) - n
      /\ \A i \in 1 .. Len(q) - n : rest[i] = q[n + i]
  BY <1>2, SubSeqProperties
<1>5. m \in Nat /\ m <= Len(rest) /\ n + m <= MaxPendingWrites
  BY <1>2, <1>4, WritesAssumption
<1>6. /\ added \in Seq(Batch) /\ Len(added) = m
      /\ \A i \in 1 .. m : added[i] = rest[i]
  BY <1>4, <1>5, SubSeqProperties
<1>7. Added(p, q) = added
  BY <1>3 DEF Added, Take
<1> HIDE DEF added, m, rest
<1>8. /\ p \o added \in Seq(Batch) /\ Len(p \o added) = n + m
      /\ \A i \in 1 .. n : (p \o added)[i] = p[i]
      /\ \A i \in 1 .. m : (p \o added)[n + i] = added[i]
  BY <1>6, ConcatByPlace
<1>9. \A i \in 1 .. n + m : (p \o added)[i] = q[i]
  <2> SUFFICES ASSUME NEW i \in 1 .. n + m
               PROVE  (p \o added)[i] = q[i]
    OBVIOUS
  <2>1. CASE i <= n
    <3>1. i \in 1 .. n
      BY <1>2, <1>5, <2>1
    <3> QED
      BY <1>2, <1>8, <3>1
  <2>2. CASE i > n
    <3>1. i - n \in 1 .. m /\ n + (i - n) = i /\ i - n \in 1 .. Len(q) - n
      BY <1>2, <1>4, <1>5, <2>2
    <3> QED
      BY <1>4, <1>6, <1>8, <3>1
  <2>3. i <= n \/ i > n
    BY <1>2, <1>5
  <2> QED
    BY <2>1, <2>2, <2>3
<1>10. IsPrefix(p \o added, q)
  <2>1. n + m <= Len(q)
    BY <1>2, <1>4, <1>5
  <2> QED
    BY <1>2, <1>5, <1>8, <1>9, <2>1, PrefixByPlace
<1>11. q # <<>> => n + m > 0
  BY <1>2, <1>4, WritesAssumption DEF m
<1>12. q # <<>> => p \o added # <<>>
  BY <1>8, <1>11
<1> QED
  BY <1>5, <1>6, <1>7, <1>8, <1>10, <1>12

\* What is sent at the end of the pipeline is sent at the end of the call.
LEMMA RestGrows ==
    ASSUME NEW p \in Seq(Batch), NEW s \in Seq(Batch), NEW a \in Seq(Batch), NEW h \in Nat,
           Rest(p, h, s)
    PROVE  Rest(p \o a, h, s \o a)
<1>1. /\ Len(p) = h + Len(s) /\ Len(s) \in Nat /\ Len(a) \in Nat
      /\ \A i \in 1 .. Len(s) : p[h + i] = s[i]
  BY DEF Rest
<1>2. /\ Len(p \o a) = Len(p) + Len(a) /\ Len(s \o a) = Len(s) + Len(a)
      /\ \A i \in 1 .. Len(p) : (p \o a)[i] = p[i]
      /\ \A i \in 1 .. Len(s) : (s \o a)[i] = s[i]
      /\ \A i \in 1 .. Len(a) : (p \o a)[Len(p) + i] = a[i] /\ (s \o a)[Len(s) + i] = a[i]
  BY ConcatByPlace
<1>3. ASSUME NEW i \in 1 .. Len(s) + Len(a)
      PROVE  (p \o a)[h + i] = (s \o a)[i]
  <2>1. CASE i <= Len(s)
    <3>1. i \in 1 .. Len(s) /\ h + i \in 1 .. Len(p)
      BY <1>1, <2>1
    <3> QED
      BY <1>1, <1>2, <3>1
  <2>2. CASE i > Len(s)
    <3>1. /\ i - Len(s) \in 1 .. Len(a) /\ i = Len(s) + (i - Len(s))
          /\ h + i = Len(p) + (i - Len(s))
      BY <1>1, <2>2
    <3> QED
      BY <1>2, <3>1
  <2>3. i <= Len(s) \/ i > Len(s)
    BY <1>1
  <2> QED
    BY <2>1, <2>2, <2>3
<1>4. Len(p \o a) = h + Len(s \o a)
  BY <1>1, <1>2
<1> QED
  BY <1>2, <1>3, <1>4 DEF Rest

\* A handled response takes the first batch from the pipeline and from the responses.
LEMMA RestAfterResponse ==
    ASSUME NEW p \in Seq(Batch), NEW s \in Seq(Batch), NEW h \in Nat, h >= 1, Rest(p, h, s)
    PROVE  Rest(Tail(p), h - 1, s)
<1>1. /\ Len(p) = h + Len(s) /\ Len(s) \in Nat /\ p # <<>>
      /\ \A i \in 1 .. Len(s) : p[h + i] = s[i]
  BY DEF Rest
<1>2. /\ Len(Tail(p)) = Len(p) - 1
      /\ \A i \in 1 .. Len(p) - 1 : Tail(p)[i] = p[i + 1]
  BY <1>1, TailByPlace
<1>3. ASSUME NEW i \in 1 .. Len(s)
      PROVE  Tail(p)[(h - 1) + i] = s[i]
  <2>1. (h - 1) + i \in 1 .. Len(p) - 1 /\ ((h - 1) + i) + 1 = h + i
    BY <1>1
  <2> QED
    BY <1>1, <1>2, <2>1
<1> QED
  BY <1>1, <1>2, <1>3 DEF Rest

\* A response of the server concerns the first of the batches sent.
LEMMA RestAnswered ==
    ASSUME NEW p \in Seq(Batch), NEW s \in Seq(Batch), NEW h \in Nat, Rest(p, h, s), s # <<>>
    PROVE  /\ h + 1 \in 1 .. Len(p) /\ p[h + 1] = Head(s)
           /\ Rest(p, h + 1, Tail(s))
<1>1. /\ Len(p) = h + Len(s) /\ \A i \in 1 .. Len(s) : p[h + i] = s[i]
  BY DEF Rest
<1>2. /\ Len(s) \in Nat /\ Len(s) >= 1 /\ Head(s) = s[1] /\ Len(Tail(s)) = Len(s) - 1
      /\ \A i \in 1 .. Len(s) - 1 : Tail(s)[i] = s[i + 1]
  BY TailByPlace
<1>3. ASSUME NEW i \in 1 .. Len(s) - 1
      PROVE  p[(h + 1) + i] = Tail(s)[i]
  <2>1. i + 1 \in 1 .. Len(s) /\ h + (i + 1) = (h + 1) + i
    BY <1>2
  <2> QED
    BY <1>1, <1>2, <2>1
<1> QED
  BY <1>1, <1>2, <1>3 DEF Rest

\* The first batches of a pipeline stay the first when it grows.
LEMMA FirstGrows ==
    ASSUME NEW p \in Seq(Batch), NEW a \in Seq(Batch), NEW h \in Nat, NEW C,
           FirstIn(p, h, C)
    PROVE  FirstIn(p \o a, h, C)
<1>1. /\ Len(p \o a) = Len(p) + Len(a) /\ Len(p) \in Nat /\ Len(a) \in Nat
      /\ \A i \in 1 .. Len(p) : (p \o a)[i] = p[i]
  BY ConcatByPlace
<1>2. h <= Len(p) /\ \A i \in 1 .. h : p[i] \in C /\ i \in 1 .. Len(p)
  BY <1>1 DEF FirstIn
<1> QED
  BY <1>1, <1>2 DEF FirstIn

\* A handled response takes the first of them.
LEMMA FirstAfterResponse ==
    ASSUME NEW p \in Seq(Batch), NEW h \in Nat, h >= 1, NEW C, FirstIn(p, h, C)
    PROVE  /\ p # <<>> /\ Head(p) \in C
           /\ FirstIn(Tail(p), h - 1, C)
<1>1. h <= Len(p) /\ Len(p) \in Nat /\ p # <<>> /\ \A i \in 1 .. h : p[i] \in C
  BY DEF FirstIn
<1>2. /\ Head(p) = p[1] /\ Len(Tail(p)) = Len(p) - 1
      /\ \A i \in 1 .. Len(p) - 1 : Tail(p)[i] = p[i + 1]
  BY <1>1, TailByPlace
<1>3. \A i \in 1 .. h - 1 : i \in 1 .. Len(p) - 1 /\ i + 1 \in 1 .. h
  BY <1>1
<1>4. 1 \in 1 .. h
  OBVIOUS
<1> QED
  BY <1>1, <1>2, <1>3, <1>4 DEF FirstIn

-----------------------------------------------------------------------------
(***************************************************************************)
(* Parts of the steps.                                                    *)
(***************************************************************************)
StreamRecord ==
    [state : {"initial", "starting", "open", "error", "backoff"},
     handshake : BOOLEAN, idle : BOOLEAN]
CallRecord ==
    [sent : Seq(Batch \cup {Handshake}), responses : Nat,
     status : {"open", "permanent", "transient"}]

\* A stream without a call is one.
LEMMA NoCallType == NoCall \in CallRecord
<1>1. <<>> \in Seq(Batch \cup {Handshake})
  OBVIOUS
<1> QED
  BY <1>1 DEF NoCall, CallRecord

\* Batches are messages of a call.
LEMMA BatchesAreMessages ==
    ASSUME NEW s \in Seq(Batch)
    PROVE  s \in Seq(Batch \cup {Handshake})
OBVIOUS

\* Starting the stream leaves a call that is open alone, and opens none.
LEMMA StartIfNeededType ==
    ASSUME NEW p, NEW s \in StreamRecord
    PROVE  LET t == StartIfNeeded(p, s) IN
           /\ t \in StreamRecord
           /\ t.handshake = s.handshake /\ t.idle = s.idle
           /\ t.state = "open" <=> s.state = "open"
BY DEF StartIfNeeded, ShouldStartWriteStream, Started, StreamRecord

\* FillWritePipeline extends the pipeline along the queue and, once the handshake of an open
\* stream is complete, sends what it adds.
LEMMA FillStep ==
    ASSUME NEW q \in Seq(Batch), Ordered(q),
           NEW p \in Seq(Batch), IsPrefix(p, q), Len(p) <= MaxPendingWrites,
           NEW s \in StreamRecord, NEW c \in CallRecord,
           s.handshake => c.sent \in Seq(Batch),
           FillWritePipeline(p, q, s, c)
    PROVE  /\ Added(p, q) \in Seq(Batch)
           /\ pipeline' = p \o Added(p, q) /\ pipeline' \in Seq(Batch)
           /\ Len(pipeline') <= MaxPendingWrites /\ IsPrefix(pipeline', q)
           /\ q # <<>> => pipeline' # <<>>
           /\ call' \in CallRecord
           /\ call' = IF s.state = "open" /\ s.handshake
                        THEN [c EXCEPT !.sent = @ \o Added(p, q)] ELSE c
           /\ stream' \in StreamRecord /\ stream'.handshake = s.handshake
           /\ stream'.state = "open" <=> s.state = "open"
           /\ stream'.idle => \/ s.state = "open" /\ pipeline' = <<>>
                              \/ /\ s.idle
                                 /\ ~ (s.state = "open" /\ s.handshake /\ Added(p, q) # <<>>)
<1> DEFINE added == Added(p, q)
           sends == s.state = "open" /\ s.handshake /\ added # <<>>
           idle == IF pipeline' = <<>> THEN s.state = "open" ELSE s.idle /\ ~ sends
           t == [s EXCEPT !.idle = idle]
<1>1. /\ added \in Seq(Batch) /\ p \o added \in Seq(Batch)
      /\ Len(p \o added) <= MaxPendingWrites /\ IsPrefix(p \o added, q)
      /\ q # <<>> => p \o added # <<>>
  BY FillPrefix
<1>2. /\ pipeline' = p \o added
      /\ call' = IF sends THEN [c EXCEPT !.sent = @ \o added] ELSE c
      /\ stream' = StartIfNeeded(pipeline', t)
  BY DEF FillWritePipeline
<1>9. added = Added(p, q)
  OBVIOUS
<1> HIDE DEF added, idle, t, sends
<1>3. idle \in BOOLEAN
  BY DEF StreamRecord, idle, sends
<1>4. t \in StreamRecord /\ t.state = s.state /\ t.handshake = s.handshake /\ t.idle = idle
  BY <1>3 DEF StreamRecord, t
<1>5. /\ stream' \in StreamRecord /\ stream'.handshake = s.handshake
      /\ stream'.state = "open" <=> s.state = "open"
      /\ stream'.idle = idle
  BY <1>2, <1>4, StartIfNeededType
<1>6. /\ call' \in CallRecord
      /\ call' = IF s.state = "open" /\ s.handshake
                   THEN [c EXCEPT !.sent = @ \o added] ELSE c
  <2>1. CASE s.state = "open" /\ s.handshake
    <3>1. c.sent \in Seq(Batch) /\ c.sent \o added \in Seq(Batch)
      BY <1>1, <2>1
    <3>2. added = <<>> => c.sent \o added = c.sent
      BY <3>1
    <3>3. c.sent \o added \in Seq(Batch \cup {Handshake})
      BY <3>1, BatchesAreMessages
    <3>4. [c EXCEPT !.sent = @ \o added] \in CallRecord
      BY <3>3 DEF CallRecord
    <3>5. added = <<>> => [c EXCEPT !.sent = @ \o added] = c
      BY <3>2 DEF CallRecord
    <3>6. call' = [c EXCEPT !.sent = @ \o added]
      BY <1>2, <2>1, <3>5 DEF sends
    <3> QED
      BY <2>1, <3>4, <3>6
  <2>2. CASE ~ (s.state = "open" /\ s.handshake)
    BY <1>2, <2>2 DEF sends
  <2> QED
    BY <2>1, <2>2
<1>7. stream'.idle => \/ s.state = "open" /\ pipeline' = <<>>
                      \/ s.idle /\ ~ sends
  BY <1>5 DEF idle
<1>8. /\ pipeline' = p \o added /\ pipeline' \in Seq(Batch)
      /\ Len(pipeline') <= MaxPendingWrites /\ IsPrefix(pipeline', q)
      /\ q # <<>> => pipeline' # <<>>
  BY <1>1, <1>2
<1>10. call' = IF s.state = "open" /\ s.handshake
                THEN [c EXCEPT !.sent = @ \o Added(p, q)] ELSE c
  BY <1>6, <1>9
<1>11. Added(p, q) \in Seq(Batch) /\ pipeline' = p \o Added(p, q)
  BY <1>1, <1>8, <1>9
<1> QED
  BY <1>5, <1>6, <1>7, <1>8, <1>9, <1>10, <1>11 DEF sends

\* Two tasks one after the other.
LEMMA TwoTasks ==
    ASSUME NEW a, NEW b
    PROVE  <<a>> \o <<b>> = <<a, b>> /\ Append(<<a>>, b) = <<a, b>>
<1>1. <<a>> \in Seq({a, b}) /\ <<b>> \in Seq({a, b}) /\ <<a, b>> \in Seq({a, b})
  OBVIOUS
<1>2. ASSUME NEW s \in Seq({a, b}), Len(s) = 2, s[1] = a, s[2] = b
      PROVE  s = <<a, b>>
  <2>1. Len(<<a, b>>) = 2 /\ \A i \in 1 .. Len(s) : s[i] = <<a, b>>[i]
    BY <1>2
  <2> QED
    BY <1>1, <1>2, <2>1, SeqEqual
<1>3. /\ Append(<<a>>, b) \in Seq({a, b}) /\ Len(Append(<<a>>, b)) = 2
      /\ Append(<<a>>, b)[1] = a /\ Append(<<a>>, b)[2] = b
  BY <1>1
<1>4. /\ <<a>> \o <<b>> \in Seq({a, b}) /\ Len(<<a>> \o <<b>>) = 2
      /\ (<<a>> \o <<b>>)[1] = a /\ (<<a>> \o <<b>>)[2] = b
  BY <1>1
<1> QED
  BY <1>2, <1>3, <1>4

\* The lists of tasks are sequences.
LEMMA TaskListsType == TaskLists \subseteq Seq({"response", "failed", "finished"})
<1> DEFINE T == {"response", "failed", "finished"}
<1>1. <<>> \in Seq(T)
  OBVIOUS
<1>2. \A a \in T : <<a>> \in Seq(T)
  OBVIOUS
<1>3. \A a, b \in T : <<a, b>> \in Seq(T)
  OBVIOUS
<1> QED
  BY <1>1, <1>2, <1>3 DEF TaskLists

\* A response handled is one fewer to handle.
LEMMA ReadStep ==
    ASSUME TypeOK, TasksInv, OnRead,
           call'.responses = AfterRead.responses, call'.status = call.status
    PROVE  /\ Heard \in Nat /\ Heard >= 1 /\ Heard' = Heard - 1
           /\ TasksInv' /\ tasks # <<"finished">> /\ tasks' # <<"finished">>
<1> DEFINE n == call.responses
<1>1. n \in Nat /\ AfterRead.responses = IF n > 0 THEN n - 1 ELSE 0
  BY DEF TypeOK, AfterRead
<1>2. tasks = <<"response">> \/ tasks = <<"response", "failed">>
  BY DEF OnRead, TasksInv, TaskLists
<1>3. Reading /\ Heard = n + 1
  BY <1>2 DEF Reading, Heard
<1>4. Tail(tasks) = <<>> \/ (Tail(tasks) = <<"failed">> /\ call.status # "open")
  <2>1. CASE tasks = <<"response">>
    BY <2>1
  <2>2. CASE tasks = <<"response", "failed">>
    <3>1. tasks \notin {<<>>, <<"response">>}
      BY <2>2
    <3> QED
      BY <2>2, <3>1 DEF TasksInv
  <2> QED
    BY <1>2, <2>1, <2>2
<1>5. tasks' = Tail(tasks) \o (IF n > 0 THEN <<"response">> ELSE <<>>)
  BY DEF OnRead
<1>6. CASE n > 0
  <2>1. \/ tasks' = <<"response">>
        \/ tasks' = <<"failed", "response">> /\ call.status # "open"
    <3>1. tasks' = Tail(tasks) \o <<"response">>
      BY <1>5, <1>6
    <3>2. /\ <<>> \o <<"response">> = <<"response">>
          /\ <<"failed">> \o <<"response">> = <<"failed", "response">>
      BY TwoTasks
    <3> QED
      BY <1>4, <3>1, <3>2
  <2>2. Reading' /\ tasks' \in TaskLists /\ tasks' # <<"finished">>
    BY <2>1 DEF Reading, TaskLists
  <2>3. call'.responses = n - 1 /\ Heard' = (n - 1) + 1
    BY <1>1, <1>6, <2>2 DEF Heard
  <2>4. TasksInv'
    BY <2>1, <2>2 DEF TasksInv, TaskLists
  <2> QED
    BY <1>1, <1>2, <1>3, <2>2, <2>3, <2>4
<1>7. CASE n = 0
  <2>1. \/ tasks' = <<>>
        \/ tasks' = <<"failed">> /\ call.status # "open"
    BY <1>4, <1>5, <1>7
  <2>2. ~ Reading' /\ tasks' \in TaskLists /\ tasks' # <<"finished">>
    BY <2>1 DEF Reading, TaskLists
  <2>3. call'.responses = 0 /\ Heard' = 0
    BY <1>1, <1>7, <2>2 DEF Heard
  <2>4. TasksInv'
    BY <2>1, <2>2, <2>3 DEF TasksInv, TaskLists
  <2> QED
    BY <1>1, <1>2, <1>3, <1>7, <2>2, <2>3, <2>4
<1> QED
  BY <1>1, <1>6, <1>7

\* Without a call there is nothing to relate.
LEMMA CallOver ==
    ASSUME tasks' = <<>>, call' = NoCall,
           stream'.state # "open", ~ stream'.handshake, ~ stream'.idle
    PROVE  CallInv'
<1>1. call'.responses = 0 /\ call'.status = "open"
  BY DEF NoCall
<1> QED
  BY <1>1 DEF CallInv, TasksInv, TaskLists, StreamInv, HandshakeInv, BatchesSent,
     ResponsesInv, RefusalInv

\* Steps that leave the local store alone keep what is known of the batches.
LEMMA StoreKept ==
    ASSUME BatchesInv, LateInv,
           UNCHANGED <<queue, cache, rejected, written, late>>,
           committed \subseteq committed', refused \subseteq refused',
           unheard \subseteq unheard', unheard' \subseteq committed',
           committed' \cap refused' = {}
    PROVE  BatchesInv' /\ LateInv'
<1>1. BatchesInv'
  BY DEF BatchesInv, OnlyRefusedDropped
<1>2. LateInv'
  BY DEF LateInv
<1> QED
  BY <1>1, <1>2

\* The first batch of the queue may leave it once it is acknowledged or given up.
LEMMA FrontSettled ==
    ASSUME TypeOK, QueueInv, BatchesInv, LateInv, queue # <<>>,
           queue' = Tail(queue), UNCHANGED <<written, late, committed, refused, unheard>>,
           cache \subseteq cache', cache' \subseteq committed,
           rejected \subseteq rejected', rejected' \subseteq refused \cup unheard,
           Head(queue) \in cache' \cup rejected'
    PROVE  BatchesInv' /\ LateInv'
<1>1. /\ Tail(queue) \in Seq(Batch) /\ Len(Tail(queue)) = Len(queue) - 1
      /\ \A i \in 1 .. Len(queue) - 1 : Tail(queue)[i] = queue[i + 1]
      /\ ToSet(queue) = {Head(queue)} \cup ToSet(Tail(queue))
      /\ Len(queue) \in Nat
  BY TailByPlace DEF TypeOK
<1>2. BatchesInv'
  BY <1>1 DEF BatchesInv, OnlyRefusedDropped
<1>3. ASSUME NEW batches \in late, NEW i \in 1 .. Len(queue'), queue'[i] <= Last(batches)
      PROVE  queue'[i] \in committed \cup ToSet(batches)
  <2>1. i + 1 \in 1 .. Len(queue) /\ queue'[i] = queue[i + 1]
    BY <1>1
  <2> QED
    BY <1>3, <2>1 DEF LateInv
<1>4. LateInv'
  BY <1>3 DEF LateInv
<1> QED
  BY <1>2, <1>4

\* What a broken call leaves to the server continues the batches committed.
LEMMA BatchesLeft ==
    ASSUME TypeOK, QueueInv, CallInv, BatchesInv, LateInv, LeaveToServer,
           UNCHANGED <<queue, written, committed>>
    PROVE  late' \subseteq Seq(Batch) /\ LateInv'
<1>1. CASE call.status # "open" \/ call.sent \in {<<>>, <<Handshake>>}
  <2>1. late' = late
    BY <1>1 DEF LeaveToServer
  <2> QED
    BY <2>1 DEF LateInv, TypeOK
<1>2. CASE call.status = "open" /\ call.sent \notin {<<>>, <<Handshake>>}
  <2> DEFINE s == call.sent
             n == Len(pipeline)
  <2>1. stream.handshake
    <3>1. call # NoCall
      BY <1>2 DEF NoCall
    <3> QED
      BY <1>2, <3>1 DEF CallInv, StreamInv, HandshakeInv
  <2>2. s \in Seq(Batch) /\ s # <<>> /\ Len(s) \in Nat /\ Len(s) >= 1
    BY <1>2, <2>1 DEF CallInv, BatchesSent
  <2>3. /\ FirstIn(pipeline, Heard, committed) /\ Rest(pipeline, Heard, s)
        /\ Heard \in Nat
    BY <1>2, <2>1 DEF CallInv, ResponsesInv, Heard, TypeOK
  <2>4. /\ n = Heard + Len(s) /\ n \in Nat
        /\ \A i \in 1 .. Heard : pipeline[i] \in committed
        /\ \A i \in 1 .. Len(s) : pipeline[Heard + i] = s[i]
    BY <2>2, <2>3 DEF FirstIn, Rest
  <2>5. /\ Len(queue) \in Nat /\ n <= Len(queue)
        /\ \A i \in 1 .. n : pipeline[i] = queue[i]
        /\ \A i \in 1 .. Len(queue) : queue[i] \in Nat
    <3>1. pipeline \in Seq(Batch) /\ queue \in Seq(Batch) /\ Batch \subseteq Nat
      BY DEF TypeOK, Batch
    <3>2. n <= Len(queue) /\ \A i \in 1 .. n : pipeline[i] = queue[i]
      BY <3>1, PrefixByPlace DEF QueueInv
    <3>3. Len(queue) \in Nat /\ \A i \in 1 .. Len(queue) : queue[i] \in Batch
      BY <3>1
    <3> QED
      BY <3>1, <3>2, <3>3
  <2>6. \A i \in 1 .. Len(s) : Heard + i \in 1 .. Len(queue) /\ s[i] = queue[Heard + i]
    BY <2>2, <2>3, <2>4, <2>5
  <2>7. Ordered(s) /\ UpTo(s, written)
    <3>1. \A i, j \in 1 .. Len(s) : i < j => Heard + i < Heard + j
      BY <2>3
    <3> QED
      BY <2>6, <3>1 DEF QueueInv, Ordered, UpTo
  <2>8. ASSUME NEW i \in 1 .. Len(queue), queue[i] <= Last(s)
        PROVE  queue[i] \in committed \cup ToSet(s)
    <3>1. Last(s) = queue[n] /\ n \in 1 .. Len(queue)
      BY <2>2, <2>4, <2>6 DEF Last
    <3>2. i <= n
      BY <2>5, <2>8, <3>1 DEF QueueInv, Ordered
    <3>3. CASE i <= Heard
      BY <2>3, <2>4, <2>5, <3>2, <3>3
    <3>4. CASE i > Heard
      <4>1. i - Heard \in 1 .. Len(s) /\ Heard + (i - Heard) = i
        BY <2>3, <2>4, <3>2, <3>4
      <4> QED
        BY <2>2, <2>6, <4>1, ToSetByPlace
    <3> QED
      BY <2>3, <3>3, <3>4
  <2>9. late' = late \cup {s}
    BY <1>2 DEF LeaveToServer
  <2> HIDE DEF s
  <2>10. LateInv'
    BY <2>2, <2>7, <2>8, <2>9 DEF LateInv
  <2> QED
    BY <2>2, <2>9, <2>10 DEF TypeOK
<1> QED
  BY <1>1, <1>2

-----------------------------------------------------------------------------
(***************************************************************************)
(* Every step keeps the invariant.                                        *)
(***************************************************************************)
\* The batch written is the last of the queue.
LEMMA QueueGrows ==
    ASSUME TypeOK, QueueInv, written < MaxWrites, written' = written + 1,
           queue' = Append(queue, written')
    PROVE  /\ queue' \in Seq(Batch) /\ queue' # <<>> /\ written' \in 0 .. MaxWrites
           /\ Ordered(queue') /\ UpTo(queue', written') /\ IsPrefix(pipeline, queue')
           /\ ToSet(queue') = ToSet(queue) \cup {written'}
           /\ Len(queue') = Len(queue) + 1
           /\ \A i \in 1 .. Len(queue) : queue'[i] = queue[i]
           /\ queue'[Len(queue) + 1] = written'
<1> DEFINE n == Len(queue)
<1>1. /\ queue \in Seq(Batch) /\ pipeline \in Seq(Batch) /\ n \in Nat
      /\ written \in Nat /\ written' \in Batch /\ written' \in 0 .. MaxWrites
  BY WritesAssumption DEF TypeOK, Batch
<1>2. /\ queue' \in Seq(Batch) /\ Len(queue') = n + 1
      /\ \A i \in 1 .. n : queue'[i] = queue[i]
      /\ queue'[n + 1] = written'
  BY <1>1
<1>3. \A i \in 1 .. n + 1 : i \in 1 .. n \/ i = n + 1
  BY <1>1
<1>4. \A i \in 1 .. n : queue[i] <= written /\ queue[i] \in Nat
  <2>1. \A i \in 1 .. n : queue[i] \in Batch
    BY <1>1
  <2> QED
    BY <2>1 DEF QueueInv, UpTo, Batch
<1>5. UpTo(queue', written')
  BY <1>1, <1>2, <1>3, <1>4 DEF UpTo
<1>6. Ordered(queue')
  <2> SUFFICES ASSUME NEW i \in 1 .. n + 1, NEW j \in 1 .. n + 1, i < j
               PROVE  queue'[i] < queue'[j]
    BY <1>2 DEF Ordered
  <2>1. i \in 1 .. n
    BY <1>1
  <2>2. CASE j \in 1 .. n
    BY <1>2, <2>1, <2>2 DEF QueueInv, Ordered
  <2>3. CASE j = n + 1
    BY <1>1, <1>2, <1>4, <2>1, <2>3
  <2> QED
    BY <1>3, <2>2, <2>3
<1>7. IsPrefix(pipeline, queue')
  <2>1. Len(pipeline) <= n /\ \A i \in 1 .. Len(pipeline) : pipeline[i] = queue[i]
    BY <1>1, PrefixByPlace DEF QueueInv
  <2>2. Len(pipeline) <= n + 1 /\ \A i \in 1 .. Len(pipeline) : pipeline[i] = queue'[i]
    BY <1>1, <1>2, <2>1
  <2> QED
    BY <1>1, <1>2, <2>2, PrefixByPlace
<1>8. ToSet(queue') = ToSet(queue) \cup {written'}
  <2>1. DOMAIN queue = 1 .. n /\ DOMAIN queue' = 1 .. n + 1
    BY <1>1, <1>2
  <2>2. \A i \in 1 .. n : i \in 1 .. n + 1
    BY <1>1
  <2>3. n + 1 \in 1 .. n + 1
    BY <1>1
  <2> HIDE DEF n
  <2>4. ToSet(queue') \subseteq ToSet(queue) \cup {written'}
    BY <1>2, <1>3, <2>1 DEF ToSet
  <2>5. ToSet(queue) \cup {written'} \subseteq ToSet(queue')
    BY <1>2, <2>1, <2>2, <2>3 DEF ToSet
  <2> QED
    BY <2>4, <2>5
<1>9. queue' # <<>>
  BY <1>1, <1>2
<1> QED
  BY <1>1, <1>2, <1>5, <1>6, <1>7, <1>8, <1>9

\* A write of the app keeps the invariant: it is sent at the end of the call, if at all.
LEMMA StepWriteMutations ==
    ASSUME WritesInv, WriteMutations
    PROVE  WritesInv'
<1> DEFINE added == Added(pipeline, queue')
<1>0. TypeOK /\ QueueInv /\ CallInv /\ BatchesInv /\ LateInv
  BY DEF WritesInv
<1>1. /\ queue' \in Seq(Batch) /\ queue' # <<>> /\ written' \in 0 .. MaxWrites
      /\ Ordered(queue') /\ UpTo(queue', written') /\ IsPrefix(pipeline, queue')
      /\ ToSet(queue') = ToSet(queue) \cup {written'}
      /\ Len(queue') = Len(queue) + 1
      /\ \A i \in 1 .. Len(queue) : queue'[i] = queue[i]
      /\ queue'[Len(queue) + 1] = written'
  BY <1>0, QueueGrows DEF WriteMutations
<1>2. pipeline \in Seq(Batch) /\ stream \in StreamRecord /\ call \in CallRecord
  BY <1>0 DEF TypeOK, StreamRecord, CallRecord
<1>3. stream.handshake => stream.state = "open" /\ call.sent \in Seq(Batch)
  BY <1>0 DEF CallInv, StreamInv, BatchesSent
<1>4. /\ added \in Seq(Batch)
      /\ pipeline' = pipeline \o added /\ pipeline' \in Seq(Batch)
      /\ Len(pipeline') <= MaxPendingWrites /\ IsPrefix(pipeline', queue')
      /\ pipeline' # <<>>
      /\ call' \in CallRecord
      /\ call' = IF stream.state = "open" /\ stream.handshake
                   THEN [call EXCEPT !.sent = @ \o added] ELSE call
      /\ stream' \in StreamRecord /\ stream'.handshake = stream.handshake
      /\ stream'.state = "open" <=> stream.state = "open"
      /\ stream'.idle => \/ stream.state = "open" /\ pipeline' = <<>>
                         \/ /\ stream.idle
                            /\ ~ (stream.state = "open" /\ stream.handshake /\ added # <<>>)
  <2>1. FillWritePipeline(pipeline, queue', stream, call) /\ Len(pipeline) <= MaxPendingWrites
    BY <1>0 DEF WriteMutations, TypeOK
  <2> QED
    BY <1>1, <1>2, <1>3, <2>1, FillStep
<1> HIDE DEF added
<1>5. /\ UNCHANGED <<cache, rejected, tasks, late, committed, refused, losses, unheard>>
      /\ written' = written + 1
  BY DEF WriteMutations, serverVars
<1>6. TypeOK'
  BY <1>0, <1>1, <1>4, <1>5 DEF TypeOK, StreamRecord, CallRecord
<1>7. QueueInv'
  BY <1>1, <1>4 DEF QueueInv
<1>8. call'.responses = call.responses /\ call'.status = call.status
  BY <1>2, <1>4 DEF CallRecord
<1>9. (Reading <=> Reading') /\ Heard' = Heard /\ Heard \in Nat
  BY <1>0, <1>5, <1>8 DEF Reading, Heard, TypeOK
<1>10. TasksInv'
  BY <1>0, <1>5, <1>8, <1>9 DEF CallInv, TasksInv
<1>11. ~ stream'.idle
  <2>1. stream.idle => stream.state = "open" /\ stream.handshake /\ pipeline = <<>>
    BY <1>0, <1>3 DEF CallInv, StreamInv
  <2>2. pipeline = <<>> => added # <<>>
    BY <1>4
  <2> QED
    BY <1>4, <2>1, <2>2
<1>12. StreamInv'
  BY <1>0, <1>4, <1>5, <1>11 DEF CallInv, StreamInv
<1>13. HandshakeInv'
  BY <1>0, <1>4, <1>5, <1>9 DEF CallInv, HandshakeInv
<1>14. ASSUME stream'.handshake
       PROVE  /\ stream.handshake /\ call.sent \in Seq(Batch)
              /\ call'.sent = call.sent \o added /\ call'.sent \in Seq(Batch)
  BY <1>2, <1>3, <1>4, <1>14 DEF CallRecord
<1>15. BatchesSent'
  BY <1>14 DEF BatchesSent
<1>16. ResponsesInv'
  <2> SUFFICES ASSUME stream'.handshake
               PROVE  /\ FirstIn(pipeline', Heard, committed)
                      /\ call.status = "open" => Rest(pipeline', Heard, call'.sent)
    BY <1>5, <1>8, <1>9 DEF ResponsesInv
  <2>1. FirstIn(pipeline, Heard, committed)
        /\ (call.status = "open" => Rest(pipeline, Heard, call.sent))
    BY <1>0, <1>14 DEF CallInv, ResponsesInv
  <2>2. FirstIn(pipeline', Heard, committed)
    BY <1>2, <1>4, <1>9, <2>1, FirstGrows
  <2>3. call.status = "open" => Rest(pipeline', Heard, call'.sent)
    BY <1>2, <1>4, <1>9, <1>14, <2>1, RestGrows
  <2> QED
    BY <2>2, <2>3
<1>17. RefusalInv'
  <2> SUFFICES ASSUME stream'.handshake, call.status = "permanent"
               PROVE  IF tasks = <<"finished">>
                        THEN pipeline' # <<>> /\ Head(pipeline') \in refused \cup unheard
                        ELSE Heard < Len(pipeline') /\ pipeline'[Heard + 1] \in refused
    BY <1>5, <1>8, <1>9 DEF RefusalInv
  <2>1. /\ Len(pipeline') = Len(pipeline) + Len(added)
        /\ \A i \in 1 .. Len(pipeline) : pipeline'[i] = pipeline[i]
        /\ Len(pipeline) \in Nat /\ Len(added) \in Nat
    BY <1>2, <1>4, ConcatByPlace
  <2>2. CASE tasks = <<"finished">>
    <3>1. pipeline # <<>> /\ Head(pipeline) \in refused \cup unheard
      BY <1>0, <1>14, <2>2 DEF CallInv, RefusalInv
    <3>2. Head(pipeline') = Head(pipeline)
      BY <1>2, <1>4, <2>1, <3>1, TailByPlace
    <3> QED
      BY <1>4, <2>2, <3>1, <3>2
  <2>3. CASE tasks # <<"finished">>
    <3>1. Heard < Len(pipeline) /\ pipeline[Heard + 1] \in refused
      BY <1>0, <1>14, <2>3 DEF CallInv, RefusalInv
    <3> QED
      BY <1>9, <2>1, <2>3, <3>1
  <2> QED
    BY <2>2, <2>3
<1>18. BatchesInv'
  <2>1. 1 .. written' \subseteq 1 .. written \cup {written'}
    BY <1>0, <1>5 DEF TypeOK
  <2> QED
    BY <1>0, <1>1, <1>5, <2>1 DEF BatchesInv, OnlyRefusedDropped
<1>19. LateInv'
  <2> SUFFICES ASSUME NEW batches \in late
               PROVE  /\ UpTo(batches, written')
                      /\ \A i \in 1 .. Len(queue') : queue'[i] <= Last(batches) =>
                            queue'[i] \in committed \cup ToSet(batches)
    BY <1>0, <1>5 DEF LateInv
  <2>1. /\ batches \in Seq(Batch) /\ Len(batches) \in Nat /\ Len(batches) >= 1
        /\ \A i \in 1 .. Len(batches) : batches[i] \in Nat /\ batches[i] <= written
        /\ written \in Nat /\ Len(queue) \in Nat
    <3>1. batches # <<>> /\ UpTo(batches, written) /\ batches \in Seq(Batch)
      BY <1>0 DEF LateInv, TypeOK
    <3>2. /\ Len(batches) \in Nat /\ Len(batches) >= 1
          /\ \A i \in 1 .. Len(batches) : batches[i] \in Batch
      BY <3>1
    <3>3. written \in Nat /\ Len(queue) \in Nat
      BY <1>0 DEF TypeOK
    <3> QED
      BY <3>1, <3>2, <3>3 DEF UpTo, Batch
  <2>2. UpTo(batches, written')
    BY <1>5, <2>1 DEF UpTo
  <2>3. ASSUME NEW i \in 1 .. Len(queue'), queue'[i] <= Last(batches)
        PROVE  queue'[i] \in committed \cup ToSet(batches)
    <3>1. Last(batches) <= written
      BY <2>1 DEF Last
    <3>2. i # Len(queue) + 1
      BY <1>1, <1>5, <2>1, <2>3, <3>1 DEF Last
    <3>3. i \in 1 .. Len(queue) /\ queue'[i] = queue[i]
      BY <1>1, <2>1, <3>2
    <3> QED
      BY <1>0, <2>3, <3>3 DEF LateInv
  <2> QED
    BY <2>2, <2>3
<1> QED
  BY <1>6, <1>7, <1>10, <1>12, <1>13, <1>15, <1>16, <1>17, <1>18, <1>19 DEF WritesInv, CallInv

\* A new call keeps it: the handshake alone is sent.
LEMMA StepOnWriteStreamOpen ==
    ASSUME WritesInv, OnWriteStreamOpen
    PROVE  WritesInv'
<1>0. TypeOK /\ QueueInv /\ CallInv /\ BatchesInv /\ LateInv
  BY DEF WritesInv
<1>1. /\ stream.state = "starting"
      /\ stream' = [stream EXCEPT !.state = "open"]
      /\ call' = [NoCall EXCEPT !.sent = <<Handshake>>]
      /\ UNCHANGED <<queue, cache, pipeline, rejected, tasks, late, committed, refused,
                     written, losses, unheard>>
  BY DEF OnWriteStreamOpen, localVars, serverVars
<1>2. tasks = <<>> /\ ~ stream.handshake /\ ~ stream.idle
  BY <1>0, <1>1 DEF CallInv, StreamInv
<1>3. call' = [sent |-> <<Handshake>>, responses |-> 0, status |-> "open"]
  BY <1>1 DEF NoCall
<1>4. stream' \in StreamRecord /\ ~ stream'.handshake /\ ~ stream'.idle /\ stream'.state = "open"
  BY <1>0, <1>1, <1>2 DEF StreamRecord, TypeOK
<1>5. TypeOK'
  <2>1. <<Handshake>> \in Seq(Batch \cup {Handshake})
    OBVIOUS
  <2>2. call' \in CallRecord
    BY <1>3, <2>1 DEF CallRecord
  <2> QED
    BY <1>0, <1>1, <1>4, <2>2 DEF TypeOK, StreamRecord, CallRecord
<1>6. QueueInv'
  BY <1>0, <1>1 DEF QueueInv
<1>7. CallInv'
  <2>1. tasks' = <<>> /\ ~ Reading'
    BY <1>1, <1>2 DEF Reading
  <2> QED
    BY <1>3, <1>4, <2>1 DEF CallInv, TasksInv, TaskLists, StreamInv, HandshakeInv, BatchesSent,
       ResponsesInv, RefusalInv
<1>8. BatchesInv' /\ LateInv'
  BY <1>0, <1>1, StoreKept DEF BatchesInv
<1> QED
  BY <1>5, <1>6, <1>7, <1>8 DEF WritesInv

\* The end of the backoff keeps it.
LEMMA StepBackoffElapses ==
    ASSUME WritesInv, BackoffElapses
    PROVE  WritesInv'
<1>0. TypeOK /\ QueueInv /\ CallInv /\ BatchesInv /\ LateInv
  BY DEF WritesInv
<1>1. /\ stream.state = "backoff"
      /\ stream' = [stream EXCEPT !.state = "starting"]
      /\ UNCHANGED <<queue, cache, pipeline, rejected, tasks, call, late, committed, refused,
                     written, losses, unheard>>
  BY DEF BackoffElapses, localVars, serverVars
<1>2. tasks = <<>> /\ call = NoCall /\ ~ stream.handshake /\ ~ stream.idle
  BY <1>0, <1>1 DEF CallInv, StreamInv
<1>3. stream' \in StreamRecord /\ ~ stream'.handshake /\ ~ stream'.idle /\ stream'.state # "open"
  BY <1>0, <1>1, <1>2 DEF StreamRecord, TypeOK
<1>4. TypeOK'
  BY <1>0, <1>1, <1>3 DEF TypeOK, StreamRecord
<1>5. QueueInv'
  BY <1>0, <1>1 DEF QueueInv
<1>6. CallInv'
  BY <1>1, <1>2, <1>3, CallOver
<1>7. BatchesInv' /\ LateInv'
  BY <1>0, <1>1, StoreKept DEF BatchesInv
<1> QED
  BY <1>4, <1>5, <1>6, <1>7 DEF WritesInv

\* The answer to the handshake keeps it: the whole pipeline is sent.
LEMMA StepHandshakeComplete ==
    ASSUME WritesInv, OnWriteStreamHandshakeComplete
    PROVE  WritesInv'
<1>0. TypeOK /\ QueueInv /\ CallInv /\ BatchesInv /\ LateInv
  BY DEF WritesInv
<1>1. /\ OnRead /\ ~ stream.handshake
      /\ stream' = [stream EXCEPT !.handshake = TRUE, !.idle = @ /\ pipeline = <<>>]
      /\ call' = [AfterRead EXCEPT !.sent = @ \o pipeline]
      /\ UNCHANGED <<queue, cache, pipeline, rejected, late, committed, refused,
                     written, losses, unheard>>
  BY DEF OnWriteStreamHandshakeComplete, localVars, serverVars
<1>2. tasks # <<>> /\ Head(tasks) = "response"
  BY <1>1 DEF OnRead
<1>3. /\ stream.state = "open" /\ ~ stream.idle
      /\ call.sent = <<>> /\ tasks = <<"response">> /\ call.responses = 0
      /\ call.status # "permanent"
  <2>1. stream.state = "open" /\ ~ stream.idle
    BY <1>0, <1>1, <1>2 DEF CallInv, StreamInv
  <2>2. Reading
    BY <1>0, <1>2 DEF CallInv, TasksInv, TaskLists, Reading
  <2> QED
    BY <1>0, <1>1, <2>1, <2>2 DEF CallInv, HandshakeInv
<1>4. tasks' = <<>> /\ ~ Reading'
  <2>1. tasks' = <<>>
    BY <1>1, <1>3 DEF OnRead
  <2> QED
    BY <2>1 DEF Reading
<1>5. pipeline \in Seq(Batch) /\ pipeline \in Seq(Batch \cup {Handshake})
  BY <1>0, BatchesAreMessages DEF TypeOK
<1>6. call' = [sent |-> pipeline, responses |-> 0, status |-> call.status]
  <2>1. AfterRead = call
    BY <1>0, <1>3 DEF AfterRead, TypeOK
  <2>2. call.sent \o pipeline = pipeline
    BY <1>3, <1>5
  <2> QED
    BY <1>0, <1>1, <1>3, <2>1, <2>2 DEF TypeOK
<1>7. /\ stream' \in StreamRecord /\ stream'.state = "open"
      /\ stream'.handshake /\ ~ stream'.idle
  <2>1. (stream.idle /\ pipeline = <<>>) = FALSE
    BY <1>3
  <2> QED
    BY <1>0, <1>1, <1>3, <2>1 DEF StreamRecord, TypeOK
<1>8. TypeOK'
  <2>1. call' \in CallRecord
    BY <1>0, <1>5, <1>6 DEF CallRecord, TypeOK
  <2>2. tasks' \in Seq({"response", "failed", "finished"})
    BY <1>4
  <2> QED
    BY <1>0, <1>1, <1>7, <2>1, <2>2 DEF TypeOK, StreamRecord, CallRecord
<1>9. QueueInv'
  BY <1>0, <1>1 DEF QueueInv
<1>10. TasksInv' /\ StreamInv' /\ HandshakeInv' /\ BatchesSent'
  BY <1>4, <1>5, <1>6, <1>7 DEF TasksInv, TaskLists, StreamInv, HandshakeInv, BatchesSent
<1>11. Heard' = 0
  BY <1>4, <1>6 DEF Heard
<1>12. ResponsesInv'
  <2>0. pipeline' = pipeline /\ committed' = committed /\ call'.sent = pipeline
    BY <1>1, <1>6
  <2>1. Len(pipeline) \in Nat /\ FirstIn(pipeline, 0, committed)
    BY <1>5 DEF FirstIn
  <2>2. Rest(pipeline, 0, pipeline)
    BY <1>5 DEF Rest
  <2> QED
    BY <1>11, <2>0, <2>1, <2>2 DEF ResponsesInv
<1>13. RefusalInv'
  BY <1>3, <1>6 DEF RefusalInv
<1>14. BatchesInv' /\ LateInv'
  BY <1>0, <1>1, StoreKept DEF BatchesInv
<1> QED
  BY <1>8, <1>9, <1>10, <1>12, <1>13, <1>14 DEF WritesInv, CallInv

\* An acknowledgement keeps it: the batch and its response leave together.
LEMMA StepMutationResult ==
    ASSUME WritesInv, OnWriteStreamMutationResult
    PROVE  WritesInv'
<1> DEFINE p == Tail(pipeline)
           q == Tail(queue)
           added == Added(p, q)
           c == AfterRead
<1>0. TypeOK /\ QueueInv /\ CallInv /\ BatchesInv /\ LateInv
  BY DEF WritesInv
<1>1. /\ OnRead /\ stream.handshake /\ pipeline # <<>>
      /\ queue' = RemoveMutationBatch(queue, Head(pipeline))
      /\ cache' = cache \cup {Head(pipeline)}
      /\ FillWritePipeline(p, queue', stream, c)
      /\ UNCHANGED <<rejected, late, committed, refused, written, losses, unheard>>
  BY DEF OnWriteStreamMutationResult, serverVars
<1>2. /\ pipeline \in Seq(Batch) /\ queue \in Seq(Batch) /\ stream \in StreamRecord
      /\ Len(pipeline) \in Nat /\ Len(pipeline) <= MaxPendingWrites
      /\ call.responses \in Nat /\ stream.state = "open" /\ call.sent \in Seq(Batch)
  BY <1>0, <1>1 DEF TypeOK, StreamRecord, CallInv, StreamInv, BatchesSent
<1>3. /\ c \in CallRecord /\ c.sent = call.sent /\ c.status = call.status
      /\ c.responses \in Nat
  <2> DEFINE r == IF call.responses > 0 THEN call.responses - 1 ELSE 0
  <2>1. r \in Nat
    BY <1>2
  <2>2. c = [call EXCEPT !.responses = r]
    BY DEF AfterRead
  <2> HIDE DEF r, c
  <2> QED
    BY <1>0, <2>1, <2>2 DEF TypeOK, CallRecord
<1>4. /\ queue # <<>> /\ Head(pipeline) = Head(queue) /\ queue' = q
      /\ Ordered(q) /\ IsPrefix(p, q)
  BY <1>0, <1>1, <1>2, FrontLeaves DEF QueueInv
<1>5. /\ p \in Seq(Batch) /\ Len(p) = Len(pipeline) - 1 /\ q \in Seq(Batch)
      /\ \A i \in 1 .. Len(pipeline) - 1 : p[i] = pipeline[i + 1]
      /\ Len(p) <= MaxPendingWrites /\ Head(queue) \in Batch
      /\ Len(q) = Len(queue) - 1 /\ Len(queue) \in Nat
      /\ \A i \in 1 .. Len(queue) - 1 : q[i] = queue[i + 1]
  BY <1>1, <1>2, <1>4, TailByPlace, WritesAssumption
<1>6. /\ added \in Seq(Batch)
      /\ pipeline' = p \o added /\ pipeline' \in Seq(Batch)
      /\ Len(pipeline') <= MaxPendingWrites /\ IsPrefix(pipeline', q)
      /\ call' \in CallRecord /\ call' = [c EXCEPT !.sent = @ \o added]
      /\ stream' \in StreamRecord /\ stream'.handshake /\ stream'.state = "open"
      /\ stream'.idle => pipeline' = <<>>
  <2>1. ~ stream.idle
    BY <1>0, <1>1 DEF CallInv, StreamInv
  <2>2. FillWritePipeline(p, q, stream, c)
    BY <1>1, <1>4
  <2>3. c.sent \in Seq(Batch)
    BY <1>2, <1>3
  <2> HIDE DEF p, q, c
  <2>4. /\ Added(p, q) \in Seq(Batch)
        /\ pipeline' = p \o Added(p, q) /\ pipeline' \in Seq(Batch)
        /\ Len(pipeline') <= MaxPendingWrites /\ IsPrefix(pipeline', q)
        /\ call' \in CallRecord
        /\ call' = IF stream.state = "open" /\ stream.handshake
                     THEN [c EXCEPT !.sent = @ \o Added(p, q)] ELSE c
        /\ stream' \in StreamRecord /\ stream'.handshake = stream.handshake
        /\ stream'.state = "open" <=> stream.state = "open"
        /\ stream'.idle => \/ stream.state = "open" /\ pipeline' = <<>>
                           \/ /\ stream.idle
                              /\ ~ (stream.state = "open" /\ stream.handshake /\ Added(p, q) # <<>>)
    <3>1. /\ q \in Seq(Batch) /\ p \in Seq(Batch) /\ Len(p) <= MaxPendingWrites
          /\ Ordered(q) /\ IsPrefix(p, q)
          /\ stream \in StreamRecord /\ c \in CallRecord
          /\ stream.handshake => c.sent \in Seq(Batch)
      BY <1>2, <1>3, <1>4, <1>5, <2>3
    <3> QED
      BY <2>2, <3>1, FillStep
  <2> QED
    BY <1>1, <1>2, <2>1, <2>4
<1> HIDE DEF p, q, added, c
<1>7. /\ call'.sent = call.sent \o added /\ call'.sent \in Seq(Batch)
      /\ call'.responses = AfterRead.responses /\ call'.status = call.status
  <2>1. /\ call'.sent = c.sent \o added
        /\ call'.responses = c.responses /\ call'.status = c.status
    BY <1>3, <1>6 DEF CallRecord
  <2>2. c.sent \o added \in Seq(Batch)
    BY <1>2, <1>3, <1>6, ConcatByPlace
  <2> QED
    BY <1>3, <2>1, <2>2 DEF c
<1>8. /\ Heard \in Nat /\ Heard >= 1 /\ Heard' = Heard - 1
      /\ TasksInv' /\ tasks # <<"finished">> /\ tasks' # <<"finished">>
  BY <1>0, <1>1, <1>7, ReadStep DEF CallInv
<1>9. /\ FirstIn(pipeline, Heard, committed)
      /\ call.status = "open" => Rest(pipeline, Heard, call.sent)
  BY <1>0, <1>1 DEF CallInv, ResponsesInv
<1>10. Head(pipeline) \in committed /\ FirstIn(p, Heard - 1, committed)
  BY <1>2, <1>8, <1>9, FirstAfterResponse DEF p
<1>11. TypeOK'
  <2>1. tasks' \in Seq({"response", "failed", "finished"})
    BY <1>8, TaskListsType DEF TasksInv
  <2>2. queue' \in Seq(Batch) /\ cache' \subseteq Batch
    BY <1>0, <1>1, <1>2, <1>4, <1>5 DEF TypeOK
  <2>3. /\ rejected' \subseteq Batch /\ committed' \subseteq Batch /\ refused' \subseteq Batch
        /\ unheard' \subseteq Batch /\ late' \subseteq Seq(Batch)
        /\ written' \in 0 .. MaxWrites /\ losses' \in 0 .. MaxLosses
    BY <1>0, <1>1 DEF TypeOK
  <2> QED
    BY <1>6, <2>1, <2>2, <2>3 DEF TypeOK, StreamRecord, CallRecord
<1>12. QueueInv'
  <2>1. UpTo(q, written)
    <3>1. \A i \in 1 .. Len(queue) - 1 : i + 1 \in 1 .. Len(queue)
      BY <1>5
    <3> QED
      BY <1>0, <1>5, <3>1 DEF QueueInv, UpTo
  <2> QED
    BY <1>1, <1>4, <1>6, <2>1 DEF QueueInv
<1>13. StreamInv' /\ HandshakeInv' /\ BatchesSent'
  BY <1>6, <1>7 DEF StreamInv, HandshakeInv, BatchesSent
<1>14. ResponsesInv'
  <2> DEFINE h == Heard - 1
  <2>0. h \in Nat
    BY <1>8
  <2> HIDE DEF h
  <2>1. FirstIn(pipeline', h, committed)
    BY <1>5, <1>6, <1>10, <2>0, FirstGrows DEF h
  <2>2. ASSUME call.status = "open"
        PROVE  Rest(pipeline', h, call'.sent)
    <3>1. Rest(p, h, call.sent)
      BY <1>2, <1>8, <1>9, <2>2, RestAfterResponse DEF p, h
    <3>2. p \in Seq(Batch) /\ call.sent \in Seq(Batch) /\ added \in Seq(Batch)
      BY <1>2, <1>5, <1>6
    <3>3. Rest(p \o added, h, call.sent \o added)
      BY <2>0, <3>1, <3>2, RestGrows
    <3> QED
      BY <1>6, <1>7, <3>3
  <2> QED
    BY <1>1, <1>7, <1>8, <2>1, <2>2 DEF ResponsesInv, h
<1>15. RefusalInv'
  <2> SUFFICES ASSUME call.status = "permanent"
               PROVE  Heard - 1 < Len(pipeline') /\ pipeline'[Heard] \in refused
    BY <1>1, <1>7, <1>8 DEF RefusalInv
  <2>1. Heard < Len(pipeline) /\ pipeline[Heard + 1] \in refused
    BY <1>0, <1>1, <1>8 DEF CallInv, RefusalInv
  <2>2. Heard \in 1 .. Len(p) /\ p[Heard] = pipeline[Heard + 1]
    BY <1>2, <1>5, <1>8, <2>1
  <2>3. pipeline'[Heard] = p[Heard] /\ Len(pipeline') = Len(p) + Len(added) /\ Len(added) \in Nat
    <3>1. /\ Len(p \o added) = Len(p) + Len(added) /\ Len(added) \in Nat
          /\ \A i \in 1 .. Len(p) : (p \o added)[i] = p[i]
      <4>1. p \in Seq(Batch) /\ added \in Seq(Batch)
        BY <1>5, <1>6
      <4> QED
        BY <4>1, ConcatByPlace
    <3> QED
      BY <1>6, <2>2, <3>1
  <2> QED
    BY <1>2, <1>5, <1>8, <2>1, <2>2, <2>3
<1>16. BatchesInv' /\ LateInv'
  <2>1. cache' \subseteq committed /\ Head(queue) \in cache'
    BY <1>0, <1>1, <1>4, <1>10 DEF BatchesInv
  <2> QED
    BY <1>0, <1>1, <1>4, <2>1, FrontSettled DEF BatchesInv, OnlyRefusedDropped, q
<1> QED
  BY <1>8, <1>11, <1>12, <1>13, <1>14, <1>15, <1>16 DEF WritesInv, CallInv

\* The first failed operation keeps it: the responses it cancels become unheard.
LEMMA StepOnOperationFailed ==
    ASSUME WritesInv, OnOperationFailed
    PROVE  WritesInv'
<1>0. TypeOK /\ QueueInv /\ CallInv /\ BatchesInv /\ LateInv
  BY DEF WritesInv
<1>1. /\ tasks # <<>> /\ Head(tasks) = "failed"
      /\ tasks' = <<"finished">>
      /\ call' = [call EXCEPT !.responses = 0]
      /\ unheard' = IF call.status = "permanent" /\ stream.handshake
                      THEN unheard \cup (committed \cap ToSet(pipeline)) ELSE unheard
      /\ UNCHANGED <<queue, cache, pipeline, rejected, stream, late, committed, refused,
                     written, losses>>
  BY DEF OnOperationFailed, localVars, serverVars
<1>2. tasks = <<"failed">> \/ tasks = <<"failed", "response">>
  BY <1>0, <1>1 DEF CallInv, TasksInv, TaskLists
<1>3. stream.state = "open" /\ call.status # "open" /\ tasks # <<"finished">>
  BY <1>0, <1>1, <1>2 DEF CallInv, StreamInv, TasksInv
<1>4. /\ call' \in CallRecord /\ call'.responses = 0
      /\ call'.sent = call.sent /\ call'.status = call.status
  BY <1>0, <1>1 DEF CallRecord, TypeOK
<1>5. ~ Reading' /\ Heard' = 0
  <2>1. ~ Reading'
    BY <1>1 DEF Reading
  <2> QED
    BY <1>4, <2>1 DEF Heard
<1>6. pipeline \in Seq(Batch) /\ Len(pipeline) \in Nat /\ Heard \in Nat
  BY <1>0 DEF TypeOK, Heard
<1>7. unheard \subseteq unheard' /\ unheard' \subseteq committed /\ unheard' \subseteq Batch
  BY <1>0, <1>1 DEF BatchesInv, TypeOK
<1>8. TypeOK'
  <2>1. tasks' \in Seq({"response", "failed", "finished"})
    BY <1>1
  <2> QED
    BY <1>0, <1>1, <1>4, <1>7, <2>1 DEF TypeOK, StreamRecord, CallRecord
<1>9. QueueInv'
  BY <1>0, <1>1 DEF QueueInv
<1>10. TasksInv' /\ StreamInv' /\ BatchesSent'
  BY <1>0, <1>1, <1>3, <1>4 DEF CallInv, TasksInv, TaskLists, StreamInv, BatchesSent
<1>11. HandshakeInv'
  BY <1>0, <1>1, <1>2, <1>4, <1>5 DEF CallInv, HandshakeInv
<1>12. ResponsesInv'
  <2>1. FirstIn(pipeline, 0, committed)
    BY <1>6 DEF FirstIn
  <2>2. pipeline' = pipeline /\ committed' = committed /\ call'.status # "open"
    BY <1>1, <1>3, <1>4
  <2> QED
    BY <1>5, <2>1, <2>2 DEF ResponsesInv
<1>13. RefusalInv'
  <2> SUFFICES ASSUME stream.handshake, call.status = "permanent"
               PROVE  pipeline # <<>> /\ Head(pipeline) \in refused \cup unheard'
    BY <1>1, <1>4 DEF RefusalInv
  <2>1. Heard < Len(pipeline) /\ pipeline[Heard + 1] \in refused
    BY <1>0, <1>3 DEF CallInv, RefusalInv
  <2>2. pipeline # <<>> /\ Head(pipeline) = pipeline[1]
    BY <1>6, <2>1
  <2>3. CASE Heard = 0
    BY <2>1, <2>2, <2>3
  <2>4. CASE Heard # 0
    <3>1. pipeline[1] \in committed /\ 1 \in 1 .. Len(pipeline)
      BY <1>0, <1>6, <2>1, <2>4 DEF CallInv, ResponsesInv, FirstIn
    <3>2. pipeline[1] \in ToSet(pipeline)
      BY <1>6, <3>1, ToSetByPlace
    <3> QED
      BY <1>1, <2>2, <3>1, <3>2
  <2> QED
    BY <2>3, <2>4
<1>14. BatchesInv' /\ LateInv'
  BY <1>0, <1>1, <1>7, StoreKept DEF BatchesInv
<1> QED
  BY <1>8, <1>9, <1>10, <1>11, <1>12, <1>13, <1>14 DEF WritesInv, CallInv

\* The end of a call with an error.
LEMMA CloseStep ==
    ASSUME TypeOK, QueueInv, BatchesInv, NEW status, CloseWithError(status),
           IsWriteError(status) => Head(pipeline) \in refused \cup unheard
    PROVE  /\ tasks' = <<>> /\ call' = NoCall
           /\ stream' \in StreamRecord /\ stream'.state # "open"
           /\ ~ stream'.handshake /\ ~ stream'.idle
           /\ pipeline' \in Seq(Batch) /\ Len(pipeline') <= MaxPendingWrites
           /\ UNCHANGED <<cache, committed, refused, written>>
           /\ QueueInv' /\ queue' \in Seq(Batch)
           /\ IF IsWriteError(status)
                THEN /\ queue # <<>> /\ queue' = Tail(queue)
                     /\ Head(queue) \in refused \cup unheard
                     /\ rejected' = rejected \cup {Head(queue)}
                ELSE UNCHANGED <<queue, rejected>>
<1>1. /\ tasks' = <<>>
      /\ UNCHANGED <<cache, committed, refused, written>>
  BY DEF CloseWithError
<1>2. /\ pipeline \in Seq(Batch) /\ queue \in Seq(Batch)
      /\ Len(pipeline) \in Nat /\ Len(pipeline) <= MaxPendingWrites
  BY DEF TypeOK
<1>3. /\ Closed("initial") \in StreamRecord /\ Closed("error") \in StreamRecord
      /\ \A state : /\ Closed(state).state = state
                    /\ ~ Closed(state).handshake /\ ~ Closed(state).idle
  BY DEF Closed, StreamRecord
<1>4. CASE IsWriteError(status)
  <2> DEFINE p == Tail(pipeline)
             q == Tail(queue)
  <2>1. /\ pipeline # <<>>
        /\ queue' = RemoveMutationBatch(queue, Head(pipeline))
        /\ rejected' = rejected \cup {Head(pipeline)}
        /\ FillWritePipeline(p, queue', Closed("initial"), NoCall)
    BY <1>4 DEF CloseWithError, IsWriteError, IsPermanentError
  <2>2. /\ queue # <<>> /\ Head(pipeline) = Head(queue) /\ queue' = q
        /\ Ordered(q) /\ IsPrefix(p, q)
    BY <1>2, <2>1, FrontLeaves DEF QueueInv
  <2>3. /\ p \in Seq(Batch) /\ Len(p) <= MaxPendingWrites /\ q \in Seq(Batch)
        /\ Len(q) = Len(queue) - 1 /\ Len(queue) \in Nat
        /\ \A i \in 1 .. Len(queue) - 1 : q[i] = queue[i + 1]
    BY <1>2, <2>1, <2>2, TailByPlace, WritesAssumption
  <2>4. FillWritePipeline(p, q, Closed("initial"), NoCall)
    BY <2>1, <2>2
  <2>5. UpTo(q, written)
    <3>1. \A i \in 1 .. Len(queue) - 1 : i + 1 \in 1 .. Len(queue)
      BY <2>3
    <3> QED
      BY <2>3, <3>1 DEF QueueInv, UpTo
  <2> HIDE DEF p, q
  <2>6. /\ p \in Seq(Batch) /\ Len(p) <= MaxPendingWrites /\ q \in Seq(Batch)
        /\ Ordered(q) /\ IsPrefix(p, q)
        /\ NoCall \in CallRecord /\ Closed("initial") \in StreamRecord
        /\ ~ Closed("initial").handshake
    BY <1>3, <2>2, <2>3, NoCallType
  <2>7. /\ pipeline' \in Seq(Batch) /\ Len(pipeline') <= MaxPendingWrites
        /\ IsPrefix(pipeline', q)
        /\ call' = IF Closed("initial").state = "open" /\ Closed("initial").handshake
                     THEN [NoCall EXCEPT !.sent = @ \o Added(p, q)] ELSE NoCall
        /\ stream' \in StreamRecord /\ stream'.handshake = Closed("initial").handshake
        /\ stream'.state = "open" <=> Closed("initial").state = "open"
        /\ stream'.idle => Closed("initial").state = "open" \/ Closed("initial").idle
    BY <2>4, <2>6, FillStep
  <2>8. call' = NoCall /\ stream'.state # "open" /\ ~ stream'.handshake /\ ~ stream'.idle
    BY <1>3, <2>7
  <2>9. QueueInv'
    BY <1>1, <2>2, <2>5, <2>7 DEF QueueInv
  <2> QED
    BY <1>1, <1>4, <2>1, <2>2, <2>3, <2>7, <2>8, <2>9 DEF q
<1>5. CASE ~ IsWriteError(status)
  <2>1. /\ stream' = StartIfNeeded(pipeline, Closed("error"))
        /\ call' = NoCall
        /\ UNCHANGED <<queue, pipeline, rejected>>
    BY <1>5 DEF CloseWithError
  <2>2. /\ stream' \in StreamRecord /\ stream'.state # "open"
        /\ ~ stream'.handshake /\ ~ stream'.idle
    BY <1>3, <2>1, StartIfNeededType
  <2>3. QueueInv'
    BY <1>1, <2>1 DEF QueueInv
  <2> QED
    BY <1>1, <1>2, <1>5, <2>1, <2>2, <2>3
<1> QED
  BY <1>4, <1>5

\* The end of a call keeps it: what is dropped was refused or unheard.
LEMMA StepOnStreamFinish ==
    ASSUME WritesInv, OnStreamFinish
    PROVE  WritesInv'
<1>0. TypeOK /\ QueueInv /\ CallInv /\ BatchesInv /\ LateInv
  BY DEF WritesInv
<1>1. /\ tasks # <<>> /\ Head(tasks) = "finished" /\ CloseWithError(call.status)
      /\ UNCHANGED <<late, losses, unheard>>
  BY DEF OnStreamFinish
<1>2. IsWriteError(call.status) => Head(pipeline) \in refused \cup unheard
  <2>1. tasks = <<"finished">>
    BY <1>0, <1>1 DEF CallInv, TasksInv, TaskLists
  <2> QED
    BY <1>0, <2>1 DEF CallInv, RefusalInv, IsWriteError, IsPermanentError
<1>3. /\ tasks' = <<>> /\ call' = NoCall
      /\ stream' \in StreamRecord /\ stream'.state # "open"
      /\ ~ stream'.handshake /\ ~ stream'.idle
      /\ pipeline' \in Seq(Batch) /\ Len(pipeline') <= MaxPendingWrites
      /\ UNCHANGED <<cache, committed, refused, written>>
      /\ QueueInv' /\ queue' \in Seq(Batch)
      /\ IF IsWriteError(call.status)
           THEN /\ queue # <<>> /\ queue' = Tail(queue)
                /\ Head(queue) \in refused \cup unheard
                /\ rejected' = rejected \cup {Head(queue)}
           ELSE UNCHANGED <<queue, rejected>>
  BY <1>0, <1>1, <1>2, CloseStep
<1>4. CallInv'
  BY <1>3, CallOver
<1>5. BatchesInv' /\ LateInv'
  <2>1. CASE IsWriteError(call.status)
    BY <1>0, <1>1, <1>3, <2>1, FrontSettled DEF BatchesInv, OnlyRefusedDropped
  <2>2. CASE ~ IsWriteError(call.status)
    BY <1>0, <1>1, <1>3, <2>2, StoreKept DEF BatchesInv
  <2> QED
    BY <2>1, <2>2
<1>6. rejected' \subseteq Batch
  <2>1. queue # <<>> => Head(queue) \in Batch
    BY <1>0 DEF TypeOK
  <2> QED
    BY <1>0, <1>3, <2>1 DEF TypeOK
<1>7. TypeOK'
  <2>1. tasks' \in Seq({"response", "failed", "finished"})
    BY <1>3
  <2> QED
    BY <1>0, <1>1, <1>3, <1>6, <2>1, NoCallType DEF TypeOK, StreamRecord, CallRecord
<1> QED
  BY <1>3, <1>4, <1>5, <1>7 DEF WritesInv

\* A change of connectivity keeps it: nothing is dropped.
LEMMA StepOnConnectivityChange ==
    ASSUME WritesInv, OnConnectivityChange
    PROVE  WritesInv'
<1>0. TypeOK /\ QueueInv /\ CallInv /\ BatchesInv /\ LateInv
  BY DEF WritesInv
<1>1. /\ Loss /\ LeaveToServer /\ CloseWithError("transient") /\ UNCHANGED unheard
  BY DEF OnConnectivityChange
<1>2. ~ IsWriteError("transient")
  BY DEF IsWriteError, IsPermanentError
<1>3. /\ tasks' = <<>> /\ call' = NoCall
      /\ stream' \in StreamRecord /\ stream'.state # "open"
      /\ ~ stream'.handshake /\ ~ stream'.idle
      /\ pipeline' \in Seq(Batch) /\ Len(pipeline') <= MaxPendingWrites
      /\ UNCHANGED <<cache, committed, refused, written, queue, rejected>>
      /\ QueueInv'
  BY <1>0, <1>1, <1>2, CloseStep
<1>4. CallInv'
  BY <1>3, CallOver
<1>5. late' \subseteq Seq(Batch) /\ LateInv'
  BY <1>0, <1>1, <1>3, BatchesLeft
<1>6. BatchesInv'
  BY <1>0, <1>1, <1>3 DEF BatchesInv, OnlyRefusedDropped
<1>7. TypeOK'
  <2>1. tasks' \in Seq({"response", "failed", "finished"})
    BY <1>3
  <2>2. losses' \in 0 .. MaxLosses
    BY <1>0, <1>1, WritesAssumption DEF Loss, TypeOK
  <2> QED
    BY <1>0, <1>1, <1>3, <1>5, <2>1, <2>2, NoCallType DEF TypeOK, StreamRecord, CallRecord
<1> QED
  BY <1>3, <1>4, <1>5, <1>6, <1>7 DEF WritesInv

\* The idle timer keeps it.
LEMMA StepIdleElapses ==
    ASSUME WritesInv, IdleElapses
    PROVE  WritesInv'
<1>0. TypeOK /\ QueueInv /\ CallInv /\ BatchesInv /\ LateInv
  BY DEF WritesInv
<1>1. /\ stream' = StartIfNeeded(pipeline, Closed("initial"))
      /\ call' = NoCall /\ tasks' = <<>>
      /\ UNCHANGED <<queue, cache, pipeline, rejected, late, committed, refused,
                     written, losses, unheard>>
  BY DEF IdleElapses, localVars, serverVars
<1>2. /\ Closed("initial") \in StreamRecord /\ Closed("initial").state = "initial"
      /\ ~ Closed("initial").handshake /\ ~ Closed("initial").idle
  BY DEF Closed, StreamRecord
<1>3. /\ stream' \in StreamRecord /\ stream'.state # "open"
      /\ ~ stream'.handshake /\ ~ stream'.idle
  BY <1>1, <1>2, StartIfNeededType
<1>4. TypeOK'
  <2>1. tasks' \in Seq({"response", "failed", "finished"})
    BY <1>1
  <2> QED
    BY <1>0, <1>1, <1>3, <2>1, NoCallType DEF TypeOK, StreamRecord, CallRecord
<1>5. QueueInv'
  BY <1>0, <1>1 DEF QueueInv
<1>6. CallInv'
  BY <1>1, <1>3, CallOver
<1>7. BatchesInv' /\ LateInv'
  BY <1>0, <1>1, StoreKept DEF BatchesInv
<1> QED
  BY <1>4, <1>5, <1>6, <1>7 DEF WritesInv

\* A restart keeps it: the pipeline is filled from the queue.
LEMMA StepRestart ==
    ASSUME WritesInv, Restart
    PROVE  WritesInv'
<1>0. TypeOK /\ QueueInv /\ CallInv /\ BatchesInv /\ LateInv
  BY DEF WritesInv
<1>1. /\ Loss /\ LeaveToServer /\ tasks' = <<>>
      /\ FillWritePipeline(<<>>, queue, Closed("initial"), NoCall)
      /\ UNCHANGED <<queue, cache, rejected, committed, refused, written, unheard>>
  BY DEF Restart
<1>2. /\ Closed("initial") \in StreamRecord /\ Closed("initial").state = "initial"
      /\ ~ Closed("initial").handshake /\ ~ Closed("initial").idle
  BY DEF Closed, StreamRecord
<1>3. /\ queue \in Seq(Batch) /\ Ordered(queue)
      /\ <<>> \in Seq(Batch) /\ IsPrefix(<<>>, queue) /\ Len(<<>>) <= MaxPendingWrites
  <2>1. queue \in Seq(Batch) /\ Ordered(queue) /\ Len(queue) \in Nat
    BY <1>0 DEF TypeOK, QueueInv
  <2>2. <<>> \in Seq(Batch) /\ Len(<<>>) = 0 /\ \A i \in 1 .. Len(<<>>) : <<>>[i] = queue[i]
    OBVIOUS
  <2>3. Len(<<>>) <= Len(queue)
    BY <2>1, <2>2
  <2>4. IsPrefix(<<>>, queue)
    BY <2>1, <2>2, <2>3, PrefixByPlace
  <2> QED
    BY <2>1, <2>2, <2>4, WritesAssumption
<1>4. /\ pipeline' \in Seq(Batch) /\ Len(pipeline') <= MaxPendingWrites
      /\ IsPrefix(pipeline', queue)
      /\ call' = IF Closed("initial").state = "open" /\ Closed("initial").handshake
                   THEN [NoCall EXCEPT !.sent = @ \o Added(<<>>, queue)] ELSE NoCall
      /\ stream' \in StreamRecord /\ stream'.handshake = Closed("initial").handshake
      /\ stream'.state = "open" <=> Closed("initial").state = "open"
      /\ stream'.idle => Closed("initial").state = "open" \/ Closed("initial").idle
  BY <1>1, <1>2, <1>3, NoCallType, FillStep
<1>5. call' = NoCall /\ stream'.state # "open" /\ ~ stream'.handshake /\ ~ stream'.idle
  BY <1>2, <1>4
<1>6. late' \subseteq Seq(Batch) /\ LateInv'
  BY <1>0, <1>1, BatchesLeft
<1>7. TypeOK'
  <2>1. tasks' \in Seq({"response", "failed", "finished"})
    BY <1>1
  <2>2. losses' \in 0 .. MaxLosses
    BY <1>0, <1>1, WritesAssumption DEF Loss, TypeOK
  <2> QED
    BY <1>0, <1>1, <1>4, <1>5, <1>6, <2>1, <2>2, NoCallType
       DEF TypeOK, StreamRecord, CallRecord
<1>8. QueueInv'
  BY <1>0, <1>1, <1>4 DEF QueueInv
<1>9. CallInv'
  BY <1>1, <1>5, CallOver
<1>10. BatchesInv'
  BY <1>0, <1>1 DEF BatchesInv, OnlyRefusedDropped
<1> QED
  BY <1>6, <1>7, <1>8, <1>9, <1>10 DEF WritesInv

\* On a live call there are no tasks, or a read that has returned.
LEMMA LiveCall ==
    ASSUME TypeOK, CallInv, call.status = "open"
    PROVE  /\ tasks \in {<<>>, <<"response">>} /\ (Reading <=> tasks = <<"response">>)
           /\ tasks = <<>> => call.responses = 0
           /\ tasks # <<"finished">>
           /\ call.sent # <<>> => stream.state = "open"
<1>1. tasks \in {<<>>, <<"response">>}
  BY DEF CallInv, TasksInv
<1>2. Reading <=> tasks = <<"response">>
  BY <1>1 DEF Reading
<1>3. tasks = <<>> => call.responses = 0
  BY <1>2 DEF CallInv, TasksInv, TypeOK
<1>4. call.sent # <<>> => stream.state = "open"
  BY DEF CallInv, StreamInv, NoCall
<1>5. tasks # <<"finished">>
  BY <1>1
<1> QED
  BY <1>1, <1>2, <1>3, <1>4, <1>5

\* A response of the server is one more to handle.
LEMMA RespondStep ==
    ASSUME TypeOK, CallInv, Respond
    PROVE  /\ call.sent # <<>> /\ call.status = "open" /\ stream.state = "open"
           /\ call'.sent = Tail(call.sent) /\ call'.status = "open" /\ call' \in CallRecord
           /\ Heard \in Nat /\ Heard' = Heard + 1
           /\ tasks' = <<"response">> /\ TasksInv'
           /\ tasks = <<>> => call'.responses = 0
<1>1. call.sent # <<>> /\ call.status = "open"
  BY DEF Respond, Serving
<1>2. /\ tasks \in {<<>>, <<"response">>} /\ (Reading <=> tasks = <<"response">>)
      /\ tasks = <<>> => call.responses = 0
      /\ stream.state = "open"
  BY <1>1, LiveCall
<1>3. call \in CallRecord /\ Tail(call.sent) \in Seq(Batch \cup {Handshake})
  BY <1>1 DEF TypeOK, CallRecord
<1>4. CASE tasks = <<>>
  <2>1. tasks' = <<"response">> /\ call' = [call EXCEPT !.sent = Tail(@)]
    BY <1>4 DEF Respond
  <2>2. /\ call' \in CallRecord /\ call'.sent = Tail(call.sent) /\ call'.status = "open"
        /\ call'.responses = 0
    BY <1>1, <1>2, <1>3, <1>4, <2>1 DEF CallRecord
  <2>3. Reading' /\ ~ Reading
    BY <1>2, <1>4, <2>1 DEF Reading
  <2>4. Heard = 0 /\ Heard' = 1
    BY <1>2, <1>4, <2>2, <2>3 DEF Heard
  <2> QED
    BY <1>1, <1>2, <2>1, <2>2, <2>3, <2>4 DEF TasksInv, TaskLists
<1>5. CASE tasks = <<"response">>
  <2>1. tasks' = <<"response">> /\ call' = [call EXCEPT !.sent = Tail(@), !.responses = @ + 1]
    BY <1>5 DEF Respond
  <2>2. /\ call' \in CallRecord /\ call'.sent = Tail(call.sent) /\ call'.status = "open"
        /\ call'.responses = call.responses + 1 /\ call.responses \in Nat
    <3>1. call.responses \in Nat /\ call.responses + 1 \in Nat
      BY <1>3 DEF CallRecord
    <3>2. /\ call'.sent = Tail(call.sent) /\ call'.status = call.status
          /\ call'.responses = call.responses + 1
      BY <1>3, <2>1 DEF CallRecord
    <3>3. call' = [sent |-> Tail(call.sent), responses |-> call.responses + 1,
                   status |-> call.status]
      BY <1>3, <2>1 DEF CallRecord
    <3>4. call.status \in {"open", "permanent", "transient"}
      BY <1>3 DEF CallRecord
    <3> QED
      BY <1>1, <1>3, <3>1, <3>2, <3>3, <3>4 DEF CallRecord
  <2>3. Reading' /\ Reading
    BY <1>5, <2>1 DEF Reading
  <2>4. Heard \in Nat /\ Heard' = Heard + 1
    BY <2>2, <2>3 DEF Heard
  <2>5. tasks # <<>>
    BY <1>5
  <2> QED
    BY <1>1, <1>2, <2>1, <2>2, <2>3, <2>4, <2>5 DEF TasksInv, TaskLists
<1> QED
  BY <1>2, <1>4, <1>5

\* What the server answers tells whether the handshake is complete.
LEMMA FrontOfCall ==
    ASSUME TypeOK, CallInv, call.sent # <<>>, stream.state = "open"
    PROVE  /\ stream.handshake <=> Head(call.sent) # Handshake
           /\ stream.handshake => call.sent \in Seq(Batch)
           /\ ~ stream.handshake => call.sent = <<Handshake>> /\ ~ Reading
<1>1. Handshake \notin Batch
  BY DEF Handshake, Batch
<1>2. CASE stream.handshake
  <2>1. call.sent \in Seq(Batch)
    BY <1>2 DEF CallInv, BatchesSent
  <2>2. Head(call.sent) \in Batch
    BY <2>1
  <2> QED
    BY <1>1, <1>2, <2>1, <2>2
<1>3. CASE ~ stream.handshake
  <2>1. call.sent = <<Handshake>> /\ ~ Reading
    BY <1>3 DEF CallInv, HandshakeInv
  <2> QED
    BY <1>3, <2>1
<1> QED
  BY <1>2, <1>3

\* The answer of the server to the handshake keeps it.
LEMMA StepAcceptHandshake ==
    ASSUME WritesInv, AcceptHandshake
    PROVE  WritesInv'
<1>0. TypeOK /\ QueueInv /\ CallInv /\ BatchesInv /\ LateInv
  BY DEF WritesInv
<1>1. /\ Respond /\ Head(call.sent) = Handshake
      /\ UNCHANGED <<queue, cache, pipeline, rejected, stream, late, committed, refused,
                     written, losses, unheard>>
  BY DEF AcceptHandshake, localVars, serverVars
<1>2. /\ call.sent # <<>> /\ call.status = "open" /\ stream.state = "open"
      /\ call'.sent = Tail(call.sent) /\ call'.status = "open" /\ call' \in CallRecord
      /\ tasks' = <<"response">> /\ TasksInv'
      /\ tasks = <<>> => call'.responses = 0
  BY <1>0, <1>1, RespondStep
<1>3. ~ stream.handshake /\ call.sent = <<Handshake>> /\ ~ Reading
  BY <1>0, <1>1, <1>2, FrontOfCall
<1>4. call'.sent = <<>> /\ call'.responses = 0
  <2>1. tasks = <<>>
    BY <1>0, <1>2, <1>3, LiveCall
  <2> QED
    BY <1>2, <1>3, <2>1
<1>5. TypeOK'
  <2>1. tasks' \in Seq({"response", "failed", "finished"})
    BY <1>2
  <2> QED
    BY <1>0, <1>1, <1>2, <2>1 DEF TypeOK, CallRecord
<1>6. QueueInv'
  BY <1>0, <1>1 DEF QueueInv
<1>7. CallInv'
  BY <1>0, <1>1, <1>2, <1>3, <1>4
     DEF CallInv, StreamInv, HandshakeInv, BatchesSent, ResponsesInv, RefusalInv
<1>8. BatchesInv' /\ LateInv'
  BY <1>0, <1>1, StoreKept DEF BatchesInv
<1> QED
  BY <1>5, <1>6, <1>7, <1>8 DEF WritesInv

\* A batch the server answers is the first of those not answered.
LEMMA AnsweredBatch ==
    ASSUME TypeOK, CallInv, Serving, Head(call.sent) \in Batch
    PROVE  /\ stream.state = "open" /\ stream.handshake
           /\ call.sent \in Seq(Batch) /\ Tail(call.sent) \in Seq(Batch)
           /\ FirstIn(pipeline, Heard, committed)
           /\ Heard + 1 \in 1 .. Len(pipeline) /\ pipeline[Heard + 1] = Head(call.sent)
           /\ Rest(pipeline, Heard + 1, Tail(call.sent))
<1>1. call.sent # <<>> /\ call.status = "open" /\ stream.state = "open"
  BY LiveCall DEF Serving
<1>2. stream.handshake /\ call.sent \in Seq(Batch)
  <2>1. Head(call.sent) # Handshake
    BY DEF Batch, Handshake
  <2> QED
    BY <1>1, <2>1, FrontOfCall
<1>3. FirstIn(pipeline, Heard, committed) /\ Rest(pipeline, Heard, call.sent)
  BY <1>1, <1>2 DEF CallInv, ResponsesInv
<1>4. pipeline \in Seq(Batch) /\ Heard \in Nat
  BY DEF TypeOK, Heard
<1>5. Tail(call.sent) \in Seq(Batch)
  BY <1>1, <1>2
<1> QED
  BY <1>1, <1>2, <1>3, <1>4, <1>5, RestAnswered

\* A commit keeps it: the batch is the first of those without a response.
LEMMA StepCommit ==
    ASSUME WritesInv, Commit
    PROVE  WritesInv'
<1> DEFINE batch == Head(call.sent)
<1>0. TypeOK /\ QueueInv /\ CallInv /\ BatchesInv /\ LateInv
  BY DEF WritesInv
<1>1. /\ Respond /\ batch \in Batch /\ batch \notin refused
      /\ committed' = committed \cup {batch}
      /\ UNCHANGED <<queue, cache, pipeline, rejected, stream, late, refused,
                     written, losses, unheard>>
  BY DEF Commit, localVars
<1>2. /\ call.status = "open"
      /\ call'.sent = Tail(call.sent) /\ call'.status = "open" /\ call' \in CallRecord
      /\ Heard \in Nat /\ Heard' = Heard + 1
      /\ tasks' = <<"response">> /\ TasksInv'
  BY <1>0, <1>1, RespondStep
<1>3. /\ stream.state = "open" /\ stream.handshake
      /\ Tail(call.sent) \in Seq(Batch)
      /\ FirstIn(pipeline, Heard, committed)
      /\ Heard + 1 \in 1 .. Len(pipeline) /\ pipeline[Heard + 1] = batch
      /\ Rest(pipeline, Heard + 1, Tail(call.sent))
  BY <1>0, <1>1, AnsweredBatch DEF Respond
<1> HIDE DEF batch
<1>4. TypeOK'
  <2>1. tasks' \in Seq({"response", "failed", "finished"})
    BY <1>2
  <2> QED
    BY <1>0, <1>1, <1>2, <2>1 DEF TypeOK, CallRecord
<1>5. QueueInv'
  BY <1>0, <1>1 DEF QueueInv
<1>6. FirstIn(pipeline, Heard + 1, committed')
  <2>1. \A i \in 1 .. Heard + 1 : i \in 1 .. Heard \/ i = Heard + 1
    BY <1>2
  <2>2. Heard + 1 <= Len(pipeline)
    BY <1>3
  <2> QED
    BY <1>1, <1>3, <2>1, <2>2 DEF FirstIn
<1>7. StreamInv' /\ HandshakeInv' /\ BatchesSent' /\ RefusalInv'
  BY <1>0, <1>1, <1>2, <1>3 DEF CallInv, StreamInv, HandshakeInv, BatchesSent, RefusalInv
<1>8. ResponsesInv'
  BY <1>1, <1>2, <1>3, <1>6 DEF ResponsesInv
<1>9. BatchesInv' /\ LateInv'
  <2>1. committed' \cap refused' = {} /\ committed \subseteq committed' /\ unheard' \subseteq committed'
    BY <1>0, <1>1 DEF BatchesInv
  <2> QED
    BY <1>0, <1>1, <2>1, StoreKept
<1> QED
  BY <1>2, <1>4, <1>5, <1>7, <1>8, <1>9 DEF WritesInv, CallInv

\* A refusal keeps it: the refused batch comes after those with a response.
LEMMA StepRefuse ==
    ASSUME WritesInv, Refuse
    PROVE  WritesInv'
<1> DEFINE batch == Head(call.sent)
<1>0. TypeOK /\ QueueInv /\ CallInv /\ BatchesInv /\ LateInv
  BY DEF WritesInv
<1>1. /\ Serving /\ batch \in Batch /\ batch \notin committed
      /\ refused' = refused \cup {batch}
      /\ call' = [call EXCEPT !.sent = Tail(@), !.status = "permanent"]
      /\ UNCHANGED <<queue, cache, pipeline, rejected, stream, tasks, late, committed,
                     written, losses, unheard>>
  BY DEF Refuse, localVars
<1>2. /\ stream.state = "open" /\ stream.handshake
      /\ Tail(call.sent) \in Seq(Batch)
      /\ FirstIn(pipeline, Heard, committed)
      /\ Heard + 1 \in 1 .. Len(pipeline) /\ pipeline[Heard + 1] = batch
  BY <1>0, <1>1, AnsweredBatch
<1>3. tasks \in {<<>>, <<"response">>} /\ tasks # <<"finished">>
  BY <1>0, <1>1, LiveCall DEF Serving
<1> HIDE DEF batch
<1>4. /\ call' \in CallRecord /\ call'.sent = Tail(call.sent)
      /\ call'.responses = call.responses /\ call'.status = "permanent"
  <2>1. Tail(call.sent) \in Seq(Batch \cup {Handshake})
    BY <1>2, BatchesAreMessages
  <2> QED
    BY <1>0, <1>1, <2>1 DEF TypeOK, CallRecord
<1>5. Heard' = Heard /\ (Reading <=> Reading') /\ Heard \in Nat
  BY <1>0, <1>1, <1>4 DEF Reading, Heard, TypeOK
<1>6. TypeOK'
  BY <1>0, <1>1, <1>4 DEF TypeOK, CallRecord
<1>7. QueueInv'
  BY <1>0, <1>1 DEF QueueInv
<1>8. CallInv'
  <2>1. TasksInv' /\ StreamInv' /\ HandshakeInv' /\ BatchesSent'
    BY <1>0, <1>1, <1>2, <1>3, <1>4, <1>5
       DEF CallInv, TasksInv, StreamInv, HandshakeInv, BatchesSent
  <2>2. ResponsesInv'
    BY <1>1, <1>2, <1>4, <1>5 DEF ResponsesInv
  <2>3. RefusalInv'
    BY <1>1, <1>2, <1>3, <1>5 DEF RefusalInv
  <2> QED
    BY <2>1, <2>2, <2>3 DEF CallInv
<1>9. BatchesInv' /\ LateInv'
  <2>1. committed' \cap refused' = {}
    BY <1>0, <1>1 DEF BatchesInv
  <2> QED
    BY <1>0, <1>1, <2>1, StoreKept DEF BatchesInv
<1> QED
  BY <1>6, <1>7, <1>8, <1>9 DEF WritesInv

\* A broken connection keeps it: no batch of the call counts as refused.
LEMMA StepConnectionBreaks ==
    ASSUME WritesInv, ConnectionBreaks
    PROVE  WritesInv'
<1>0. TypeOK /\ QueueInv /\ CallInv /\ BatchesInv /\ LateInv
  BY DEF WritesInv
<1>1. /\ stream.state = "open" /\ call.status = "open" /\ Loss /\ LeaveToServer
      /\ UNCHANGED <<queue, cache, pipeline, rejected, stream, tasks, committed, refused,
                     written, unheard>>
  BY DEF ConnectionBreaks, localVars
<1>2. PICK status \in {"transient", "permanent"} :
         /\ status = "permanent" => call.sent = <<Handshake>>
         /\ call' = [call EXCEPT !.status = status]
  BY DEF ConnectionBreaks
<1>3. tasks \in {<<>>, <<"response">>} /\ tasks # <<"finished">>
  BY <1>0, <1>1, LiveCall
<1>4. /\ call' \in CallRecord /\ call'.sent = call.sent
      /\ call'.responses = call.responses /\ call'.status = status
  BY <1>0, <1>2 DEF TypeOK, CallRecord
<1>5. Heard' = Heard /\ (Reading <=> Reading')
  BY <1>1, <1>4 DEF Reading, Heard
<1>6. late' \subseteq Seq(Batch) /\ LateInv'
  BY <1>0, <1>1, BatchesLeft
<1>7. TypeOK'
  <2>1. losses' \in 0 .. MaxLosses
    BY <1>0, <1>1, WritesAssumption DEF Loss, TypeOK
  <2> QED
    BY <1>0, <1>1, <1>4, <1>6, <2>1 DEF TypeOK, CallRecord
<1>8. QueueInv'
  BY <1>0, <1>1 DEF QueueInv
<1>9. CallInv'
  <2>1. TasksInv' /\ StreamInv' /\ BatchesSent'
    BY <1>0, <1>1, <1>2, <1>3, <1>4, <1>5 DEF CallInv, TasksInv, StreamInv, BatchesSent
  <2>2. HandshakeInv'
    <3>1. call.sent = <<>> => status # "permanent"
      BY <1>2
    <3> QED
      BY <1>0, <1>1, <1>4, <1>5, <3>1 DEF CallInv, HandshakeInv
  <2>3. ResponsesInv'
    BY <1>0, <1>1, <1>2, <1>4, <1>5 DEF CallInv, ResponsesInv
  <2>4. stream.handshake => status # "permanent"
    <3> SUFFICES ASSUME stream.handshake, call.sent = <<Handshake>>
                 PROVE  FALSE
      BY <1>2
    <3>1. call.sent # <<>> /\ Head(call.sent) = Handshake
      OBVIOUS
    <3> QED
      BY <1>0, <1>1, <3>1, FrontOfCall
  <2>5. RefusalInv'
    BY <1>1, <1>4, <2>4 DEF RefusalInv
  <2> QED
    BY <2>1, <2>2, <2>3, <2>5 DEF CallInv
<1>10. BatchesInv'
  BY <1>0, <1>1 DEF BatchesInv, OnlyRefusedDropped
<1> QED
  BY <1>6, <1>7, <1>8, <1>9, <1>10 DEF WritesInv

\* A commit of an old call keeps it.
LEMMA StepLateCommit ==
    ASSUME WritesInv, LateCommit
    PROVE  WritesInv'
<1>0. TypeOK /\ QueueInv /\ CallInv /\ BatchesInv /\ LateInv
  BY DEF WritesInv
<1>1. UNCHANGED <<queue, cache, pipeline, rejected, stream, tasks, call, refused,
                  written, losses, unheard>>
  BY DEF LateCommit, localVars
<1>2. PICK batches \in late :
         /\ Head(batches) \notin refused
         /\ committed' = committed \cup {Head(batches)}
         /\ late' = ((late \ {batches}) \cup {Tail(batches)}) \ {<<>>}
  BY DEF LateCommit
<1>3. /\ batches \in Seq(Batch) /\ batches # <<>>
      /\ Ordered(batches) /\ UpTo(batches, written)
      /\ \A i \in 1 .. Len(queue) :
            queue[i] <= Last(batches) => queue[i] \in committed \cup ToSet(batches)
  BY <1>0 DEF TypeOK, LateInv
<1> DEFINE t == Tail(batches)
<1>4. /\ Len(batches) \in Nat /\ Len(batches) >= 1
      /\ Head(batches) = batches[1] /\ Head(batches) \in Batch
      /\ t \in Seq(Batch) /\ Len(t) = Len(batches) - 1
      /\ \A i \in 1 .. Len(batches) - 1 : t[i] = batches[i + 1]
      /\ Len(batches) > 1 => Last(t) = Last(batches)
      /\ ToSet(batches) = {Head(batches)} \cup ToSet(t)
  BY <1>3, TailByPlace
<1>5. committed \subseteq committed' /\ committed' \subseteq Batch /\ committed' \cap refused = {}
  BY <1>0, <1>2, <1>4 DEF TypeOK, BatchesInv
<1> HIDE DEF t
<1>6. late' = ((late \ {batches}) \cup {t}) \ {<<>>}
  BY <1>2 DEF t
<1>7. TypeOK'
  BY <1>0, <1>1, <1>4, <1>5, <1>6 DEF TypeOK
<1>8. QueueInv'
  BY <1>0, <1>1 DEF QueueInv
<1>9. CallInv'
  <2>1. (Reading <=> Reading') /\ Heard' = Heard
    BY <1>1 DEF Reading, Heard
  <2>2. TasksInv' /\ StreamInv' /\ HandshakeInv' /\ BatchesSent' /\ RefusalInv'
    BY <1>0, <1>1, <2>1
       DEF CallInv, TasksInv, StreamInv, HandshakeInv, BatchesSent, RefusalInv
  <2>3. ResponsesInv'
    BY <1>0, <1>1, <1>5, <2>1 DEF CallInv, ResponsesInv, FirstIn
  <2> QED
    BY <2>2, <2>3 DEF CallInv
<1>10. BatchesInv'
  BY <1>0, <1>1, <1>5 DEF BatchesInv, OnlyRefusedDropped
<1>11. ASSUME t # <<>>
       PROVE  /\ Ordered(t) /\ UpTo(t, written)
              /\ \A i \in 1 .. Len(queue) :
                    queue[i] <= Last(t) => queue[i] \in committed' \cup ToSet(t)
  <2>1. Len(batches) > 1
    BY <1>4, <1>11
  <2>2. \A i \in 1 .. Len(t) : i + 1 \in 1 .. Len(batches) /\ t[i] = batches[i + 1]
    BY <1>4
  <2>3. Ordered(t)
    <3>1. \A i, j \in 1 .. Len(t) : i < j => i + 1 < j + 1
      BY <1>4
    <3> QED
      BY <1>3, <2>2, <3>1 DEF Ordered
  <2>4. UpTo(t, written)
    BY <1>3, <2>2 DEF UpTo
  <2> QED
    BY <1>2, <1>3, <1>4, <2>1, <2>3, <2>4
<1>12. LateInv'
  <2> SUFFICES ASSUME NEW b \in late'
               PROVE  /\ b # <<>> /\ Ordered(b) /\ UpTo(b, written)
                      /\ \A i \in 1 .. Len(queue) :
                            queue[i] <= Last(b) => queue[i] \in committed' \cup ToSet(b)
    BY <1>1 DEF LateInv
  <2>1. b # <<>> /\ (b \in late \/ b = t)
    BY <1>6
  <2>2. CASE b \in late
    BY <1>0, <1>5, <2>2 DEF LateInv
  <2>3. CASE b = t
    BY <1>11, <2>1, <2>3
  <2> QED
    BY <2>1, <2>2, <2>3
<1> QED
  BY <1>7, <1>8, <1>9, <1>10, <1>12 DEF WritesInv

\* A noticed failure keeps it.
LEMMA StepOperationFails ==
    ASSUME WritesInv, OperationFails
    PROVE  WritesInv'
<1>0. TypeOK /\ QueueInv /\ CallInv /\ BatchesInv /\ LateInv
  BY DEF WritesInv
<1>1. /\ call.status # "open" /\ ToSet(tasks) \cap {"failed", "finished"} = {}
      /\ tasks = <<>> \/ call.sent # <<>>
      /\ tasks' = Append(tasks, "failed")
      /\ UNCHANGED <<queue, cache, pipeline, rejected, stream, call, late, committed, refused,
                     written, losses, unheard>>
  BY DEF OperationFails, localVars, serverVars
<1>2. stream.state = "open"
  BY <1>0, <1>1 DEF CallInv, StreamInv, NoCall
<1>3. tasks = <<>> \/ tasks = <<"response">>
  <2>1. tasks \in TaskLists /\ tasks \in Seq({"response", "failed", "finished"})
    BY <1>0 DEF CallInv, TasksInv, TypeOK
  <2>2. \A i \in 1 .. Len(tasks) : tasks[i] \notin {"failed", "finished"}
    BY <1>1, <2>1, ToSetByPlace
  <2>3. Len(tasks) >= 1 => tasks[1] \notin {"failed", "finished"}
    BY <2>1, <2>2
  <2>4. Len(tasks) >= 2 => tasks[2] \notin {"failed", "finished"}
    BY <2>1, <2>2
  <2> QED
    BY <2>1, <2>3, <2>4 DEF TaskLists
<1>4. /\ tasks = <<>> => tasks' = <<"failed">>
      /\ tasks = <<"response">> => tasks' = <<"response", "failed">>
  <2>1. Append(<<>>, "failed") = <<"failed">>
    OBVIOUS
  <2> QED
    BY <1>1, <2>1, TwoTasks
<1>5. /\ Reading <=> tasks = <<"response">>
      /\ Reading <=> Reading'
      /\ tasks # <<"finished">> /\ tasks' # <<"finished">> /\ tasks' \in TaskLists
  BY <1>3, <1>4 DEF Reading, TaskLists
<1>6. Heard' = Heard
  BY <1>1, <1>5 DEF Heard
<1>7. TypeOK'
  BY <1>0, <1>1, <1>5, TaskListsType DEF TypeOK
<1>8. QueueInv'
  BY <1>0, <1>1 DEF QueueInv
<1>9. CallInv'
  <2>1. TasksInv' /\ StreamInv' /\ BatchesSent'
    BY <1>0, <1>1, <1>2, <1>5 DEF CallInv, TasksInv, StreamInv, BatchesSent
  <2>2. HandshakeInv'
    BY <1>0, <1>1, <1>3, <1>5 DEF CallInv, HandshakeInv
  <2>3. ResponsesInv'
    BY <1>0, <1>1, <1>6 DEF CallInv, ResponsesInv
  <2>4. RefusalInv'
    BY <1>0, <1>1, <1>5, <1>6 DEF CallInv, RefusalInv
  <2> QED
    BY <2>1, <2>2, <2>3, <2>4 DEF CallInv
<1>10. BatchesInv' /\ LateInv'
  BY <1>0, <1>1, StoreKept DEF BatchesInv
<1> QED
  BY <1>7, <1>8, <1>9, <1>10 DEF WritesInv

\* Every step keeps the invariant.
LEMMA WritesInvStep ==
    ASSUME WritesInv, [Next]_vars
    PROVE  WritesInv'
<1>1. CASE Worker
  BY <1>1, StepOnWriteStreamOpen, StepBackoffElapses, StepHandshakeComplete,
     StepMutationResult, StepOnOperationFailed, StepOnStreamFinish DEF Worker
<1>2. CASE Server
  BY <1>2, StepAcceptHandshake, StepCommit, StepRefuse DEF Server
<1>3. CASE UNCHANGED vars
  <2>1. UNCHANGED <<queue, cache, pipeline, rejected, stream, tasks, call, late, committed,
                    refused, written, losses, unheard>>
    BY <1>3 DEF vars, localVars, serverVars
  <2>2. (Reading <=> Reading') /\ Heard' = Heard
    BY <2>1 DEF Reading, Heard
  <2>3. TypeOK' /\ QueueInv' /\ BatchesInv' /\ LateInv'
    BY <2>1 DEF WritesInv, TypeOK, QueueInv, BatchesInv, OnlyRefusedDropped, LateInv
  <2>4. CallInv'
    BY <2>1, <2>2 DEF WritesInv, CallInv, TasksInv, StreamInv, HandshakeInv, BatchesSent,
       ResponsesInv, RefusalInv
  <2> QED
    BY <2>3, <2>4 DEF WritesInv
<1> QED
  BY <1>1, <1>2, <1>3, StepWriteMutations, StepIdleElapses, StepOnConnectivityChange,
     StepRestart, StepConnectionBreaks, StepLateCommit, StepOperationFails DEF Next

\* The invariant holds throughout.
LEMMA WritesInvariant == Spec => []WritesInv
<1>1. Init => WritesInv
  <2> SUFFICES ASSUME Init
               PROVE  WritesInv
    OBVIOUS
  <2>1. /\ queue = <<>> /\ pipeline = <<>> /\ tasks = <<>> /\ call = NoCall
        /\ cache = {} /\ rejected = {} /\ late = {} /\ committed = {} /\ refused = {}
        /\ unheard = {} /\ written = 0 /\ losses = 0
        /\ stream = [state |-> "initial", handshake |-> FALSE, idle |-> FALSE]
    BY DEF Init
  <2>2. /\ <<>> \in Seq(Batch) /\ Len(<<>>) = 0
        /\ <<>> \in Seq({"response", "failed", "finished"})
    OBVIOUS
  <2>3. TypeOK
    BY <2>1, <2>2, NoCallType, WritesAssumption DEF TypeOK, CallRecord
  <2>4. QueueInv
    <3>1. IsPrefix(<<>>, <<>>)
      BY SubSeqEmpty DEF IsPrefix
    <3> QED
      BY <2>1, <2>2, <3>1 DEF QueueInv, Ordered, UpTo
  <2>5. CallInv
    BY <2>1 DEF NoCall, CallInv, TasksInv, TaskLists, StreamInv, HandshakeInv, BatchesSent,
       ResponsesInv, RefusalInv
  <2>6. BatchesInv /\ LateInv
    BY <2>1 DEF BatchesInv, OnlyRefusedDropped, LateInv
  <2> QED
    BY <2>3, <2>4, <2>5, <2>6 DEF WritesInv
<1>2. WritesInv /\ [Next]_vars => WritesInv'
  BY WritesInvStep
<1> QED
  BY <1>1, <1>2, PTL DEF Spec

-----------------------------------------------------------------------------
(***************************************************************************)
(* What the write path promises.                                          *)
(***************************************************************************)

\* A response in hand is one of the first batch of the pipeline, which is committed.
LEMMA ResponseInHand ==
    ASSUME TypeOK, CallInv, tasks # <<>>, Head(tasks) = "response", stream.handshake
    PROVE  pipeline # <<>> /\ Head(pipeline) \in committed
<1>1. Reading
  BY DEF CallInv, TasksInv, TaskLists, Reading
<1>2. Heard \in Nat /\ Heard >= 1
  BY <1>1 DEF Heard, TypeOK
<1>3. FirstIn(pipeline, Heard, committed) /\ pipeline \in Seq(Batch)
  BY DEF CallInv, ResponsesInv, TypeOK
<1> QED
  BY <1>2, <1>3, FirstAfterResponse

\* The state of the write path is well typed; the pipeline keeps to its limit
\* (remote_store.mm:384-387).
THEOREM WritesTypeOK == Spec => []TypeOK
<1>1. WritesInv => TypeOK
  BY DEF WritesInv
<1> QED
  BY <1>1, WritesInvariant, PTL

\* No HARD_ASSERT of the write path fails (remote_store.mm:365-455).
THEOREM WritesNoAssertionFails == Spec => []NoAssertionFails
<1>1. WritesInv => NoAssertionFails
  <2> SUFFICES ASSUME WritesInv
               PROVE  NoAssertionFails
    OBVIOUS
  <2>1. TypeOK /\ QueueInv /\ CallInv
    BY DEF WritesInv
  <2>2. tasks # <<>> => Started(stream)
    BY <2>1 DEF CallInv, StreamInv, Started
  <2>3. tasks # <<>> /\ Head(tasks) = "response" /\ stream.handshake => pipeline # <<>>
    BY <2>1, ResponseInHand
  <2>4. /\ stream.idle => pipeline = <<>>
        /\ stream.state = "starting" => ~ stream.handshake
    BY <2>1 DEF CallInv, StreamInv
  <2> QED
    BY <2>1, <2>2, <2>3, <2>4 DEF NoAssertionFails, QueueInv
<1> QED
  BY <1>1, WritesInvariant, PTL

\* A write is only given up when the server has refused it, or when responses to writes
\* before it were cancelled by a refusal (remote_store.mm:469-495).
THEOREM WritesOnlyRefusedDropped == Spec => []OnlyRefusedDropped
<1>1. WritesInv => OnlyRefusedDropped
  BY DEF WritesInv, BatchesInv
<1> QED
  BY <1>1, WritesInvariant, PTL

-----------------------------------------------------------------------------
(***************************************************************************)
(* The write path implements the mutation queue of Firestore.             *)
(***************************************************************************)

\* Functions of the one client.
LEMMA OfTheClient ==
    ASSUME NEW x, NEW y
    PROVE  /\ "client" \in Client
           /\ [d \in Client |-> x]["client"] = x
           /\ [[d \in Client |-> x] EXCEPT !["client"] = y] = [d \in Client |-> y]
BY DEF Client

\* A step of the queue: a batch is added.
LEMMA QueueAdds ==
    ASSUME queue' = Append(queue, written'), UNCHANGED <<cache, committed>>
    PROVE  QueueNext
<1>1. Queue!AddDocument("client", written')
  BY OfTheClient DEF Queue!AddDocument
<1> QED
  BY <1>1, OfTheClient DEF QueueNext

\* A step of the queue: a batch is committed after those before it.
LEMMA QueueCommits ==
    ASSUME NEW i \in DOMAIN queue, \A j \in 1 .. i - 1 : queue[j] \in committed,
           committed' = committed \cup {queue[i]}, UNCHANGED <<queue, cache>>
    PROVE  QueueNext
<1>1. Queue!CommitWrite("client")
  BY OfTheClient DEF Queue!CommitWrite
<1> QED
  BY <1>1, OfTheClient DEF QueueNext

\* A step of the queue: its first batch, committed, moves to the cache.
LEMMA QueueAcknowledges ==
    ASSUME queue # <<>>, Head(queue) \in committed, queue' = Tail(queue),
           cache' = cache \cup {Head(queue)}, UNCHANGED committed
    PROVE  QueueNext
<1> DEFINE q == [d \in Client |-> queue]
           c == [d \in Client |-> cache]
<1>1. /\ q["client"] = queue /\ c["client"] = cache
      /\ [q EXCEPT !["client"] = Tail(queue)] = [d \in Client |-> Tail(queue)]
      /\ [c EXCEPT !["client"] = cache \cup {Head(queue)}]
            = [d \in Client |-> cache \cup {Head(queue)}]
  BY DEF Client
<1>2. Queue!AcknowledgeBatch("client")
  BY <1>1 DEF Queue!AcknowledgeBatch
<1> QED
  BY <1>2, OfTheClient DEF QueueNext

\* A step of the queue: its first batch, not committed or unheard, is dropped.
LEMMA QueueDrops ==
    ASSUME TypeOK, queue # <<>>, Head(queue) \notin committed \/ Head(queue) \in unheard,
           queue' = Tail(queue), UNCHANGED <<cache, committed>>
    PROVE  QueueNext
<1>1. CASE Head(queue) \notin committed
  <2>1. Queue!RejectBatch("client")
    BY <1>1, OfTheClient DEF Queue!RejectBatch
  <2> QED
    BY <2>1, OfTheClient DEF QueueNext
<1>2. CASE Head(queue) \in unheard
  <2>1. queue = <<Head(queue)>> \o queue'
    BY DEF TypeOK
  <2> QED
    BY <1>2, <2>1, OfTheClient DEF QueueNext
<1> QED
  BY <1>1, <1>2

\* What the server applies of an old call is next in the queue, or known already.
LEMMA LateCommitStep ==
    ASSUME WritesInv, LateCommit
    PROVE  QueueNext \/ UNCHANGED <<queue, cache, committed>>
<1>1. UNCHANGED <<queue, cache>>
  BY DEF LateCommit, localVars
<1>2. PICK batches \in late :
         /\ Head(batches) \notin refused
         /\ committed' = committed \cup {Head(batches)}
  BY DEF LateCommit
<1> DEFINE b == Head(batches)
<1>3. CASE b \in committed
  BY <1>1, <1>2, <1>3
<1>4. CASE b \notin committed
  <2>1. /\ batches \in Seq(Batch) /\ batches # <<>>
        /\ Ordered(batches) /\ UpTo(batches, written)
        /\ \A i \in 1 .. Len(queue) :
              queue[i] <= Last(batches) => queue[i] \in committed \cup ToSet(batches)
    BY DEF WritesInv, TypeOK, LateInv
  <2>2. /\ Len(batches) \in Nat /\ Len(batches) >= 1 /\ b = batches[1]
        /\ \A i \in 1 .. Len(batches) : batches[i] \in Nat
        /\ b \in 1 .. MaxWrites
    <3>1. /\ Len(batches) \in Nat /\ Len(batches) >= 1 /\ b = batches[1] /\ b \in Batch
      BY <2>1, TailByPlace
    <3>2. \A i \in 1 .. Len(batches) : batches[i] \in Batch
      BY <2>1
    <3> QED
      BY <3>1, <3>2 DEF Batch
  <2>3. b <= Last(batches) /\ \A x \in ToSet(batches) : x >= b
    <3>1. \A i \in 1 .. Len(batches) : batches[i] >= b
      BY <2>1, <2>2 DEF Ordered
    <3>2. Last(batches) = batches[Len(batches)] /\ Len(batches) \in 1 .. Len(batches)
      BY <2>2 DEF Last
    <3> QED
      BY <2>1, <2>2, <3>1, <3>2, ToSetByPlace
  <2>4. b \in 1 .. written
    BY <2>1, <2>2 DEF UpTo, WritesInv, TypeOK
  <2>5. b \in ToSet(queue)
    BY <1>2, <1>4, <2>4 DEF WritesInv, BatchesInv, OnlyRefusedDropped
  <2>6. queue \in Seq(Batch) /\ Len(queue) \in Nat /\ \A i \in 1 .. Len(queue) : queue[i] \in Nat
    <3>1. queue \in Seq(Batch)
      BY DEF WritesInv, TypeOK
    <3>2. Len(queue) \in Nat /\ \A i \in 1 .. Len(queue) : queue[i] \in Batch
      BY <3>1
    <3> QED
      BY <3>1, <3>2 DEF Batch
  <2>7. PICK i \in 1 .. Len(queue) : queue[i] = b
    BY <2>5, <2>6, ToSetByPlace
  <2>8. ASSUME NEW j \in 1 .. i - 1
        PROVE  queue[j] \in committed
    <3>1. j \in 1 .. Len(queue) /\ j < i
      BY <2>6
    <3>2. queue[j] < b
      BY <2>7, <3>1 DEF WritesInv, QueueInv, Ordered
    <3>3. Last(batches) \in Nat
      BY <2>2 DEF Last
    <3>4. queue[j] <= Last(batches) /\ queue[j] \notin ToSet(batches)
      BY <2>2, <2>3, <2>6, <3>1, <3>2, <3>3
    <3> QED
      BY <2>1, <3>1, <3>4
  <2>9. i \in DOMAIN queue /\ committed' = committed \cup {queue[i]}
    BY <1>2, <2>6, <2>7
  <2> QED
    BY <1>1, <2>8, <2>9, QueueCommits
<1> QED
  BY <1>3, <1>4

\* Every step of the write path is one of the queue, or leaves the queue alone.
LEMMA QueueStep ==
    ASSUME WritesInv, [Next]_vars
    PROVE  [QueueNext]_<<queue, cache, committed>>
<1>0. TypeOK /\ QueueInv /\ CallInv /\ BatchesInv /\ LateInv
  BY DEF WritesInv
<1>1. CASE WriteMutations
  BY <1>1, QueueAdds DEF WriteMutations, serverVars
<1>2. CASE Commit
  <2>1. /\ Serving /\ Head(call.sent) \in Batch
        /\ committed' = committed \cup {Head(call.sent)} /\ UNCHANGED <<queue, cache>>
    BY <1>2 DEF Commit, Respond, localVars
  <2>2. /\ FirstIn(pipeline, Heard, committed)
        /\ Heard + 1 \in 1 .. Len(pipeline) /\ pipeline[Heard + 1] = Head(call.sent)
    BY <1>0, <2>1, AnsweredBatch
  <2>3. Heard \in Nat /\ queue \in Seq(Batch) /\ pipeline \in Seq(Batch)
    BY <1>0 DEF Heard, TypeOK
  <2>4. Len(pipeline) <= Len(queue) /\ \A i \in 1 .. Len(pipeline) : pipeline[i] = queue[i]
    BY <1>0, <2>3, PrefixByPlace DEF QueueInv
  <2>5. Heard + 1 \in DOMAIN queue /\ queue[Heard + 1] = Head(call.sent)
    BY <2>2, <2>3, <2>4
  <2>6. \A j \in 1 .. (Heard + 1) - 1 : queue[j] \in committed
    BY <2>2, <2>3, <2>4 DEF FirstIn
  <2> QED
    BY <2>1, <2>5, <2>6, QueueCommits
<1>3. CASE LateCommit
  BY <1>3, LateCommitStep
<1>4. CASE OnWriteStreamMutationResult
  <2>1. /\ tasks # <<>> /\ Head(tasks) = "response" /\ stream.handshake
        /\ queue' = RemoveMutationBatch(queue, Head(pipeline))
        /\ cache' = cache \cup {Head(pipeline)} /\ UNCHANGED committed
    BY <1>4 DEF OnWriteStreamMutationResult, OnRead, serverVars
  <2>2. pipeline # <<>> /\ Head(pipeline) \in committed
    BY <1>0, <2>1, ResponseInHand
  <2>3. /\ queue # <<>> /\ Head(pipeline) = Head(queue)
        /\ RemoveMutationBatch(queue, Head(pipeline)) = Tail(queue)
    BY <1>0, <2>2, FrontLeaves DEF TypeOK, QueueInv
  <2> QED
    BY <2>1, <2>2, <2>3, QueueAcknowledges
<1>5. CASE OnStreamFinish
  <2>1. tasks # <<>> /\ Head(tasks) = "finished" /\ CloseWithError(call.status)
    BY <1>5 DEF OnStreamFinish
  <2>2. tasks = <<"finished">>
    BY <1>0, <2>1 DEF CallInv, TasksInv, TaskLists
  <2>3. IsWriteError(call.status) => Head(pipeline) \in refused \cup unheard
    BY <1>0, <2>2 DEF CallInv, RefusalInv, IsWriteError, IsPermanentError
  <2>4. /\ UNCHANGED <<cache, committed>>
        /\ IF IsWriteError(call.status)
             THEN queue # <<>> /\ queue' = Tail(queue) /\ Head(queue) \in refused \cup unheard
             ELSE UNCHANGED queue
    BY <1>0, <2>1, <2>3, CloseStep
  <2>5. Head(queue) \in refused => Head(queue) \notin committed
    BY <1>0 DEF BatchesInv
  <2> QED
    BY <1>0, <2>4, <2>5, QueueDrops
<1>6. CASE OnConnectivityChange
  <2>1. CloseWithError("transient") /\ ~ IsWriteError("transient")
    BY <1>6 DEF OnConnectivityChange, IsWriteError, IsPermanentError
  <2> QED
    BY <2>1 DEF CloseWithError
<1>7. CASE \/ OnWriteStreamOpen \/ BackoffElapses \/ OnWriteStreamHandshakeComplete
           \/ OnOperationFailed \/ IdleElapses \/ Restart \/ AcceptHandshake \/ Refuse
           \/ ConnectionBreaks \/ OperationFails \/ UNCHANGED vars
  BY <1>7 DEF OnWriteStreamOpen, BackoffElapses, OnWriteStreamHandshakeComplete,
     OnOperationFailed, IdleElapses, Restart, AcceptHandshake, Refuse, ConnectionBreaks,
     OperationFails, vars, localVars, serverVars
<1> QED
  BY <1>1, <1>2, <1>3, <1>4, <1>5, <1>6, <1>7 DEF Next, Worker, Server

\* The pipeline, the stream and the resending of writes implement the mutation queue of
\* Firestore: writes are committed in their order, acknowledged once committed, and
\* dropped only if not, save those of `unheard` (local_store.mm:166-220).
THEOREM WritesImplementQueue == Spec => ImplementsQueue
<1>1. Init => Queue!FirestoreInit({}, [d \in Client |-> {}])
  BY DEF Init, Queue!FirestoreInit
<1>2. WritesInv /\ [Next]_vars => [QueueNext]_<<queue, cache, committed>>
  BY QueueStep
<1> QED
  BY <1>1, <1>2, WritesInvariant, PTL DEF Spec, ImplementsQueue
=============================================================================
