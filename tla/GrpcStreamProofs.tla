--------------------------- MODULE GrpcStreamProofs ---------------------------
(***************************************************************************)
(* Type correctness and safety of GrpcStream, for any numbers of reads    *)
(* and writes.                                                            *)
(*                                                                        *)
(* None of the properties is inductive.  The invariant StreamInv follows  *)
(* a completion from the operation that issues it to the callback that    *)
(* ends it: it is in one place at a time, the stream tracks it or has     *)
(* cancelled it, and while the worker is blocked it has cancelled all of  *)
(* them.                                                                  *)
(***************************************************************************)
EXTENDS GrpcStream, FiniteSetTheorems, SequenceTheorems, TLAPS

\* What is on the way, with the outcome of each completion.
Entries == returning \cup {callbacks[i] : i \in DOMAIN callbacks}

\* No completion is on the way twice.
Distinct ==
    /\ \A i, j \in DOMAIN callbacks : callbacks[i][1] = callbacks[j][1] => i = j
    /\ \A i \in DOMAIN callbacks : \A entry \in returning : callbacks[i][1] # entry[1]
    /\ \A entry, other \in returning : entry = other

\* The stream tracks what gRPC has, and what is on the way unless it is cancelled.
Owned ==
    /\ cq \cap OnTheWay = {}
    /\ cq \subseteq completions
    /\ OnTheWay \subseteq completions \cup cancelled

\* Whatever there is has been issued, so that what is issued next is new.
Issued(c) ==
    \/ c[1] = "read" /\ c[2] <= reads
    \/ c[1] = "write" /\ c[2] <= Len(sent)
    \/ c[1] = "finish" /\ finishes = 1
AllIssued == \A c \in cq \cup OnTheWay \cup completions \cup cancelled : Issued(c)

\* The worker blocks on cancelled completions only, and otherwise tracks none of them.
Blocked == worker.at \in {"finishing", "draining"}
Marked == IF Blocked THEN completions \subseteq cancelled ELSE completions \cap cancelled = {}

\* An open stream always waits for its last read, and for no other.
LastRead ==
    /\ \A c \in completions : c[1] = "read" => c[2] = reads
    /\ phase = "alive" /\ ~ finished => reads > 0 /\ <<"read", reads>> \in completions
    /\ \A entry \in Entries : entry[1] = <<"read", reads>> /\ entry[2] => reads < MaxReads

\* The call is finished once, at the end of the worker's first wait.
FinishedOnce ==
    /\ ~ finished => finishes = 0 /\ ~ Blocked
    /\ finished => finishes = (IF worker.at = "finishing" THEN 0 ELSE 1)
    /\ phase = "destroyed" => finished

\* Messages are handed over in order; the writer is active while one is with gRPC or on its
\* way back.
Writing ==
    /\ \A i \in DOMAIN sent : sent[i] = i
    /\ \A i \in DOMAIN writer.queue : writer.queue[i] = Len(sent) + i
    /\ Len(sent) + Len(writer.queue) = written
    /\ \A c, other \in cq \cup OnTheWay :
          c[1] = "write" => writer.active /\ (other[1] = "write" => c = other)

\* Before it starts and after its end the stream has nothing.
Phases ==
    /\ phase # "alive" => worker.at = "free" /\ completions = {}
    /\ phase = "absent" => ~ finished /\ reads = 0 /\ cancelled = {}

StreamInv ==
    /\ TypeOK /\ Distinct /\ Owned /\ AllIssued /\ Marked
    /\ LastRead /\ FinishedOnce /\ Writing /\ Phases

-----------------------------------------------------------------------------
(***************************************************************************)
(* Completions.                                                           *)
(***************************************************************************)
LEMMA CompletionIs ==
    ASSUME NEW c \in Completion
    PROVE  /\ c = <<c[1], c[2]>>
           /\ \/ c[1] = "read" /\ c[2] \in 1 .. MaxReads
              \/ c[1] = "write" /\ c[2] \in 1 .. MaxWrites
              \/ c[1] = "finish" /\ c[2] = 1 /\ c = Finish
BY DEF Completion, Finish

\* What Append and Tail do to a sequence, element by element.
LEMMA Appended ==
    ASSUME NEW S, NEW seq \in Seq(S), NEW e \in S, NEW longer, longer = Append(seq, e)
    PROVE  /\ longer \in Seq(S)
           /\ Len(seq) \in Nat /\ Len(longer) = Len(seq) + 1
           /\ DOMAIN seq = 1 .. Len(seq) /\ DOMAIN longer = 1 .. Len(seq) + 1
           /\ \A i \in DOMAIN seq : longer[i] = seq[i]
           /\ longer[Len(seq) + 1] = e
BY AppendProperties, LenProperties

\* The first element and the rest of a sequence.
LEMMA Beheaded ==
    ASSUME NEW S, NEW seq \in Seq(S), seq # <<>>
    PROVE  /\ Len(seq) \in Nat \ {0} /\ DOMAIN seq = 1 .. Len(seq)
           /\ Head(seq) = seq[1] /\ Head(seq) \in S
           /\ Tail(seq) \in Seq(S) /\ Len(Tail(seq)) = Len(seq) - 1
           /\ DOMAIN Tail(seq) = 1 .. Len(seq) - 1
           /\ \A i \in DOMAIN Tail(seq) : Tail(seq)[i] = seq[i + 1]
BY HeadTailProperties, LenProperties

\* The completions on the way are those of the entries on the two queues.
LEMMA OnTheWayIs == OnTheWay = {entry[1] : entry \in Entries}
BY DEF OnTheWay, Entries

\* What is on the way depends on these two variables only.
LEMMA OnTheWayKept ==
    ASSUME UNCHANGED <<returning, callbacks>>
    PROVE  OnTheWay' = OnTheWay /\ Entries' = Entries /\ Distinct' = Distinct
BY DEF OnTheWay, Entries, Distinct

\* The types of what is on the way.
LEMMA OnTheWayTyped ==
    ASSUME TypeOK
    PROVE  Entries \subseteq Completion \X BOOLEAN /\ OnTheWay \subseteq Completion
<1>1. callbacks \in Seq(Completion \X BOOLEAN) /\ returning \subseteq Completion \X BOOLEAN
  BY DEF TypeOK
<1>2. \A i \in DOMAIN callbacks : callbacks[i] \in Completion \X BOOLEAN
  BY <1>1
<1>3. Entries \subseteq Completion \X BOOLEAN
  BY <1>1, <1>2 DEF Entries
<1> QED BY <1>3, OnTheWayIs

\* The callback that is run was on the way, and is not any more.
LEMMA Taken ==
    ASSUME TypeOK, Distinct, NEW c \in Completion, NEW ok \in BOOLEAN, Take(c, ok)
    PROVE  /\ c \in OnTheWay /\ <<c, ok>> \in Entries
           /\ OnTheWay' = OnTheWay \ {c}
           /\ Entries' \subseteq Entries
           /\ Distinct'
           /\ callbacks' \in Seq(Completion \X BOOLEAN)
<1>1. callbacks \in Seq(Completion \X BOOLEAN) /\ returning \subseteq Completion \X BOOLEAN
  BY DEF TypeOK
<1>2. callbacks # <<>> /\ Head(callbacks) = <<c, ok>> /\ callbacks' = Tail(callbacks)
      /\ returning' = returning
  BY DEF Take
<1>3. /\ Len(callbacks) \in Nat \ {0} /\ DOMAIN callbacks = 1 .. Len(callbacks)
      /\ callbacks[1] = <<c, ok>>
      /\ callbacks' \in Seq(Completion \X BOOLEAN)
      /\ DOMAIN callbacks' = 1 .. Len(callbacks) - 1
      /\ \A i \in DOMAIN callbacks' : callbacks'[i] = callbacks[i + 1]
  BY ONLY <1>1, <1>2, Beheaded
<1>4. Entries' \subseteq Entries /\ <<c, ok>> \in Entries
  <2>1. \A i \in DOMAIN callbacks' : i + 1 \in DOMAIN callbacks /\ callbacks'[i] = callbacks[i + 1]
    BY <1>3
  <2>2. 1 \in DOMAIN callbacks
    BY <1>3
  <2>3. Entries' \subseteq Entries
    BY <1>2, <2>1 DEF Entries
  <2> QED BY <1>3, <2>2, <2>3 DEF Entries
<1>5. Distinct'
  BY <1>2, <1>3 DEF Distinct
<1>6. c \in OnTheWay
  <2>1. <<c, ok>>[1] = c
    OBVIOUS
  <2> QED BY <1>4, <2>1, OnTheWayIs
<1>7. \A entry \in Entries' : entry[1] # c
  <2>1. SUFFICES ASSUME NEW entry \in Entries' PROVE entry[1] # c
    OBVIOUS
  <2>2. CASE entry \in returning
    BY <2>2, <1>3 DEF Distinct
  <2>3. CASE \E i \in DOMAIN callbacks' : entry = callbacks'[i]
    <3>1. PICK i \in DOMAIN callbacks' : entry = callbacks[i + 1]
      BY <2>3, <1>3
    <3>2. i + 1 \in DOMAIN callbacks /\ 1 \in DOMAIN callbacks /\ i + 1 # 1
      BY <1>3
    <3> QED BY <3>1, <3>2, <1>3 DEF Distinct
  <2> QED BY <2>1, <2>2, <2>3, <1>2 DEF Entries
<1>8. \A entry \in Entries : entry[1] # c => entry \in Entries'
  <2>1. SUFFICES ASSUME NEW entry \in Entries, entry[1] # c PROVE entry \in Entries'
    OBVIOUS
  <2>2. CASE entry \in returning
    BY <2>2, <1>2 DEF Entries
  <2>3. CASE \E i \in DOMAIN callbacks : entry = callbacks[i]
    <3>1. PICK i \in DOMAIN callbacks : entry = callbacks[i]
      BY <2>3
    <3>2. i # 1
      BY <3>1, <2>1, <1>3
    <3>3. i - 1 \in DOMAIN callbacks' /\ callbacks'[i - 1] = entry
      BY <3>1, <3>2, <1>3
    <3> QED BY <3>3 DEF Entries
  <2> QED BY <2>1, <2>2, <2>3 DEF Entries
<1>9. OnTheWay' = {entry[1] : entry \in Entries'}
  BY DEF OnTheWay, Entries
<1>10. OnTheWay' = OnTheWay \ {c}
  BY <1>4, <1>7, <1>8, <1>9, OnTheWayIs
<1> QED BY <1>3, <1>4, <1>5, <1>6, <1>10

\* A completion taken off gRPC's queue is on the way.
LEMMA TakenOff ==
    ASSUME TypeOK, Distinct, Owned, NEW c \in Completion, NEW ok \in BOOLEAN,
           TakenOffQueue(c, ok)
    PROVE  /\ c \in cq /\ cq' = cq \ {c}
           /\ OnTheWay' = OnTheWay \cup {c}
           /\ Entries' = Entries \cup {<<c, ok>>}
           /\ Distinct'
<1>1. /\ returning = {} /\ returning' = {<<c, ok>>} /\ callbacks' = callbacks
      /\ c \in cq /\ cq' = cq \ {c}
  BY DEF TakenOffQueue
<1>2. Entries' = Entries \cup {<<c, ok>>}
  BY <1>1 DEF Entries
<1>3. OnTheWay' = {entry[1] : entry \in Entries'}
  BY DEF OnTheWay, Entries
<1>4. <<c, ok>>[1] = c
  OBVIOUS
<1>5. OnTheWay' = OnTheWay \cup {c}
  BY <1>2, <1>3, <1>4, OnTheWayIs
<1>6. \A i \in DOMAIN callbacks : callbacks[i][1] # c
  <2>1. \A i \in DOMAIN callbacks : callbacks[i][1] \in OnTheWay
    BY OnTheWayIs DEF Entries
  <2> QED BY <1>1, <2>1 DEF Owned
<1>7. Distinct'
  BY <1>1, <1>4, <1>6 DEF Distinct
<1> QED BY <1>1, <1>2, <1>5, <1>7

\* What is on the way stays so when its callback is enqueued.
LEMMA Enqueuing ==
    ASSUME TypeOK, Distinct, CallbackEnqueued
    PROVE  /\ OnTheWay' = OnTheWay /\ Entries' = Entries /\ Distinct'
           /\ returning' = {} /\ callbacks' \in Seq(Completion \X BOOLEAN)
<1>1. PICK entry \in returning : callbacks' = Append(callbacks, entry) /\ returning' = {}
  BY DEF CallbackEnqueued
<1>2. callbacks \in Seq(Completion \X BOOLEAN) /\ entry \in Completion \X BOOLEAN
  BY <1>1 DEF TypeOK
<1>3. returning = {entry}
  BY <1>1 DEF Distinct
<1>4. /\ Len(callbacks) \in Nat /\ DOMAIN callbacks = 1 .. Len(callbacks)
      /\ DOMAIN callbacks' = 1 .. Len(callbacks) + 1
      /\ \A i \in DOMAIN callbacks : callbacks'[i] = callbacks[i]
      /\ callbacks'[Len(callbacks) + 1] = entry
      /\ callbacks' \in Seq(Completion \X BOOLEAN)
  BY ONLY <1>1, <1>2, Appended
<1>5. Entries' = Entries
  <2>1. Entries' \subseteq Entries
    <3>1. SUFFICES ASSUME NEW i \in DOMAIN callbacks' PROVE callbacks'[i] \in Entries
      BY <1>1 DEF Entries
    <3> QED BY <1>1, <1>4 DEF Entries
  <2>2. Entries \subseteq Entries'
    <3>1. entry \in Entries'
      BY <1>4 DEF Entries
    <3>2. ASSUME NEW i \in DOMAIN callbacks PROVE callbacks[i] \in Entries'
      <4>1. i \in DOMAIN callbacks' /\ callbacks'[i] = callbacks[i]
        BY <1>4
      <4> QED BY <4>1 DEF Entries
    <3> QED BY <1>3, <3>1, <3>2 DEF Entries
  <2> QED BY <2>1, <2>2
<1>6. OnTheWay' = OnTheWay
  BY <1>5 DEF OnTheWay, Entries
<1>7. Distinct'
  <2>1. \A i \in DOMAIN callbacks : callbacks[i][1] # entry[1]
    BY <1>1 DEF Distinct
  <2>2. \A i, j \in DOMAIN callbacks' : callbacks'[i][1] = callbacks'[j][1] => i = j
    BY <1>4, <2>1 DEF Distinct
  <2> QED BY <1>1, <2>2 DEF Distinct
<1> QED BY <1>1, <1>4, <1>5, <1>6, <1>7

\* A set whose elements are all the same has at most one.
LEMMA AtMostOne ==
    ASSUME NEW S, \A x, y \in S : x = y
    PROVE  Cardinality(S) <= 1
<1>1. CASE S = {}
  BY <1>1, FS_EmptySet
<1>2. CASE S # {}
  <2>1. PICK x \in S : S = {x}
    BY <1>2
  <2> QED BY <2>1, FS_Singleton
<1> QED BY <1>1, <1>2

-----------------------------------------------------------------------------
(***************************************************************************)
(* The invariant holds at first and is kept by each action.               *)
(***************************************************************************)
USE StreamAssumption

\* The invariant holds before the stream is started.
LEMMA StreamInit == Init => StreamInv
<1> SUFFICES ASSUME Init PROVE StreamInv
  OBVIOUS
<1> USE DEF Init, Free
<1>1. Entries = {} /\ OnTheWay = {}
  BY DEF Entries, OnTheWay
<1>2. TypeOK
  <2>1. Cardinality(returning) <= 1
    BY AtMostOne
  <2>2. sent \in Seq(Message) /\ callbacks \in Seq(Completion \X BOOLEAN)
        /\ writer \in [active : BOOLEAN, queue : Seq(Message)]
    OBVIOUS
  <2>3. completions \subseteq cq \cup OnTheWay
    OBVIOUS
  <2>4. worker \in [at : {"free", "lastWrite", "finishing", "draining"},
                    why : {"failed", "immediate", "notify"}]
    OBVIOUS
  <2>5. reads \in 0 .. MaxReads /\ written \in 0 .. MaxWrites /\ finishes \in Nat
    OBVIOUS
  <2>6. /\ phase \in {"absent", "alive", "destroyed"}
        /\ observer \in BOOLEAN /\ finished \in BOOLEAN
        /\ told \in BOOLEAN /\ stopped \in BOOLEAN
        /\ completions \subseteq Completion /\ cancelled \subseteq Completion /\ cq \subseteq Completion
        /\ returning \subseteq Completion \X BOOLEAN
        /\ call \in {"live", "failed", "cancelled"}
    OBVIOUS
  <2> QED BY ONLY <2>1, <2>2, <2>3, <2>4, <2>5, <2>6 DEF TypeOK
<1>3. Distinct /\ Owned /\ AllIssued
  BY <1>1 DEF Distinct, Owned, AllIssued
<1>4. Marked /\ LastRead /\ FinishedOnce /\ Phases
  BY <1>1 DEF Marked, Blocked, LastRead, FinishedOnce, Phases
<1>5. Writing
  BY <1>1 DEF Writing
<1> QED BY <1>2, <1>3, <1>4, <1>5 DEF StreamInv

\* The call fails: nothing moves.
LEMMA CallFailsKeeps ==
    ASSUME StreamInv, CallFails
    PROVE  StreamInv'
<1> USE DEF StreamInv, CallFails, ioVars, endVars
<1>1. OnTheWay' = OnTheWay /\ Entries' = Entries /\ Distinct'
  BY OnTheWayKept
<1>2. TypeOK'
  BY <1>1 DEF TypeOK
<1>3. Owned' /\ AllIssued' /\ Marked'
  BY <1>1 DEF Owned, AllIssued, Issued, Marked, Blocked
<1>4. LastRead' /\ FinishedOnce' /\ Writing' /\ Phases'
  BY <1>1 DEF LastRead, FinishedOnce, Blocked, Writing, Phases
<1> QED BY <1>1, <1>2, <1>3, <1>4

\* The polling thread takes a completion: it is with gRPC no more, and on its way.
LEMMA TakenOffQueueKeeps ==
    ASSUME StreamInv, NEW c \in Completion, NEW ok \in BOOLEAN, TakenOffQueue(c, ok)
    PROVE  StreamInv'
<1> USE DEF StreamInv, ioVars, endVars
<1>1. /\ c \in cq /\ cq' = cq \ {c} /\ OnTheWay' = OnTheWay \cup {c}
      /\ Entries' = Entries \cup {<<c, ok>>} /\ Distinct'
  BY TakenOff
<1>2. /\ returning' = {<<c, ok>>} /\ callbacks' = callbacks
      /\ (c[1] = "read" /\ ok => reads < MaxReads)
      /\ UNCHANGED <<phase, observer, completions, cancelled, call, worker, writer, reads,
                     written, sent, finished, finishes, told, stopped>>
  BY DEF TakenOffQueue
<1>3. TypeOK'
  <2>1. Cardinality(returning') <= 1
    <3>1. \A x, y \in returning' : x = y
      BY <1>2
    <3> QED BY <3>1, AtMostOne
  <2> QED BY <1>1, <1>2, <2>1 DEF TypeOK
<1>4. Owned' /\ AllIssued' /\ Marked'
  BY <1>1, <1>2 DEF Owned, AllIssued, Issued, Marked, Blocked
<1>5. LastRead'
  <2>1. \A entry \in Entries' :
            entry[1] = <<"read", reads>> /\ entry[2] => reads < MaxReads
    BY <1>1, <1>2 DEF LastRead
  <2> QED BY <1>2, <2>1 DEF LastRead
<1>6. Writing'
  BY <1>1, <1>2 DEF Writing
<1>7. FinishedOnce' /\ Phases'
  BY <1>2 DEF FinishedOnce, Blocked, Phases
<1> QED BY <1>1, <1>3, <1>4, <1>5, <1>6, <1>7

\* The polling thread hands a completion over: it stays on its way.
LEMMA CallbackEnqueuedKeeps ==
    ASSUME StreamInv, CallbackEnqueued
    PROVE  StreamInv'
<1> USE DEF StreamInv, ioVars, endVars
<1>1. /\ OnTheWay' = OnTheWay /\ Entries' = Entries /\ Distinct'
      /\ returning' = {} /\ callbacks' \in Seq(Completion \X BOOLEAN)
  BY Enqueuing
<1>2. UNCHANGED <<phase, observer, completions, cancelled, cq, call, worker, writer, reads,
                  written, sent, finished, finishes, told, stopped>>
  BY DEF CallbackEnqueued
<1>3. TypeOK'
  BY <1>1, <1>2, FS_EmptySet DEF TypeOK
<1>4. Owned' /\ AllIssued' /\ Marked'
  BY <1>1, <1>2 DEF Owned, AllIssued, Issued, Marked, Blocked
<1>5. LastRead' /\ FinishedOnce' /\ Writing' /\ Phases'
  BY <1>1, <1>2 DEF LastRead, FinishedOnce, Blocked, Writing, Phases
<1> QED BY <1>1, <1>3, <1>4, <1>5

\* Shutdown of a stream that is not blocked, with all the completions it has.
LEMMA ShutdownKeeps ==
    ASSUME StreamInv, phase = "alive", ~ Blocked,
           NEW why \in {"failed", "immediate", "notify"}, Shutdown(completions, why),
           UNCHANGED <<phase, observer, cq, returning, callbacks, finishes, ioVars>>,
           told' \in BOOLEAN, stopped' \in BOOLEAN
    PROVE  StreamInv'
<1> USE DEF StreamInv
<1>1. OnTheWay' = OnTheWay /\ Entries' = Entries /\ Distinct'
  BY OnTheWayKept
<1>2. UNCHANGED <<writer, reads, written, sent>>
  BY DEF ioVars
<1>3. /\ completions' = completions /\ cancelled' = cancelled \cup completions
      /\ worker'.at \in {"finishing", "draining"}
      /\ worker' \in [at : {"free", "lastWrite", "finishing", "draining"},
                      why : {"failed", "immediate", "notify"}]
      /\ call' \in {"live", "failed", "cancelled"}
      /\ finished' \in BOOLEAN
  <2>1. CASE completions # {} /\ ~ finished
    BY <2>1 DEF Shutdown, FinishGrpcCall, Cancel, TryCancel, TypeOK
  <2>2. CASE ~ (completions # {} /\ ~ finished)
    BY <2>2 DEF Shutdown, Cancel, TypeOK
  <2> QED BY <2>1, <2>2
<1>4. TypeOK'
  BY <1>1, <1>2, <1>3 DEF TypeOK
<1>5. Owned' /\ AllIssued' /\ Marked'
  BY <1>1, <1>2, <1>3 DEF Owned, AllIssued, Issued, Marked, Blocked
<1>6. completions # {} \/ finished
  BY DEF LastRead
<1>7. finished' /\ finishes' = (IF worker'.at = "finishing" THEN 0 ELSE 1)
  BY <1>6 DEF Shutdown, FinishGrpcCall, FinishedOnce, Blocked
<1>8. LastRead' /\ FinishedOnce' /\ Writing' /\ Phases'
  BY <1>1, <1>2, <1>3, <1>7 DEF LastRead, FinishedOnce, Writing, Phases
<1> QED BY <1>1, <1>4, <1>5, <1>8

\* The client gives the stream up.
LEMMA FinishImmediatelyKeeps ==
    ASSUME StreamInv, FinishImmediately
    PROVE  StreamInv'
<1>1. phase = "alive" /\ ~ Blocked
  BY DEF FinishImmediately, IsFree, Blocked
<1>2. told' \in BOOLEAN /\ stopped' \in BOOLEAN
  BY DEF FinishImmediately, StreamInv, TypeOK
<1> QED BY <1>1, <1>2, ShutdownKeeps DEF FinishImmediately

\* The monitor of the connection gives the stream up.
LEMMA ConnectivityChangesKeeps ==
    ASSUME StreamInv, ConnectivityChanges
    PROVE  StreamInv'
<1>1. phase = "alive" /\ ~ Blocked
  BY DEF ConnectivityChanges, IsFree, Blocked
<1>2. told' \in BOOLEAN /\ stopped' \in BOOLEAN
  BY DEF ConnectivityChanges, StreamInv, TypeOK
<1> QED BY <1>1, <1>2, ShutdownKeeps DEF ConnectivityChanges

\* The wait for the last write ends.
LEMMA LastWriteOverKeeps ==
    ASSUME StreamInv, LastWriteOver
    PROVE  StreamInv'
<1>1. phase = "alive" /\ ~ Blocked
  BY DEF LastWriteOver, Blocked, StreamInv, Phases
<1>2. told' \in BOOLEAN /\ stopped' \in BOOLEAN
  BY DEF LastWriteOver, StreamInv, TypeOK
<1> QED BY <1>1, <1>2, ShutdownKeeps DEF LastWriteOver

\* The first wait of a failed stream ends: its call is finished, once.
LEMMA CallFinishIssuedKeeps ==
    ASSUME StreamInv, CallFinishIssued
    PROVE  StreamInv'
<1> USE DEF StreamInv
<1>1. OnTheWay' = OnTheWay /\ Entries' = Entries /\ Distinct'
  BY OnTheWayKept DEF CallFinishIssued
<1>2. /\ worker.at = "finishing" /\ Blocked
      /\ completions' = {Finish} /\ cq' = cq \cup {Finish} /\ finishes' = finishes + 1
      /\ UNCHANGED <<phase, observer, finished, returning, callbacks, call, told, stopped,
                     writer, reads, written, sent>>
  BY DEF CallFinishIssued, Blocked, ioVars
<1>3. \/ worker' = Free /\ cancelled' = cancelled
      \/ worker' = [worker EXCEPT !.at = "draining"] /\ cancelled' = cancelled \cup {Finish}
  BY DEF CallFinishIssued, Cancel
\* The call had not been finished; so there was no finish among the completions.
<1>4. finishes = 0 /\ finished
  BY <1>2 DEF FinishedOnce
<1>5. Finish \in Completion /\ Finish[1] = "finish" /\ Finish[1] # "read" /\ Finish[1] # "write"
  BY DEF Completion, Finish
<1>6. Finish \notin cq \cup OnTheWay \cup completions \cup cancelled
  BY <1>4, <1>5 DEF AllIssued, Issued
\* Nothing was left on gRPC's queue, and what is on the way is cancelled.
<1>7. cq = {} /\ OnTheWay \subseteq cancelled
  BY <1>2 DEF CallFinishIssued, OffQueue, Owned, Marked
<1>8. TypeOK'
  <2>1. worker' \in [at : {"free", "lastWrite", "finishing", "draining"},
                     why : {"failed", "immediate", "notify"}]
    BY <1>3 DEF TypeOK, Free
  <2>2. completions' \subseteq Completion /\ cancelled' \subseteq Completion
        /\ cq' \subseteq Completion /\ finishes' \in Nat /\ completions' \subseteq cq' \cup OnTheWay'
    BY <1>2, <1>3, <1>4, <1>5 DEF TypeOK
  <2> QED BY <1>2, <2>1, <2>2 DEF TypeOK
<1>9. Owned' /\ AllIssued'
  BY <1>1, <1>2, <1>3, <1>4, <1>5, <1>6, <1>7 DEF Owned, AllIssued, Issued
<1>10. Marked'
  <2>1. CASE worker' = Free /\ cancelled' = cancelled
    BY <1>2, <1>6, <2>1 DEF Marked, Blocked, Free
  <2>2. CASE worker' = [worker EXCEPT !.at = "draining"] /\ cancelled' = cancelled \cup {Finish}
    BY <1>2, <2>2 DEF Marked, Blocked, TypeOK
  <2> QED BY <1>3, <2>1, <2>2
<1>11. LastRead'
  BY <1>1, <1>2, <1>4, <1>5 DEF LastRead
<1>12. FinishedOnce' /\ Phases'
  <2>1. worker'.at \in {"free", "draining"}
    BY <1>3 DEF Free, TypeOK
  <2>2. phase = "alive"
    BY <1>2 DEF Phases
  <2> QED BY <1>2, <1>4, <2>1, <2>2 DEF FinishedOnce, Phases, Blocked
<1>13. Writing'
  BY <1>1, <1>2, <1>5, <1>7 DEF Writing
<1> QED BY <1>1, <1>8, <1>9, <1>10, <1>11, <1>12, <1>13

\* The wait of a shutdown ends: gRPC has given all back, and the stream may go.
LEMMA ShutdownEndsKeeps ==
    ASSUME StreamInv, ShutdownEnds
    PROVE  StreamInv'
<1> USE DEF StreamInv
<1>1. OnTheWay' = OnTheWay /\ Entries' = Entries /\ Distinct'
  BY OnTheWayKept DEF ShutdownEnds
<1>2. /\ worker.at = "draining" /\ Blocked
      /\ completions' = {} /\ phase' = "destroyed" /\ worker' = Free
      /\ told' \in BOOLEAN /\ observer' \in BOOLEAN
      /\ UNCHANGED <<finished, cancelled, cq, returning, callbacks, call, finishes, stopped,
                     writer, reads, written, sent>>
  BY DEF ShutdownEnds, Blocked, ioVars, TypeOK
<1>3. cq = {} /\ OnTheWay \subseteq cancelled
  BY <1>2 DEF ShutdownEnds, OffQueue, Owned, Marked
<1>4. finished /\ finishes = 1
  BY <1>2 DEF FinishedOnce
<1>5. TypeOK'
  BY <1>2 DEF TypeOK, Free
<1>6. Owned' /\ AllIssued' /\ Marked'
  BY <1>1, <1>2, <1>3 DEF Owned, AllIssued, Issued, Marked, Blocked, Free
<1>7. LastRead' /\ FinishedOnce' /\ Writing' /\ Phases'
  BY <1>1, <1>2, <1>3, <1>4 DEF LastRead, FinishedOnce, Blocked, Writing, Phases, Free
<1> QED BY <1>1, <1>5, <1>6, <1>7

\* The stream starts: the first read is issued.
LEMMA StartKeeps ==
    ASSUME StreamInv, Start
    PROVE  StreamInv'
<1> USE DEF StreamInv
<1> DEFINE first == <<"read", 1>>
<1>1. OnTheWay' = OnTheWay /\ Entries' = Entries /\ Distinct'
  BY OnTheWayKept DEF Start
<1>2. /\ phase = "absent" /\ phase' = "alive" /\ observer' = TRUE /\ reads' = 1
      /\ completions' = {first} /\ cq' = {first}
      /\ UNCHANGED <<cancelled, returning, callbacks, call, worker, writer, written, sent,
                     finished, finishes, told, stopped>>
  BY DEF Start, endVars
<1>3. completions = {} /\ cq = {} /\ cancelled = {} /\ OnTheWay = {} /\ ~ finished
  BY <1>2 DEF Phases, Owned
<1>4. first \in Completion /\ first[1] = "read" /\ first[2] = 1 /\ first[1] # "write"
  BY DEF Completion
<1>5. Entries = {}
  BY <1>3, OnTheWayIs
<1>6. TypeOK'
  BY <1>1, <1>2, <1>4 DEF TypeOK
<1>7. Owned' /\ AllIssued' /\ Marked'
  BY <1>1, <1>2, <1>3, <1>4 DEF Owned, AllIssued, Issued, Marked, Blocked, Phases
<1>8. LastRead'
  BY <1>1, <1>2, <1>4, <1>5 DEF LastRead
<1>9. FinishedOnce' /\ Phases'
  BY <1>2, <1>3 DEF FinishedOnce, Blocked, Phases
<1>10. Writing'
  BY <1>1, <1>2, <1>3, <1>4 DEF Writing
<1> QED BY <1>1, <1>6, <1>7, <1>8, <1>9, <1>10

\* What MaybeWrite does with a writer w that goes on from the messages sent: it hands over
\* nothing, or the next message, which is new and alone.  W is what will be on the way.
LEMMA NextWrite ==
    ASSUME StreamInv, NEW w \in [active : BOOLEAN, queue : Seq(Message)],
           NEW C \in SUBSET completions, NEW W \in SUBSET OnTheWay,
           \A i \in DOMAIN w.queue : w.queue[i] = Len(sent) + i,
           \A c, other \in cq \cup W :
               c[1] = "write" => w.active /\ (other[1] = "write" => c = other),
           MaybeWrite(w, C)
    PROVE  /\ writer' \in [active : BOOLEAN, queue : Seq(Message)] /\ sent' \in Seq(Message)
           /\ \A i \in DOMAIN sent' : sent'[i] = i
           /\ \A i \in DOMAIN writer'.queue : writer'.queue[i] = Len(sent') + i
           /\ Len(sent') + Len(writer'.queue) = Len(sent) + Len(w.queue)
           /\ Len(sent) <= Len(sent')
           /\ \A c, other \in cq' \cup W :
                  c[1] = "write" => writer'.active /\ (other[1] = "write" => c = other)
           /\ cq \subseteq cq' /\ completions' = C \cup (cq' \ cq)
           /\ \A c \in cq' \ cq :
                  /\ c \in Completion /\ c[1] = "write" /\ c[2] = Len(sent')
                  /\ c \notin OnTheWay /\ c \notin completions /\ c \notin cancelled
<1> USE DEF StreamInv
<1>1. /\ sent \in Seq(Message) /\ Len(sent) \in Nat /\ DOMAIN sent = 1 .. Len(sent)
      /\ w.queue \in Seq(Message) /\ Len(w.queue) \in Nat /\ DOMAIN w.queue = 1 .. Len(w.queue)
      /\ \A i \in DOMAIN sent : sent[i] = i
  BY DEF TypeOK, Writing
<1>2. CASE ~ TryStartWrite(w)
  <2>1. writer' = w /\ completions' = C /\ sent' = sent /\ cq' = cq
    BY <1>2 DEF MaybeWrite
  <2>2. cq' \ cq = {}
    BY <2>1
  <2>3. \A c, other \in cq' \cup W :
            c[1] = "write" => writer'.active /\ (other[1] = "write" => c = other)
    BY <2>1
  <2>4. /\ sent' \in Seq(Message) /\ \A i \in DOMAIN sent' : sent'[i] = i
        /\ \A i \in DOMAIN writer'.queue : writer'.queue[i] = Len(sent') + i
        /\ Len(sent') + Len(writer'.queue) = Len(sent) + Len(w.queue)
        /\ Len(sent) <= Len(sent')
    BY <2>1, <1>1
  <2> QED BY <2>1, <2>2, <2>3, <2>4
<1>3. CASE TryStartWrite(w)
  <2> DEFINE n == Head(w.queue)
  <2> DEFINE write == <<"write", n>>
  <2>1. /\ w.queue # <<>> /\ ~ w.active
        /\ writer' = [active |-> TRUE, queue |-> Tail(w.queue)]
        /\ sent' = Append(sent, n)
        /\ completions' = C \cup {write} /\ cq' = cq \cup {write}
    BY <1>3 DEF MaybeWrite, TryStartWrite
  <2>2. n = Len(sent) + 1 /\ n \in Message
    <3>1. 1 \in DOMAIN w.queue /\ n = w.queue[1] /\ n \in Message
      BY ONLY <1>1, <2>1, Beheaded
    <3> QED BY <3>1
  <2>3. /\ Tail(w.queue) \in Seq(Message) /\ Len(Tail(w.queue)) = Len(w.queue) - 1
        /\ DOMAIN Tail(w.queue) = 1 .. Len(w.queue) - 1
        /\ \A i \in DOMAIN Tail(w.queue) : Tail(w.queue)[i] = w.queue[i + 1]
    BY ONLY <1>1, <2>1, Beheaded
  <2>4. /\ sent' \in Seq(Message) /\ Len(sent') = Len(sent) + 1
        /\ DOMAIN sent' = 1 .. Len(sent) + 1
        /\ \A i \in DOMAIN sent : sent'[i] = sent[i]
        /\ sent'[Len(sent) + 1] = n
    BY ONLY <1>1, <2>1, <2>2, Appended
  <2>5. \A i \in DOMAIN sent' : sent'[i] = i
    BY ONLY <1>1, <2>2, <2>4
  <2>6. \A i \in DOMAIN writer'.queue : writer'.queue[i] = Len(sent') + i
    <3>1. SUFFICES ASSUME NEW i \in DOMAIN Tail(w.queue)
                   PROVE  Tail(w.queue)[i] = Len(sent') + i
      BY <2>1
    <3>2. i \in Nat /\ i + 1 \in DOMAIN w.queue /\ Tail(w.queue)[i] = w.queue[i + 1]
      BY <1>1, <2>3
    <3>3. w.queue[i + 1] = Len(sent) + (i + 1)
      BY <3>2
    <3> QED BY <1>1, <2>4, <3>2, <3>3
  <2>7. Len(sent') + Len(writer'.queue) = Len(sent) + Len(w.queue)
    BY ONLY <1>1, <2>1, <2>3, <2>4
  <2>8. write \in Completion /\ write[1] = "write" /\ write[2] = n
    BY <2>2 DEF Completion, Message
  <2>9. write \notin cq \cup OnTheWay \cup completions \cup cancelled
    <3>1. ~ Issued(write)
      BY <1>1, <2>2, <2>8 DEF Issued
    <3> QED BY <3>1 DEF AllIssued
  <2>10. \A c \in cq \cup W : c[1] # "write"
    BY <2>1
  <2>11. \A c, other \in cq' \cup W :
             c[1] = "write" => writer'.active /\ (other[1] = "write" => c = other)
    BY <2>1, <2>10
  <2>12. cq' \ cq = {write} /\ cq \subseteq cq'
    BY <2>1, <2>9
  <2>13. /\ writer' \in [active : BOOLEAN, queue : Seq(Message)]
         /\ completions' = C \cup (cq' \ cq)
    BY <2>1, <2>3, <2>12
  <2>14. \A c \in cq' \ cq :
             /\ c \in Completion /\ c[1] = "write" /\ c[2] = Len(sent')
             /\ c \notin OnTheWay /\ c \notin completions /\ c \notin cancelled
    BY <1>1, <2>2, <2>4, <2>8, <2>9, <2>12
  <2>15. Len(sent) <= Len(sent')
    BY <1>1, <2>4
  <2> QED BY <2>4, <2>5, <2>6, <2>7, <2>11, <2>12, <2>13, <2>14, <2>15
<1> QED BY <1>2, <1>3

\* Write, and WriteAndFinish until it waits.
LEMMA WriteStepKeeps ==
    ASSUME StreamInv, IsFree, written < MaxWrites, written' = written + 1,
           MaybeWrite(Enqueued(writer, written'), completions),
           worker' = worker \/ worker' = [at |-> "lastWrite", why |-> "immediate"],
           stopped' \in BOOLEAN,
           UNCHANGED <<phase, observer, finished, cancelled, returning, callbacks, call, reads,
                       finishes, told>>
    PROVE  StreamInv'
<1> USE DEF StreamInv
<1>1. OnTheWay' = OnTheWay /\ Entries' = Entries /\ Distinct'
  BY OnTheWayKept
<1> DEFINE w == Enqueued(writer, written')
<1>2. /\ writer.queue \in Seq(Message) /\ Len(writer.queue) \in Nat
      /\ Len(sent) \in Nat /\ written \in Nat /\ written' \in Message
      /\ Len(sent) + Len(writer.queue) = written
  BY DEF TypeOK, Writing, Message
<1>3. /\ w \in [active : BOOLEAN, queue : Seq(Message)]
      /\ w.active = writer.active /\ w.queue = Append(writer.queue, written')
      /\ Len(w.queue) = Len(writer.queue) + 1
  <2>1. writer \in [active : BOOLEAN, queue : Seq(Message)]
    BY DEF TypeOK
  <2>2. Append(writer.queue, written') \in Seq(Message)
        /\ Len(Append(writer.queue, written')) = Len(writer.queue) + 1
    BY ONLY <1>2, AppendProperties
  <2> QED BY <2>1, <2>2 DEF Enqueued
<1>4. \A i \in DOMAIN w.queue : w.queue[i] = Len(sent) + i
  <2>1. \A i \in DOMAIN writer.queue : writer.queue[i] = Len(sent) + i
    BY DEF Writing
  <2> HIDE DEF w
  <2>2. /\ DOMAIN w.queue = 1 .. Len(writer.queue) + 1 /\ DOMAIN writer.queue = 1 .. Len(writer.queue)
        /\ \A i \in DOMAIN writer.queue : w.queue[i] = writer.queue[i]
        /\ w.queue[Len(writer.queue) + 1] = written'
    BY ONLY <1>2, <1>3, Appended
  <2>3. written' = Len(sent) + (Len(writer.queue) + 1)
    BY <1>2
  <2>4. ASSUME NEW i \in 1 .. Len(writer.queue) + 1
        PROVE  i \in 1 .. Len(writer.queue) \/ i = Len(writer.queue) + 1
    BY <1>2
  <2> QED BY ONLY <2>1, <2>2, <2>3, <2>4
<1>5. \A c, other \in cq \cup OnTheWay :
          c[1] = "write" => w.active /\ (other[1] = "write" => c = other)
  BY <1>3 DEF Writing
<1> HIDE DEF w
<1>6. MaybeWrite(w, completions)
  BY DEF w
<1>7. /\ writer' \in [active : BOOLEAN, queue : Seq(Message)] /\ sent' \in Seq(Message)
      /\ \A i \in DOMAIN sent' : sent'[i] = i
      /\ \A i \in DOMAIN writer'.queue : writer'.queue[i] = Len(sent') + i
      /\ Len(sent') + Len(writer'.queue) = Len(sent) + Len(w.queue)
      /\ Len(sent) <= Len(sent')
      /\ \A c, other \in cq' \cup OnTheWay :
             c[1] = "write" => writer'.active /\ (other[1] = "write" => c = other)
      /\ cq \subseteq cq' /\ completions' = completions \cup (cq' \ cq)
      /\ \A c \in cq' \ cq :
             /\ c \in Completion /\ c[1] = "write" /\ c[2] = Len(sent')
             /\ c \notin OnTheWay /\ c \notin completions /\ c \notin cancelled
  BY <1>3, <1>4, <1>5, <1>6, NextWrite
<1> DEFINE N == cq' \ cq
<1>8. /\ completions' = completions \cup N /\ cq' = cq \cup N /\ N \subseteq Completion
      /\ N \cap (cq \cup OnTheWay \cup completions \cup cancelled) = {}
      /\ \A c \in N : c[1] = "write" /\ c[2] = Len(sent')
  BY <1>7
<1> HIDE DEF N
<1>9. Len(sent') \in Nat
  BY <1>7
<1>10. ~ Blocked /\ ~ Blocked'
  BY DEF IsFree, Blocked
<1>11. TypeOK'
  <2>1. worker' \in [at : {"free", "lastWrite", "finishing", "draining"},
                     why : {"failed", "immediate", "notify"}]
    BY DEF TypeOK
  <2>2. written' \in 0 .. MaxWrites
    BY <1>2
  <2>3. completions' \subseteq Completion /\ cq' \subseteq Completion
        /\ completions' \subseteq cq' \cup OnTheWay'
    BY <1>1, <1>8 DEF TypeOK
  <2> QED BY <1>7, <2>1, <2>2, <2>3 DEF TypeOK
<1>12. Owned' /\ Marked'
  BY <1>1, <1>8, <1>10 DEF Owned, Marked
<1>13. AllIssued'
  <2>1. SUFFICES ASSUME NEW c \in cq' \cup OnTheWay' \cup completions' \cup cancelled'
                 PROVE  Issued(c)'
    BY DEF AllIssued
  <2>2. CASE c \in N
    BY <2>2, <1>8, <1>9 DEF Issued
  <2>3. CASE c \notin N
    <3>1. c \in Completion /\ Issued(c)
      BY <1>1, <1>8, <2>3, OnTheWayTyped DEF AllIssued, TypeOK
    <3>2. c[1] = "write" => c[2] \in Nat
      BY <3>1, CompletionIs
    <3> QED BY <1>2, <1>7, <1>9, <3>1, <3>2 DEF Issued
  <2> QED BY <2>2, <2>3
<1>14. LastRead'
  BY <1>1, <1>8 DEF LastRead
<1>15. FinishedOnce' /\ Phases'
  BY <1>10 DEF FinishedOnce, Phases, IsFree, Blocked
<1>16. Writing'
  <2>1. Len(sent') + Len(writer'.queue) = written'
    <3>1. Len(sent') + Len(writer'.queue) = Len(sent) + Len(w.queue)
      BY <1>7
    <3>2. Len(w.queue) = Len(writer.queue) + 1
      BY <1>3
    <3>3. Len(sent) + (Len(writer.queue) + 1) = written + 1
      BY <1>2
    <3> QED BY <3>1, <3>2, <3>3
  <2> QED BY <1>1, <1>7, <2>1 DEF Writing
<1> QED BY <1>1, <1>11, <1>12, <1>13, <1>14, <1>15, <1>16

\* The client writes a message.
LEMMA WriteKeeps ==
    ASSUME StreamInv, Write
    PROVE  StreamInv'
<1>1. stopped' \in BOOLEAN
  BY DEF Write, endVars, StreamInv, TypeOK
<1> QED BY <1>1, WriteStepKeeps DEF Write, endVars

\* The client writes its last message and shuts down.
LEMMA WriteAndFinishKeeps ==
    ASSUME StreamInv, WriteAndFinish
    PROVE  StreamInv'
BY WriteStepKeeps DEF WriteAndFinish

\* The callback of a cancelled completion does nothing but delete it.
LEMMA CallbackCancelledKeeps ==
    ASSUME StreamInv, NEW c \in Completion, NEW ok \in BOOLEAN, CallbackCancelled(c, ok)
    PROVE  StreamInv'
<1> USE DEF StreamInv
<1>1. /\ c \in OnTheWay /\ OnTheWay' = OnTheWay \ {c} /\ Entries' \subseteq Entries
      /\ Distinct' /\ callbacks' \in Seq(Completion \X BOOLEAN)
  BY Taken DEF CallbackCancelled
<1>2. /\ worker.at = "free" /\ c \in cancelled
      /\ UNCHANGED <<phase, observer, finished, completions, cancelled, cq, returning, call,
                     worker, writer, reads, written, sent, finishes, told, stopped>>
  BY DEF CallbackCancelled, Take, ioVars
<1>3. c \notin completions
  BY <1>2 DEF Marked, Blocked
<1>4. TypeOK'
  BY <1>1, <1>2, <1>3 DEF TypeOK
<1>5. Owned' /\ AllIssued' /\ Marked'
  BY <1>1, <1>2 DEF Owned, AllIssued, Issued, Marked, Blocked
<1>6. LastRead' /\ FinishedOnce' /\ Writing' /\ Phases'
  BY <1>1, <1>2 DEF LastRead, FinishedOnce, Blocked, Writing, Phases
<1> QED BY <1>1, <1>4, <1>5, <1>6

\* A callback that has not been cancelled belongs to a completion of an open stream.
LEMMA Live ==
    ASSUME StreamInv, NEW c \in Completion, NEW ok \in BOOLEAN, Take(c, ok), c \notin cancelled
    PROVE  /\ phase = "alive" /\ worker.at = "free" /\ ~ Blocked
           /\ c \in completions /\ c \notin cq /\ completions \cap cancelled = {}
           /\ c \in OnTheWay /\ OnTheWay' = OnTheWay \ {c}
           /\ <<c, ok>> \in Entries /\ Entries' \subseteq Entries
           /\ Distinct' /\ callbacks' \in Seq(Completion \X BOOLEAN)
<1> USE DEF StreamInv
<1>1. /\ c \in OnTheWay /\ OnTheWay' = OnTheWay \ {c}
      /\ <<c, ok>> \in Entries /\ Entries' \subseteq Entries
      /\ Distinct' /\ callbacks' \in Seq(Completion \X BOOLEAN)
  BY Taken
<1>2. worker.at = "free" /\ ~ Blocked
  BY DEF Take, Blocked
<1>3. c \in completions /\ c \notin cq /\ completions \cap cancelled = {}
  BY <1>1, <1>2 DEF Owned, Marked
<1>4. phase = "alive"
  BY <1>3 DEF Phases
<1> QED BY <1>1, <1>2, <1>3, <1>4

\* The callback of a failed operation: the stream is finished by the first of them.
LEMMA OnOperationFailedKeeps ==
    ASSUME StreamInv, NEW c \in Completion, OnOperationFailed(c)
    PROVE  StreamInv'
<1> USE DEF StreamInv
<1>1. /\ phase = "alive" /\ worker.at = "free" /\ ~ Blocked
      /\ c \in completions /\ c \notin cq /\ completions \cap cancelled = {}
      /\ c \in OnTheWay /\ OnTheWay' = OnTheWay \ {c} /\ Entries' \subseteq Entries
      /\ Distinct' /\ callbacks' \in Seq(Completion \X BOOLEAN)
  BY Live DEF OnOperationFailed
<1>2. UNCHANGED <<phase, observer, returning, finishes, told, cq, call, stopped, writer, reads,
                  written, sent>>
  BY DEF OnOperationFailed, Take, ioVars
<1>3. /\ completions' = completions \ {c}
      /\ \/ finished /\ UNCHANGED <<finished, cancelled, worker>>
         \/ /\ ~ finished /\ finished' = TRUE /\ cancelled' = cancelled \cup (completions \ {c})
            /\ worker' = [at |-> "finishing", why |-> "failed"]
  BY DEF OnOperationFailed, FinishGrpcCall, Rest, Cancel
<1>4. TypeOK'
  <2>1. /\ worker' \in [at : {"free", "lastWrite", "finishing", "draining"},
                        why : {"failed", "immediate", "notify"}]
        /\ finished' \in BOOLEAN
    <3>1. worker \in [at : {"free", "lastWrite", "finishing", "draining"},
                      why : {"failed", "immediate", "notify"}]
          /\ finished \in BOOLEAN
      BY DEF TypeOK
    <3>2. [at |-> "finishing", why |-> "failed"]
             \in [at : {"free", "lastWrite", "finishing", "draining"},
                  why : {"failed", "immediate", "notify"}]
      OBVIOUS
    <3>3. \/ finished' = finished /\ worker' = worker
          \/ finished' = TRUE /\ worker' = [at |-> "finishing", why |-> "failed"]
      BY <1>3
    <3> QED BY ONLY <3>1, <3>2, <3>3
  <2>2. /\ completions' \subseteq Completion /\ cancelled' \subseteq Completion
        /\ completions' \subseteq cq' \cup OnTheWay'
    <3>1. /\ completions \subseteq Completion /\ cancelled \subseteq Completion
          /\ completions \subseteq cq \cup OnTheWay
      BY DEF TypeOK
    <3> QED BY <1>1, <1>2, <1>3, <3>1
  <2> QED BY <1>1, <1>2, <2>1, <2>2 DEF TypeOK
<1>5. Owned' /\ AllIssued'
  BY <1>1, <1>2, <1>3 DEF Owned, AllIssued, Issued
<1>6. Marked'
  BY <1>1, <1>3 DEF Marked, Blocked
<1>7. LastRead'
  BY <1>1, <1>2, <1>3 DEF LastRead
<1>8. FinishedOnce' /\ Phases'
  BY <1>1, <1>2, <1>3 DEF FinishedOnce, Blocked, Phases
<1>9. Writing'
  BY <1>1, <1>2 DEF Writing
<1> QED BY <1>1, <1>4, <1>5, <1>6, <1>7, <1>8, <1>9

\* The callback of the finish: the observer is told.
LEMMA OnFinishKeeps ==
    ASSUME StreamInv, NEW c \in Completion, Take(c, TRUE), c \notin cancelled,
           c[1] = "finish", OnFinish(c)
    PROVE  StreamInv'
<1> USE DEF StreamInv
<1>1. /\ phase = "alive" /\ worker.at = "free" /\ ~ Blocked
      /\ c \in completions /\ c \notin cq /\ completions \cap cancelled = {}
      /\ c \in OnTheWay /\ OnTheWay' = OnTheWay \ {c} /\ Entries' \subseteq Entries
      /\ Distinct' /\ callbacks' \in Seq(Completion \X BOOLEAN)
  BY Live
<1>2. UNCHANGED <<phase, observer, returning, finishes, told, cq, stopped, writer, reads,
                  written, sent>>
  BY DEF OnFinish, Take, ioVars
\* Its finish has been issued; so the call is finished.
<1>3. finishes = 1 /\ finished
  BY <1>1 DEF AllIssued, Issued, FinishedOnce
<1>4. /\ completions' = completions \ {c} /\ cancelled' = cancelled \cup (completions \ {c})
      /\ worker' = [at |-> "draining", why |-> "notify"]
      /\ UNCHANGED <<finished, call>>
  BY <1>3 DEF OnFinish, Shutdown, Rest, Cancel
<1>5. TypeOK'
  BY <1>1, <1>2, <1>4 DEF TypeOK
<1>6. Owned' /\ AllIssued' /\ Marked'
  BY <1>1, <1>2, <1>4 DEF Owned, AllIssued, Issued, Marked, Blocked
<1>7. LastRead'
  BY <1>1, <1>2, <1>3, <1>4 DEF LastRead
<1>8. FinishedOnce' /\ Phases'
  BY <1>1, <1>2, <1>3, <1>4 DEF FinishedOnce, Blocked, Phases
<1>9. Writing'
  BY <1>1, <1>2 DEF Writing
<1> QED BY <1>1, <1>5, <1>6, <1>7, <1>8, <1>9

\* The callback of a read: the observer gets it, and another is issued unless it gave up.
LEMMA OnReadKeeps ==
    ASSUME StreamInv, NEW c \in Completion, Take(c, TRUE), c \notin cancelled,
           c[1] = "read", OnRead(c)
    PROVE  StreamInv'
<1> USE DEF StreamInv
<1> DEFINE next == <<"read", reads + 1>>
<1>1. /\ phase = "alive" /\ worker.at = "free" /\ ~ Blocked
      /\ c \in completions /\ c \notin cq /\ completions \cap cancelled = {}
      /\ c \in OnTheWay /\ OnTheWay' = OnTheWay \ {c}
      /\ <<c, TRUE>> \in Entries /\ Entries' \subseteq Entries
      /\ Distinct' /\ callbacks' \in Seq(Completion \X BOOLEAN)
  BY Live
<1>2. /\ reads' = reads + 1 /\ cq' = cq \cup {next}
      /\ UNCHANGED <<phase, observer, returning, finishes, told, writer, written, sent>>
  BY DEF OnRead, Take
\* c is the last read, and there may be another one.
<1>3. c = <<"read", reads>> /\ reads < MaxReads /\ reads \in Nat
  <2>1. c = <<"read", reads>>
    BY <1>1, CompletionIs DEF LastRead
  <2>2. <<c, TRUE>>[1] = c /\ <<c, TRUE>>[2]
    OBVIOUS
  <2>3. reads < MaxReads
    BY <1>1, <2>1, <2>2 DEF LastRead
  <2>4. reads \in Nat
    BY DEF TypeOK
  <2> QED BY <2>1, <2>3, <2>4
<1>4. next \in Completion /\ next[1] = "read" /\ next[2] = reads + 1
  BY <1>3 DEF Completion
<1>5. next \notin cq \cup OnTheWay \cup completions \cup cancelled
  <2>1. ~ Issued(next)
    BY <1>3, <1>4 DEF Issued
  <2> QED BY <2>1 DEF AllIssued
<1>6. /\ completions' = (completions \ {c}) \cup {next}
      /\ \/ UNCHANGED <<finished, cancelled, call, worker, stopped>>
         \/ /\ cancelled' = cancelled \cup completions' /\ stopped' = TRUE
            /\ \/ ~ finished /\ finished' = TRUE /\ call' = TryCancel
                  /\ worker' = [at |-> "finishing", why |-> "immediate"]
               \/ finished /\ UNCHANGED <<finished, call>>
                  /\ worker' = [at |-> "draining", why |-> "immediate"]
  BY DEF OnRead, Shutdown, FinishGrpcCall, Rest, Cancel
<1> HIDE DEF next
<1>7. TypeOK'
  <2>1. reads' \in 0 .. MaxReads
    BY <1>2, <1>3
  <2>2. /\ worker' \in [at : {"free", "lastWrite", "finishing", "draining"},
                        why : {"failed", "immediate", "notify"}]
        /\ finished' \in BOOLEAN /\ stopped' \in BOOLEAN
        /\ call' \in {"live", "failed", "cancelled"}
    <3>1. /\ worker \in [at : {"free", "lastWrite", "finishing", "draining"},
                          why : {"failed", "immediate", "notify"}]
          /\ finished \in BOOLEAN /\ stopped \in BOOLEAN
          /\ call \in {"live", "failed", "cancelled"}
      BY DEF TypeOK
    <3>2. TryCancel \in {"live", "failed", "cancelled"}
      BY <3>1 DEF TryCancel
    <3>3. CASE UNCHANGED <<finished, cancelled, call, worker, stopped>>
      BY <3>1, <3>3
    <3>4. CASE ~ UNCHANGED <<finished, cancelled, call, worker, stopped>>
      <4>1. stopped' = TRUE
            /\ \/ finished' = TRUE /\ call' = TryCancel
                  /\ worker' = [at |-> "finishing", why |-> "immediate"]
               \/ finished' = finished /\ call' = call
                  /\ worker' = [at |-> "draining", why |-> "immediate"]
        BY <1>6, <3>4
      <4>2. \A at \in {"finishing", "draining"} :
                [at |-> at, why |-> "immediate"]
                   \in [at : {"free", "lastWrite", "finishing", "draining"},
                        why : {"failed", "immediate", "notify"}]
        OBVIOUS
      <4> QED BY ONLY <3>1, <3>2, <4>1, <4>2
    <3> QED BY <3>3, <3>4
  <2>3. /\ completions' \subseteq Completion /\ cancelled' \subseteq Completion
        /\ cq' \subseteq Completion /\ completions' \subseteq cq' \cup OnTheWay'
    BY <1>1, <1>2, <1>4, <1>6 DEF TypeOK
  <2> QED BY <1>1, <1>2, <2>1, <2>2, <2>3 DEF TypeOK
<1>8. Owned'
  BY <1>1, <1>2, <1>5, <1>6 DEF Owned
<1>9. AllIssued'
  <2>1. SUFFICES ASSUME NEW d \in cq' \cup OnTheWay' \cup completions' \cup cancelled'
                 PROVE  Issued(d)'
    BY DEF AllIssued
  <2>2. CASE d = next
    BY <2>2, <1>2, <1>3, <1>4 DEF Issued
  <2>3. CASE d # next
    <3>1. d \in Completion /\ Issued(d)
      BY <1>1, <1>2, <1>6, <2>1, <2>3, OnTheWayTyped DEF AllIssued, TypeOK
    <3>2. d[1] = "read" => d[2] \in Nat
      BY <3>1, CompletionIs
    <3> QED BY <1>2, <1>3, <3>1, <3>2 DEF Issued
  <2> QED BY <2>2, <2>3
<1>10. Marked'
  BY <1>1, <1>5, <1>6 DEF Marked, Blocked
<1>11. LastRead'
  <2>1. \A d \in completions' : d[1] = "read" => d[2] = reads'
    <3>1. SUFFICES ASSUME NEW d \in completions \ {c}, d[1] = "read" PROVE FALSE
      BY <1>2, <1>4, <1>6
    <3>2. d \in Completion /\ d[2] = reads
      BY <3>1 DEF LastRead, TypeOK
    <3> QED BY <1>3, <3>1, <3>2, CompletionIs
  <2>2. reads' > 0 /\ <<"read", reads'>> \in completions'
    BY <1>2, <1>3, <1>6 DEF next
  <2>3. \A entry \in Entries' : entry[1] # <<"read", reads'>>
    <3>1. SUFFICES ASSUME NEW entry \in Entries, entry[1] = next PROVE FALSE
      BY <1>1, <1>2 DEF next
    <3> QED BY <1>5, <3>1, OnTheWayIs
  <2> QED BY <2>1, <2>2, <2>3 DEF LastRead
<1>12. FinishedOnce' /\ Phases'
  BY <1>1, <1>2, <1>6 DEF FinishedOnce, Blocked, Phases
<1>13. Writing'
  BY <1>1, <1>2, <1>4 DEF Writing
<1> QED BY <1>1, <1>7, <1>8, <1>9, <1>10, <1>11, <1>12, <1>13

\* The callback of a write: the next message goes to gRPC.
LEMMA OnWriteKeeps ==
    ASSUME StreamInv, NEW c \in Completion, Take(c, TRUE), c \notin cancelled,
           c[1] = "write", OnWrite(c)
    PROVE  StreamInv'
<1> USE DEF StreamInv
<1> DEFINE w == Dequeued(writer)
<1> DEFINE C == completions \ {c}
<1>1. /\ phase = "alive" /\ worker.at = "free" /\ ~ Blocked
      /\ c \in completions /\ c \notin cq /\ completions \cap cancelled = {}
      /\ c \in OnTheWay /\ OnTheWay' = OnTheWay \ {c} /\ Entries' \subseteq Entries
      /\ Distinct' /\ callbacks' \in Seq(Completion \X BOOLEAN)
  BY Live
<1>2. UNCHANGED <<phase, observer, returning, finishes, told, finished, cancelled, call, worker,
                  reads, written, stopped>>
  BY DEF OnWrite, Take
<1>3. /\ w \in [active : BOOLEAN, queue : Seq(Message)] /\ w.queue = writer.queue
      /\ Len(sent) \in Nat
  <2>1. writer \in [active : BOOLEAN, queue : Seq(Message)]
    BY DEF TypeOK
  <2>2. sent \in Seq(Message)
    BY DEF TypeOK
  <2>3. w = [writer EXCEPT !.active = FALSE]
    BY DEF Dequeued
  <2> HIDE DEF w
  <2>4. w = [active |-> FALSE, queue |-> writer.queue] /\ writer.queue \in Seq(Message)
    BY ONLY <2>1, <2>3
  <2>5. Len(sent) \in Nat
    BY ONLY <2>2
  <2> QED BY ONLY <2>4, <2>5
<1>4. \A i \in DOMAIN w.queue : w.queue[i] = Len(sent) + i
  BY <1>3 DEF Writing
\* It was the only write.
<1>5. \A d \in cq \cup OnTheWay' : d[1] # "write"
  BY <1>1 DEF Writing
<1>6. MaybeWrite(w, C)
  BY DEF OnWrite, Rest
<1> HIDE DEF w, C
<1>7. C \in SUBSET completions /\ OnTheWay' \in SUBSET OnTheWay
  BY <1>1 DEF C
<1>8. /\ writer' \in [active : BOOLEAN, queue : Seq(Message)] /\ sent' \in Seq(Message)
      /\ \A i \in DOMAIN sent' : sent'[i] = i
      /\ \A i \in DOMAIN writer'.queue : writer'.queue[i] = Len(sent') + i
      /\ Len(sent') + Len(writer'.queue) = Len(sent) + Len(w.queue)
      /\ Len(sent) <= Len(sent')
      /\ \A d, other \in cq' \cup OnTheWay' :
             d[1] = "write" => writer'.active /\ (other[1] = "write" => d = other)
      /\ cq \subseteq cq' /\ completions' = C \cup (cq' \ cq)
      /\ \A d \in cq' \ cq :
             /\ d \in Completion /\ d[1] = "write" /\ d[2] = Len(sent')
             /\ d \notin OnTheWay /\ d \notin completions /\ d \notin cancelled
  <2> DEFINE W == OnTheWay'
  <2>1. W \in SUBSET OnTheWay /\ \A d, other \in cq \cup W :
            d[1] = "write" => w.active /\ (other[1] = "write" => d = other)
    BY <1>5, <1>7
  <2> HIDE DEF W
  <2>2. /\ writer' \in [active : BOOLEAN, queue : Seq(Message)] /\ sent' \in Seq(Message)
        /\ \A i \in DOMAIN sent' : sent'[i] = i
        /\ \A i \in DOMAIN writer'.queue : writer'.queue[i] = Len(sent') + i
        /\ Len(sent') + Len(writer'.queue) = Len(sent) + Len(w.queue)
        /\ Len(sent) <= Len(sent')
        /\ \A d, other \in cq' \cup W :
               d[1] = "write" => writer'.active /\ (other[1] = "write" => d = other)
        /\ cq \subseteq cq' /\ completions' = C \cup (cq' \ cq)
        /\ \A d \in cq' \ cq :
               /\ d \in Completion /\ d[1] = "write" /\ d[2] = Len(sent')
               /\ d \notin OnTheWay /\ d \notin completions /\ d \notin cancelled
    BY <1>3, <1>4, <1>6, <1>7, <2>1, NextWrite
  <2> QED BY <2>2 DEF W
<1> DEFINE N == cq' \ cq
<1>9. /\ completions' = C \cup N /\ cq' = cq \cup N /\ N \subseteq Completion
      /\ N \cap (cq \cup OnTheWay \cup completions \cup cancelled) = {}
      /\ \A d \in N : d[1] = "write" /\ d[2] = Len(sent')
      /\ Len(sent') \in Nat
  BY <1>8
<1> HIDE DEF N
<1>10. TypeOK'
  <2>1. completions' \subseteq Completion /\ cq' \subseteq Completion
        /\ completions' \subseteq cq' \cup OnTheWay'
    BY <1>1, <1>9 DEF TypeOK, C
  <2> QED BY <1>1, <1>2, <1>8, <2>1 DEF TypeOK
<1>11. Owned'
  BY <1>1, <1>2, <1>9 DEF Owned, C
<1>12. Marked'
  BY <1>1, <1>2, <1>9 DEF Marked, Blocked, C
<1>13. AllIssued'
  <2>1. SUFFICES ASSUME NEW d \in cq' \cup OnTheWay' \cup completions' \cup cancelled'
                 PROVE  Issued(d)'
    BY DEF AllIssued
  <2>2. CASE d \in N
    BY <2>2, <1>9 DEF Issued
  <2>3. CASE d \notin N
    <3>1. d \in Completion /\ Issued(d)
      BY <1>1, <1>2, <1>9, <2>3, OnTheWayTyped DEF AllIssued, TypeOK, C
    <3>2. d[1] = "write" => d[2] \in Nat
      BY <3>1, CompletionIs
    <3> QED BY <1>2, <1>3, <1>8, <1>9, <3>1, <3>2 DEF Issued
  <2> QED BY <2>2, <2>3
<1>14. LastRead'
  BY <1>1, <1>2, <1>9 DEF LastRead, C
<1>15. FinishedOnce' /\ Phases'
  BY <1>1, <1>2 DEF FinishedOnce, Phases, Blocked
<1>16. Writing'
  <2>1. Len(sent') + Len(writer'.queue) = written'
    <3>1. Len(sent') + Len(writer'.queue) = Len(sent) + Len(w.queue)
      BY <1>8
    <3> QED BY <1>2, <1>3, <3>1 DEF Writing
  <2> QED BY <1>8, <2>1 DEF Writing
<1> QED BY <1>1, <1>10, <1>11, <1>12, <1>13, <1>14, <1>15, <1>16

\* The callback of an operation that succeeded.
LEMMA OperationSucceedsKeeps ==
    ASSUME StreamInv, NEW c \in Completion, OperationSucceeds(c)
    PROVE  StreamInv'
<1>1. Take(c, TRUE) /\ c \notin cancelled
  BY DEF OperationSucceeds
<1>2. CASE c[1] = "read"
  <2>1. OnRead(c)
    BY <1>2 DEF OperationSucceeds
  <2> QED BY <1>1, <1>2, <2>1, OnReadKeeps
<1>3. CASE c[1] = "write"
  <2>1. OnWrite(c)
    BY <1>3 DEF OperationSucceeds
  <2> QED BY <1>1, <1>3, <2>1, OnWriteKeeps
<1>4. CASE c[1] = "finish"
  <2>1. OnFinish(c)
    BY <1>4 DEF OperationSucceeds
  <2> QED BY <1>1, <1>4, <2>1, OnFinishKeeps
<1> QED BY <1>2, <1>3, <1>4, CompletionIs

\* A step in which nothing happens.
LEMMA StutteringKeeps ==
    ASSUME StreamInv, UNCHANGED vars
    PROVE  StreamInv'
<1> USE DEF StreamInv, vars
<1>1. OnTheWay' = OnTheWay /\ Entries' = Entries /\ Distinct'
  BY OnTheWayKept
<1>2. TypeOK'
  BY <1>1 DEF TypeOK
<1>3. Owned' /\ AllIssued' /\ Marked'
  BY <1>1 DEF Owned, AllIssued, Issued, Marked, Blocked
<1>4. LastRead' /\ FinishedOnce' /\ Writing' /\ Phases'
  BY <1>1 DEF LastRead, FinishedOnce, Blocked, Writing, Phases
<1> QED BY <1>1, <1>2, <1>3, <1>4

\* Every step keeps the invariant.
LEMMA StreamStep == StreamInv /\ [Next]_vars => StreamInv'
<1> SUFFICES ASSUME StreamInv, [Next]_vars PROVE StreamInv'
  OBVIOUS
<1>1. CASE Start
  BY <1>1, StartKeeps
<1>2. CASE Write
  BY <1>2, WriteKeeps
<1>3. CASE FinishImmediately
  BY <1>3, FinishImmediatelyKeeps
<1>4. CASE WriteAndFinish
  BY <1>4, WriteAndFinishKeeps
<1>5. CASE ConnectivityChanges
  BY <1>5, ConnectivityChangesKeeps
<1>6. CASE WorkerResumes
  BY <1>6, CallFinishIssuedKeeps, ShutdownEndsKeeps, LastWriteOverKeeps DEF WorkerResumes
<1>7. CASE RunCallback
  BY <1>7, CallbackCancelledKeeps, OperationSucceedsKeeps, OnOperationFailedKeeps
     DEF RunCallback
<1>8. CASE CallFails
  BY <1>8, CallFailsKeeps
<1>9. CASE OperationDone \/ OperationReturns
  <2>1. PICK c \in cq, ok \in BOOLEAN : TakenOffQueue(c, ok)
    BY <1>9 DEF OperationDone, OperationReturns
  <2>2. c \in Completion
    BY DEF StreamInv, TypeOK
  <2> QED BY <2>1, <2>2, TakenOffQueueKeeps
<1>10. CASE CallbackEnqueued
  BY <1>10, CallbackEnqueuedKeeps
<1>11. CASE UNCHANGED vars
  BY <1>11, StutteringKeeps
<1> QED BY <1>1, <1>2, <1>3, <1>4, <1>5, <1>6, <1>7, <1>8, <1>9, <1>10, <1>11 DEF Next

-----------------------------------------------------------------------------
(***************************************************************************)
(* The properties.                                                        *)
(***************************************************************************)
\* The invariant holds of every behaviour, whatever is fair in it.
THEOREM StreamInvariant == Spec => []StreamInv
<1>1. Init => StreamInv
  BY StreamInit
<1>2. StreamInv /\ [Next]_vars => StreamInv'
  BY StreamStep
<1> QED BY <1>1, <1>2, PTL DEF Spec

\* The types hold, and the stream never holds a pointer to a completion that has deleted
\* itself after running its callback (grpc_completion.cc:71,
\* grpc_stream.cc:320).
THEOREM StreamTypeOK == Spec => []TypeOK
<1>1. StreamInv => TypeOK
  BY DEF StreamInv
<1> QED BY <1>1, StreamInvariant, PTL

\* A destroyed stream is used by nobody any more: gRPC has returned everything it was given,
\* and the callbacks still enqueued have been cancelled (grpc_stream.cc:102, :203).
THEOREM StreamNothingOutlives == Spec => []NothingOutlivesStream
<1>1. StreamInv => NothingOutlivesStream
  <2> SUFFICES ASSUME StreamInv, phase = "destroyed"
               PROVE  completions = {} /\ cq = {} /\ OnTheWay \subseteq cancelled
    BY DEF NothingOutlivesStream
  <2>1. completions = {}
    BY DEF StreamInv, Phases
  <2> QED BY <2>1 DEF StreamInv, Owned
<1> QED BY <1>1, StreamInvariant, PTL

\* However failed operations, the connectivity monitor and the client finish the stream, its
\* call is finished exactly once by the time it is destroyed (grpc_stream.cc:191, :220).
THEOREM StreamCallFinishedOnce == Spec => []CallFinishedOnce
<1>1. StreamInv => CallFinishedOnce
  <2> SUFFICES ASSUME StreamInv PROVE CallFinishedOnce
    OBVIOUS
  <2>1. finished \in BOOLEAN /\ FinishedOnce
    BY DEF StreamInv, TypeOK
  <2>2. phase = "destroyed" => worker.at = "free"
    BY DEF StreamInv, Phases
  <2> QED BY <2>1, <2>2 DEF FinishedOnce, CallFinishedOnce
<1> QED BY <1>1, StreamInvariant, PTL

\* gRPC never has two writes of a call at a time, and gets the messages in the order in which
\* the client wrote them (grpc_stream.cc:65).
THEOREM StreamWritesOneByOne == Spec => []WritesOneByOne
<1>1. StreamInv => WritesOneByOne
  <2> SUFFICES ASSUME StreamInv PROVE WritesOneByOne
    OBVIOUS
  <2> DEFINE W == {c \in cq : c[1] = "write"}
  <2>1. Writing
    BY DEF StreamInv
  <2>2. \A x, y \in W : x = y
    BY <2>1 DEF Writing
  <2> HIDE DEF W
  <2>3. Cardinality(W) <= 1
    BY <2>2, AtMostOne
  <2> QED BY <2>1, <2>3 DEF W, Writing, WritesOneByOne
<1> QED BY <1>1, StreamInvariant, PTL
=============================================================================
