------------------------ MODULE RealtimeStreamProofs ------------------------
(***************************************************************************)
(* Proofs about RealtimeStream: it implements FrameStream for every set of *)
(* processes, readers and publications and every size of a queue.          *)
(***************************************************************************)
EXTENDS RealtimeStream, SequenceTheorems, TLAPS

Ascending(s) == \A i, j \in 1 .. Len(s) : i < j => s[i] < s[j]

(* What a reader has heard and what waits for it are one ascending sequence. *)
Ordered(q) ==
    /\ Ascending(q.heard)
    /\ Ascending(q.queue)
    /\ \A i \in 1 .. Len(q.heard), j \in 1 .. Len(q.queue) : q.heard[i] < q.queue[j]

(* A reader has no frames before it subscribes. *)
Unheard(q) == q.stage = "new" => q.queue = <<>>

StreamInv == StreamTypeOK /\ \A r \in Readers : Ordered(reader[r]) /\ Unheard(reader[r])

-----------------------------------------------------------------------------
(* Sequences of frames *)

LEMMA LaterFrames ==
    ASSUME NEW n \in Nat
    PROVE  ReaderType(n) \subseteq ReaderType(n + 1)
  <1> SUFFICES ASSUME NEW q \in ReaderType(n) PROVE q \in ReaderType(n + 1)
    OBVIOUS
  <1>1. 1 .. n \subseteq 1 .. n + 1 /\ 0 .. n \subseteq 0 .. n + 1
    OBVIOUS
  <1>2. q.queue \in Seq(1 .. n) /\ q.heard \in Seq(1 .. n) /\ q.since \in 0 .. n
    BY DEF ReaderType
  <1>3. q.queue \in Seq(1 .. n + 1) /\ q.heard \in Seq(1 .. n + 1)
    BY <1>1, <1>2, SeqMonotonic
  <1>4. q = [stage |-> q.stage, queue |-> q.queue, heard |-> q.heard, since |-> q.since]
    BY DEF ReaderType
  <1>5. q.stage \in {"new", "redis", "memory", "closed"}
    BY DEF ReaderType
  <1> QED
    BY <1>1, <1>2, <1>3, <1>4, <1>5 DEF ReaderType

LEMMA AppendNewest ==
    ASSUME NEW n \in Nat, NEW s \in Seq(1 .. n), Ascending(s)
    PROVE  /\ Append(s, n + 1) \in Seq(1 .. n + 1)
           /\ Len(Append(s, n + 1)) = Len(s) + 1
           /\ \A i \in 1 .. Len(s) : Append(s, n + 1)[i] = s[i]
           /\ Append(s, n + 1)[Len(s) + 1] = n + 1
           /\ Ascending(Append(s, n + 1))
  <1>1. s \in Seq(1 .. n + 1) /\ n + 1 \in 1 .. n + 1
    <2>1. 1 .. n \subseteq 1 .. n + 1
      OBVIOUS
    <2> QED
      BY <2>1, SeqMonotonic
  <1>2. /\ Append(s, n + 1) \in Seq(1 .. n + 1)
        /\ Len(Append(s, n + 1)) = Len(s) + 1
        /\ \A i \in 1 .. Len(s) : Append(s, n + 1)[i] = s[i]
        /\ Append(s, n + 1)[Len(s) + 1] = n + 1
    BY <1>1, AppendProperties
  <1>3. \A i \in 1 .. Len(s) : s[i] \in 1 .. n
    BY ElementOfSeq
  <1>4. Len(s) \in Nat
    BY LenProperties
  <1> DEFINE t == Append(s, n + 1)
  <1>5. Ascending(t)
    <2> SUFFICES ASSUME NEW i \in 1 .. Len(t), NEW j \in 1 .. Len(t), i < j
                 PROVE  t[i] < t[j]
      BY DEF Ascending
    <2> HIDE DEF t
    <2>1. i \in 1 .. Len(s) /\ t[i] = s[i] /\ s[i] \in 1 .. n
      BY <1>2, <1>3, <1>4 DEF t
    <2>2. CASE j = Len(s) + 1
      BY <1>2, <2>1, <2>2 DEF t
    <2>3. CASE j # Len(s) + 1
      <3>1. j \in 1 .. Len(s) /\ t[j] = s[j]
        BY <1>2, <1>4, <2>3 DEF t
      <3> QED
        BY <2>1, <3>1 DEF Ascending
    <2> QED
      BY <2>2, <2>3
  <1> QED
    BY <1>2, <1>5 DEF t

LEMMA TailAscends ==
    ASSUME NEW n \in Nat, NEW s \in Seq(1 .. n), s # <<>>, Ascending(s)
    PROVE  /\ Tail(s) \in Seq(1 .. n) /\ Len(Tail(s)) = Len(s) - 1 /\ Len(s) \in Nat \ {0}
           /\ \A i \in 1 .. Len(Tail(s)) : Tail(s)[i] = s[i + 1]
           /\ Head(s) = s[1] /\ Head(s) \in 1 .. n
           /\ Ascending(Tail(s))
           /\ \A i \in 1 .. Len(Tail(s)) : s[1] < Tail(s)[i]
  <1>1. /\ Tail(s) \in Seq(1 .. n) /\ Len(Tail(s)) = Len(s) - 1
        /\ \A i \in 1 .. Len(Tail(s)) : Tail(s)[i] = s[i + 1]
        /\ Head(s) \in 1 .. n
    BY HeadTailProperties
  <1>2. Len(s) \in Nat \ {0}
    BY EmptySeq
  <1>3. Head(s) = s[1]
    OBVIOUS
  <1> DEFINE t == Tail(s)
  <1> HIDE DEF t
  <1>4. Ascending(t) /\ \A i \in 1 .. Len(t) : s[1] < t[i]
    BY <1>1, <1>2 DEF Ascending, t
  <1> QED
    BY <1>1, <1>2, <1>3, <1>4 DEF t

(* A frame of either transport goes to the end of the queue, and a full queue   *)
(* of the memory drops its oldest one first.                                    *)
LEMMA EnqueuedFrame ==
    ASSUME NEW n \in Nat, NEW s \in Seq(1 .. n), Ascending(s)
    PROVE  /\ Enqueued(s, n + 1) \in Seq(1 .. n + 1)
           /\ Ascending(Enqueued(s, n + 1))
           /\ Len(s) <= QueueSize => Len(Enqueued(s, n + 1)) <= QueueSize
           /\ \A j \in 1 .. Len(Enqueued(s, n + 1)) :
                 \/ Enqueued(s, n + 1)[j] = n + 1
                 \/ \E i \in 1 .. Len(s) : Enqueued(s, n + 1)[j] = s[i]
  <1> DEFINE kept == IF Len(s) < QueueSize THEN s ELSE Tail(s)
  <1>1. Len(s) \in Nat /\ QueueSize \in Nat \ {0}
    BY LenProperties, StreamAssumption
  <1>2. /\ kept \in Seq(1 .. n) /\ Ascending(kept)
        /\ Len(kept) \in Nat
        /\ Len(s) <= QueueSize => Len(kept) < QueueSize
        /\ \A j \in 1 .. Len(kept) : \E i \in 1 .. Len(s) : kept[j] = s[i]
    <2>1. CASE Len(s) < QueueSize
      BY <1>1, <2>1
    <2>2. CASE ~(Len(s) < QueueSize)
      <3>1. s # <<>>
        BY <1>1, <2>2, EmptySeq
      <3>2. /\ Tail(s) \in Seq(1 .. n) /\ Ascending(Tail(s)) /\ Len(Tail(s)) = Len(s) - 1
            /\ \A i \in 1 .. Len(Tail(s)) : Tail(s)[i] = s[i + 1]
        BY <3>1, TailAscends
      <3>3. \A j \in 1 .. Len(Tail(s)) : j + 1 \in 1 .. Len(s)
        BY <1>1, <3>2
      <3> QED
        BY <1>1, <2>2, <3>2, <3>3
    <2> QED
      BY <2>1, <2>2
  <1>3. Enqueued(s, n + 1) = Append(kept, n + 1)
    BY DEF Enqueued
  <1> HIDE DEF kept
  <1>4. /\ Append(kept, n + 1) \in Seq(1 .. n + 1)
        /\ Len(Append(kept, n + 1)) = Len(kept) + 1
        /\ \A i \in 1 .. Len(kept) : Append(kept, n + 1)[i] = kept[i]
        /\ Append(kept, n + 1)[Len(kept) + 1] = n + 1
        /\ Ascending(Append(kept, n + 1))
    BY <1>2, AppendNewest
  <1>5. \A j \in 1 .. Len(kept) + 1 :
           \/ Append(kept, n + 1)[j] = n + 1
           \/ \E i \in 1 .. Len(s) : Append(kept, n + 1)[j] = s[i]
    <2> SUFFICES ASSUME NEW j \in 1 .. Len(kept) + 1, j # Len(kept) + 1
                 PROVE  \E i \in 1 .. Len(s) : Append(kept, n + 1)[j] = s[i]
      BY <1>4
    <2>1. j \in 1 .. Len(kept)
      BY <1>2
    <2> QED
      BY <1>2, <1>4, <2>1
  <1>6. Len(s) <= QueueSize => Len(Append(kept, n + 1)) <= QueueSize
    BY <1>1, <1>2, <1>4
  <1> DEFINE t == Append(kept, n + 1)
  <1>7. /\ t \in Seq(1 .. n + 1) /\ Ascending(t)
        /\ Len(s) <= QueueSize => Len(t) <= QueueSize
        /\ \A j \in 1 .. Len(t) : t[j] = n + 1 \/ \E i \in 1 .. Len(s) : t[j] = s[i]
    BY <1>4, <1>5, <1>6
  <1> HIDE DEF t
  <1>8. Enqueued(s, n + 1) = t
    BY <1>3 DEF t
  <1> QED
    BY <1>7, <1>8

LEMMA AppendedFrame ==
    ASSUME NEW n \in Nat, NEW s \in Seq(1 .. n), Ascending(s)
    PROVE  \A j \in 1 .. Len(Append(s, n + 1)) :
              \/ Append(s, n + 1)[j] = n + 1
              \/ \E i \in 1 .. Len(s) : Append(s, n + 1)[j] = s[i]
  <1> SUFFICES ASSUME NEW j \in 1 .. Len(Append(s, n + 1)), Append(s, n + 1)[j] # n + 1
               PROVE  \E i \in 1 .. Len(s) : Append(s, n + 1)[j] = s[i]
    OBVIOUS
  <1>1. Len(s) \in Nat
    BY LenProperties
  <1>2. j \in 1 .. Len(s)
    BY <1>1, AppendNewest
  <1> QED
    BY <1>2, AppendNewest

-----------------------------------------------------------------------------
(* The records of readers *)

LEMMA ReaderEdit ==
    ASSUME NEW n \in Nat, NEW q \in ReaderType(n)
    PROVE  /\ \A s \in Seq(1 .. n) : [q EXCEPT !.queue = s] \in ReaderType(n)
           /\ \A s \in Seq(1 .. n) : [q EXCEPT !.heard = s] \in ReaderType(n)
           /\ \A s \in {"new", "redis", "memory", "closed"} : [q EXCEPT !.stage = s] \in ReaderType(n)
           /\ [q EXCEPT !.since = n] \in ReaderType(n)
  <1>1. \A s \in Seq(1 .. n) : [q EXCEPT !.queue = s] \in ReaderType(n)
    BY DEF ReaderType
  <1>2. \A s \in Seq(1 .. n) : [q EXCEPT !.heard = s] \in ReaderType(n)
    BY DEF ReaderType
  <1>3. \A s \in {"new", "redis", "memory", "closed"} : [q EXCEPT !.stage = s] \in ReaderType(n)
    BY DEF ReaderType
  <1>4. [q EXCEPT !.since = n] \in ReaderType(n)
    BY DEF ReaderType
  <1> QED
    BY <1>1, <1>2, <1>3, <1>4

LEMMA ReaderFields ==
    ASSUME NEW n \in Nat, NEW q \in ReaderType(n)
    PROVE  /\ q.queue \in Seq(1 .. n) /\ q.heard \in Seq(1 .. n)
           /\ q.stage \in {"new", "redis", "memory", "closed"}
  BY DEF ReaderType

(* A reader that gets the newest frame stays in order. *)
LEMMA OrderedFrame ==
    ASSUME NEW n \in Nat, NEW q \in ReaderType(n), Ordered(q), NEW s \in Seq(1 .. n + 1),
           Ascending(s),
           \A j \in 1 .. Len(s) : s[j] = n + 1 \/ \E i \in 1 .. Len(q.queue) : s[j] = q.queue[i]
    PROVE  [q EXCEPT !.queue = s] \in ReaderType(n + 1) /\ Ordered([q EXCEPT !.queue = s])
  <1>1. [q EXCEPT !.queue = s] \in ReaderType(n + 1)
    <2>1. n + 1 \in Nat /\ q \in ReaderType(n + 1)
      BY LaterFrames
    <2> QED
      BY <2>1, ReaderEdit
  <1>2. [q EXCEPT !.queue = s].heard = q.heard /\ [q EXCEPT !.queue = s].queue = s
    BY DEF ReaderType
  <1>3. \A i \in 1 .. Len(q.heard) : q.heard[i] < n + 1
    <2>1. \A i \in 1 .. Len(q.heard) : q.heard[i] \in 1 .. n
      BY ReaderFields, ElementOfSeq
    <2> QED
      BY <2>1
  <1>4. \A i \in 1 .. Len(q.heard), j \in 1 .. Len(s) : q.heard[i] < s[j]
    BY <1>3 DEF Ordered
  <1> DEFINE p == [q EXCEPT !.queue = s]
  <1> HIDE DEF p
  <1>5. Ordered(p)
    BY <1>2, <1>4 DEF Ordered, p
  <1> QED
    BY <1>1, <1>5 DEF p

-----------------------------------------------------------------------------
(* The invariant, and the promise *)

LEMMA InitInv == RealtimeInit => StreamInv
  <1> SUFFICES ASSUME RealtimeInit PROVE StreamInv
    OBVIOUS
  <1>1. \A r \in Readers : reader[r] \in ReaderType(0) /\ Ordered(reader[r]) /\ Unheard(reader[r])
    BY DEF RealtimeInit, ReaderType, Ordered, Ascending, Unheard
  <1> QED
    BY <1>1, StreamAssumption DEF RealtimeInit, StreamInv, StreamTypeOK

(* A transport accepts a frame, for the readers it chooses. *)
LEMMA AcceptedFrame ==
    ASSUME StreamInv, accepted' = accepted + 1, accepted < MaxAccepted,
           redisUp' \in BOOLEAN, cooling' \in [Processes -> BOOLEAN],
           publication' \in [Publications -> {"new", "redis", "done"}],
           NEW Chosen \in SUBSET Readers,
           \/ /\ \A r \in Chosen : reader[r].stage = "memory"
              /\ reader' = [r \in Readers |-> IF r \in Chosen
                     THEN [reader[r] EXCEPT !.queue = Enqueued(reader[r].queue, accepted + 1)]
                     ELSE reader[r]]
           \/ /\ \A r \in Chosen : reader[r].stage = "redis"
              /\ reader' = [r \in Readers |-> IF r \in Chosen
                     THEN [reader[r] EXCEPT !.queue = Append(reader[r].queue, accepted + 1)]
                     ELSE reader[r]]
    PROVE  StreamInv' /\ \A r \in Readers : reader'[r].heard = reader[r].heard
  <1>1. accepted \in Nat /\ accepted' \in 0 .. MaxAccepted
    BY StreamAssumption DEF StreamInv, StreamTypeOK
  <1>2. ASSUME NEW r \in Readers
        PROVE  /\ reader'[r] \in ReaderType(accepted + 1)
               /\ Ordered(reader'[r])
               /\ Unheard(reader'[r])
               /\ reader'[r].stage = "memory" => Len(reader'[r].queue) <= QueueSize
               /\ reader'[r].heard = reader[r].heard
    <2> DEFINE q == reader[r]
    <2>1. /\ q \in ReaderType(accepted) /\ Ordered(q) /\ q.queue \in Seq(1 .. accepted) /\ Unheard(q)
          /\ Ascending(q.queue)
          /\ q.stage = "memory" => Len(q.queue) <= QueueSize
      BY <1>1, ReaderFields DEF StreamInv, StreamTypeOK, Ordered
    <2>2. CASE reader'[r] = q
      BY <1>1, <2>1, <2>2, LaterFrames
    <2>3. CASE /\ q.stage = "memory"
               /\ reader'[r] = [q EXCEPT !.queue = Enqueued(q.queue, accepted + 1)]
      <3> DEFINE s == Enqueued(q.queue, accepted + 1)
      <3> HIDE DEF q
      <3>1. /\ s \in Seq(1 .. accepted + 1) /\ Ascending(s)
            /\ Len(q.queue) <= QueueSize => Len(s) <= QueueSize
            /\ \A j \in 1 .. Len(s) :
                  s[j] = accepted + 1 \/ \E i \in 1 .. Len(q.queue) : s[j] = q.queue[i]
        BY <1>1, <2>1, EnqueuedFrame
      <3>2. reader'[r] = [q EXCEPT !.queue = s]
        BY <2>3
      <3> HIDE DEF s
      <3>3. reader'[r] \in ReaderType(accepted + 1) /\ Ordered(reader'[r])
        BY <1>1, <2>1, <3>1, <3>2, OrderedFrame
      <3>4. /\ reader'[r].heard = q.heard /\ reader'[r].queue = s
            /\ reader'[r].stage = "memory" /\ Unheard(reader'[r])
        BY <2>1, <2>3, <3>2 DEF ReaderType, Unheard
      <3> QED
        BY <2>1, <2>3, <3>1, <3>3, <3>4 DEF q
    <2>4. CASE /\ q.stage = "redis"
               /\ reader'[r] = [q EXCEPT !.queue = Append(q.queue, accepted + 1)]
      <3> DEFINE s == Append(q.queue, accepted + 1)
      <3> HIDE DEF q
      <3>1. /\ s \in Seq(1 .. accepted + 1) /\ Ascending(s)
            /\ \A j \in 1 .. Len(s) :
                  s[j] = accepted + 1 \/ \E i \in 1 .. Len(q.queue) : s[j] = q.queue[i]
        BY <1>1, <2>1, AppendNewest, AppendedFrame
      <3>2. reader'[r] = [q EXCEPT !.queue = s]
        BY <2>4
      <3> HIDE DEF s
      <3>3. reader'[r] \in ReaderType(accepted + 1) /\ Ordered(reader'[r])
        BY <1>1, <2>1, <3>1, <3>2, OrderedFrame
      <3>4. reader'[r].heard = q.heard /\ reader'[r].stage = "redis" /\ Unheard(reader'[r])
        BY <2>1, <2>4, <3>2 DEF ReaderType, Unheard
      <3> QED
        BY <3>3, <3>4 DEF q
    <2> QED
      BY <2>2, <2>3, <2>4
  <1>3. reader' \in [Readers -> ReaderType(accepted')]
    BY <1>2
  <1> QED
    BY <1>1, <1>2, <1>3 DEF StreamInv, StreamTypeOK

(* One reader moves to a record that is in order. *)
LEMMA ReaderMoves ==
    ASSUME StreamInv, NEW r \in Readers, NEW q \in ReaderType(accepted), Ordered(q), Unheard(q),
           q.stage = "memory" => Len(q.queue) <= QueueSize,
           reader' = [reader EXCEPT ![r] = q],
           UNCHANGED <<redisUp, cooling, publication, accepted>>
    PROVE  StreamInv'
  BY DEF StreamInv, StreamTypeOK

(* What FrameStream sees of a reader. *)
Heard == [r \in Readers |-> reader[r].heard]

LEMMA HeardStays ==
    ASSUME \A r \in Readers : reader'[r].heard = reader[r].heard
    PROVE  Heard' = Heard
  BY DEF Heard

LEMMA MemoryPublishStep ==
    ASSUME StreamInv, NEW p \in Processes, MemoryPublish(p),
           redisUp' \in BOOLEAN, cooling' \in [Processes -> BOOLEAN],
           publication' \in [Publications -> {"new", "redis", "done"}]
    PROVE  StreamInv' /\ accepted' = accepted + 1 /\ Heard' = Heard
  <1> DEFINE Chosen == {r \in Readers : reader[r].stage = "memory" /\ Home[r] = p}
  <1>1. reader' = [r \in Readers |-> IF r \in Chosen
                     THEN [reader[r] EXCEPT !.queue = Enqueued(reader[r].queue, accepted + 1)]
                     ELSE reader[r]]
    BY DEF MemoryPublish
  <1>2. Chosen \in SUBSET Readers /\ \A r \in Chosen : reader[r].stage = "memory"
    OBVIOUS
  <1>3. accepted' = accepted + 1 /\ accepted < MaxAccepted
    BY DEF MemoryPublish
  <1> HIDE DEF Chosen
  <1> QED
    BY <1>1, <1>2, <1>3, AcceptedFrame, HeardStays

LEMMA RedisPublishStep ==
    ASSUME StreamInv, NEW k \in Publications, RedisPublish(k)
    PROVE  StreamInv' /\ accepted' = accepted + 1 /\ Heard' = Heard
  <1> DEFINE Chosen == {r \in Readers : reader[r].stage = "redis"}
  <1>1. reader' = [r \in Readers |-> IF r \in Chosen
                     THEN [reader[r] EXCEPT !.queue = Append(reader[r].queue, accepted + 1)]
                     ELSE reader[r]]
    BY DEF RedisPublish
  <1>2. Chosen \in SUBSET Readers /\ \A r \in Chosen : reader[r].stage = "redis"
    OBVIOUS
  <1>3. accepted' = accepted + 1 /\ accepted < MaxAccepted
    BY DEF RedisPublish
  <1>4. /\ redisUp' \in BOOLEAN /\ cooling' \in [Processes -> BOOLEAN]
        /\ publication' \in [Publications -> {"new", "redis", "done"}]
    BY DEF RedisPublish, StreamInv, StreamTypeOK
  <1> HIDE DEF Chosen
  <1> QED
    BY <1>1, <1>2, <1>3, <1>4, AcceptedFrame, HeardStays

(* The steps that a transport or a process makes. *)
LEMMA PublicationStep ==
    ASSUME StreamInv, NEW k \in Publications,
           PublishCooling(k) \/ PublishStart(k) \/ RedisPublish(k) \/ PublishFails(k)
    PROVE  StreamInv' /\ Heard' = Heard /\ accepted' \in {accepted, accepted + 1}
  <1>1. Home[k] \in Processes
    BY StreamAssumption
  <1>2. CASE PublishCooling(k)
    <2>1. /\ redisUp' \in BOOLEAN /\ cooling' \in [Processes -> BOOLEAN]
          /\ publication' \in [Publications -> {"new", "redis", "done"}]
          /\ MemoryPublish(Home[k])
      BY <1>2 DEF PublishCooling, StreamInv, StreamTypeOK
    <2> QED
      BY <1>1, <2>1, MemoryPublishStep
  <1>3. CASE PublishStart(k)
    BY <1>3 DEF PublishStart, StreamInv, StreamTypeOK, Heard
  <1>4. CASE RedisPublish(k)
    BY <1>4, RedisPublishStep
  <1>5. CASE PublishFails(k)
    <2>1. /\ redisUp' \in BOOLEAN /\ cooling' \in [Processes -> BOOLEAN]
          /\ publication' \in [Publications -> {"new", "redis", "done"}]
          /\ MemoryPublish(Home[k])
      BY <1>5 DEF PublishFails, StreamInv, StreamTypeOK
    <2> QED
      BY <1>1, <2>1, MemoryPublishStep
  <1> QED
    BY <1>2, <1>3, <1>4, <1>5

(* The steps of a reader that writes nothing. *)
LEMMA QuietReaderStep ==
    ASSUME StreamInv, NEW r \in Readers, Subscribe(r) \/ ReceiveFails(r) \/ Disconnect(r)
    PROVE  StreamInv' /\ Heard' = Heard /\ accepted' = accepted
  <1> DEFINE q == reader[r]
  <1>1. /\ accepted \in Nat /\ q \in ReaderType(accepted) /\ Ordered(q) /\ Unheard(q)
        /\ q.stage = "memory" => Len(q.queue) <= QueueSize
        /\ QueueSize \in Nat
        /\ reader \in [Readers -> ReaderType(accepted)]
    BY StreamAssumption DEF StreamInv, StreamTypeOK
  <1>2. UNCHANGED <<redisUp, cooling, publication, accepted>>
    BY DEF Subscribe, ReceiveFails, Disconnect
  <1>3. ASSUME NEW p \in ReaderType(accepted), Ordered(p), Unheard(p), p.heard = q.heard,
               p.stage = "memory" => Len(p.queue) <= QueueSize,
               reader' = [reader EXCEPT ![r] = p]
        PROVE  StreamInv' /\ Heard' = Heard /\ accepted' = accepted
    <2>1. StreamInv'
      BY <1>2, <1>3, ReaderMoves
    <2>2. \A s \in Readers : reader'[s].heard = reader[s].heard
      BY <1>1, <1>3
    <2> QED
      BY <1>2, <2>1, <2>2, HeardStays
  <1>4. CASE Subscribe(r)
    <2>1. PICK stage \in {"redis", "memory"} :
             reader' = [reader EXCEPT ![r] = [[q EXCEPT !.stage = stage] EXCEPT !.since = accepted]]
      BY <1>1, <1>4 DEF Subscribe
    <2> DEFINE p1 == [q EXCEPT !.stage = stage]
               p == [p1 EXCEPT !.since = accepted]
    <2>2. q.queue = <<>>
      BY <1>1, <1>4 DEF Unheard, Subscribe
    <2> HIDE DEF q
    <2>3. p1 \in ReaderType(accepted)
      BY <1>1, <2>1, ReaderEdit
    <2>4. p.queue = q.queue /\ p.heard = q.heard /\ p.stage = stage
      BY <1>1 DEF ReaderType
    <2> HIDE DEF p1
    <2>5. p \in ReaderType(accepted)
      BY <1>1, <2>3, ReaderEdit
    <2>6. reader' = [reader EXCEPT ![r] = p]
      BY <2>1 DEF p1
    <2> HIDE DEF p
    <2>7. Ordered(p) /\ Unheard(p) /\ Len(p.queue) <= QueueSize
      BY <1>1, <2>1, <2>2, <2>4 DEF Ordered, Unheard
    <2> QED
      BY <1>3, <2>4, <2>5, <2>6, <2>7
  <1>5. CASE ReceiveFails(r) \/ Disconnect(r)
    <2>1. PICK stage \in {"redis", "closed"} :
             reader' = [reader EXCEPT ![r] = [[q EXCEPT !.stage = stage] EXCEPT !.queue = <<>>]]
      BY <1>1, <1>5 DEF ReceiveFails, Disconnect
    <2> DEFINE p1 == [q EXCEPT !.stage = stage]
               p == [p1 EXCEPT !.queue = <<>>]
    <2> HIDE DEF q
    <2>2. p1 \in ReaderType(accepted)
      BY <1>1, <2>1, ReaderEdit
    <2>3. p.queue = <<>> /\ p.heard = q.heard /\ p.stage = stage
      BY <1>1 DEF ReaderType
    <2> HIDE DEF p1
    <2>4. p \in ReaderType(accepted)
      BY <1>1, <2>2, ReaderEdit, EmptySeq
    <2>5. reader' = [reader EXCEPT ![r] = p]
      BY <2>1 DEF p1
    <2> HIDE DEF p
    <2>6. Ordered(p) /\ Unheard(p) /\ Len(p.queue) <= QueueSize
      BY <1>1, <2>1, <2>3 DEF Ordered, Unheard, Ascending
    <2> QED
      BY <1>3, <2>3, <2>4, <2>5, <2>6
  <1> QED
    BY <1>4, <1>5

(* A frame that is written to the response is later than all before it. *)
LEMMA ReceiveStep ==
    ASSUME StreamInv, NEW r \in Readers, Receive(r)
    PROVE  /\ StreamInv' /\ accepted' = accepted
           /\ \E frame \in Promise!Newest(Heard[r]) + 1 .. accepted :
                 Heard' = [Heard EXCEPT ![r] = Append(@, frame)]
  <1> DEFINE q == reader[r]
             f == Head(q.queue)
             p1 == [q EXCEPT !.queue = Tail(q.queue)]
             p == [p1 EXCEPT !.heard = Append(q.heard, f)]
  <1>1. /\ accepted \in Nat /\ q \in ReaderType(accepted) /\ Ordered(q) /\ Unheard(q)
        /\ q.stage = "memory" => Len(q.queue) <= QueueSize
        /\ QueueSize \in Nat
        /\ reader \in [Readers -> ReaderType(accepted)]
        /\ q.queue \in Seq(1 .. accepted) /\ q.heard \in Seq(1 .. accepted)
        /\ Ascending(q.queue) /\ Ascending(q.heard)
    BY StreamAssumption, ReaderFields DEF StreamInv, StreamTypeOK, Ordered
  <1>2. q.queue # <<>> /\ UNCHANGED <<redisUp, cooling, publication, accepted>>
        /\ reader' = [reader EXCEPT ![r] = p]
    BY <1>1 DEF Receive, ReaderType
  <1>3. /\ Tail(q.queue) \in Seq(1 .. accepted) /\ Len(Tail(q.queue)) = Len(q.queue) - 1
        /\ Len(q.queue) \in Nat \ {0}
        /\ f = q.queue[1] /\ f \in 1 .. accepted /\ Ascending(Tail(q.queue))
        /\ \A i \in 1 .. Len(Tail(q.queue)) : q.queue[1] < Tail(q.queue)[i]
        /\ \A i \in 1 .. Len(Tail(q.queue)) : Tail(q.queue)[i] = q.queue[i + 1]
    BY <1>1, <1>2, TailAscends
  <1>4. /\ Append(q.heard, f) \in Seq(1 .. accepted)
        /\ Len(Append(q.heard, f)) = Len(q.heard) + 1
        /\ \A i \in 1 .. Len(q.heard) : Append(q.heard, f)[i] = q.heard[i]
        /\ Append(q.heard, f)[Len(q.heard) + 1] = f
        /\ Len(q.heard) \in Nat
    BY <1>1, <1>3, AppendProperties, LenProperties
  <1>5. \A i \in 1 .. Len(q.heard) : q.heard[i] < f /\ q.heard[i] \in 1 .. accepted
    BY SMTT(30), <1>1, <1>3, ElementOfSeq DEF Ordered
  <1> HIDE DEF f
  <1>6. p1 \in ReaderType(accepted)
    <2> HIDE DEF q
    <2> QED
      BY <1>1, <1>3, ReaderEdit
  <1>7. p \in ReaderType(accepted)
    <2> HIDE DEF p1, q
    <2> QED
      BY <1>1, <1>4, <1>6, ReaderEdit
  <1>8. p.queue = Tail(q.queue) /\ p.heard = Append(q.heard, f) /\ p.stage = q.stage
    BY <1>1 DEF ReaderType
  <1> HIDE DEF p
  <1>9. Ordered(p)
    <2> DEFINE h == Append(q.heard, f)
               t == Tail(q.queue)
    <2>1. Ascending(h)
      <3> SUFFICES ASSUME NEW i \in 1 .. Len(h), NEW j \in 1 .. Len(h), i < j
                   PROVE  h[i] < h[j]
        BY DEF Ascending
      <3>1. i \in 1 .. Len(q.heard) /\ h[i] = q.heard[i]
        BY <1>4
      <3>2. CASE j = Len(q.heard) + 1
        BY <1>4, <1>5, <3>1, <3>2
      <3>3. CASE j # Len(q.heard) + 1
        <4>1. j \in 1 .. Len(q.heard) /\ h[j] = q.heard[j]
          BY <1>4, <3>3
        <4> QED
          BY <1>1, <3>1, <4>1 DEF Ascending
      <3> QED
        BY <3>2, <3>3
    <2>2. \A i \in 1 .. Len(h), j \in 1 .. Len(t) : h[i] < t[j]
      <3> SUFFICES ASSUME NEW i \in 1 .. Len(h), NEW j \in 1 .. Len(t) PROVE h[i] < t[j]
        OBVIOUS
      <3>1. f < t[j] /\ t[j] = q.queue[j + 1] /\ j + 1 \in 1 .. Len(q.queue)
        BY <1>3
      <3>2. CASE i = Len(q.heard) + 1
        BY <1>4, <3>1, <3>2
      <3>3. CASE i # Len(q.heard) + 1
        <4>1. i \in 1 .. Len(q.heard) /\ h[i] = q.heard[i]
          BY <1>4, <3>3
        <4> QED
          BY <1>1, <3>1, <4>1 DEF Ordered
      <3> QED
        BY <3>2, <3>3
    <2> QED
      BY <1>3, <1>8, <2>1, <2>2 DEF Ordered
  <1>10. /\ Unheard(p)
         /\ p.stage = "memory" => Len(p.queue) <= QueueSize
    BY <1>1, <1>2, <1>3, <1>8 DEF Unheard
  <1>11. StreamInv'
    BY <1>2, <1>7, <1>9, <1>10, ReaderMoves
  <1>12. Heard' = [Heard EXCEPT ![r] = Append(Heard[r], f)]
    BY <1>1, <1>2, <1>8 DEF Heard
  <1>13. f \in Promise!Newest(Heard[r]) + 1 .. accepted
    <2>1. Heard[r] = q.heard
      BY DEF Heard
    <2>2. CASE q.heard = <<>>
      BY <1>3, <2>1, <2>2 DEF Promise!Newest
    <2>3. CASE q.heard # <<>>
      <3>1. Len(q.heard) \in 1 .. Len(q.heard)
        BY <1>1, <2>3, EmptySeq
      <3>2. Promise!Newest(Heard[r]) = q.heard[Len(q.heard)]
        BY <2>1, <2>3 DEF Promise!Newest
      <3>3. q.heard[Len(q.heard)] < f /\ q.heard[Len(q.heard)] \in 1 .. accepted
        BY <1>5, <3>1
      <3> QED
        BY SMTT(30), <1>1, <1>3, <3>2, <3>3
    <2> QED
      BY <2>2, <2>3
  <1> QED
    BY <1>2, <1>11, <1>12, <1>13

LEMMA StreamSteps ==
    ASSUME StreamInv, [StreamNext]_streamVars
    PROVE  /\ StreamInv'
           /\ \/ Heard' = Heard /\ accepted' \in {accepted, accepted + 1}
              \/ \E r \in Readers :
                    /\ accepted' = accepted
                    /\ \E frame \in Promise!Newest(Heard[r]) + 1 .. accepted :
                          Heard' = [Heard EXCEPT ![r] = Append(@, frame)]
  <1>1. ASSUME \/ \E p \in Processes : CoolDownEnds(p)
               \/ RedisTurns
               \/ UNCHANGED streamVars
        PROVE  StreamInv' /\ Heard' = Heard /\ accepted' = accepted
    <2>1. reader' = reader /\ accepted' = accepted /\ publication' = publication
          /\ redisUp' \in BOOLEAN /\ cooling' \in [Processes -> BOOLEAN]
      BY <1>1 DEF CoolDownEnds, RedisTurns, streamVars, StreamInv, StreamTypeOK
    <2> QED
      BY <2>1 DEF StreamInv, StreamTypeOK, Heard
  <1>2. ASSUME NEW k \in Publications,
               PublishCooling(k) \/ PublishStart(k) \/ RedisPublish(k) \/ PublishFails(k)
        PROVE  StreamInv' /\ Heard' = Heard /\ accepted' \in {accepted, accepted + 1}
    BY <1>2, PublicationStep
  <1>3. ASSUME NEW r \in Readers, Subscribe(r) \/ ReceiveFails(r) \/ Disconnect(r)
        PROVE  StreamInv' /\ Heard' = Heard /\ accepted' = accepted
    BY <1>3, QuietReaderStep
  <1>4. ASSUME NEW r \in Readers, Receive(r)
        PROVE  /\ StreamInv' /\ accepted' = accepted
               /\ \E frame \in Promise!Newest(Heard[r]) + 1 .. accepted :
                     Heard' = [Heard EXCEPT ![r] = Append(@, frame)]
    BY <1>4, ReceiveStep
  <1> QED
    BY <1>1, <1>2, <1>3, <1>4 DEF StreamNext

LEMMA InvAlways == RealtimeSpec => []StreamInv
  BY InitInv, StreamSteps, PTL DEF RealtimeSpec

(* Every variable keeps its type: in particular the queue of a reader of the    *)
(* memory never grows beyond its size.                                          *)
THEOREM QueuesStayBounded == RealtimeSpec => []StreamTypeOK
  <1>1. StreamInv => StreamTypeOK
    BY DEF StreamInv
  <1> QED
    BY <1>1, InvAlways, PTL

(* The stream implements FrameStream: whatever is dropped, lost, repeated or    *)
(* sent to the other transport, each reader is written accepted frames in their *)
(* order and none twice.                                                        *)
THEOREM StreamKeepsItsPromise == RealtimeSpec => FramesKeepOrder
  <1>1. RealtimeInit => Promise!StreamInit
    BY DEF RealtimeInit, Promise!StreamInit
  <1>2. StreamInv /\ [StreamNext]_streamVars =>
           [Promise!Accept \/ \E r \in Readers : Promise!Hear(r)]_<<accepted, Heard>>
    BY StreamSteps DEF Promise!Accept, Promise!Hear, Heard
  <1> QED
    BY <1>1, <1>2, InvAlways, PTL DEF RealtimeSpec, FramesKeepOrder, Promise!StreamSpec, Heard
=============================================================================
