------------------------------ MODULE RealtimeStream ------------------------------
(* The realtime stream (api/realtime.py, api/routes/stream.py). A publisher uses Redis,   *)
(* and the queues of its own process for as long as Redis cools down. A reader listens to *)
(* one transport, chosen when its request starts.                                         *)
EXTENDS Integers, Sequences

CONSTANTS
    Processes,
    Readers,       \* requests for /api/v1/stream
    Publications,  \* calls of publish_event
    Home,          \* Home[x]: the process of a reader or a publication
    QueueSize,     \* maxsize of a memory queue
    MaxAccepted    \* bound on the frames that the transports accept

ASSUME StreamAssumption ==
    /\ \A x \in Readers \cup Publications : Home[x] \in Processes
    /\ QueueSize \in Nat \ {0} /\ MaxAccepted \in Nat

VARIABLES
    redisUp,
    cooling,       \* cooling[p]: now < _redis_unavailable_until
    publication,   \* stages of the publications
    reader,        \* stage, buffered frames, frames written, position at the subscription
    accepted

streamVars == <<redisUp, cooling, publication, reader, accepted>>

RealtimeInit ==
    /\ redisUp = TRUE
    /\ cooling = [p \in Processes |-> FALSE]
    /\ publication = [k \in Publications |-> "new"]
    /\ reader = [r \in Readers |-> [stage |-> "new", queue |-> <<>>, heard |-> <<>>, since |-> 0]]
    /\ accepted = 0

(* A full memory queue loses its oldest frame.                                            *)
Rotated(queue, frame) ==   \* a mutant of Enqueued
    IF Len(queue) < QueueSize THEN Append(queue, frame) ELSE <<queue[2], queue[1], frame>>
Unbounded(queue, frame) == Append(queue, frame)   \* a mutant of Enqueued
Enqueued(queue, frame) ==
    Append(IF Len(queue) < QueueSize THEN queue ELSE Tail(queue), frame)

(* put_nowait on the queues of the process. The lock is not held across an await.         *)
MemoryPublish(p) ==
    /\ accepted < MaxAccepted
    /\ accepted' = accepted + 1
    /\ reader' = [r \in Readers |->
          IF reader[r].stage = "memory" /\ Home[r] = p
          THEN [reader[r] EXCEPT !.queue = Enqueued(@, accepted + 1)] ELSE reader[r]]

(* publish_event during the cool-down.                                                    *)
PublishCooling(k) ==
    /\ publication[k] = "new" /\ cooling[Home[k]]
    /\ MemoryPublish(Home[k])
    /\ publication' = [publication EXCEPT ![k] = "done"]
    /\ UNCHANGED <<redisUp, cooling>>

PublishStart(k) ==
    /\ publication[k] = "new" /\ ~cooling[Home[k]]
    /\ publication' = [publication EXCEPT ![k] = "redis"]
    /\ UNCHANGED <<redisUp, cooling, reader, accepted>>

(* Redis fans the frame out. When its reply is lost the client sends PUBLISH again, or    *)
(* gives up with PublishFails: one publication can be accepted several times.             *)
RedisPublish(k) ==
    /\ publication[k] = "redis" /\ redisUp /\ accepted < MaxAccepted
    /\ accepted' = accepted + 1
    /\ reader' = [r \in Readers |->
          IF reader[r].stage = "redis"
          THEN [reader[r] EXCEPT !.queue = Append(@, accepted + 1)] ELSE reader[r]]
    /\ \E stage \in {"done", "redis"} : publication' = [publication EXCEPT ![k] = stage]
    /\ UNCHANGED <<redisUp, cooling>>

PublishFails(k) ==
    /\ publication[k] = "redis"
    /\ cooling' = [cooling EXCEPT ![Home[k]] = TRUE]
    /\ MemoryPublish(Home[k])
    /\ publication' = [publication EXCEPT ![k] = "done"]
    /\ UNCHANGED redisUp

CoolDownEnds(p) ==
    /\ cooling[p]
    /\ cooling' = [cooling EXCEPT ![p] = FALSE]
    /\ UNCHANGED <<redisUp, publication, reader, accepted>>

(* An error of psubscribe leaves the generator, and the request turns to the memory.      *)
Subscribe(r) ==
    /\ reader[r].stage = "new"
    /\ \E stage \in {"redis", "memory"} :
          /\ stage = "redis" => redisUp
          /\ reader' = [reader EXCEPT ![r].stage = stage, ![r].since = accepted]
    /\ UNCHANGED <<redisUp, cooling, publication, accepted>>

(* get_message or queue.get returned a frame, which is written to the response.           *)
Receive(r) ==
    /\ reader[r].queue # <<>>
    /\ reader' = [reader EXCEPT ![r].queue = Tail(@), ![r].heard = Append(@, Head(reader[r].queue))]
    /\ UNCHANGED <<redisUp, cooling, publication, accepted>>

(* The connection to Redis breaks and what it buffered is lost. The client connects again *)
(* by itself, or get_message raises: the generator breaks and the response ends, without  *)
(* a turn to the memory.                                                                  *)
ReceiveFails(r) ==
    /\ reader[r].stage = "redis"
    /\ \E stage \in {"redis", "closed"} :
          /\ stage = "redis" => redisUp
          /\ reader' = [reader EXCEPT ![r].stage = stage, ![r].queue = <<>>]
    /\ UNCHANGED <<redisUp, cooling, publication, accepted>>

Disconnect(r) ==
    /\ reader[r].stage \in {"redis", "memory"}
    /\ reader' = [reader EXCEPT ![r].stage = "closed", ![r].queue = <<>>]
    /\ UNCHANGED <<redisUp, cooling, publication, accepted>>

RedisTurns ==
    /\ redisUp' = ~redisUp
    /\ UNCHANGED <<cooling, publication, reader, accepted>>

StreamNext ==
    \/ \E k \in Publications :
          PublishCooling(k) \/ PublishStart(k) \/ RedisPublish(k) \/ PublishFails(k)
    \/ \E p \in Processes : CoolDownEnds(p)
    \/ \E r \in Readers : Subscribe(r) \/ Receive(r) \/ ReceiveFails(r) \/ Disconnect(r)
    \/ RedisTurns

RealtimeSpec == RealtimeInit /\ [][StreamNext]_streamVars

(* A reader once n frames have been accepted. *)
ReaderType(n) ==
    [stage : {"new", "redis", "memory", "closed"}, queue : Seq(1 .. n), heard : Seq(1 .. n),
     since : 0 .. n]

StreamTypeOK ==
    /\ redisUp \in BOOLEAN
    /\ cooling \in [Processes -> BOOLEAN]
    /\ publication \in [Publications -> {"new", "redis", "done"}]
    /\ reader \in [Readers -> ReaderType(accepted)]
    /\ \A r \in Readers : reader[r].stage = "memory" => Len(reader[r].queue) <= QueueSize
    /\ accepted \in 0 .. MaxAccepted

Promise == INSTANCE FrameStream WITH heard <- [r \in Readers |-> reader[r].heard]

(* The stream implements FrameStream: whatever a full queue drops, a broken connection    *)
(* loses, the client of Redis repeats and the cool-down sends to another transport, the   *)
(* frames written to one reader are accepted ones, in their order and without repetition. *)
FramesKeepOrder == Promise!StreamSpec

(* Refuted: a reader that still listens is shown every frame accepted since it subscribed *)
(* (a full queue drops, and a reader of one transport misses the frames of the other).    *)
NothingIsMissed == \A r \in Readers : reader[r].stage \in {"redis", "memory"} =>
    \A frame \in reader[r].since + 1 .. accepted :
        \E i \in 1 .. Len(reader[r].heard \o reader[r].queue) :
            (reader[r].heard \o reader[r].queue)[i] = frame
===================================================================================
