---------------------------- MODULE SnowflakeWorkId ----------------------------
(* How the nodes of a deployment obtain, keep and give back the worker id that *)
(* makes their snowflake ids unique.  Models SnowflakeWorkIdManager and the    *)
(* hosted service SnowflakeBackgroundServices of every node, and the two Redis *)
(* keys they share: an INCR counter and a sorted set of ids scored by the time *)
(* of their last refresh.                                                      *)
(*                                                                             *)
(* One unit of time is the 5 s of the refresh loop.  Redis commands are        *)
(* atomic, one action each; what a node does between two of them is local and  *)
(* belongs to the action of the command before it.                             *)
EXTENDS Integers, FiniteSets

CONSTANTS
    Node,             \* the processes of the deployment
    ConfigurableIds,  \* values of SnowflakeOption.WorkId a start may be given
    MaxWorkId,        \* 1 << SnowflakeOption.WorkerIdBitLength
    ByteRange,        \* the values of a C# byte: 256
    MayStall,         \* the nodes whose refresh loop may miss its 5 s
    ExpireAfter,      \* 15 s, in units of the refresh loop
    MaxTime,          \* bound on now
    MaxStarts         \* bound on the counter

NoLease == -1
Never == -1
RefreshEvery == 1
WorkIds == 0 .. (ByteRange - 1)

ASSUME RangeAssumption == /\ MaxWorkId \in Nat \ {0}
                          /\ ByteRange \in Nat \ {0}
                          /\ ExpireAfter \in Nat
                          /\ RefreshEvery < ExpireAfter
                          /\ MaxTime \in Nat
                          /\ MaxStarts \in Nat
ASSUME NodeAssumption == /\ ConfigurableIds \subseteq WorkIds
                         /\ MayStall \subseteq Node

VARIABLES
    now,           \* the clock the nodes share, in units of 5 s
    counter,       \* Redis key snowflake_workid_cur_index
    lease,         \* Redis sorted set snowflake_workid_set: id -> score
    pc,            \* where each process is in its start-up or its life
    cur,           \* local curWorkId of InitWorkId; 0 before the INCR
    workId,        \* static property WorkId; 0 before it is assigned
    loop,          \* is the background refresh task running
    refreshedAt    \* when that task last refreshed, which starts its delay

redisVars == <<counter, lease>>
nodeVars == <<pc, cur, workId, loop, refreshedAt>>
workIdVars == <<now, redisVars, nodeVars>>

--------------------------------------------------------------------------------
(* (byte)curWorkId: an unchecked conversion keeps the low eight bits.          *)
ToByte(i) == i % ByteRange

(* RefreshWorkId: ZADD the id with the current time as its score.              *)
RefreshWorkId(w) == lease' = [lease EXCEPT ![w] = now]

(* Faulty variant: the range ends at now, without the 15 s.                    *)
ExpiredNoGrace == {w \in WorkIds : lease[w] # NoLease /\ lease[w] <= now}

(* ZRANGEBYSCORE 0 (now - 15 s): the ids nobody refreshed for 15 s.            *)
Expired == {w \in WorkIds : lease[w] # NoLease /\ lease[w] <= now - ExpireAfter}

(* LIMIT 0 1 of that range: an id of the lowest score (ties are either).       *)
OldestExpired == {w \in Expired : \A v \in Expired : lease[w] <= lease[v]}

(* The generator's constructor takes an id of WorkerIdBitLength bits only.     *)
FitsGenerator(w) == w < MaxWorkId

--------------------------------------------------------------------------------
WInit ==
    /\ now = 0
    /\ counter = 0
    /\ lease = [w \in WorkIds |-> NoLease]
    /\ pc = [n \in Node |-> "down"]
    /\ cur = [n \in Node |-> 0]
    /\ workId = [n \in Node |-> 0]
    /\ loop = [n \in Node |-> FALSE]
    /\ refreshedAt = [n \in Node |-> Never]

(* InitWorkId with option.WorkId set: the id is taken as it is.                *)
InitConfigured(n) ==
    /\ pc[n] = "down"
    /\ \E w \in ConfigurableIds : workId' = [workId EXCEPT ![n] = w]
    /\ pc' = [pc EXCEPT ![n] = "assigned"]
    /\ UNCHANGED <<now, redisVars, cur, loop, refreshedAt>>

(* Faulty variant: the INCR is a read and a write, and a write can be lost.    *)
IncrWorkIdNotAtomic(n) ==
    /\ pc[n] = "down"
    /\ counter < MaxStarts
    /\ counter' \in {counter, counter + 1}
    /\ cur' = [cur EXCEPT ![n] = counter + 1]
    /\ IF counter + 1 > MaxWorkId
       THEN /\ pc' = [pc EXCEPT ![n] = "recycling"]
            /\ UNCHANGED workId
       ELSE /\ pc' = [pc EXCEPT ![n] = "assigned"]
            /\ workId' = [workId EXCEPT ![n] = ToByte(counter + 1)]
    /\ UNCHANGED <<now, lease, loop, refreshedAt>>

(* Faulty variant: the limit is the largest id, and that id is refused too.    *)
IncrWorkIdEarlyLimit(n) ==
    /\ pc[n] = "down"
    /\ counter < MaxStarts
    /\ counter' = counter + 1
    /\ cur' = [cur EXCEPT ![n] = counter + 1]
    /\ IF counter + 1 >= MaxWorkId - 1
       THEN /\ pc' = [pc EXCEPT ![n] = "recycling"]
            /\ UNCHANGED workId
       ELSE /\ pc' = [pc EXCEPT ![n] = "assigned"]
            /\ workId' = [workId EXCEPT ![n] = ToByte(counter + 1)]
    /\ UNCHANGED <<now, lease, loop, refreshedAt>>

(* InitWorkId without a configured id: INCR, then either take the number as    *)
(* the id or, past the last one, go and look for an expired id.                *)
IncrWorkId(n) ==
    /\ pc[n] = "down"
    /\ counter < MaxStarts
    /\ counter' = counter + 1
    /\ cur' = [cur EXCEPT ![n] = counter + 1]
    /\ IF counter + 1 > MaxWorkId
       THEN /\ pc' = [pc EXCEPT ![n] = "recycling"]
            /\ UNCHANGED workId
       ELSE /\ pc' = [pc EXCEPT ![n] = "assigned"]
            /\ workId' = [workId EXCEPT ![n] = ToByte(counter + 1)]
    /\ UNCHANGED <<now, lease, loop, refreshedAt>>

(* InitWorkId: the RefreshWorkId that follows both assignments above.          *)
RegisterWorkId(n) ==
    /\ pc[n] = "assigned"
    /\ RefreshWorkId(workId[n])
    /\ pc' = [pc EXCEPT ![n] = "registered"]
    /\ UNCHANGED <<now, counter, cur, workId, loop, refreshedAt>>

(* InitWorkId: ZRANGEBYSCORE found an id.  It is taken, and not refreshed.     *)
RecycleWorkId(n) ==
    /\ pc[n] = "recycling"
    /\ \E w \in OldestExpired : workId' = [workId EXCEPT ![n] = w]
    /\ pc' = [pc EXCEPT ![n] = "registered"]
    /\ UNCHANGED <<now, redisVars, cur, loop, refreshedAt>>

(* InitWorkId: ZRANGEBYSCORE found nothing; the constructor throws and the     *)
(* host does not start.                                                        *)
NoWorkIdAvailable(n) ==
    /\ pc[n] = "recycling"
    /\ Expired = {}
    /\ pc' = [pc EXCEPT ![n] = "failed"]
    /\ UNCHANGED <<now, redisVars, cur, workId, loop, refreshedAt>>

(* StartAsync: the refresh loop is started, once the generator is constructed. *)
StartAsync(n) ==
    /\ pc[n] = "registered"
    /\ FitsGenerator(workId[n])
    /\ pc' = [pc EXCEPT ![n] = "serving"]
    /\ loop' = [loop EXCEPT ![n] = TRUE]
    /\ UNCHANGED <<now, redisVars, cur, workId, refreshedAt>>

(* The generator's constructor throws: the id has too many bits.               *)
GeneratorRejectsId(n) ==
    /\ pc[n] = "registered"
    /\ ~FitsGenerator(workId[n])
    /\ pc' = [pc EXCEPT ![n] = "failed"]
    /\ UNCHANGED <<now, redisVars, cur, workId, loop, refreshedAt>>

(* One turn of the loop in StartAsync: refresh, then delay 5 s.  StopAsync     *)
(* does not end the loop, so it turns until the process exits.                 *)
LoopRefresh(n) ==
    /\ loop[n]
    /\ refreshedAt[n] = Never \/ refreshedAt[n] + RefreshEvery <= now
    /\ RefreshWorkId(workId[n])
    /\ refreshedAt' = [refreshedAt EXCEPT ![n] = now]
    /\ UNCHANGED <<now, counter, pc, cur, workId, loop>>

(* A Redis error in the loop ends its task; nothing observes or restarts it.   *)
LoopDies(n) ==
    /\ loop[n]
    /\ loop' = [loop EXCEPT ![n] = FALSE]
    /\ UNCHANGED <<now, redisVars, pc, cur, workId, refreshedAt>>

(* StopAsync: UnRegisterWorkId removes the id from the sorted set.             *)
StopAsync(n) ==
    /\ pc[n] = "serving"
    /\ lease' = [lease EXCEPT ![workId[n]] = NoLease]
    /\ pc' = [pc EXCEPT ![n] = "stopping"]
    /\ UNCHANGED <<now, counter, cur, workId, loop, refreshedAt>>

(* The process is gone: it exits after StopAsync or a failed start, or it      *)
(* crashes anywhere.  The slot can be used by the next start.                  *)
Exit(n) ==
    /\ pc[n] # "down"
    /\ pc' = [pc EXCEPT ![n] = "down"]
    /\ cur' = [cur EXCEPT ![n] = 0]
    /\ workId' = [workId EXCEPT ![n] = 0]
    /\ loop' = [loop EXCEPT ![n] = FALSE]
    /\ refreshedAt' = [refreshedAt EXCEPT ![n] = Never]
    /\ UNCHANGED <<now, redisVars>>

(* Five seconds pass.  A node that does not stall has refreshed by then.       *)
Punctual(n) == n \notin MayStall /\ pc[n] = "serving" /\ loop[n]
Tick ==
    /\ now < MaxTime
    /\ \A n \in Node : Punctual(n) =>
         refreshedAt[n] # Never /\ refreshedAt[n] + RefreshEvery > now
    /\ now' = now + 1
    /\ UNCHANGED <<redisVars, nodeVars>>

WNode(n) == \/ InitConfigured(n)
            \/ IncrWorkId(n)
            \/ RegisterWorkId(n)
            \/ RecycleWorkId(n)
            \/ NoWorkIdAvailable(n)
            \/ StartAsync(n)
            \/ GeneratorRejectsId(n)
            \/ LoopRefresh(n)
            \/ LoopDies(n)
            \/ StopAsync(n)
            \/ Exit(n)

WNext == Tick \/ \E n \in Node : WNode(n)

--------------------------------------------------------------------------------
Pcs == {"down", "assigned", "registered", "recycling", "serving", "stopping", "failed"}
HoldsId(n) == pc[n] \in {"assigned", "registered", "serving", "stopping"}
Allocated(n) == HoldsId(n) /\ cur[n] # 0

(* As long as the counter has neither wrapped around a byte nor passed the     *)
(* last id, nor reached an id that nodes are configured with, every number it  *)
(* gave out is an id of its own.                                               *)
Unexhausted ==
    /\ counter <= MaxWorkId
    /\ counter <= ByteRange
    /\ \A i \in 1 .. counter : ToByte(i) \notin ConfigurableIds

(* The variables keep their types.                                             *)
WTypeOK ==
    /\ now \in 0 .. MaxTime
    /\ counter \in 0 .. MaxStarts
    /\ lease \in [WorkIds -> (0 .. MaxTime) \cup {NoLease}]
    /\ pc \in [Node -> Pcs]
    /\ cur \in [Node -> 0 .. MaxStarts]
    /\ workId \in [Node -> WorkIds]
    /\ loop \in [Node -> BOOLEAN]
    /\ refreshedAt \in [Node -> (0 .. MaxTime) \cup {Never}]

(* Two nodes that took their ids from the counter never hold the same one,     *)
(* whatever crashed or restarted between, until the ids are exhausted: what    *)
(* InitWorkId's INCR is for.                                                   *)
DistinctWorkIds ==
    Unexhausted => \A n, m \in Node :
        n # m /\ Allocated(n) /\ Allocated(m) => workId[n] # workId[m]

(* A node whose loop keeps its 5 s is never robbed: once it has refreshed, the *)
(* 15 s query of another node's InitWorkId does not return its id, even when   *)
(* the id was recycled, shared with a stalled owner or removed by one.         *)
PunctualNotRecyclable ==
    \A n \in Node : Punctual(n) /\ refreshedAt[n] # Never => workId[n] \notin Expired

(* A start without a configured id fails only when the counter has reached the *)
(* limit: every smaller number is an id the generator accepts.                 *)
FailsOnlyAtLimit ==
    \A n \in Node : pc[n] = "failed" /\ cur[n] # 0 => counter >= MaxWorkId

(* Up to 1 << WorkerIdBitLength starts get ids of their own, as the option's   *)
(* comment says (10 bits, 1024 nodes).                                         *)
SupportsMaxWorkIdNodes ==
    counter <= MaxWorkId => \A n, m \in Node :
        n # m /\ Allocated(n) /\ Allocated(m) => workId[n] # workId[m]
=============================================================================
