-------------------------- MODULE SnowflakeGenerator ---------------------------
(* The ids a deployment generates: SnowflakeGenerator.NextId of every node, on *)
(* top of the worker ids of SnowflakeWorkId.  An id is a timestamp, a worker   *)
(* id and a sequence number.  The generator (IdGen.IdGenerator, a library) is  *)
(* modelled by what CreateId does: within one tick it counts the sequence up   *)
(* and throws at its end, in a later tick it starts again at 0.                *)
(*                                                                             *)
(* The tick of the generator (1 ms) and of the leases (5 s) are one clock      *)
(* here.  An id's timestamp is the tick it was generated in, so ids of two     *)
(* ticks differ and only those of the present tick are kept.                   *)
EXTENDS SnowflakeWorkId

CONSTANT MaxSequence    \* 2^SeqBitLength - 1, the last sequence number of a tick

ASSUME SequenceAssumption == MaxSequence \in Nat

VARIABLES
    sequence,    \* the sequence number of a node's last id of this tick, or NoneYet
    issued       \* the <<worker id, sequence>> of the ids generated in this tick

NoneYet == -1

generatorVars == <<sequence, issued>>
vars == <<workIdVars, generatorVars>>

Init ==
    /\ WInit
    /\ sequence = [n \in Node |-> NoneYet]
    /\ issued = {}

(* Faulty variant: at the end of the sequence it starts again, in one tick.    *)
NextIdWraps(n) ==
    /\ pc[n] = "serving"
    /\ LET s == IF sequence[n] < MaxSequence THEN sequence[n] + 1 ELSE 0
       IN  /\ sequence' = [sequence EXCEPT ![n] = s]
           /\ issued' = issued \cup {<<workId[n], s>>}
    /\ UNCHANGED workIdVars

(* Faulty variant: the sequence may go one past its last number.               *)
NextIdPastEnd(n) ==
    /\ pc[n] = "serving"
    /\ sequence[n] <= MaxSequence
    /\ sequence' = [sequence EXCEPT ![n] = @ + 1]
    /\ issued' = issued \cup {<<workId[n], sequence[n] + 1>>}
    /\ UNCHANGED workIdVars

(* NextId: CreateId.  In a tick whose sequence is used up it throws and        *)
(* nothing changes.                                                            *)
NextId(n) ==
    /\ pc[n] = "serving"
    /\ sequence[n] < MaxSequence
    /\ sequence' = [sequence EXCEPT ![n] = @ + 1]
    /\ issued' = issued \cup {<<workId[n], sequence[n] + 1>>}
    /\ UNCHANGED workIdVars

(* The generator is a singleton of the process: it is new after a restart.     *)
ExitProcess(n) ==
    /\ Exit(n)
    /\ sequence' = [sequence EXCEPT ![n] = NoneYet]
    /\ UNCHANGED issued

(* In a new tick every generator starts at 0 again.                            *)
ClockTick == Tick /\ issued' = {} /\ sequence' = [n \in Node |-> NoneYet]

(* The worker-id steps that leave the generators alone.                        *)
WorkIdStep(n) ==
    /\ \/ InitConfigured(n) \/ IncrWorkId(n) \/ RegisterWorkId(n)
       \/ RecycleWorkId(n) \/ NoWorkIdAvailable(n)
       \/ StartAsync(n) \/ GeneratorRejectsId(n)
       \/ LoopRefresh(n) \/ LoopDies(n) \/ StopAsync(n)
    /\ UNCHANGED generatorVars

Next == ClockTick \/ \E n \in Node : WorkIdStep(n) \/ ExitProcess(n) \/ NextId(n)

Spec == Init /\ [][Next]_vars

--------------------------------------------------------------------------------
(* The variables keep their types.                                             *)
TypeOK ==
    /\ WTypeOK
    /\ sequence \in [Node -> 0 .. MaxSequence \cup {NoneYet}]
    /\ issued \in SUBSET (WorkIds \X (0 .. MaxSequence))

(* NextId never returns an id that any node returned before, through restarts  *)
(* and crashes of the nodes, until the worker ids are exhausted.               *)
IdsAreFresh ==
    [][\A n \in Node : NextId(n) /\ Unexhausted /\ cur[n] # 0
          => issued' # issued]_vars

=============================================================================
