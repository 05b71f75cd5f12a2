--------------------------- MODULE MessageQueueProofs --------------------------
(* Safety of MQManager's publishers and consumers, for any applications,       *)
(* queues, messages and faults.                                                *)
EXTENDS MessageQueue, TLAPS

(* What the assumptions say.                                                   *)
LEMMA Limits == ChannelMax \in Nat \ {0} /\ MaxFaults \in Nat
BY QueueAssumption

LEMMA Actors == /\ Publishers \subseteq Apps /\ PushedTo \subseteq {"direct", "topic"}
                /\ Named # {} /\ Apps # {}
BY QueueAssumption

LEMMA Askable == \A a \in Apps : Asked[a] \subseteq Asks
BY QueueAssumption DEF Asks, Modes

--------------------------------------------------------------------------------
(* The inductive invariant.                                                    *)

(* A channel's oldest delivery is the only one that a handler can run for.     *)
Serial == \A a \in Apps :
    /\ unacked[a] = <<>> => running[a] = {}
    /\ unacked[a] # <<>> => running[a] \subseteq {unacked[a][1]} /\ sub[a].stage = "on"
    /\ \A i, j \in DOMAIN unacked[a] : unacked[a][i] = unacked[a][j] => i = j

(* A message is ready or with one consumer.                                    *)
Alone == \A a \in Apps :
    /\ Unacked(a) \cap queue[sub[a].queue].ready = {}
    /\ \A b \in Apps : a # b /\ sub[a].queue = sub[b].queue => Unacked(a) \cap Unacked(b) = {}

(* The broker has nothing of a message before it takes it.                     *)
Unrouted(m) == pushes[m].stage \in {"none", "sent"}
Unknown == \A m \in Messages : Unrouted(m) =>
    /\ \A q \in Queues : m \notin queue[q].ready /\ runs[q][m] = 0
    /\ \A a \in Apps : m \notin Unacked(a)

(* Queues that were bound when a push began stay bound until it arrives, and   *)
(* then have the message, or have had it, if it was not refused.               *)
Kept(q, m) == m \in Held(q) \cup handled[q] \cup failed[q]
Owed == \A m \in Messages : \A q \in pushes[m].owed :
    /\ pushes[m].stage = "sent" => pushes[m].mode \in queue[q].bound
    /\ pushes[m].stage \in {"routed", "returned", "past"} /\ ~pushes[m].nacked => Kept(q, m)

(* A lost connection is the only reason to start a handler again.              *)
Counted == \A m \in Messages :
    /\ \A q \in Queues : runs[q][m] <= 1 + losses
    /\ \A q \in Queues : m \in queue[q].ready => runs[q][m] <= losses
    /\ \A a \in Apps : m \in Unacked(a) /\ m \notin running[a] => runs[sub[a].queue][m] <= losses

(* A subscription under way has the channel that a refusal would close.        *)
OwnChannel == \A a \in Apps : sub[a].stage = "declare" => conn[a].channels > 0

(* Nothing is delivered on a connection that is down.                          *)
Silent == \A a \in Apps : ~conn[a].up => unacked[a] = <<>>

MInv == Serial /\ Alone /\ Unknown /\ Owed /\ Counted

--------------------------------------------------------------------------------
(* Types.                                                                      *)
Stages == {"none", "declare", "bind", "consume", "on", "sleep", "threw"}
Subs == [stage : Stages, queue : Queues, mode : Modes, durable : BOOLEAN, ask : Asks]
Calls == [stage : {"none", "sent", "routed", "returned", "past", "threw"},
          app : Apps, mode : Modes, owed : SUBSET Queues, nacked : BOOLEAN]
Brokers == [state : {"absent", "transient", "durable"}, bound : SUBSET Modes,
            ready : SUBSET Messages]
Conns == [up : BOOLEAN, channels : 0 .. ChannelMax,
          recorded : SUBSET (Queues \X (Modes \cup {"queue"}))]

Deliveries ==
    /\ unacked \in [Apps -> Seq(Messages)]
    /\ running \in [Apps -> SUBSET Messages]
    /\ late \in [Apps -> SUBSET (Queues \X Messages)]
Histories ==
    /\ handled \in [Queues -> SUBSET Messages] /\ failed \in [Queues -> SUBSET Messages]
    /\ runs \in [Queues -> [Messages -> Nat]]
Faults == losses \in Nat /\ restarts \in Nat /\ losses + restarts <= MaxFaults

TInv ==
    /\ queue \in [Queues -> Brokers] /\ conn \in [Apps -> Conns]
    /\ sub \in [Apps -> Subs] /\ pushes \in [Messages -> Calls]
    /\ Deliveries /\ Histories /\ Faults
    /\ OwnChannel

LEMMA TInvIsTypeOK == TInv => TypeOK
BY DEF TInv, TypeOK, Subs, Stages, Calls, Brokers, Conns, Deliveries, Histories, Faults

LEMMA TypesInit == Init => TInv
<1> SUFFICES ASSUME Init
             PROVE  TInv
    OBVIOUS
<1>1. NoSub \in Subs
    <2>1. AnyQueue \in Queues
        BY Actors DEF AnyQueue, Queues
    <2>. QED
        BY <2>1 DEF NoSub, Subs, Stages, Modes, Asks
<1>2. NoPush \in Calls
    <2>1. (CHOOSE a \in Apps : TRUE) \in Apps
        BY Actors
    <2>. QED
        BY <2>1 DEF NoPush, Calls, Modes
<1>3. Fresh \in Conns /\ NoSub.stage = "none"
    <2>1. 1 \in 0 .. ChannelMax
        BY Limits
    <2>. QED
        BY <2>1 DEF Fresh, Conns, NoSub
<1>4. sub \in [Apps -> Subs] /\ pushes \in [Messages -> Calls] /\ conn \in [Apps -> Conns]
    BY <1>1, <1>2, <1>3 DEF Init
<1>5. OwnChannel
    BY <1>3 DEF Init, OwnChannel
<1>6. queue \in [Queues -> Brokers]
    BY DEF Init, Brokers
<1>7. Deliveries
    BY DEF Init, Deliveries
<1>8. Histories /\ Faults
    BY Limits DEF Init, Histories, Faults
<1>. QED
    BY <1>4, <1>5, <1>6, <1>7, <1>8 DEF TInv

(* Opening a channel keeps within the limit.                                   *)
LEMMA OpenedTypes ==
    ASSUME conn \in [Apps -> Conns], NEW a \in Apps, CanOpen(a)
    PROVE  /\ Opened(a) \in [Apps -> Conns]
           /\ Opened(a)[a].channels > 0
           /\ \A b \in Apps : Opened(a)[b].channels >= conn[b].channels
BY Limits DEF Conns, CanOpen, Opened

(* A publisher's steps.                                                        *)
LEMMA PushTypes ==
    ASSUME TInv, NEW m \in Messages,
           \/ \E a \in Publishers, mode \in PushedTo : PushMessage(m, a, mode)
           \/ Route(m) \/ Refuse(m) \/ PushReturns(m)
    PROVE  TInv'
<1> USE DEF TInv
<1>1. ASSUME NEW a \in Publishers, NEW mode \in PushedTo, PushMessage(m, a, mode)
      PROVE  TInv'
    <2>1. a \in Apps /\ mode \in Modes
        BY Actors DEF Modes
    <2>2. conn' \in [Apps -> Conns] /\ \A b \in Apps : conn'[b].channels >= conn[b].channels
        <3>1. CASE CanOpen(a)
            BY <1>1, <2>1, <3>1, OpenedTypes DEF PushMessage
        <3>2. CASE ~CanOpen(a)
            BY <1>1, <3>2 DEF PushMessage, Conns
        <3>. QED
            BY <3>1, <3>2
    <2>3. pushes' \in [Messages -> Calls]
        <3>1. CASE CanOpen(a)
            <4> DEFINE r == [stage |-> "sent", app |-> a, mode |-> mode,
                             owed |-> {q \in Queues : mode \in queue[q].bound},
                             nacked |-> FALSE]
            <4>1. pushes' = [pushes EXCEPT ![m] = r]
                BY <1>1, <3>1 DEF PushMessage
            <4>2. r \in Calls
                BY <2>1 DEF Calls
            <4> HIDE DEF r
            <4>. QED
                BY <4>1, <4>2
        <3>2. CASE ~CanOpen(a)
            BY <1>1, <2>1, <3>2 DEF PushMessage, Calls
        <3>. QED
            BY <3>1, <3>2
    <2>4. UNCHANGED <<queue, sub, consumerVars, historyVars, faultVars>>
        BY <1>1 DEF PushMessage
    <2>. QED
        BY <2>2, <2>3, <2>4
           DEF OwnChannel, Deliveries, Histories, Faults, consumerVars, historyVars, faultVars, Conns
<1>2. CASE Route(m) \/ Refuse(m)
    <2>1. queue' \in [Queues -> Brokers]
        BY <1>2 DEF Route, Refuse, Brokers
    <2>2. pushes' \in [Messages -> Calls]
        BY <1>2 DEF Route, Refuse, Calls
    <2>3. UNCHANGED <<conn, sub, consumerVars, historyVars, faultVars>>
        BY <1>2 DEF Route, Refuse
    <2>. QED
        BY <2>1, <2>2, <2>3
           DEF OwnChannel, Deliveries, Histories, Faults, consumerVars, historyVars, faultVars
<1>3. CASE PushReturns(m)
    <2>1. pushes' \in [Messages -> Calls]
        BY <1>3 DEF PushReturns, Calls
    <2>2. UNCHANGED <<queue, conn, sub, consumerVars, historyVars, faultVars>>
        BY <1>3 DEF PushReturns
    <2>. QED
        BY <2>1, <2>2
           DEF OwnChannel, Deliveries, Histories, Faults, consumerVars, historyVars, faultVars
<1>. QED
    BY <1>1, <1>2, <1>3

(* A subscription's steps.                                                     *)
LEMMA CallTypes ==
    ASSUME TInv, NEW a \in Apps, NEW mode \in Modes, NEW durable \in BOOLEAN, NEW ask \in Asks,
           Call(a, mode, durable, ask)
    PROVE  TInv'
<1> USE DEF TInv
<1>1. UNCHANGED <<queue, consumerVars, pushes, historyVars, faultVars>>
    BY DEF Call
<1> DEFINE r == [stage |-> IF CanOpen(a) THEN "declare" ELSE "threw", queue |-> sub[a].queue,
                 mode |-> mode, durable |-> durable, ask |-> ask]
<1>2. sub' = [sub EXCEPT ![a] = r] /\ (r.stage = "declare" => CanOpen(a))
    BY DEF Call
<1>3. r \in Subs
    BY DEF Subs, Stages
<1>4. /\ conn' \in [Apps -> Conns]
      /\ CanOpen(a) => conn'[a].channels > 0
      /\ \A b \in Apps : conn'[b].channels >= conn[b].channels
    <2>1. CASE CanOpen(a)
        BY <2>1, OpenedTypes DEF Call
    <2>2. CASE ~CanOpen(a)
        BY <2>2 DEF Call, Conns
    <2>. QED
        BY <2>1, <2>2
<1> HIDE DEF r
<1>5. sub' \in [Apps -> Subs]
    BY <1>2, <1>3
<1>6. OwnChannel'
    <2> SUFFICES ASSUME NEW b \in Apps, sub'[b].stage = "declare"
                 PROVE  conn'[b].channels > 0
        BY DEF OwnChannel
    <2>1. CASE b = a
        BY <1>2, <1>4, <2>1
    <2>2. CASE b # a
        <3>1. conn[b].channels > 0
            BY <1>2, <2>2 DEF OwnChannel
        <3>2. conn[b].channels \in Nat /\ conn'[b].channels \in Nat
            BY <1>4, Limits DEF Conns
        <3>. QED
            BY <1>4, <3>1, <3>2
    <2>. QED
        BY <2>1, <2>2
<1>. QED
    BY <1>1, <1>4, <1>5, <1>6
       DEF Deliveries, Histories, Faults, consumerVars, historyVars, faultVars

LEMMA CandidatesAreQueues ==
    ASSUME TInv, NEW a \in Apps
    PROVE  Candidates(a) \subseteq Queues
<1>1. sub[a].ask.name \in Named \cup {""}
    BY DEF TInv, Subs, Asks
<1>2. Unused \subseteq Queues
    BY DEF Unused, Queues
<1>3. Unused # {} => (CHOOSE q \in Unused : TRUE) \in Unused
    OBVIOUS
<1>. QED
    BY <1>1, <1>2, <1>3 DEF Candidates, Queues

LEMMA SubscriberTypes ==
    ASSUME TInv, NEW a \in Apps,
           Subscriber(a) \/ \E ask \in Asked[a] : Subscribe(a, ask)
    PROVE  TInv'
<1> USE DEF TInv
<1>1. ASSUME NEW ask \in Asked[a], Subscribe(a, ask)
      PROVE  TInv'
    <2>1. ask \in Asks
        BY Askable
    <2>2. ask.mode \in Modes /\ ask.durable \in BOOLEAN
        BY <2>1 DEF Asks
    <2>3. Call(a, ask.mode, ask.durable, ask)
        BY <1>1 DEF Subscribe
    <2>. QED
        BY <2>1, <2>2, <2>3, CallTypes
<1>2. CASE Retry(a)
    <2>1. sub[a].ask \in Asks /\ "direct" \in Modes
        BY DEF Subs, Modes
    <2>2. Call(a, "direct", FALSE, sub[a].ask)
        BY <1>2 DEF Retry
    <2>. QED
        BY <2>1, <2>2, CallTypes
<1>3. CASE QueueDeclare(a)
    <2>1. PICK q \in Candidates(a) :
              /\ queue' = [queue EXCEPT ![q].state = Wanted(a)]
              /\ sub' = [sub EXCEPT ![a].stage = "bind", ![a].queue = q]
              /\ conn' = [conn EXCEPT ![a].recorded = @ \cup {<<q, "queue">>}]
        BY <1>3 DEF QueueDeclare
    <2>2. q \in Queues
        BY CandidatesAreQueues
    <2>3. UNCHANGED <<consumerVars, pushes, historyVars, faultVars>>
        BY <1>3 DEF QueueDeclare
    <2>4. Wanted(a) \in {"durable", "transient"}
        BY DEF Wanted
    <2>5. queue' \in [Queues -> Brokers]
        BY <2>1, <2>2, <2>4 DEF Brokers
    <2>6. sub' \in [Apps -> Subs]
        BY <2>1, <2>2 DEF Subs, Stages
    <2>7. conn' \in [Apps -> Conns] /\ \A b \in Apps : conn'[b].channels = conn[b].channels
        BY <2>1, <2>2 DEF Conns
    <2>8. OwnChannel'
        BY <2>1, <2>7 DEF OwnChannel, Subs
    <2>. QED
        BY <2>3, <2>5, <2>6, <2>7, <2>8
           DEF Deliveries, Histories, Faults, consumerVars, historyVars, faultVars
<1>4. CASE DeclareRefused(a)
    <2>1. /\ sub[a].stage = "declare"
          /\ sub' = [sub EXCEPT ![a].stage = "sleep"]
          /\ conn' = [conn EXCEPT ![a].channels = @ - 1]
          /\ UNCHANGED <<queue, consumerVars, pushes, historyVars, faultVars>>
        BY <1>4 DEF DeclareRefused
    <2>2. conn[a].channels \in 0 .. ChannelMax /\ conn[a].channels > 0
        BY <2>1 DEF OwnChannel, Conns
    <2>3. conn[a].channels - 1 \in 0 .. ChannelMax
        BY <2>2, Limits
    <2>4. conn' \in [Apps -> Conns]
        BY <2>1, <2>3 DEF Conns
    <2>5. sub' \in [Apps -> Subs]
        BY <2>1 DEF Subs, Stages
    <2>6. OwnChannel'
        BY <2>1 DEF OwnChannel, Subs
    <2>. QED
        BY <2>1, <2>4, <2>5, <2>6
           DEF Deliveries, Histories, Faults, consumerVars, historyVars, faultVars
<1>5. CASE QueueBind(a)
    <2>1. /\ queue' = [queue EXCEPT ![sub[a].queue].bound = @ \cup {sub[a].mode}]
          /\ conn' = [conn EXCEPT ![a].recorded = @ \cup {<<sub[a].queue, sub[a].mode>>}]
          /\ sub' = [sub EXCEPT ![a].stage = "consume"]
          /\ UNCHANGED <<consumerVars, pushes, historyVars, faultVars>>
        BY <1>5 DEF QueueBind
    <2>2. sub[a].queue \in Queues /\ sub[a].mode \in Modes
        BY DEF Subs
    <2>3. queue' \in [Queues -> Brokers]
        BY <2>1, <2>2 DEF Brokers
    <2>4. conn' \in [Apps -> Conns] /\ \A b \in Apps : conn'[b].channels = conn[b].channels
        BY <2>1, <2>2 DEF Conns
    <2>5. sub' \in [Apps -> Subs]
        BY <2>1 DEF Subs, Stages
    <2>6. OwnChannel'
        BY <2>1, <2>4 DEF OwnChannel, Subs
    <2>. QED
        BY <2>1, <2>3, <2>4, <2>5, <2>6
           DEF Deliveries, Histories, Faults, consumerVars, historyVars, faultVars
<1>6. CASE BasicConsume(a)
    <2>1. /\ sub' = [sub EXCEPT ![a].stage = "on"]
          /\ UNCHANGED <<queue, conn, consumerVars, pushes, historyVars, faultVars>>
        BY <1>6 DEF BasicConsume
    <2>2. sub' \in [Apps -> Subs]
        BY <2>1 DEF Subs, Stages
    <2>3. OwnChannel'
        BY <2>1 DEF OwnChannel, Subs
    <2>. QED
        BY <2>1, <2>2, <2>3
           DEF Deliveries, Histories, Faults, consumerVars, historyVars, faultVars
<1>. QED
    BY <1>1, <1>2, <1>3, <1>4, <1>5, <1>6 DEF Subscriber

(* What remains of a sequence of deliveries is one.                            *)
LEMMA AckTypes ==
    ASSUME TInv, NEW a \in Apps, NEW m \in Unacked(a)
    PROVE  /\ BasicAck(a, m) \in Seq(Messages)
           /\ BasicNack(a, m) \in Seq(Messages)
<1>1. unacked[a] \in Seq(Messages)
    BY DEF TInv, Deliveries
<1>2. \E i \in DOMAIN unacked[a] : unacked[a][i] = m
    BY DEF Unacked
<1>3. Position(a, m) \in 1 .. Len(unacked[a])
    BY <1>1, <1>2 DEF Position
<1>4. BasicAck(a, m) \in Seq(Messages)
    BY <1>1, <1>3 DEF BasicAck
<1>5. SubSeq(unacked[a], 1, Position(a, m) - 1) \in Seq(Messages)
    BY <1>1, <1>3
<1>. QED
    BY <1>4, <1>5 DEF BasicNack

(* A consumer's steps.                                                         *)
LEMMA ConsumerTypes ==
    ASSUME TInv, Serial, NEW a \in Apps, Consumer(a)
    PROVE  TInv'
<1> USE DEF TInv
<1>1. sub[a].queue \in Queues /\ unacked[a] \in Seq(Messages)
    BY DEF Subs, Deliveries
<1>2. ASSUME NEW m \in running[a]
      PROVE  m \in Unacked(a) /\ m \in Messages
    <2>1. unacked[a] # <<>> /\ m = unacked[a][1]
        BY DEF Serial
    <2>2. 1 \in DOMAIN unacked[a]
        BY <1>1, <2>1
    <2>. QED
        BY <1>1, <2>1, <2>2 DEF Unacked
<1>3. CASE Deliver(a)
    <2>1. PICK m \in queue[sub[a].queue].ready :
              /\ queue' = [queue EXCEPT ![sub[a].queue].ready = @ \ {m}]
              /\ unacked' = [unacked EXCEPT ![a] = Append(@, m)]
        BY <1>3 DEF Deliver
    <2>2. UNCHANGED <<conn, sub, running, late, pushes, historyVars, faultVars>>
        BY <1>3 DEF Deliver
    <2>3. m \in Messages
        BY <1>1 DEF Brokers
    <2>4. queue' \in [Queues -> Brokers]
        BY <1>1, <2>1 DEF Brokers
    <2>5. Append(unacked[a], m) \in Seq(Messages)
        BY <1>1, <2>3
    <2>6. unacked' \in [Apps -> Seq(Messages)]
        BY <2>1, <2>5 DEF Deliveries
    <2>. QED
        BY <2>2, <2>4, <2>6 DEF OwnChannel, Deliveries, Histories, Faults, historyVars, faultVars
<1>4. CASE Received(a)
    <2> DEFINE m == Head(unacked[a])
    <2>1. /\ running' = [running EXCEPT ![a] = {m}]
          /\ runs' = [runs EXCEPT ![sub[a].queue][m] = @ + 1]
          /\ unacked[a] # <<>>
          /\ UNCHANGED <<queue, conn, sub, unacked, late, pushes, handled, failed, faultVars>>
        BY <1>4 DEF Received
    <2>2. m \in Messages
        BY <1>1, <2>1
    <2> HIDE DEF m
    <2>3. Deliveries'
        BY <2>1, <2>2 DEF Deliveries
    <2>4. runs' \in [Queues -> [Messages -> Nat]]
        BY <1>1, <2>1, <2>2 DEF Histories
    <2>. QED
        BY <2>1, <2>3, <2>4 DEF OwnChannel, Histories, Faults, faultVars
<1>5. CASE HandlerReturns(a)
    <2>1. PICK m \in running[a] :
              /\ handled' = [handled EXCEPT ![sub[a].queue] = @ \cup {m}]
              /\ unacked' = [unacked EXCEPT ![a] = BasicAck(a, m)]
        BY <1>5 DEF HandlerReturns
    <2>2. /\ running' = [running EXCEPT ![a] = {}]
          /\ UNCHANGED <<queue, conn, sub, late, pushes, failed, runs, faultVars>>
        BY <1>5 DEF HandlerReturns
    <2>3. BasicAck(a, m) \in Seq(Messages) /\ m \in Messages
        BY <1>2, AckTypes
    <2>4. Deliveries'
        BY <2>1, <2>2, <2>3 DEF Deliveries
    <2>5. Histories'
        BY <1>1, <2>1, <2>2, <2>3 DEF Histories
    <2>. QED
        BY <2>2, <2>4, <2>5 DEF OwnChannel, Faults, faultVars
<1>6. CASE HandlerThrows(a)
    <2>1. PICK m \in running[a] :
              /\ failed' = [failed EXCEPT ![sub[a].queue] = @ \cup {m}]
              /\ unacked' = [unacked EXCEPT ![a] = BasicNack(a, m)]
        BY <1>6 DEF HandlerThrows
    <2>2. /\ running' = [running EXCEPT ![a] = {}]
          /\ UNCHANGED <<queue, conn, sub, late, pushes, handled, runs, faultVars>>
        BY <1>6 DEF HandlerThrows
    <2>3. BasicNack(a, m) \in Seq(Messages) /\ m \in Messages
        BY <1>2, AckTypes
    <2>4. Deliveries'
        BY <2>1, <2>2, <2>3 DEF Deliveries
    <2>5. Histories'
        BY <1>1, <2>1, <2>2, <2>3 DEF Histories
    <2>. QED
        BY <2>2, <2>4, <2>5 DEF OwnChannel, Faults, faultVars
<1>7. ASSUME NEW q \in Queues, NEW m \in Messages, LateReturns(a, q, m) \/ LateThrows(a, q, m)
      PROVE  TInv'
    <2>1. /\ late' = [late EXCEPT ![a] = @ \ {<<q, m>>}]
          /\ UNCHANGED <<queue, conn, sub, unacked, running, pushes, runs, faultVars>>
        BY <1>7 DEF LateReturns, LateThrows
    <2>2. Deliveries'
        BY <2>1 DEF Deliveries
    <2>3. Histories'
        <3>1. CASE LateReturns(a, q, m)
            <4>1. handled' = [handled EXCEPT ![q] = @ \cup {m}] /\ failed' = failed
                BY <3>1 DEF LateReturns
            <4>. QED
                BY <1>1, <2>1, <4>1 DEF Histories
        <3>2. CASE LateThrows(a, q, m)
            <4>1. failed' = [failed EXCEPT ![q] = @ \cup {m}] /\ handled' = handled
                BY <3>2 DEF LateThrows
            <4>. QED
                BY <1>1, <2>1, <4>1 DEF Histories
        <3>. QED
            BY <1>7, <3>1, <3>2
    <2>. QED
        BY <2>1, <2>2, <2>3 DEF OwnChannel, Faults, faultVars
<1>. QED
    BY <1>3, <1>4, <1>5, <1>6, <1>7 DEF Consumer

(* Faults.                                                                     *)
LEMMA RequeuedTypes ==
    ASSUME TInv, NEW a \in Apps
    PROVE  Requeued(a) \in [Queues -> Brokers]
<1>1. sub[a].queue \in Queues /\ unacked[a] \in Seq(Messages)
    BY DEF TInv, Subs, Deliveries
<1>2. {unacked[a][i] : i \in DOMAIN unacked[a]} \subseteq Messages
    BY <1>1
<1>. QED
    BY <1>1, <1>2 DEF Requeued, TInv, Brokers

LEMMA ThrownTypes ==
    ASSUME TInv, NEW m \in Messages
    PROVE  /\ Thrown(m) \in Calls
           /\ Thrown(m).mode = pushes[m].mode /\ Thrown(m).owed = pushes[m].owed
           /\ Thrown(m).nacked = pushes[m].nacked
           /\ Thrown(m).stage = IF pushes[m].stage \in {"sent", "routed"} THEN "threw"
                                ELSE pushes[m].stage
BY DEF TInv, Calls, Thrown

(* A lost connection ends what a subscription call was about to do, and leaves *)
(* a consumer a consumer.                                                      *)
LEMMA InterruptedTypes ==
    ASSUME TInv, NEW A \in SUBSET Apps, CallsInterrupted(A)
    PROVE  /\ sub' \in [Apps -> Subs]
           /\ \A a \in Apps : /\ sub'[a].queue = sub[a].queue
                              /\ sub[a].stage = "on" <=> sub'[a].stage = "on"
                              /\ sub'[a].stage = "declare" => sub[a].stage = "declare"
<1>1. PICK next \in [A -> {"none", "sleep", "threw", "on"}] :
          /\ \A a \in A : next[a] \in Interrupted(sub[a].stage)
          /\ sub' = [a \in Apps |-> IF a \in A THEN [sub[a] EXCEPT !.stage = next[a]] ELSE sub[a]]
    BY DEF CallsInterrupted
<1>2. sub' \in [Apps -> Subs]
    BY <1>1 DEF TInv, Subs, Stages
<1>3. ASSUME NEW a \in Apps
      PROVE  /\ sub'[a].queue = sub[a].queue
             /\ sub[a].stage = "on" <=> sub'[a].stage = "on"
             /\ sub'[a].stage = "declare" => sub[a].stage = "declare"
    <2>1. sub[a] \in Subs
        BY DEF TInv
    <2>2. CASE a \in A
        <3>1. sub'[a].stage = next[a] /\ sub'[a].queue = sub[a].queue
            BY <1>1, <2>1, <2>2 DEF Subs
        <3>2. next[a] \in Interrupted(sub[a].stage) /\ next[a] # "declare"
            BY <1>1, <2>2
        <3>. QED
            BY <3>1, <3>2 DEF Interrupted
    <2>3. CASE a \notin A
        BY <1>1, <2>3
    <2>. QED
        BY <2>2, <2>3
<1>. QED
    BY <1>2, <1>3

(* What a lost channel leaves of its consumer, and the handlers that are still *)
(* started for it.                                                             *)
LEMMA LostTypes ==
    ASSUME TInv, NEW A \in SUBSET Apps, ChannelsLost(A)
    PROVE  /\ Deliveries' /\ runs' \in [Queues -> [Messages -> Nat]]
           /\ \A a \in Apps :
                  /\ unacked'[a] = IF a \in A THEN <<>> ELSE unacked[a]
                  /\ running'[a] = IF a \in A THEN {} ELSE running[a]
           /\ \A q \in Queues, m \in Messages :
                  \/ runs'[q][m] = runs[q][m]
                  \/ /\ runs'[q][m] = runs[q][m] + 1
                     /\ \E a \in A : q = sub[a].queue /\ m \in Unacked(a) \ running[a]
<1> USE DEF TInv
<1>1. PICK begun \in [A -> 0 .. Cardinality(Messages)] :
          /\ \A a \in A : begun[a] <= Len(unacked[a])
          /\ unacked' = [a \in Apps |-> IF a \in A THEN <<>> ELSE unacked[a]]
          /\ running' = [a \in Apps |-> IF a \in A THEN {} ELSE running[a]]
          /\ late' = [a \in Apps |->
                 IF a \in A THEN late[a] \cup {sub[a].queue} \X Begun(a, begun[a]) ELSE late[a]]
          /\ runs' = [q \in Queues |-> [m \in Messages |->
                 IF \E a \in A : sub[a].queue = q /\ m \in Begun(a, begun[a]) \ running[a]
                 THEN runs[q][m] + 1 ELSE runs[q][m]]]
    BY DEF ChannelsLost
<1>2. ASSUME NEW a \in A
      PROVE  /\ Begun(a, begun[a]) \subseteq Unacked(a)
             /\ Begun(a, begun[a]) \subseteq Messages
             /\ sub[a].queue \in Queues
    <2>1. unacked[a] \in Seq(Messages) /\ begun[a] \in 0 .. Cardinality(Messages)
        BY <1>1 DEF Deliveries
    <2>2. begun[a] <= Len(unacked[a])
        BY <1>1
    <2>3. 1 .. begun[a] \subseteq DOMAIN unacked[a]
        BY <2>1, <2>2
    <2>4. Begun(a, begun[a]) \subseteq Unacked(a)
        BY <2>3 DEF Begun, Unacked
    <2>5. Unacked(a) \subseteq Messages
        BY <2>1 DEF Unacked
    <2>. QED
        BY <2>4, <2>5 DEF Subs
<1>3. late' \in [Apps -> SUBSET (Queues \X Messages)]
    <2>1. \A a \in A : {sub[a].queue} \X Begun(a, begun[a]) \subseteq Queues \X Messages
        BY <1>2
    <2>2. \A a \in Apps : late[a] \subseteq Queues \X Messages
        BY DEF Deliveries
    <2>. QED
        BY <1>1, <2>1, <2>2
<1>4. Deliveries'
    BY <1>1, <1>3 DEF Deliveries
<1>5. \A q \in Queues, m \in Messages : runs[q][m] \in Nat
    BY DEF Histories
<1>6. ASSUME NEW q \in Queues, NEW m \in Messages
      PROVE  \/ runs'[q][m] = runs[q][m]
             \/ /\ runs'[q][m] = runs[q][m] + 1
                /\ \E a \in A : q = sub[a].queue /\ m \in Unacked(a) \ running[a]
    <2>1. runs'[q][m] = IF \E a \in A : sub[a].queue = q /\ m \in Begun(a, begun[a]) \ running[a]
                        THEN runs[q][m] + 1 ELSE runs[q][m]
        BY <1>1
    <2>. QED
        BY <1>2, <2>1
<1>7. runs' \in [Queues -> [Messages -> Nat]]
    <2>1. \A q \in Queues, m \in Messages :
              (IF \E a \in A : sub[a].queue = q /\ m \in Begun(a, begun[a]) \ running[a]
               THEN runs[q][m] + 1 ELSE runs[q][m]) \in Nat
        BY <1>5
    <2>. QED
        BY <1>1, <2>1
<1>. QED
    BY <1>1, <1>4, <1>6, <1>7

(* The names that a recovery gives are the broker's.                           *)
LEMMA NewNamesTypes ==
    ASSUME NEW a \in Apps, NEW new \in NewNames(a), NEW q \in Queues
    PROVE  Renamed(new, q) \in Queues
<1>1. new \in [Redeclared(a) -> Unused]
    <2> DEFINE F == {f \in [Redeclared(a) -> Unused] :
                        \A p, r \in Redeclared(a) : p # r => f[p] # f[r]}
    <2>1. F # {} /\ new = CHOOSE f \in F : TRUE
        BY DEF NewNames
    <2>2. new \in F
        BY <2>1
    <2>. QED
        BY <2>2
<1>2. Unused \subseteq Queues
    BY DEF Unused, Queues
<1>. QED
    BY <1>1, <1>2 DEF Renamed

LEMMA FaultTypes ==
    ASSUME TInv, (\E a \in Apps : ConnectionLost(a) \/ Stop(a) \/ Recover(a)) \/ Restart
    PROVE  TInv'
<1> USE DEF TInv
<1>1. ASSUME NEW a \in Apps, ConnectionLost(a)
      PROVE  TInv'
    <2>1. queue' \in [Queues -> Brokers]
        BY <1>1, RequeuedTypes DEF ConnectionLost
    <2>2. conn' \in [Apps -> Conns] /\ \A b \in Apps : conn'[b].channels = conn[b].channels
        BY <1>1 DEF ConnectionLost, Conns
    <2>3. pushes' \in [Messages -> Calls]
        BY <1>1, ThrownTypes DEF ConnectionLost
    <2>4. sub' \in [Apps -> Subs] /\ OwnChannel'
        <3>1. CallsInterrupted({a})
            BY <1>1 DEF ConnectionLost
        <3>. QED
            BY <2>2, <3>1, InterruptedTypes DEF OwnChannel
    <2>5. Deliveries' /\ runs' \in [Queues -> [Messages -> Nat]]
        <3>1. ChannelsLost({a})
            BY <1>1 DEF ConnectionLost
        <3>. QED
            BY <3>1, LostTypes
    <2>6. Histories' /\ Faults'
        BY <1>1, <2>5, Limits DEF ConnectionLost, Histories, Faults
    <2>. QED
        BY <2>1, <2>2, <2>3, <2>4, <2>5, <2>6
<1>2. ASSUME NEW a \in Apps, Stop(a)
      PROVE  TInv'
    <2>1. queue' \in [Queues -> Brokers]
        BY <1>2, RequeuedTypes DEF Stop
    <2>2. NoSub \in Subs /\ NoSub.stage = "none" /\ Fresh \in Conns
        <3>1. 1 \in 0 .. ChannelMax /\ AnyQueue \in Queues
            BY Limits, Actors DEF AnyQueue, Queues
        <3>. QED
            BY <3>1 DEF NoSub, Subs, Stages, Modes, Asks, Fresh, Conns
    <2>3. conn' \in [Apps -> Conns] /\ sub' \in [Apps -> Subs]
        BY <1>2, <2>2 DEF Stop
    <2>4. OwnChannel'
        BY <1>2, <2>2 DEF Stop, OwnChannel
    <2>5. pushes' \in [Messages -> Calls]
        BY <1>2, ThrownTypes DEF Stop, Calls
    <2>6. Deliveries'
        BY <1>2 DEF Stop, Deliveries
    <2>7. Histories' /\ Faults'
        BY <1>2, Limits DEF Stop, Histories, Faults, historyVars
    <2>. QED
        BY <2>1, <2>3, <2>4, <2>5, <2>6, <2>7
<1>3. ASSUME NEW a \in Apps, Recover(a)
      PROVE  TInv'
    <2>1. PICK new \in NewNames(a) :
              /\ conn' = [conn EXCEPT ![a].up = TRUE,
                             ![a].recorded = {<<Renamed(new, r[1]), r[2]>> : r \in @}]
              /\ sub' = [sub EXCEPT ![a].queue = Renamed(new, @)]
              /\ queue' = [q \in Queues |->
                    IF <<q, "queue">> \notin conn'[a].recorded THEN queue[q]
                    ELSE [queue[q] EXCEPT
                            !.state = StateAgain(new, q),
                            !.bound = @ \cup {e \in Modes : <<q, e>> \in conn'[a].recorded}]]
        BY <1>3 DEF Recover
    <2>2. queue' \in [Queues -> Brokers]
        <3>1. \A q \in Queues : StateAgain(new, q) \in {"absent", "transient", "durable"}
            BY DEF StateAgain, Brokers
        <3>2. \A q \in Queues : {e \in Modes : <<q, e>> \in conn'[a].recorded} \subseteq Modes
            OBVIOUS
        <3>. QED
            BY <2>1, <3>1, <3>2 DEF Brokers
    <2>3. sub' \in [Apps -> Subs] /\ \A b \in Apps : sub'[b].stage = sub[b].stage
        <3>1. Renamed(new, sub[a].queue) \in Queues
            BY NewNamesTypes DEF Subs
        <3>. QED
            BY <2>1, <3>1 DEF Subs
    <2>4. conn' \in [Apps -> Conns] /\ \A b \in Apps : conn'[b].channels = conn[b].channels
        <3> DEFINE R == {<<Renamed(new, r[1]), r[2]>> : r \in conn[a].recorded}
        <3>1. conn[a].recorded \subseteq Queues \X (Modes \cup {"queue"})
            BY DEF Conns
        <3>2. \A r \in conn[a].recorded :
                  <<Renamed(new, r[1]), r[2]>> \in Queues \X (Modes \cup {"queue"})
            BY <3>1, NewNamesTypes
        <3>3. R \subseteq Queues \X (Modes \cup {"queue"})
            BY <3>2
        <3>4. conn' = [conn EXCEPT ![a].up = TRUE, ![a].recorded = R]
            BY <2>1
        <3> HIDE DEF R
        <3>. QED
            BY <3>3, <3>4 DEF Conns
    <2>5. UNCHANGED <<consumerVars, pushes, historyVars, faultVars>>
        BY <1>3 DEF Recover
    <2>. QED
        BY <2>2, <2>3, <2>4, <2>5
           DEF OwnChannel, Deliveries, Histories, Faults, consumerVars, historyVars, faultVars
<1>4. CASE Restart
    <2>1. queue' \in [Queues -> Brokers]
        BY <1>4 DEF Restart, Brokers
    <2>2. conn' \in [Apps -> Conns] /\ \A b \in Apps : conn'[b].channels = conn[b].channels
        <3>1. conn' = [b \in Apps |-> [conn[b] EXCEPT !.up = FALSE]]
            BY <1>4 DEF Restart
        <3>2. ASSUME NEW b \in Apps
              PROVE  /\ [conn[b] EXCEPT !.up = FALSE] \in Conns
                     /\ [conn[b] EXCEPT !.up = FALSE].channels = conn[b].channels
            BY DEF Conns
        <3>. QED
            BY <3>1, <3>2
    <2>3. pushes' \in [Messages -> Calls]
        BY <1>4, ThrownTypes DEF Restart, Calls
    <2>4. sub' \in [Apps -> Subs] /\ OwnChannel'
        <3>1. CallsInterrupted(Apps)
            BY <1>4 DEF Restart
        <3>. QED
            BY <2>2, <3>1, InterruptedTypes DEF OwnChannel
    <2>5. Deliveries' /\ runs' \in [Queues -> [Messages -> Nat]]
        <3>1. ChannelsLost(Apps)
            BY <1>4 DEF Restart
        <3>. QED
            BY <3>1, LostTypes
    <2>6. Histories' /\ Faults'
        BY <1>4, <2>5, Limits DEF Restart, Histories, Faults
    <2>. QED
        BY <2>1, <2>2, <2>3, <2>4, <2>5, <2>6
<1>. QED
    BY <1>1, <1>2, <1>3, <1>4

LEMMA TypesStep ==
    ASSUME TInv, Serial, [Next]_vars
    PROVE  TInv'
<1>1. CASE UNCHANGED vars
    BY <1>1 DEF vars, consumerVars, historyVars, faultVars, TInv, Deliveries, Histories,
                Faults, OwnChannel
<1>2. CASE Next
    BY <1>2, PushTypes, SubscriberTypes, ConsumerTypes, FaultTypes DEF Next
<1>. QED
    BY <1>1, <1>2

--------------------------------------------------------------------------------
(* What a consumer has.                                                        *)
LEMMA UnackedFacts ==
    ASSUME TInv, NEW a \in Apps
    PROVE  /\ unacked[a] \in Seq(Messages)
           /\ sub[a].queue \in Queues
           /\ Unacked(a) \subseteq Messages
           /\ unacked[a] = <<>> => Unacked(a) = {}
           /\ unacked[a] # <<>> => Unacked(a) # {} /\ unacked[a][1] \in Unacked(a)
<1>1. unacked[a] \in Seq(Messages)
    BY DEF TInv, Deliveries
<1>2. sub[a].queue \in Queues
    BY DEF TInv, Subs
<1>3. Unacked(a) \subseteq Messages /\ (unacked[a] = <<>> => Unacked(a) = {})
    BY <1>1 DEF Unacked
<1>4. ASSUME unacked[a] # <<>>
      PROVE  unacked[a][1] \in Unacked(a)
    <2>1. 1 \in DOMAIN unacked[a]
        BY <1>1, <1>4
    <2>. QED
        BY <2>1 DEF Unacked
<1>. QED
    BY <1>1, <1>2, <1>3, <1>4

(* Steps that leave the deliveries and the ready messages as they are.         *)
LEMMA QuietKeeps ==
    ASSUME TInv, MInv,
           UNCHANGED <<unacked, running, runs, losses>>,
           \A q \in Queues : /\ queue'[q].ready = queue[q].ready
                             /\ queue[q].bound \subseteq queue'[q].bound
                             /\ handled[q] \subseteq handled'[q]
                             /\ failed[q] \subseteq failed'[q],
           \A a \in Apps : unacked[a] # <<>> =>
               sub'[a].stage = "on" /\ sub'[a].queue = sub[a].queue,
           \A a \in Apps : sub'[a].queue \in Queues,
           \A m \in Messages :
               \/ pushes'[m] = pushes[m]
               \/ pushes'[m].stage = "threw"
               \/ /\ pushes[m].stage = "none" /\ pushes'[m].stage = "sent"
                  /\ \A q \in pushes'[m].owed : q \in Queues /\ pushes'[m].mode \in queue'[q].bound
               \/ /\ pushes[m].stage = "routed" /\ pushes'[m].stage = "returned"
                  /\ pushes'[m].owed = pushes[m].owed /\ pushes'[m].nacked = pushes[m].nacked
    PROVE  MInv' /\ \A q \in Queues : Held(q)' = Held(q)
<1>1. \A a \in Apps : Unacked(a)' = Unacked(a)
    BY DEF Unacked
<1>2. ASSUME NEW q \in Queues
      PROVE  Held(q)' = Held(q)
    <2>1. ASSUME NEW a \in Apps, NEW m \in Unacked(a)
          PROVE  sub[a].stage = "on" /\ sub'[a].stage = "on" /\ sub'[a].queue = sub[a].queue
        <3>1. unacked[a] # <<>>
            BY UnackedFacts
        <3>. QED
            BY <3>1 DEF MInv, Serial
    <2>2. \A m : m \in Held(q)' <=>
              m \in queue'[q].ready
              \/ \E a \in Apps : sub'[a].stage = "on" /\ sub'[a].queue = q /\ m \in Unacked(a)'
        BY DEF Held, Consumes
    <2>3. \A m : m \in Held(q) <=>
              m \in queue[q].ready
              \/ \E a \in Apps : sub[a].stage = "on" /\ sub[a].queue = q /\ m \in Unacked(a)
        BY DEF Held, Consumes
    <2>4. \A m : m \in Held(q)' <=> m \in Held(q)
        BY <1>1, <2>1, <2>2, <2>3
    <2>. QED
        BY <2>4
<1>3. Serial'
    BY DEF MInv, Serial
<1>4. Alone'
    <2>1. ASSUME NEW a \in Apps
          PROVE  Unacked(a) \cap queue'[sub'[a].queue].ready = {}
        <3>1. CASE unacked[a] = <<>>
            BY <3>1, UnackedFacts
        <3>2. CASE unacked[a] # <<>>
            BY <3>2, UnackedFacts DEF MInv, Alone
        <3>. QED
            BY <3>1, <3>2
    <2>2. ASSUME NEW a \in Apps, NEW b \in Apps, a # b, sub'[a].queue = sub'[b].queue
          PROVE  Unacked(a) \cap Unacked(b) = {}
        <3>1. CASE unacked[a] = <<>> \/ unacked[b] = <<>>
            BY <3>1, UnackedFacts
        <3>2. CASE unacked[a] # <<>> /\ unacked[b] # <<>>
            BY <2>2, <3>2 DEF MInv, Alone
        <3>. QED
            BY <3>1, <3>2
    <2>. QED
        BY <1>1, <2>1, <2>2 DEF Alone
<1>5. Unknown'
    BY <1>1 DEF MInv, Unknown, Unrouted
<1>6. Owed'
    <2> SUFFICES ASSUME NEW m \in Messages, NEW q \in pushes'[m].owed
                 PROVE  /\ pushes'[m].stage = "sent" => pushes'[m].mode \in queue'[q].bound
                        /\ pushes'[m].stage \in {"routed", "returned", "past"} /\ ~pushes'[m].nacked =>
                               Kept(q, m)'
        BY DEF Owed
    <2>1. pushes[m].owed \subseteq Queues
        BY DEF TInv, Calls
    <2>2. q \in Queues /\ Kept(q, m) => Kept(q, m)'
        BY <1>2 DEF Kept
    <2>3. \A r \in pushes[m].owed :
              /\ pushes[m].stage = "sent" => pushes[m].mode \in queue[r].bound
              /\ pushes[m].stage \in {"routed", "returned", "past"} /\ ~pushes[m].nacked =>
                     Kept(r, m)
        BY DEF MInv, Owed
    <2>. QED
        BY <2>1, <2>2, <2>3
<1>7. Counted'
    <2> SUFFICES ASSUME NEW m \in Messages
                 PROVE  /\ \A q \in Queues : runs[q][m] <= 1 + losses
                        /\ \A q \in Queues : m \in queue'[q].ready => runs[q][m] <= losses
                        /\ \A a \in Apps : m \in Unacked(a) /\ m \notin running[a] =>
                               runs[sub'[a].queue][m] <= losses
        BY <1>1 DEF Counted
    <2>1. ASSUME NEW a \in Apps, m \in Unacked(a)
          PROVE  sub'[a].queue = sub[a].queue
        BY <2>1, UnackedFacts
    <2>. QED
        BY <2>1 DEF MInv, Counted
<1>. QED
    BY <1>2, <1>3, <1>4, <1>5, <1>6, <1>7 DEF MInv

(* A message goes from the queue to a consumer of it.                          *)
LEMMA DeliverKeeps ==
    ASSUME TInv, MInv, NEW a \in Apps, Deliver(a)
    PROVE  MInv' /\ \A q \in Queues : Held(q)' = Held(q)
<1> DEFINE k == sub[a].queue
<1>1. PICK m \in queue[k].ready :
          /\ queue' = [queue EXCEPT ![k].ready = @ \ {m}]
          /\ unacked' = [unacked EXCEPT ![a] = Append(@, m)]
    BY DEF Deliver
<1>2. /\ sub[a].stage = "on"
      /\ UNCHANGED <<conn, sub, running, late, pushes, historyVars, faultVars>>
    BY DEF Deliver
<1>3. /\ k \in Queues /\ unacked[a] \in Seq(Messages)
      /\ m \in Messages /\ m \notin Unacked(a)
    BY UnackedFacts DEF TInv, Brokers, MInv, Alone
<1>4. /\ unacked'[a] = Append(unacked[a], m)
      /\ \A b \in Apps : b # a => unacked'[b] = unacked[b]
    BY <1>1 DEF TInv, Deliveries
<1>5. /\ DOMAIN unacked'[a] = 1 .. Len(unacked[a]) + 1
      /\ DOMAIN unacked[a] = 1 .. Len(unacked[a])
      /\ Len(unacked[a]) \in Nat
      /\ unacked'[a][Len(unacked[a]) + 1] = m
      /\ \A i \in 1 .. Len(unacked[a]) : unacked'[a][i] = unacked[a][i]
    BY <1>3, <1>4
<1>6. /\ Unacked(a)' = Unacked(a) \cup {m}
      /\ \A b \in Apps : b # a => Unacked(b)' = Unacked(b)
    <2>1. \A x : x \in Unacked(a)' <=> \E i \in 1 .. Len(unacked[a]) + 1 : unacked'[a][i] = x
        BY <1>5 DEF Unacked
    <2>2. \A x : x \in Unacked(a) <=> \E i \in 1 .. Len(unacked[a]) : unacked[a][i] = x
        BY <1>5 DEF Unacked
    <2>3. 1 .. Len(unacked[a]) + 1 = (1 .. Len(unacked[a])) \cup {Len(unacked[a]) + 1}
        BY <1>5
    <2>4. \A x : x \in Unacked(a)' <=> x \in Unacked(a) \cup {m}
        BY <1>5, <2>1, <2>2, <2>3
    <2>. QED
        BY <1>4, <2>4 DEF Unacked
<1>7. \A q \in Queues :
          /\ queue'[q].ready = IF q = k THEN queue[q].ready \ {m} ELSE queue[q].ready
          /\ queue'[q].bound = queue[q].bound
    BY <1>1, <1>3 DEF TInv, Brokers
<1> HIDE DEF k
<1>8. k = sub[a].queue /\ UNCHANGED <<sub, running, pushes, handled, failed, runs, losses>>
    BY <1>2 DEF k, historyVars, faultVars
<1>9. ASSUME NEW q \in Queues
      PROVE  Held(q)' = Held(q)
    <2>1. \A x : x \in Held(q)' <=>
              x \in queue'[q].ready
              \/ \E b \in Apps : sub[b].stage = "on" /\ sub[b].queue = q /\ x \in Unacked(b)'
        BY <1>8 DEF Held, Consumes
    <2>2. \A x : x \in Held(q) <=>
              x \in queue[q].ready
              \/ \E b \in Apps : sub[b].stage = "on" /\ sub[b].queue = q /\ x \in Unacked(b)
        BY DEF Held, Consumes
    <2>3. ASSUME NEW x, x \in Held(q)
          PROVE  x \in Held(q)'
        <3>1. CASE x \in queue[q].ready
            BY <1>2, <1>6, <1>7, <1>8, <2>1, <3>1
        <3>2. ASSUME NEW b \in Apps, sub[b].stage = "on", sub[b].queue = q, x \in Unacked(b)
              PROVE  x \in Held(q)'
            <4>1. x \in Unacked(b)'
                BY <1>6, <3>2
            <4>. QED
                BY <2>1, <3>2, <4>1
        <3>. QED
            BY <2>2, <2>3, <3>1, <3>2
    <2>4. ASSUME NEW x, x \in Held(q)'
          PROVE  x \in Held(q)
        <3>1. CASE x \in queue'[q].ready
            BY <1>7, <2>2, <3>1
        <3>2. ASSUME NEW b \in Apps, sub[b].stage = "on", sub[b].queue = q, x \in Unacked(b)'
              PROVE  x \in Held(q)
            <4>1. x \in Unacked(b) \/ (b = a /\ x = m)
                BY <1>6, <3>2
            <4>. QED
                BY <1>8, <2>2, <3>2, <4>1
        <3>. QED
            BY <2>1, <2>4, <3>1, <3>2
    <2>. QED
        BY <2>3, <2>4
<1>10. Serial'
    <2>1. ASSUME NEW b \in Apps, b # a
          PROVE  /\ unacked'[b] = <<>> => running'[b] = {}
                 /\ unacked'[b] # <<>> =>
                      running'[b] \subseteq {unacked'[b][1]} /\ sub'[b].stage = "on"
                 /\ \A i, j \in DOMAIN unacked'[b] : unacked'[b][i] = unacked'[b][j] => i = j
        BY <1>4, <1>8, <2>1 DEF MInv, Serial
    <2>2. unacked'[a] # <<>> /\ sub'[a].stage = "on"
        BY <1>2, <1>3, <1>4, <1>8
    <2>3. running'[a] \subseteq {unacked'[a][1]}
        <3>1. CASE unacked[a] = <<>>
            BY <1>8, <3>1 DEF MInv, Serial
        <3>2. CASE unacked[a] # <<>>
            <4>1. 1 \in 1 .. Len(unacked[a])
                BY <1>3, <3>2
            <4>2. unacked'[a][1] = unacked[a][1]
                BY <1>5, <4>1
            <4>. QED
                BY <1>8, <3>2, <4>2 DEF MInv, Serial
        <3>. QED
            BY <3>1, <3>2
    <2>4. ASSUME NEW i \in DOMAIN unacked'[a], NEW j \in DOMAIN unacked'[a],
                 unacked'[a][i] = unacked'[a][j]
          PROVE  i = j
        <3>1. \A l \in 1 .. Len(unacked[a]) : unacked'[a][l] # m
            BY <1>3, <1>5 DEF Unacked
        <3>2. CASE i = Len(unacked[a]) + 1 \/ j = Len(unacked[a]) + 1
            BY <1>5, <2>4, <3>1, <3>2
        <3>3. CASE i # Len(unacked[a]) + 1 /\ j # Len(unacked[a]) + 1
            <4>1. i \in 1 .. Len(unacked[a]) /\ j \in 1 .. Len(unacked[a])
                BY <1>5, <3>3
            <4>2. unacked[a][i] = unacked[a][j]
                BY <1>5, <2>4, <4>1
            <4>. QED
                BY <1>5, <4>1, <4>2 DEF MInv, Serial
        <3>. QED
            BY <3>2, <3>3
    <2>. QED
        BY <2>1, <2>2, <2>3, <2>4 DEF Serial
<1>11. Alone'
    <2>1. ASSUME NEW b \in Apps
          PROVE  Unacked(b)' \cap queue'[sub[b].queue].ready = {}
        <3>1. sub[b].queue \in Queues
            BY UnackedFacts
        <3>. QED
            BY <1>6, <1>7, <1>8, <3>1 DEF MInv, Alone
    <2>2. ASSUME NEW b \in Apps, NEW c \in Apps, b # c, sub[b].queue = sub[c].queue
          PROVE  Unacked(b)' \cap Unacked(c)' = {}
        <3>1. \A d \in Apps : sub[d].queue = k => m \notin Unacked(d)
            BY DEF MInv, Alone
        <3>2. Unacked(b) \cap Unacked(c) = {}
            BY <2>2 DEF MInv, Alone
        <3>. QED
            BY <1>6, <1>8, <2>2, <3>1, <3>2
    <2>. QED
        BY <1>8, <2>1, <2>2 DEF Alone
<1>12. Unknown'
    <2>1. ~Unrouted(m)
        BY <1>3, <1>8 DEF MInv, Unknown
    <2> SUFFICES ASSUME NEW x \in Messages, Unrouted(x)
                 PROVE  /\ \A q \in Queues : x \notin queue'[q].ready /\ runs[q][x] = 0
                        /\ \A b \in Apps : x \notin Unacked(b)'
        BY <1>8 DEF Unknown, Unrouted
    <2>2. x # m
        BY <2>1
    <2>3. /\ \A q \in Queues : x \notin queue[q].ready /\ runs[q][x] = 0
          /\ \A b \in Apps : x \notin Unacked(b)
        BY DEF MInv, Unknown
    <2>4. \A b \in Apps : x \notin Unacked(b)'
        BY <1>6, <2>2, <2>3
    <2>. QED
        BY <1>7, <2>3, <2>4
<1>13. Owed'
    <2> SUFFICES ASSUME NEW x \in Messages, NEW q \in pushes[x].owed
                 PROVE  /\ pushes[x].stage = "sent" => pushes[x].mode \in queue'[q].bound
                        /\ pushes[x].stage \in {"routed", "returned", "past"} /\ ~pushes[x].nacked =>
                               Kept(q, x)'
        BY <1>8 DEF Owed
    <2>1. q \in Queues
        BY DEF TInv, Calls
    <2>. QED
        BY <1>7, <1>8, <1>9, <2>1 DEF MInv, Owed, Kept
<1>14. Counted'
    <2> SUFFICES ASSUME NEW x \in Messages
                 PROVE  /\ \A q \in Queues : runs[q][x] <= 1 + losses
                        /\ \A q \in Queues : x \in queue'[q].ready => runs[q][x] <= losses
                        /\ \A b \in Apps : x \in Unacked(b)' /\ x \notin running[b] =>
                               runs[sub[b].queue][x] <= losses
        BY <1>8 DEF Counted
    <2>1. runs[k][m] <= losses
        BY <1>3, <1>8 DEF MInv, Counted
    <2>. QED
        BY <1>6, <1>7, <1>8, <2>1 DEF MInv, Counted
<1>. QED
    BY <1>9, <1>10, <1>11, <1>12, <1>13, <1>14 DEF MInv

(* A handler is started for the oldest delivery.                               *)
LEMMA ReceivedKeeps ==
    ASSUME TInv, MInv, NEW a \in Apps, Received(a)
    PROVE  MInv' /\ \A q \in Queues : Held(q)' = Held(q)
<1> DEFINE k == sub[a].queue
           m == unacked[a][1]
<1>1. /\ k \in Queues /\ unacked[a] # <<>> /\ running[a] = {}
      /\ m \in Unacked(a) /\ m \in Messages /\ Head(unacked[a]) = m
    BY UnackedFacts DEF Received
<1>2. /\ running' = [running EXCEPT ![a] = {m}]
      /\ runs' = [runs EXCEPT ![k][m] = @ + 1]
      /\ UNCHANGED <<queue, sub, unacked, pushes, handled, failed, losses>>
    BY <1>1 DEF Received, faultVars
<1> HIDE DEF k, m
<1>3. /\ running'[a] = {m}
      /\ \A b \in Apps : b # a => running'[b] = running[b]
    BY <1>2 DEF TInv, Deliveries
<1>4. \A q \in Queues, x \in Messages :
          runs'[q][x] = IF q = k /\ x = m THEN runs[q][x] + 1 ELSE runs[q][x]
    BY <1>1, <1>2 DEF TInv, Histories
<1>5. \A b \in Apps : Unacked(b)' = Unacked(b)
    BY <1>2 DEF Unacked
<1>6. ASSUME NEW q \in Queues
      PROVE  Held(q)' = Held(q)
    BY <1>2, <1>5 DEF Held, Consumes
<1>7. Serial'
    <2>1. unacked[a] # <<>> /\ running'[a] \subseteq {unacked[a][1]}
        BY <1>1, <1>3 DEF m
    <2>. QED
        BY <1>2, <1>3, <2>1 DEF MInv, Serial
<1>8. Alone'
    BY <1>2, <1>5 DEF MInv, Alone
<1>9. Unknown'
    <2> SUFFICES ASSUME NEW x \in Messages, Unrouted(x)
                 PROVE  /\ \A q \in Queues : x \notin queue[q].ready /\ runs'[q][x] = 0
                        /\ \A b \in Apps : x \notin Unacked(b)
        BY <1>2, <1>5 DEF Unknown, Unrouted
    <2>1. x # m
        BY <1>1 DEF MInv, Unknown
    <2>. QED
        BY <1>4, <2>1 DEF MInv, Unknown
<1>10. Owed'
    <2>1. \A x \in Messages : pushes[x].owed \subseteq Queues
        BY DEF TInv, Calls
    <2>. QED
        BY <1>2, <1>6, <2>1 DEF MInv, Owed, Kept
<1>11. Counted'
    <2> SUFFICES ASSUME NEW x \in Messages
                 PROVE  /\ \A q \in Queues : runs'[q][x] <= 1 + losses
                        /\ \A q \in Queues : x \in queue[q].ready => runs'[q][x] <= losses
                        /\ \A b \in Apps : x \in Unacked(b) /\ x \notin running'[b] =>
                               runs'[sub[b].queue][x] <= losses
        BY <1>2, <1>5 DEF Counted
    <2>1. /\ runs[k][m] <= losses /\ losses \in Nat
          /\ \A q \in Queues : runs[q][x] \in Nat
        BY <1>1 DEF MInv, Counted, k, TInv, Histories, Faults
    <2>2. ASSUME NEW q \in Queues
          PROVE  /\ runs'[q][x] <= 1 + losses
                 /\ x \in queue[q].ready => runs'[q][x] <= losses
        <3>1. CASE q = k /\ x = m
            <4>1. x \notin queue[q].ready
                BY <1>1, <3>1 DEF MInv, Alone, k
            <4>. QED
                BY <1>1, <1>4, <2>1, <3>1, <4>1
        <3>2. CASE ~(q = k /\ x = m)
            BY <1>4, <3>2 DEF MInv, Counted
        <3>. QED
            BY <3>1, <3>2
    <2>3. ASSUME NEW b \in Apps, x \in Unacked(b), x \notin running'[b]
          PROVE  runs'[sub[b].queue][x] <= losses
        <3>1. sub[b].queue \in Queues
            BY UnackedFacts
        <3>2. ~(sub[b].queue = k /\ x = m)
            BY <1>1, <1>3, <2>3 DEF MInv, Alone, k
        <3>3. x \notin running[b]
            BY <1>1, <1>3, <2>3
        <3>. QED
            BY <1>4, <2>3, <3>1, <3>2, <3>3 DEF MInv, Counted
    <2>. QED
        BY <2>2, <2>3
<1>. QED
    BY <1>6, <1>7, <1>8, <1>9, <1>10, <1>11 DEF MInv

(* Acknowledged or rejected, the message whose handler ends is the only one    *)
(* that goes: it is the oldest, so that nothing is before it.                  *)
LEMMA SettlesOne ==
    ASSUME TInv, Serial, NEW a \in Apps, NEW m \in running[a]
    PROVE  /\ m \in Unacked(a) /\ running[a] = {m} /\ unacked[a] # <<>>
           /\ BasicAck(a, m) = Tail(unacked[a])
           /\ BasicNack(a, m) = Tail(unacked[a])
<1> DEFINE u == unacked[a]
<1>1. u \in Seq(Messages) /\ u # <<>> /\ running[a] = {m} /\ u[1] = m /\ m \in Unacked(a)
    BY UnackedFacts DEF Serial
<1>2. \A i, j \in DOMAIN u : u[i] = u[j] => i = j
    BY DEF Serial
<1>3. 1 \in DOMAIN u
    BY <1>1
<1>4. Position(a, m) = 1
    BY <1>1, <1>2, <1>3 DEF Position
<1>5. SubSeq(u, 2, Len(u)) = Tail(u)
    BY <1>1
<1>6. SubSeq(u, 1, 0) = <<>>
    BY <1>1
<1>7. BasicAck(a, m) = Tail(u)
    BY <1>4, <1>5 DEF BasicAck
<1>8. BasicNack(a, m) = <<>> \o Tail(u)
    BY <1>4, <1>6, <1>7 DEF BasicNack
<1>9. Tail(u) \in Seq(Messages)
    BY <1>1
<1>10. <<>> \o Tail(u) = Tail(u)
    BY <1>9
<1>. QED
    BY <1>1, <1>7, <1>8, <1>10

(* A handler ends, well or not.                                                *)
LEMMA SettleKeeps ==
    ASSUME TInv, MInv, NEW a \in Apps, NEW m \in running[a],
           unacked' = [unacked EXCEPT ![a] = Tail(unacked[a])],
           running' = [running EXCEPT ![a] = {}],
           UNCHANGED <<queue, sub, pushes, runs, losses>>,
           \A q \in Queues : handled[q] \subseteq handled'[q] /\ failed[q] \subseteq failed'[q],
           m \in handled'[sub[a].queue] \cup failed'[sub[a].queue]
    PROVE  /\ MInv'
           /\ m \in Unacked(a)
           /\ \A q \in Queues : Held(q)' = Held(q) \ (IF q = sub[a].queue THEN {m} ELSE {})
<1> DEFINE k == sub[a].queue
           u == unacked[a]
<1>1. /\ k \in Queues /\ u \in Seq(Messages) /\ u # <<>> /\ m = u[1]
      /\ m \in Unacked(a) /\ m \in Messages /\ running[a] = {m} /\ sub[a].stage = "on"
    BY UnackedFacts, SettlesOne DEF MInv, Serial
<1>2. /\ unacked'[a] = Tail(u) /\ running'[a] = {}
      /\ \A b \in Apps : b # a => unacked'[b] = unacked[b] /\ running'[b] = running[b]
    BY DEF TInv, Deliveries
<1>3. /\ Len(u) \in Nat /\ Len(u) > 0
      /\ DOMAIN u = 1 .. Len(u)
      /\ DOMAIN unacked'[a] = 1 .. Len(u) - 1
      /\ \A i \in 1 .. Len(u) - 1 : unacked'[a][i] = u[i + 1]
    <2> HIDE DEF u
    <2>1. Len(u) \in Nat /\ Len(u) > 0 /\ DOMAIN u = 1 .. Len(u)
        BY <1>1
    <2>2. /\ DOMAIN Tail(u) = 1 .. Len(u) - 1
          /\ \A i \in 1 .. Len(u) - 1 : Tail(u)[i] = u[i + 1]
        BY <1>1, <2>1
    <2>. QED
        BY <1>2, <2>1, <2>2
<1>4. \A i, j \in 1 .. Len(u) : u[i] = u[j] => i = j
    BY <1>3 DEF MInv, Serial
<1>5. /\ Unacked(a)' = Unacked(a) \ {m}
      /\ \A b \in Apps : b # a => Unacked(b)' = Unacked(b)
    <2>1. \A x : x \in Unacked(a)' <=> \E i \in 1 .. Len(u) - 1 : u[i + 1] = x
        BY <1>3 DEF Unacked
    <2>2. \A x : x \in Unacked(a) <=> \E i \in 1 .. Len(u) : u[i] = x
        BY <1>3 DEF Unacked
    <2>3. ASSUME NEW x \in Unacked(a)'
          PROVE  x \in Unacked(a) /\ x # m
        <3>1. PICK i \in 1 .. Len(u) - 1 : u[i + 1] = x
            BY <2>1
        <3>2. i + 1 \in 1 .. Len(u) /\ 1 \in 1 .. Len(u) /\ i + 1 # 1
            BY <1>3, <3>1
        <3>. QED
            BY <1>1, <1>4, <2>2, <3>1, <3>2
    <2>4. ASSUME NEW x \in Unacked(a), x # m
          PROVE  x \in Unacked(a)'
        <3>1. PICK i \in 1 .. Len(u) : u[i] = x
            BY <2>2
        <3>2. i - 1 \in 1 .. Len(u) - 1 /\ (i - 1) + 1 = i
            BY <1>1, <1>3, <2>4, <3>1
        <3>. QED
            BY <2>1, <3>1, <3>2
    <2>5. Unacked(a)' = Unacked(a) \ {m}
        BY <2>3, <2>4
    <2>6. \A b \in Apps : b # a => Unacked(b)' = Unacked(b)
        BY <1>2 DEF Unacked
    <2>. QED
        BY <2>5, <2>6
<1> HIDE DEF k, u
<1>6. k = sub[a].queue
    BY DEF k
<1>7. /\ m \notin queue[k].ready
      /\ \A b \in Apps : b # a /\ sub[b].queue = k => m \notin Unacked(b)
    BY <1>1, <1>6 DEF MInv, Alone
<1>8. ASSUME NEW q \in Queues
      PROVE  Held(q)' = Held(q) \ (IF q = k THEN {m} ELSE {})
    <2>1. \A x : x \in Held(q)' <=>
              x \in queue[q].ready
              \/ \E b \in Apps : sub[b].stage = "on" /\ sub[b].queue = q /\ x \in Unacked(b)'
        BY DEF Held, Consumes
    <2>2. \A x : x \in Held(q) <=>
              x \in queue[q].ready
              \/ \E b \in Apps : sub[b].stage = "on" /\ sub[b].queue = q /\ x \in Unacked(b)
        BY DEF Held, Consumes
    <2>3. CASE q = k
        <3>1. m \notin Held(q)'
            BY <1>5, <1>7, <2>1, <2>3
        <3>2. \A b \in Apps : \A x : x # m => (x \in Unacked(b) <=> x \in Unacked(b)')
            BY <1>5
        <3>. QED
            BY <2>1, <2>2, <2>3, <3>1, <3>2
    <2>4. CASE q # k
        <3>1. \A b \in Apps : sub[b].queue = q => Unacked(b)' = Unacked(b)
            BY <1>5, <1>6, <2>4
        <3>. QED
            BY <2>1, <2>2, <2>4, <3>1
    <2>. QED
        BY <2>3, <2>4
<1>9. Serial'
    <2>1. ASSUME NEW i \in DOMAIN unacked'[a], NEW j \in DOMAIN unacked'[a],
                 unacked'[a][i] = unacked'[a][j]
          PROVE  i = j
        <3>1. i \in 1 .. Len(u) - 1 /\ j \in 1 .. Len(u) - 1
            BY <1>3
        <3>2. i + 1 \in 1 .. Len(u) /\ j + 1 \in 1 .. Len(u)
            BY <1>3, <3>1
        <3>3. i + 1 = j + 1
            BY <1>3, <1>4, <2>1, <3>1, <3>2
        <3>. QED
            BY <3>1, <3>3
    <2>2. /\ unacked'[a] = <<>> => running'[a] = {}
          /\ unacked'[a] # <<>> =>
               running'[a] \subseteq {unacked'[a][1]} /\ sub'[a].stage = "on"
        BY <1>1, <1>2
    <2>3. ASSUME NEW b \in Apps, b # a
          PROVE  /\ unacked'[b] = <<>> => running'[b] = {}
                 /\ unacked'[b] # <<>> =>
                      running'[b] \subseteq {unacked'[b][1]} /\ sub'[b].stage = "on"
                 /\ \A i, j \in DOMAIN unacked'[b] : unacked'[b][i] = unacked'[b][j] => i = j
        BY <1>2, <2>3 DEF MInv, Serial
    <2>. QED
        BY <2>1, <2>2, <2>3 DEF Serial
<1>10. \A b \in Apps : Unacked(b)' \subseteq Unacked(b)
    BY <1>5
<1>11. Alone' /\ Unknown'
    BY <1>10 DEF MInv, Alone, Unknown, Unrouted
<1>12. Owed'
    <2> SUFFICES ASSUME NEW x \in Messages, NEW q \in pushes[x].owed, Kept(q, x)
                 PROVE  Kept(q, x)'
        BY DEF MInv, Owed
    <2>1. q \in Queues
        BY DEF TInv, Calls
    <2>2. m \in handled'[k] \cup failed'[k]
        BY <1>6
    <2>. QED
        BY <1>8, <2>1, <2>2 DEF Kept
<1>13. Counted'
    <2> SUFFICES ASSUME NEW x \in Messages, NEW b \in Apps, x \in Unacked(b)', x \notin running'[b]
                 PROVE  runs[sub[b].queue][x] <= losses
        BY DEF MInv, Counted
    <2>1. x \in Unacked(b) /\ x \notin running[b]
        BY <1>1, <1>2, <1>5
    <2>. QED
        BY <2>1 DEF MInv, Counted
<1>. QED
    BY <1>1, <1>6, <1>8, <1>9, <1>11, <1>12, <1>13 DEF MInv

(* The broker takes a message, or refuses it after it has put it into some     *)
(* queues.                                                                     *)
LEMMA TakeKeeps ==
    ASSUME TInv, MInv, NEW m \in Messages, Route(m) \/ Refuse(m)
    PROVE  /\ MInv'
           /\ \E Q \in SUBSET Queues : \A q \in Queues :
                  Held(q)' = IF q \in Q THEN Held(q) \cup {m} ELSE Held(q)
<1>1. /\ pushes[m].stage = "sent"
      /\ UNCHANGED <<sub, unacked, running, handled, failed, runs, losses>>
    BY DEF Route, Refuse, consumerVars, historyVars, faultVars
<1>2. /\ pushes'[m].stage = "routed" /\ pushes'[m].owed = pushes[m].owed
      /\ \A x \in Messages : x # m => pushes'[x] = pushes[x]
    BY DEF Route, Refuse, TInv, Calls
<1>3. PICK Q \in SUBSET Queues :
          /\ queue' = [q \in Queues |->
                 IF q \in Q THEN [queue[q] EXCEPT !.ready = @ \cup {m}] ELSE queue[q]]
          /\ pushes'[m].nacked \/ Q = {q \in Queues : pushes[m].mode \in queue[q].bound}
    <2>1. CASE Route(m)
        <3> DEFINE B == {q \in Queues : pushes[m].mode \in queue[q].bound}
        <3>1. queue' = [q \in Queues |->
                  IF q \in B THEN [queue[q] EXCEPT !.ready = @ \cup {m}] ELSE queue[q]]
            BY <2>1 DEF Route
        <3>2. B \in SUBSET Queues
            OBVIOUS
        <3> HIDE DEF B
        <3>3. B = {q \in Queues : pushes[m].mode \in queue[q].bound}
            BY DEF B
        <3>. QED
            BY <3>1, <3>2, <3>3
    <2>2. CASE Refuse(m)
        <3>1. pushes'[m].nacked
            BY <2>2 DEF Refuse, TInv, Calls
        <3>. QED
            BY <2>2, <3>1 DEF Refuse
    <2>. QED
        BY <2>1, <2>2
<1>4. \A q \in Queues :
          /\ queue'[q].ready = IF q \in Q THEN queue[q].ready \cup {m} ELSE queue[q].ready
          /\ queue'[q].bound = queue[q].bound
    BY <1>3 DEF TInv, Brokers
<1>5. /\ \A q \in Queues : m \notin queue[q].ready /\ runs[q][m] = 0
      /\ \A a \in Apps : m \notin Unacked(a)
    BY <1>1 DEF MInv, Unknown, Unrouted
<1>6. \A a \in Apps : Unacked(a)' = Unacked(a) /\ sub[a].queue \in Queues
    BY <1>1, UnackedFacts DEF Unacked
<1>7. ASSUME NEW q \in Queues
      PROVE  Held(q)' = IF q \in Q THEN Held(q) \cup {m} ELSE Held(q)
    <2> DEFINE V == UNION {Unacked(b) : b \in {c \in Apps : Consumes(c, q)}}
    <2>1. V' = V
        BY <1>1, <1>6 DEF Consumes
    <2>2. Held(q)' = queue'[q].ready \cup V' /\ Held(q) = queue[q].ready \cup V
        BY DEF Held
    <2> HIDE DEF V
    <2>. QED
        BY <1>4, <2>1, <2>2
<1>8. Serial'
    BY <1>1 DEF MInv, Serial
<1>9. Alone'
    BY <1>1, <1>4, <1>5, <1>6 DEF MInv, Alone
<1>10. Unknown'
    <2> SUFFICES ASSUME NEW x \in Messages, Unrouted(x)'
                 PROVE  /\ \A q \in Queues : x \notin queue'[q].ready /\ runs[q][x] = 0
                        /\ \A a \in Apps : x \notin Unacked(a)
        BY <1>1, <1>6 DEF Unknown
    <2>1. x # m /\ Unrouted(x)
        BY <1>2 DEF Unrouted
    <2>2. /\ \A q \in Queues : x \notin queue[q].ready /\ runs[q][x] = 0
          /\ \A a \in Apps : x \notin Unacked(a)
        BY <2>1 DEF MInv, Unknown
    <2>. QED
        BY <1>4, <2>1, <2>2
<1>11. Owed'
    <2> SUFFICES ASSUME NEW x \in Messages, NEW q \in pushes'[x].owed
                 PROVE  /\ pushes'[x].stage = "sent" => pushes'[x].mode \in queue'[q].bound
                        /\ pushes'[x].stage \in {"routed", "returned", "past"} /\ ~pushes'[x].nacked =>
                               Kept(q, x)'
        BY DEF Owed
    <2>1. q \in pushes[x].owed /\ q \in Queues
        BY <1>2 DEF TInv, Calls
    <2>2. Kept(q, x) => Kept(q, x)'
        BY <1>1, <1>7, <2>1 DEF Kept
    <2>3. CASE x = m
        <3>1. pushes[m].mode \in queue[q].bound
            BY <1>1, <2>1, <2>3 DEF MInv, Owed
        <3>2. ASSUME ~pushes'[m].nacked
              PROVE  Kept(q, m)'
            <4>1. q \in Q
                BY <1>3, <2>1, <3>1, <3>2
            <4>. QED
                BY <1>7, <2>1, <4>1 DEF Kept
        <3>. QED
            BY <1>2, <2>3, <3>2
    <2>4. CASE x # m
        BY <1>2, <1>4, <2>1, <2>2, <2>4 DEF MInv, Owed
    <2>. QED
        BY <2>3, <2>4
<1>12. Counted'
    <2>1. losses \in Nat
        BY DEF TInv, Faults
    <2>2. \A q \in Queues, x \in Messages : x \in queue'[q].ready => runs[q][x] <= losses
        <3> SUFFICES ASSUME NEW q \in Queues, NEW x \in Messages, x \in queue'[q].ready
                     PROVE  runs[q][x] <= losses
            OBVIOUS
        <3>1. CASE x = m
            BY <1>5, <2>1, <3>1
        <3>2. CASE x # m
            <4>1. x \in queue[q].ready
                BY <1>4, <3>2
            <4>. QED
                BY <4>1 DEF MInv, Counted
        <3>. QED
            BY <3>1, <3>2
    <2>. QED
        BY <1>1, <1>6, <2>2 DEF MInv, Counted
<1>. QED
    BY <1>7, <1>8, <1>9, <1>10, <1>11, <1>12 DEF MInv

(* A connection goes, and what its consumer had not settled is ready again.    *)
LEMMA LossKeeps ==
    ASSUME TInv, MInv, NEW a \in Apps,
           queue' = Requeued(a),
           unacked'[a] = <<>>, running'[a] = {},
           \A b \in Apps : b # a =>
               /\ unacked'[b] = unacked[b] /\ running'[b] = running[b]
               /\ sub'[b].queue = sub[b].queue
               /\ sub'[b].stage = "on" <=> sub[b].stage = "on",
           \A b \in Apps : sub'[b].queue \in Queues,
           UNCHANGED <<handled, failed>>, losses' = losses + 1,
           \A q \in Queues, m \in Messages :
               \/ runs'[q][m] = runs[q][m]
               \/ /\ runs'[q][m] = runs[q][m] + 1
                  /\ q = sub[a].queue /\ m \in Unacked(a) \ running[a],
           \A m \in Messages :
               /\ pushes'[m].mode = pushes[m].mode /\ pushes'[m].owed = pushes[m].owed
               /\ pushes'[m].nacked = pushes[m].nacked
               /\ \/ pushes'[m].stage = pushes[m].stage
                  \/ pushes'[m].stage = "threw"
                  \/ pushes[m].stage = "returned" /\ pushes'[m].stage = "past"
    PROVE  MInv' /\ \A q \in Queues : Held(q)' = Held(q)
<1> DEFINE k == sub[a].queue
<1>1. /\ k \in Queues
      /\ Unacked(a)' = {} /\ (Unacked(a) # {} => sub[a].stage = "on")
      /\ \A b \in Apps : b # a => Unacked(b)' = Unacked(b)
    <2>1. k \in Queues /\ (Unacked(a) # {} => sub[a].stage = "on")
        BY UnackedFacts DEF MInv, Serial
    <2>2. Unacked(a)' = {} /\ \A b \in Apps : b # a => Unacked(b)' = Unacked(b)
        BY DEF Unacked
    <2>. QED
        BY <2>1, <2>2
<1>2. \A q \in Queues :
          /\ queue'[q].ready = IF q = k THEN queue[q].ready \cup Unacked(a) ELSE queue[q].ready
          /\ queue'[q].bound = queue[q].bound
    <2>1. queue' = [queue EXCEPT ![k].ready = @ \cup Unacked(a)]
        BY DEF Requeued, Unacked
    <2> HIDE DEF k
    <2>2. \A q \in Queues : queue[q] \in Brokers
        BY DEF TInv
    <2>3. queue'[k] = [queue[k] EXCEPT !.ready = @ \cup Unacked(a)]
        BY <1>1, <2>1 DEF TInv
    <2>4. \A q \in Queues : q # k => queue'[q] = queue[q]
        BY <1>1, <2>1 DEF TInv
    <2>5. /\ queue'[k].ready = queue[k].ready \cup Unacked(a)
          /\ queue'[k].bound = queue[k].bound
        BY <1>1, <2>2, <2>3 DEF Brokers
    <2>. QED
        BY <2>4, <2>5
<1>3. losses \in Nat /\ \A q \in Queues, m \in Messages : runs[q][m] \in Nat
    BY DEF TInv, Faults, Histories
<1> HIDE DEF k
<1>4. k = sub[a].queue
    BY DEF k
<1>5. ASSUME NEW q \in Queues
      PROVE  Held(q)' = Held(q)
    <2>1. \A x : x \in Held(q)' <=>
              x \in queue'[q].ready
              \/ \E b \in Apps : sub'[b].stage = "on" /\ sub'[b].queue = q /\ x \in Unacked(b)'
        BY DEF Held, Consumes
    <2>2. \A x : x \in Held(q) <=>
              x \in queue[q].ready
              \/ \E b \in Apps : sub[b].stage = "on" /\ sub[b].queue = q /\ x \in Unacked(b)
        BY DEF Held, Consumes
    <2>3. ASSUME NEW x, x \in Held(q)
          PROVE  x \in Held(q)'
        <3>1. CASE x \in queue[q].ready
            BY <1>2, <2>1, <3>1
        <3>2. ASSUME NEW b \in Apps, sub[b].stage = "on", sub[b].queue = q, x \in Unacked(b)
              PROVE  x \in Held(q)'
            <4>1. CASE b = a
                BY <1>2, <1>4, <2>1, <3>2, <4>1
            <4>2. CASE b # a
                <5>1. x \in Unacked(b)' /\ sub'[b].stage = "on" /\ sub'[b].queue = q
                    BY <1>1, <3>2, <4>2
                <5>. QED
                    BY <2>1, <5>1
            <4>. QED
                BY <4>1, <4>2
        <3>. QED
            BY <2>2, <2>3, <3>1, <3>2
    <2>4. ASSUME NEW x, x \in Held(q)'
          PROVE  x \in Held(q)
        <3>1. CASE x \in queue'[q].ready
            <4>1. x \in queue[q].ready \/ (q = k /\ x \in Unacked(a))
                BY <1>2, <3>1
            <4>. QED
                BY <1>1, <1>4, <2>2, <4>1
        <3>2. ASSUME NEW b \in Apps, sub'[b].stage = "on", sub'[b].queue = q, x \in Unacked(b)'
              PROVE  x \in Held(q)
            <4>1. b # a
                BY <1>1, <3>2
            <4>2. x \in Unacked(b) /\ sub[b].stage = "on" /\ sub[b].queue = q
                BY <1>1, <3>2, <4>1
            <4>. QED
                BY <2>2, <4>2
        <3>. QED
            BY <2>1, <2>4, <3>1, <3>2
    <2>. QED
        BY <2>3, <2>4
<1>6. Serial'
    <2>1. ASSUME NEW b \in Apps, b # a
          PROVE  /\ unacked'[b] = <<>> => running'[b] = {}
                 /\ unacked'[b] # <<>> =>
                      running'[b] \subseteq {unacked'[b][1]} /\ sub'[b].stage = "on"
                 /\ \A i, j \in DOMAIN unacked'[b] : unacked'[b][i] = unacked'[b][j] => i = j
        BY <2>1 DEF MInv, Serial
    <2>2. \A i, j \in DOMAIN unacked'[a] : unacked'[a][i] = unacked'[a][j] => i = j
        OBVIOUS
    <2>. QED
        BY <2>1, <2>2 DEF Serial
<1>7. Alone'
    <2>1. ASSUME NEW b \in Apps, b # a
          PROVE  Unacked(b)' \cap queue'[sub'[b].queue].ready = {}
        <3>1. Unacked(b) \cap queue[sub[b].queue].ready = {}
            BY DEF MInv, Alone
        <3>2. sub[b].queue = k => Unacked(b) \cap Unacked(a) = {}
            BY <1>4, <2>1 DEF MInv, Alone
        <3>3. sub'[b].queue = sub[b].queue /\ sub[b].queue \in Queues
            BY <2>1
        <3>4. Unacked(b)' = Unacked(b)
            BY <1>1, <2>1
        <3>5. Unacked(b) \cap queue'[sub[b].queue].ready = {}
            BY <1>2, <3>1, <3>2, <3>3
        <3>. QED
            BY <3>3, <3>4, <3>5
    <2>2. ASSUME NEW b \in Apps, NEW c \in Apps, b # c, sub'[b].queue = sub'[c].queue
          PROVE  Unacked(b)' \cap Unacked(c)' = {}
        <3>1. CASE b = a \/ c = a
            BY <1>1, <3>1
        <3>2. CASE b # a /\ c # a
            BY <1>1, <2>2, <3>2 DEF MInv, Alone
        <3>. QED
            BY <3>1, <3>2
    <2>. QED
        BY <1>1, <2>1, <2>2 DEF Alone
<1>8. Unknown'
    <2> SUFFICES ASSUME NEW x \in Messages, Unrouted(x)'
                 PROVE  /\ \A q \in Queues : x \notin queue'[q].ready /\ runs'[q][x] = 0
                        /\ \A b \in Apps : x \notin Unacked(b)'
        BY DEF Unknown
    <2>1. Unrouted(x)
        BY DEF Unrouted
    <2>2. /\ \A q \in Queues : x \notin queue[q].ready /\ runs[q][x] = 0
          /\ \A b \in Apps : x \notin Unacked(b)
        BY <2>1 DEF MInv, Unknown
    <2>3. \A b \in Apps : x \notin Unacked(b)'
        BY <1>1, <2>2
    <2>. QED
        BY <1>2, <2>2, <2>3
<1>9. Owed'
    <2> SUFFICES ASSUME NEW m \in Messages, NEW q \in pushes[m].owed
                 PROVE  /\ pushes'[m].stage = "sent" => pushes'[m].mode \in queue'[q].bound
                        /\ pushes'[m].stage \in {"routed", "returned", "past"} /\ ~pushes'[m].nacked =>
                               Kept(q, m)'
        BY DEF Owed
    <2>1. q \in Queues
        BY DEF TInv, Calls
    <2>2. Kept(q, m) => Kept(q, m)'
        BY <1>5, <2>1 DEF Kept
    <2>3. /\ pushes[m].stage = "sent" => pushes[m].mode \in queue[q].bound
          /\ pushes[m].stage \in {"routed", "returned", "past"} /\ ~pushes[m].nacked =>
                 Kept(q, m)
        BY DEF MInv, Owed
    <2>. QED
        BY <1>2, <2>1, <2>2, <2>3
<1>10. Counted'
    <2> SUFFICES ASSUME NEW m \in Messages, NEW q \in Queues
                 PROVE  runs'[q][m] <= losses + 1
        <3>1. ASSUME \A q \in Queues, m \in Messages : runs'[q][m] <= losses + 1
              PROVE  Counted'
            <4>1. \A q \in Queues, m \in Messages :
                      runs'[q][m] \in Nat /\ runs'[q][m] <= 1 + (losses + 1)
                BY <1>3, <3>1
            <4>. QED
                BY <3>1, <4>1 DEF Counted
        <3>. QED
            BY <3>1
    <2>1. runs[q][m] <= 1 + losses
        BY DEF MInv, Counted
    <2>2. q = sub[a].queue /\ m \in Unacked(a) \ running[a] => runs[q][m] <= losses
        BY DEF MInv, Counted
    <2>. QED
        BY <1>3, <2>1, <2>2
<1>. QED
    BY <1>5, <1>6, <1>7, <1>8, <1>9, <1>10 DEF MInv

(* The broker restarts with nothing in its queues.                             *)
LEMMA RestartKeeps ==
    ASSUME TInv, MInv, Restart
    PROVE  MInv' /\ \A q \in Queues : Held(q)' = {}
<1>1. /\ \A q \in Queues : queue'[q].ready = {}
      /\ UNCHANGED <<handled, failed, losses>>
    BY DEF Restart, TInv, Brokers
<1>2. ChannelsLost(Apps)
    BY DEF Restart
<1>3. \A a \in Apps : unacked'[a] = <<>> /\ running'[a] = {}
    BY <1>2, LostTypes
<1>4. \A q \in Queues, m \in Messages :
          \/ runs'[q][m] = runs[q][m]
          \/ /\ runs'[q][m] = runs[q][m] + 1
             /\ \E a \in Apps : q = sub[a].queue /\ m \in Unacked(a) \ running[a]
    BY <1>2, LostTypes
<1>5. \A m \in Messages : pushes'[m].owed = {} /\ (Unrouted(m)' => Unrouted(m))
    BY ThrownTypes DEF Restart, Calls, Unrouted
<1>6. \A a \in Apps : Unacked(a)' = {}
    BY <1>3 DEF Unacked
<1>7. \A a \in Apps : sub'[a].queue \in Queues
    BY InterruptedTypes DEF Restart, Subs
<1>8. ASSUME NEW q \in Queues
      PROVE  Held(q)' = {}
    BY <1>1, <1>6 DEF Held, Consumes
<1>9. Serial'
    <2>1. \A a \in Apps : \A i, j \in DOMAIN unacked'[a] : unacked'[a][i] = unacked'[a][j] => i = j
        BY <1>3
    <2>. QED
        BY <1>3, <2>1 DEF Serial
<1>10. Alone'
    BY <1>6 DEF Alone
<1>11. Unknown'
    <2>1. \A m \in Messages : Unrouted(m)' => \A q \in Queues : runs'[q][m] = 0
        BY <1>5, <1>4 DEF MInv, Unknown
    <2>. QED
        BY <1>1, <1>6, <2>1 DEF Unknown
<1>12. Owed'
    BY <1>5 DEF Owed
<1>13. Counted'
    <2>1. losses \in Nat /\ \A q \in Queues, m \in Messages : runs[q][m] \in Nat
        BY DEF TInv, Faults, Histories
    <2>2. ASSUME NEW q \in Queues, NEW m \in Messages
          PROVE  runs'[q][m] <= 1 + losses
        <3>1. runs[q][m] <= 1 + losses
            BY DEF MInv, Counted
        <3>2. \A a \in Apps : q = sub[a].queue /\ m \in Unacked(a) \ running[a] =>
                  runs[q][m] <= losses
            BY DEF MInv, Counted
        <3>. QED
            BY <1>4, <2>1, <3>1, <3>2
    <2>. QED
        BY <1>1, <1>6, <2>2 DEF Counted
<1>. QED
    BY <1>8, <1>9, <1>10, <1>11, <1>12, <1>13 DEF MInv

(* A publisher's steps but the one in which the broker takes the message.      *)
LEMMA PublisherKeeps ==
    ASSUME TInv, TInv', MInv, NEW m \in Messages,
           PushReturns(m) \/ \E a \in Publishers, mode \in PushedTo : PushMessage(m, a, mode)
    PROVE  MInv' /\ \A q \in Queues : Held(q)' = Held(q)
<1>1. UNCHANGED <<queue, sub, unacked, running, late, handled, failed, runs, losses, restarts>>
    BY DEF PushReturns, PushMessage, consumerVars, historyVars, faultVars
<1>2. \A x \in Messages :
           \/ pushes'[x] = pushes[x]
           \/ pushes'[x].stage = "threw"
           \/ /\ pushes[x].stage = "none" /\ pushes'[x].stage = "sent"
              /\ \A q \in pushes'[x].owed : q \in Queues /\ pushes'[x].mode \in queue'[q].bound
           \/ /\ pushes[x].stage = "routed" /\ pushes'[x].stage = "returned"
              /\ pushes'[x].owed = pushes[x].owed /\ pushes'[x].nacked = pushes[x].nacked
    <2>1. CASE PushReturns(m)
        BY <2>1 DEF PushReturns, TInv, Calls
    <2>2. ASSUME NEW a \in Publishers, NEW mode \in PushedTo, PushMessage(m, a, mode)
          PROVE  \A x \in Messages :
                     \/ pushes'[x] = pushes[x]
                     \/ pushes'[x].stage = "threw"
                     \/ /\ pushes[x].stage = "none" /\ pushes'[x].stage = "sent"
                        /\ \A q \in pushes'[x].owed :
                               q \in Queues /\ pushes'[x].mode \in queue'[q].bound
        <3>1. pushes[m].stage = "none" /\ queue' = queue
            BY <2>2 DEF PushMessage
        <3>2. CASE CanOpen(a)
            <4> DEFINE r == [stage |-> "sent", app |-> a, mode |-> mode,
                             owed |-> {q \in Queues : mode \in queue[q].bound},
                             nacked |-> FALSE]
            <4>1. pushes' = [pushes EXCEPT ![m] = r]
                BY <2>2, <3>2 DEF PushMessage
            <4>2. pushes'[m] = r /\ \A x \in Messages : x # m => pushes'[x] = pushes[x]
                BY <4>1 DEF TInv
            <4>. QED
                BY <3>1, <4>2
        <3>3. CASE ~CanOpen(a)
            BY <2>2, <3>3 DEF PushMessage, TInv, Calls
        <3>. QED
            BY <3>2, <3>3
    <2>. QED
        BY <2>1, <2>2
<1>3. \A a \in Apps : /\ unacked[a] # <<>> => sub'[a].stage = "on" /\ sub'[a].queue = sub[a].queue
                      /\ sub'[a].queue \in Queues
    BY <1>1, UnackedFacts DEF MInv, Serial
<1>4. \A q \in Queues : /\ queue'[q].ready = queue[q].ready
                        /\ queue[q].bound \subseteq queue'[q].bound
                        /\ handled[q] \subseteq handled'[q]
                        /\ failed[q] \subseteq failed'[q]
    BY <1>1
<1>. QED
    BY <1>1, <1>2, <1>3, <1>4, QuietKeeps

(* A subscription's steps, and a recovery.                                     *)
LEMMA SubscriberKeeps ==
    ASSUME TInv, TInv', MInv, Silent, NEW a \in Apps,
           Subscriber(a) \/ Recover(a) \/ \E ask \in Asked[a] : Subscribe(a, ask)
    PROVE  MInv' /\ \A q \in Queues : Held(q)' = Held(q)
<1>1. UNCHANGED <<unacked, running, late, handled, failed, runs, losses, restarts, pushes>>
    BY DEF Subscriber, Recover, Subscribe, Retry, Call, QueueDeclare, DeclareRefused,
           QueueBind, BasicConsume, consumerVars, historyVars, faultVars
<1>2. \A q \in Queues : /\ queue'[q].ready = queue[q].ready
                        /\ queue[q].bound \subseteq queue'[q].bound
    <2>1. CASE QueueDeclare(a)
        BY <2>1 DEF QueueDeclare, TInv, Brokers
    <2>2. CASE QueueBind(a)
        BY <2>2 DEF QueueBind, TInv, Brokers
    <2>3. CASE Recover(a)
        <3>1. PICK new \in NewNames(a) :
                  queue' = [q \in Queues |->
                      IF <<q, "queue">> \notin conn'[a].recorded THEN queue[q]
                      ELSE [queue[q] EXCEPT
                              !.state = StateAgain(new, q),
                              !.bound = @ \cup {e \in Modes : <<q, e>> \in conn'[a].recorded}]]
            BY <2>3 DEF Recover
        <3>. QED
            BY <3>1 DEF TInv, Brokers
    <2>4. CASE DeclareRefused(a) \/ BasicConsume(a) \/ Retry(a) \/ \E ask \in Asked[a] : Subscribe(a, ask)
        BY <2>4 DEF DeclareRefused, BasicConsume, Retry, Subscribe, Call
    <2>. QED
        BY <2>1, <2>2, <2>3, <2>4 DEF Subscriber
<1>3. \A b \in Apps : unacked[b] # <<>> =>
          sub'[b].stage = "on" /\ sub'[b].queue = sub[b].queue
    <2>1. CASE Recover(a)
        <3>1. unacked[a] = <<>>
            BY <2>1 DEF Recover, Silent
        <3>2. \A b \in Apps : b # a => sub'[b] = sub[b]
            BY <2>1 DEF Recover, TInv
        <3>. QED
            BY <3>1, <3>2 DEF MInv, Serial
    <2>2. CASE Subscriber(a) \/ \E ask \in Asked[a] : Subscribe(a, ask)
        <3>1. sub[a].stage # "on"
            BY <2>2 DEF Subscriber, Subscribe, Retry, QueueDeclare, DeclareRefused, QueueBind,
                        BasicConsume
        <3>2. \A b \in Apps : b # a => sub'[b] = sub[b]
            BY <2>2 DEF Subscriber, Subscribe, Retry, Call, QueueDeclare, DeclareRefused,
                        QueueBind, BasicConsume, TInv
        <3>. QED
            BY <3>1, <3>2 DEF MInv, Serial
    <2>. QED
        BY <2>1, <2>2
<1>4. \A b \in Apps : sub'[b].queue \in Queues
    BY DEF TInv, Subs
<1>. QED
    BY <1>1, <1>2, <1>3, <1>4, QuietKeeps

(* A handler whose connection is gone ends.                                    *)
LEMMA LateKeeps ==
    ASSUME TInv, MInv, NEW a \in Apps, NEW k \in Queues, NEW m \in Messages,
           LateReturns(a, k, m) \/ LateThrows(a, k, m)
    PROVE  MInv' /\ \A q \in Queues : Held(q)' = Held(q)
<1>1. UNCHANGED <<queue, conn, sub, unacked, running, pushes, runs, losses, restarts>>
    BY DEF LateReturns, LateThrows, faultVars
<1>2. \A q \in Queues : handled[q] \subseteq handled'[q] /\ failed[q] \subseteq failed'[q]
    BY DEF LateReturns, LateThrows, TInv, Histories
<1>3. \A b \in Apps : /\ unacked[b] # <<>> => sub'[b].stage = "on" /\ sub'[b].queue = sub[b].queue
                      /\ sub'[b].queue \in Queues
    BY <1>1, UnackedFacts DEF MInv, Serial
<1>. QED
    BY <1>1, <1>2, <1>3, QuietKeeps

(* What HandlerReturns and HandlerThrows do to their queue.                    *)
LEMMA HandlerKeeps ==
    ASSUME TInv, MInv, NEW a \in Apps, HandlerReturns(a) \/ HandlerThrows(a)
    PROVE  MInv' /\ \E m \in Messages :
               /\ m \in Held(sub[a].queue)
               /\ \A q \in Queues : Held(q)' = Held(q) \ (IF q = sub[a].queue THEN {m} ELSE {})
               /\ \/ handled' = [handled EXCEPT ![sub[a].queue] = @ \cup {m}] /\ failed' = failed
                  \/ failed' = [failed EXCEPT ![sub[a].queue] = @ \cup {m}] /\ handled' = handled
<1> DEFINE k == sub[a].queue
<1>1. PICK m \in running[a] :
          /\ \/ handled' = [handled EXCEPT ![k] = @ \cup {m}] /\ failed' = failed
             \/ failed' = [failed EXCEPT ![k] = @ \cup {m}] /\ handled' = handled
          /\ unacked' = [unacked EXCEPT ![a] = Tail(unacked[a])]
    <2>1. ASSUME NEW m \in running[a]
          PROVE  BasicAck(a, m) = Tail(unacked[a]) /\ BasicNack(a, m) = Tail(unacked[a])
        BY SettlesOne DEF MInv
    <2>. QED
        BY <2>1 DEF HandlerReturns, HandlerThrows
<1>2. /\ running' = [running EXCEPT ![a] = {}]
      /\ UNCHANGED <<queue, sub, pushes, runs, losses>>
    BY DEF HandlerReturns, HandlerThrows, faultVars
<1>3. k \in Queues
    BY UnackedFacts
<1>4. /\ m \in handled'[k] \cup failed'[k]
      /\ \A q \in Queues : handled[q] \subseteq handled'[q] /\ failed[q] \subseteq failed'[q]
    BY <1>1, <1>3 DEF TInv, Histories
<1>5. /\ MInv' /\ m \in Unacked(a)
      /\ \A q \in Queues : Held(q)' = Held(q) \ (IF q = k THEN {m} ELSE {})
    BY <1>1, <1>2, <1>4, SettleKeeps
<1>6. m \in Held(k) /\ m \in Messages
    <2>1. unacked[a] # <<>> /\ m \in Messages
        BY <1>5, UnackedFacts
    <2>. QED
        BY <1>5, <2>1 DEF MInv, Serial, Held, Consumes
<1>. QED
    BY <1>1, <1>5, <1>6

LEMMA ConnectionKeeps ==
    ASSUME TInv, TInv', MInv, NEW a \in Apps, ConnectionLost(a) \/ Stop(a)
    PROVE  MInv' /\ \A q \in Queues : Held(q)' = Held(q)
<1>1. /\ queue' = Requeued(a)
      /\ UNCHANGED <<handled, failed>> /\ losses' = losses + 1
    BY DEF ConnectionLost, Stop, historyVars
<1>2. /\ unacked'[a] = <<>> /\ running'[a] = {}
      /\ \A q \in Queues, m \in Messages :
             \/ runs'[q][m] = runs[q][m]
             \/ /\ runs'[q][m] = runs[q][m] + 1
                /\ q = sub[a].queue /\ m \in Unacked(a) \ running[a]
    <2>1. CASE ConnectionLost(a)
        <3>1. ChannelsLost({a})
            BY <2>1 DEF ConnectionLost
        <3>. QED
            BY <3>1, LostTypes
    <2>2. CASE Stop(a)
        BY <2>2 DEF Stop, TInv, Deliveries, historyVars
    <2>. QED
        BY <2>1, <2>2
<1>3. ASSUME NEW b \in Apps, b # a
      PROVE  /\ unacked'[b] = unacked[b] /\ running'[b] = running[b]
             /\ sub'[b].queue = sub[b].queue
             /\ sub'[b].stage = "on" <=> sub[b].stage = "on"
    <2>1. CASE ConnectionLost(a)
        <3>1. CallsInterrupted({a}) /\ ChannelsLost({a})
            BY <2>1 DEF ConnectionLost
        <3>. QED
            BY <1>3, <3>1, InterruptedTypes, LostTypes
    <2>2. CASE Stop(a)
        BY <1>3, <2>2 DEF Stop, TInv, Deliveries
    <2>. QED
        BY <2>1, <2>2
<1>4. \A b \in Apps : sub'[b].queue \in Queues
    BY DEF TInv, Subs
<1>5. ASSUME NEW m \in Messages
      PROVE  /\ pushes'[m].mode = pushes[m].mode /\ pushes'[m].owed = pushes[m].owed
             /\ pushes'[m].nacked = pushes[m].nacked
             /\ \/ pushes'[m].stage = pushes[m].stage
                \/ pushes'[m].stage = "threw"
                \/ pushes[m].stage = "returned" /\ pushes'[m].stage = "past"
    <2>1. pushes[m] \in Calls /\ Thrown(m) \in Calls
        BY ThrownTypes DEF TInv
    <2>2. CASE ConnectionLost(a)
        BY <2>2, ThrownTypes DEF ConnectionLost
    <2>3. CASE Stop(a)
        <3>1. pushes'[m] = IF pushes[m].app # a THEN pushes[m]
                           ELSE [Thrown(m) EXCEPT !.stage = IF @ = "returned" THEN "past" ELSE @]
            BY <2>3 DEF Stop
        <3>. QED
            BY <2>1, <3>1, ThrownTypes DEF Calls
    <2>. QED
        BY <2>2, <2>3
<1>. QED
    BY <1>1, <1>2, <1>3, <1>4, <1>5, LossKeeps

--------------------------------------------------------------------------------
(* The invariant is inductive.                                                 *)
IInv == TInv /\ MInv /\ Silent

LEMMA SilentStep ==
    ASSUME TInv, Serial, Silent, [Next]_vars
    PROVE  Silent'
<1>1. ASSUME conn' = conn, unacked' = unacked
      PROVE  Silent'
    BY <1>1 DEF Silent
<1>2. ASSUME NEW a \in Apps, conn' = Opened(a), unacked' = unacked
      PROVE  Silent'
    <2>1. \A b \in Apps : conn'[b].up = conn[b].up
        BY <1>2 DEF Opened, TInv, Conns
    <2>. QED
        BY <1>2, <2>1 DEF Silent
<1>3. CASE UNCHANGED vars
    BY <1>1, <1>3 DEF vars, consumerVars
<1>4. ASSUME NEW m \in Messages,
             \/ \E a \in Publishers, mode \in PushedTo : PushMessage(m, a, mode)
             \/ Route(m) \/ Refuse(m) \/ PushReturns(m)
      PROVE  Silent'
    <2>1. ASSUME NEW a \in Publishers, NEW mode \in PushedTo, PushMessage(m, a, mode)
          PROVE  Silent'
        BY <1>1, <1>2, <2>1, Actors DEF PushMessage, consumerVars
    <2>2. CASE Route(m) \/ Refuse(m) \/ PushReturns(m)
        BY <1>1, <2>2 DEF Route, Refuse, PushReturns, consumerVars
    <2>. QED
        BY <1>4, <2>1, <2>2
<1>5. ASSUME NEW a \in Apps,
             Subscriber(a) \/ \E ask \in Asked[a] : Subscribe(a, ask)
      PROVE  Silent'
    <2>1. unacked' = unacked
        BY <1>5 DEF Subscriber, Subscribe, Retry, Call, QueueDeclare, DeclareRefused, QueueBind,
                    BasicConsume, consumerVars
    <2>2. CASE Retry(a) \/ \E ask \in Asked[a] : Subscribe(a, ask)
        BY <1>1, <1>2, <2>1, <2>2 DEF Subscribe, Retry, Call
    <2>3. CASE QueueDeclare(a) \/ DeclareRefused(a) \/ QueueBind(a) \/ BasicConsume(a)
        <3>1. \A b \in Apps : conn'[b].up = conn[b].up
            BY <2>3 DEF QueueDeclare, DeclareRefused, QueueBind, BasicConsume, TInv, Conns
        <3>. QED
            BY <2>1, <3>1 DEF Silent
    <2>. QED
        BY <1>5, <2>2, <2>3 DEF Subscriber
<1>6. ASSUME NEW a \in Apps, Consumer(a)
      PROVE  Silent'
    <2>1. conn' = conn
        BY <1>6 DEF Consumer, Deliver, Received, HandlerReturns, HandlerThrows, LateReturns,
                    LateThrows
    <2>2. ASSUME NEW b \in Apps, b # a
          PROVE  unacked'[b] = unacked[b]
        BY <1>6, <2>2 DEF Consumer, Deliver, Received, HandlerReturns, HandlerThrows, LateReturns,
                    LateThrows, TInv, Deliveries
    <2>3. CASE Deliver(a) \/ HandlerReturns(a) \/ HandlerThrows(a)
        <3>1. conn[a].up
            <4>1. CASE Deliver(a)
                BY <4>1 DEF Deliver
            <4>2. CASE HandlerReturns(a) \/ HandlerThrows(a)
                BY <4>2 DEF HandlerReturns, HandlerThrows, Serial, Silent
            <4>. QED
                BY <2>3, <4>1, <4>2
        <3>. QED
            BY <2>1, <2>2, <3>1 DEF Silent
    <2>4. CASE \/ Received(a)
               \/ \E q \in Queues, m \in Messages : LateReturns(a, q, m) \/ LateThrows(a, q, m)
        BY <1>1, <2>1, <2>4 DEF Received, LateReturns, LateThrows
    <2>. QED
        BY <1>6, <2>3, <2>4 DEF Consumer
<1>7. ASSUME NEW a \in Apps, ConnectionLost(a) \/ Stop(a)
      PROVE  Silent'
    <2>1. /\ unacked'[a] = <<>>
          /\ \A b \in Apps : b # a => unacked'[b] = unacked[b] /\ conn'[b] = conn[b]
        <3>1. CASE ConnectionLost(a)
            <4>1. ChannelsLost({a})
                BY <3>1 DEF ConnectionLost
            <4>. QED
                BY <3>1, <4>1, LostTypes DEF ConnectionLost, TInv
        <3>2. CASE Stop(a)
            BY <3>2 DEF Stop, TInv, Deliveries
        <3>. QED
            BY <1>7, <3>1, <3>2
    <2>. QED
        BY <2>1 DEF Silent
<1>8. ASSUME NEW a \in Apps, Recover(a)
      PROVE  Silent'
    <2>1. PICK new \in NewNames(a) :
              conn' = [conn EXCEPT ![a].up = TRUE,
                          ![a].recorded = {<<Renamed(new, r[1]), r[2]>> : r \in @}]
        BY <1>8 DEF Recover
    <2>2. conn'[a].up /\ \A b \in Apps : b # a => conn'[b] = conn[b]
        BY <2>1 DEF TInv, Conns
    <2>3. unacked' = unacked
        BY <1>8 DEF Recover, consumerVars
    <2>. QED
        BY <2>2, <2>3 DEF Silent
<1>9. CASE Restart
    <2>1. ChannelsLost(Apps)
        BY <1>9 DEF Restart
    <2>. QED
        BY <2>1, LostTypes DEF Silent
<1>. QED
    BY <1>3, <1>4, <1>5, <1>6, <1>7, <1>8, <1>9 DEF Next

LEMMA IInvStep == IInv /\ [Next]_vars => IInv'
<1> SUFFICES ASSUME TInv, MInv, Silent, [Next]_vars
             PROVE  TInv' /\ MInv' /\ Silent'
    BY DEF IInv
<1>1. TInv' /\ Silent'
    BY TypesStep, SilentStep DEF MInv
<1>2. CASE UNCHANGED vars
    BY <1>1, <1>2, UnackedFacts, QuietKeeps
       DEF vars, consumerVars, historyVars, faultVars, MInv, Serial
<1>3. ASSUME NEW m \in Messages,
             \/ \E a \in Publishers, mode \in PushedTo : PushMessage(m, a, mode)
             \/ Route(m) \/ Refuse(m) \/ PushReturns(m)
      PROVE  MInv'
    BY <1>1, <1>3, PublisherKeeps, TakeKeeps
<1>4. ASSUME NEW a \in Apps,
             \/ \E ask \in Asked[a] : Subscribe(a, ask)
             \/ Subscriber(a) \/ Recover(a)
      PROVE  MInv'
    BY <1>1, <1>4, SubscriberKeeps
<1>5. ASSUME NEW a \in Apps, Consumer(a)
      PROVE  MInv'
    BY <1>5, DeliverKeeps, ReceivedKeeps, HandlerKeeps, LateKeeps DEF Consumer
<1>6. ASSUME NEW a \in Apps, ConnectionLost(a) \/ Stop(a)
      PROVE  MInv'
    BY <1>1, <1>6, ConnectionKeeps
<1>7. CASE Restart
    BY <1>1, <1>7, RestartKeeps
<1>8. ASSUME Next
      PROVE  MInv'
    BY <1>3, <1>4, <1>5, <1>6, <1>7, <1>8 DEF Next
<1>. QED
    BY <1>1, <1>2, <1>8

LEMMA IInvInit == Init => IInv
<1> SUFFICES ASSUME Init
             PROVE  IInv
    OBVIOUS
<1>1. TInv
    BY TypesInit
<1>2. \A a \in Apps : unacked[a] = <<>> /\ running[a] = {} /\ Unacked(a) = {}
    BY DEF Init, Unacked
<1>3. Serial
    <2>1. \A a \in Apps : \A i, j \in DOMAIN unacked[a] : unacked[a][i] = unacked[a][j] => i = j
        BY <1>2
    <2>. QED
        BY <1>2, <2>1 DEF Serial
<1>4. Alone
    BY <1>2 DEF Alone
<1>5. Unknown
    BY <1>2 DEF Init, Unknown
<1>6. Owed
    BY DEF Init, Owed, NoPush
<1>7. Counted
    BY <1>2 DEF Init, Counted
<1>8. Silent
    BY <1>2 DEF Silent
<1>. QED
    BY <1>1, <1>3, <1>4, <1>5, <1>6, <1>7, <1>8 DEF IInv, MInv

LEMMA Invariance == Spec => []IInv
BY IInvInit, IInvStep, PTL DEF Spec

--------------------------------------------------------------------------------
(* The variables keep their types; a connection never has more channels than   *)
(* the client library allows.                                                  *)
THEOREM TypeCorrect == Spec => []TypeOK
<1>1. IInv => TypeOK
    BY TInvIsTypeOK DEF IInv
<1>. QED
    BY <1>1, Invariance, PTL

(* When PushMessage has returned after the broker's confirmation, each queue   *)
(* that was bound when it began has the message or a handler has ended for it, *)
(* for any applications, messages and faults but a restart of the broker.      *)
THEOREM ReturnedMessagesAreKept == Spec => []ReturnedIsKept
<1>1. IInv => ReturnedIsKept
    BY DEF IInv, MInv, Owed, Kept, ReturnedIsKept
<1>. QED
    BY <1>1, Invariance, PTL

(* Consumers that share a queue never have one message together, and only a    *)
(* lost connection is a reason to hand it out again: the acknowledgement of    *)
(* several deliveries and the rejection settle one delivery each.              *)
THEOREM MessagesAreWithOneConsumer == Spec => []OneAtATime
<1>1. IInv => OneAtATime
    <2> SUFFICES ASSUME IInv
                 PROVE  OneAtATime
        OBVIOUS
    <2>1. \A q \in Queues, m \in Messages : runs[q][m] <= 1 + losses
        BY DEF IInv, MInv, Counted
    <2>2. ASSUME NEW a \in Apps, NEW b \in Apps,
                 NEW i \in DOMAIN unacked[a], NEW j \in DOMAIN unacked[b],
                 sub[a].queue = sub[b].queue, unacked[a][i] = unacked[b][j]
          PROVE  a = b /\ i = j
        <3>1. unacked[a][i] \in Unacked(a) /\ unacked[b][j] \in Unacked(b)
            BY DEF Unacked
        <3>2. a = b
            BY <2>2, <3>1 DEF IInv, MInv, Alone
        <3>. QED
            BY <2>2, <3>2 DEF IInv, MInv, Serial
    <2>. QED
        BY <2>1, <2>2 DEF OneAtATime
<1>. QED
    BY <1>1, Invariance, PTL

--------------------------------------------------------------------------------
(* What is held for the queues, as the abstract specification sees it.         *)
Holdings == [q \in Queues |-> Held(q)]
PVars == <<Holdings, handled, failed, restarts>>

LEMMA StepKeepsPromise == IInv /\ IInv' /\ [Next]_vars => [Promise!Next]_(Promise!vars)
<1> SUFFICES ASSUME IInv, IInv', [Next]_vars
             PROVE  Promise!Next \/ UNCHANGED Promise!vars
    OBVIOUS
<1>1. TInv /\ TInv' /\ MInv /\ Silent
    BY DEF IInv
<1>2. ASSUME \A q \in Queues : Held(q)' = Held(q), UNCHANGED <<handled, failed, restarts>>
      PROVE  UNCHANGED Promise!vars
    BY <1>2 DEF Promise!vars
<1>3. CASE UNCHANGED vars
    <2>1. \A q \in Queues : Held(q)' = Held(q)
        BY <1>3 DEF vars, consumerVars, Held, Consumes, Unacked
    <2>. QED
        BY <1>2, <1>3, <2>1 DEF vars, historyVars, faultVars
<1>4. ASSUME NEW m \in Messages,
             PushReturns(m) \/ \E a \in Publishers, mode \in PushedTo : PushMessage(m, a, mode)
      PROVE  UNCHANGED Promise!vars
    <2>1. UNCHANGED <<handled, failed, restarts>>
        BY <1>4 DEF PushReturns, PushMessage, historyVars, faultVars
    <2>. QED
        BY <1>1, <1>2, <1>4, <2>1, PublisherKeeps
<1>5. ASSUME NEW m \in Messages, Route(m) \/ Refuse(m)
      PROVE  Promise!Next
    <2>1. UNCHANGED <<handled, failed, restarts>>
        BY <1>5 DEF Route, Refuse, historyVars, faultVars
    <2>2. PICK Q \in SUBSET Queues :
              \A q \in Queues : Held(q)' = IF q \in Q THEN Held(q) \cup {m} ELSE Held(q)
        BY <1>1, <1>5, TakeKeeps
    <2>3. Holdings' = [q \in Queues |-> IF q \in Q THEN Holdings[q] \cup {m} ELSE Holdings[q]]
        BY <2>2 DEF Holdings
    <2>4. Promise!Arrive(m)
        BY <2>1, <2>3 DEF Promise!Arrive, Holdings
    <2>. QED
        BY <2>4 DEF Promise!Next
<1>6. ASSUME NEW a \in Apps,
             \/ \E ask \in Asked[a] : Subscribe(a, ask)
             \/ Subscriber(a) \/ Recover(a)
      PROVE  UNCHANGED Promise!vars
    <2>1. UNCHANGED <<handled, failed, restarts>>
        BY <1>6 DEF Subscriber, Recover, Subscribe, Retry, Call, QueueDeclare, DeclareRefused,
                    QueueBind, BasicConsume, historyVars, faultVars
    <2>. QED
        BY <1>1, <1>2, <1>6, <2>1, SubscriberKeeps
<1>7. ASSUME NEW a \in Apps, Deliver(a) \/ Received(a)
      PROVE  UNCHANGED Promise!vars
    <2>1. UNCHANGED <<handled, failed, restarts>>
        BY <1>7 DEF Deliver, Received, historyVars, faultVars
    <2>. QED
        BY <1>1, <1>2, <1>7, <2>1, DeliverKeeps, ReceivedKeeps
<1>8. ASSUME NEW a \in Apps, HandlerReturns(a) \/ HandlerThrows(a)
      PROVE  Promise!Next
    <2> DEFINE k == sub[a].queue
    <2>1. PICK m \in Messages :
              /\ m \in Held(k)
              /\ \A q \in Queues : Held(q)' = Held(q) \ (IF q = k THEN {m} ELSE {})
              /\ \/ handled' = [handled EXCEPT ![k] = @ \cup {m}] /\ failed' = failed
                 \/ failed' = [failed EXCEPT ![k] = @ \cup {m}] /\ handled' = handled
        BY <1>1, <1>8, HandlerKeeps
    <2>2. k \in Queues /\ restarts' = restarts
        BY <1>1, <1>8, UnackedFacts DEF HandlerReturns, HandlerThrows, faultVars
    <2> HIDE DEF k
    <2>3. Holdings' = [Holdings EXCEPT ![k] = @ \ {m}]
        BY <2>1, <2>2 DEF Holdings
    <2>4. CASE handled' = [handled EXCEPT ![k] = @ \cup {m}] /\ failed' = failed
        <3>1. {m} \in SUBSET handled'[k]
            BY <1>1, <2>2, <2>4 DEF TInv, Histories
        <3>2. Promise!Handle(k, m)
            BY <2>2, <2>3, <2>4, <3>1 DEF Promise!Handle, Holdings
        <3>. QED
            BY <2>2, <3>2 DEF Promise!Next
    <2>5. CASE failed' = [failed EXCEPT ![k] = @ \cup {m}] /\ handled' = handled
        <3>1. Promise!Fail(k, m)
            BY <2>2, <2>3, <2>5 DEF Promise!Fail, Holdings
        <3>. QED
            BY <2>2, <3>1 DEF Promise!Next
    <2>. QED
        BY <2>1, <2>4, <2>5
<1>9. ASSUME NEW a \in Apps, NEW k \in Queues, NEW m \in Messages,
             LateReturns(a, k, m) \/ LateThrows(a, k, m)
      PROVE  Promise!Next
    <2>1. restarts' = restarts
        BY <1>9 DEF LateReturns, LateThrows, faultVars
    <2>2. \A q \in Queues : Held(q)' = Held(q)
        BY <1>1, <1>9, LateKeeps
    <2>3. Holdings' = Holdings /\ Holdings = [Holdings EXCEPT ![k] = @ \ {}]
        BY <2>2 DEF Holdings
    <2>4. CASE LateReturns(a, k, m)
        <3>1. /\ handled' = [handled EXCEPT ![k] = @ \cup {m}]
              /\ failed' = failed
            BY <2>4 DEF LateReturns
        <3>2. {} \in SUBSET handled'[k]
            OBVIOUS
        <3>3. Promise!Handle(k, m)
            BY <2>1, <2>3, <3>1, <3>2 DEF Promise!Handle, Holdings
        <3>. QED
            BY <2>1, <3>3 DEF Promise!Next
    <2>5. CASE LateThrows(a, k, m)
        <3>1. /\ failed' = [failed EXCEPT ![k] = @ \cup {m}]
              /\ handled' = handled
            BY <2>5 DEF LateThrows
        <3>2. Promise!Fail(k, m)
            BY <2>1, <2>3, <3>1 DEF Promise!Fail, Holdings
        <3>. QED
            BY <2>1, <3>2 DEF Promise!Next
    <2>. QED
        BY <1>9, <2>4, <2>5
<1>10. ASSUME NEW a \in Apps, ConnectionLost(a) \/ Stop(a)
       PROVE  UNCHANGED Promise!vars
    <2>1. UNCHANGED <<handled, failed, restarts>>
        BY <1>10 DEF ConnectionLost, Stop, historyVars
    <2>. QED
        BY <1>1, <1>2, <1>10, <2>1, ConnectionKeeps
<1>11. CASE Restart
    <2>1. \A q \in Queues : Held(q)' = {}
        BY <1>1, <1>11, RestartKeeps
    <2>2. restarts' = restarts + 1 /\ UNCHANGED <<handled, failed>>
        BY <1>11 DEF Restart, historyVars
    <2>3. Holdings' = [q \in Queues |-> {}]
        BY <2>1 DEF Holdings
    <2>4. Promise!Purge
        BY <2>2, <2>3 DEF Promise!Purge, Promise!None, Holdings
    <2>. QED
        BY <2>4 DEF Promise!Next
<1>12. ASSUME NEW a \in Apps, Consumer(a)
       PROVE  Promise!Next \/ UNCHANGED Promise!vars
    BY <1>7, <1>8, <1>9, <1>12 DEF Consumer
<1>. QED
    BY <1>3, <1>4, <1>5, <1>6, <1>10, <1>11, <1>12 DEF Next

(* MQManager's consumers give what manual acknowledgement promises: a message  *)
(* goes from a queue only when a handler has ended for it, or with a restart   *)
(* of the broker.                                                              *)
THEOREM ConsumersKeepMessages == Spec => KeepsMessages
<1>1. Init => Promise!Init
    <2> SUFFICES ASSUME Init
                 PROVE  Promise!Init
        OBVIOUS
    <2>1. \A q \in Queues : Held(q) = {}
        BY DEF Init, Held, Consumes, Unacked, NoSub
    <2>. QED
        BY <2>1 DEF Init, Promise!Init, Promise!None
<1>. QED
    BY <1>1, StepKeepsPromise, Invariance, PTL DEF Spec, KeepsMessages, Promise!Spec
================================================================================
