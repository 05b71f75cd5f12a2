----------------------------- MODULE MessageQueue ------------------------------
(* MQManager: publishing to and subscribing on RabbitMQ, with the broker and   *)
(* the client library (RabbitMQ.Client 6.4, automatic recovery on) as far as   *)
(* the code uses them.  An application has one connection, is a publisher and  *)
(* makes one subscription; both exchanges are there from InitExchange on.      *)
(*                                                                             *)
(* All routing keys are one: a push reaches the queues bound to the exchange   *)
(* it goes to.  The order of a queue is left out: any ready message may be the *)
(* next.  A message copy is in a queue's ready set or delivered to an          *)
(* application and not yet acknowledged.                                       *)
EXTENDS Integers, Sequences, FiniteSets

CONSTANTS
    Apps,
    Messages,      \* 1 .. n, numbered in the order in which they are pushed
    Publishers,    \* the applications that push messages
    PushedTo,      \* the exchanges they push to
    Asked,         \* what each application may pass to the Subscrible methods
    Named,         \* queue names a caller passes
    Generated,     \* names the broker makes up for a caller that passes none
    ChannelMax,    \* channels a connection may have (2047 by default)
    MaxFaults,     \* bound on lost connections, stopped applications, broker restarts
    MaxRefused     \* bound on the messages the broker refuses

ASSUME QueueAssumption ==
    /\ Named \cap Generated = {} /\ "" \notin Named
    /\ Named # {} /\ Apps # {}
    /\ ChannelMax \in Nat \ {0} /\ MaxFaults \in Nat /\ MaxRefused \in Nat
    /\ Messages \subseteq Nat /\ Publishers \subseteq Apps /\ PushedTo \subseteq {"direct", "topic"}
    /\ Asked \in [Apps -> SUBSET [mode : {"direct", "topic"}, durable : BOOLEAN,
                                 name : Named \cup {""}]]

VARIABLES
    queue,       \* the broker: each queue's state, exchanges bound to it, ready messages
    conn,        \* each application's connection: up, its channels, its recorded topology
    sub,         \* each application's subscription call
    unacked,     \* messages delivered on the subscription's channel, oldest first
    running,     \* the message whose handler runs
    late,        \* queues and messages whose handler runs on after a lost connection
    pushes,      \* each message's PushMessage call
    handled, failed,   \* messages a handler has ended for, per queue (history)
    runs,        \* how often a handler was started (history)
    losses, restarts

historyVars == <<handled, failed, runs>>
faultVars == <<losses, restarts>>
consumerVars == <<unacked, running, late>>
vars == <<queue, conn, sub, consumerVars, pushes, historyVars, faultVars>>

Queues == Named \cup Generated
Modes == {"direct", "topic"}

(* The arguments of SubscribleDirect and SubscribleTopic; "" is the default    *)
(* queue name.                                                                 *)
Asks == [mode : Modes, durable : BOOLEAN, name : Named \cup {""}]

AnyQueue == CHOOSE q \in Queues : TRUE
NoSub ==
    [stage |-> "none", queue |-> AnyQueue, mode |-> "direct", durable |-> FALSE,
     ask |-> [mode |-> "direct", durable |-> FALSE, name |-> ""]]
NoPush == [stage |-> "none", app |-> CHOOSE a \in Apps : TRUE, mode |-> "direct",
           owed |-> {}, nacked |-> FALSE]

(* InitExchange keeps the channel on which it has declared the exchanges.      *)
Fresh == [up |-> TRUE, channels |-> 1, recorded |-> {}]

Init ==
    /\ queue = [q \in Queues |-> [state |-> "absent", bound |-> {}, ready |-> {}]]
    /\ conn = [a \in Apps |-> Fresh]
    /\ sub = [a \in Apps |-> NoSub]
    /\ unacked = [a \in Apps |-> <<>>]
    /\ running = [a \in Apps |-> {}] /\ late = [a \in Apps |-> {}]
    /\ pushes = [m \in Messages |-> NoPush]
    /\ handled = [q \in Queues |-> {}] /\ failed = [q \in Queues |-> {}]
    /\ runs = [q \in Queues |-> [m \in Messages |-> 0]]
    /\ losses = 0 /\ restarts = 0

(* Faulty variant: no limit on the channels of a connection.                   *)
CanOpenAlways(a) == conn[a].up

(* CreateModel throws when the connection is down or out of channels.          *)
CanOpen(a) == conn[a].up /\ conn[a].channels < ChannelMax
Opened(a) == [conn EXCEPT ![a].channels = @ + 1]

--------------------------------------------------------------------------------
(* Publishing.  BasicPublish has left the application; nothing waits for the   *)
(* broker yet.  owed are the queues the message must reach (history).          *)
PushMessage(m, a, mode) ==
    /\ pushes[m].stage = "none" /\ \A k \in Messages : k < m => pushes[k].stage # "none"
    /\ IF CanOpen(a)
       THEN /\ pushes' = [pushes EXCEPT ![m] =
                   [stage |-> "sent", app |-> a, mode |-> mode,
                    owed |-> {q \in Queues : mode \in queue[q].bound}, nacked |-> FALSE]]
            /\ conn' = Opened(a)
       ELSE /\ pushes' = [pushes EXCEPT ![m].stage = "threw", ![m].app = a]
            /\ conn' = conn
    /\ UNCHANGED <<queue, sub, consumerVars, historyVars, faultVars>>

(* The broker takes the message and puts it into the queues bound now; with    *)
(* none bound it drops the message, and confirms it all the same.              *)
Route(m) ==
    /\ pushes[m].stage = "sent"
    /\ queue' = [q \in Queues |->
           IF pushes[m].mode \in queue[q].bound
           THEN [queue[q] EXCEPT !.ready = @ \cup {m}] ELSE queue[q]]
    /\ pushes' = [pushes EXCEPT ![m].stage = "routed"]
    /\ UNCHANGED <<conn, sub, consumerVars, historyVars, faultVars>>

(* The broker cannot put the message into every queue, and refuses it.         *)
Refuse(m) ==
    /\ pushes[m].stage = "sent"
    /\ Cardinality({k \in Messages : pushes[k].nacked}) < MaxRefused
    /\ \E Q \in SUBSET {q \in Queues : pushes[m].mode \in queue[q].bound} :
           queue' = [q \in Queues |->
               IF q \in Q THEN [queue[q] EXCEPT !.ready = @ \cup {m}] ELSE queue[q]]
    /\ pushes' = [pushes EXCEPT ![m].stage = "routed", ![m].nacked = TRUE]
    /\ UNCHANGED <<conn, sub, consumerVars, historyVars, faultVars>>

(* Faulty variant: WaitForConfirms is left out.                                *)
PushReturnsUnconfirmed(m) ==
    /\ pushes[m].stage \in {"sent", "routed"}
    /\ pushes' = [pushes EXCEPT ![m].stage = "returned"]
    /\ UNCHANGED <<queue, conn, sub, consumerVars, historyVars, faultVars>>

(* WaitForConfirms returns, and whether it is true is not looked at: a message *)
(* that was refused returns as well.  The channel is left open.                *)
PushReturns(m) ==
    /\ pushes[m].stage = "routed"
    /\ pushes' = [pushes EXCEPT ![m].stage = "returned"]
    /\ UNCHANGED <<queue, conn, sub, consumerVars, historyVars, faultVars>>

--------------------------------------------------------------------------------
(* Subscribing.  A call, the first one or a retry, opens a channel before the  *)
(* try block.                                                                  *)
Call(a, mode, durable, ask) ==
    /\ sub' = [sub EXCEPT ![a] =
           [stage |-> IF CanOpen(a) THEN "declare" ELSE "threw", queue |-> sub[a].queue,
            mode |-> mode, durable |-> durable, ask |-> ask]]
    /\ conn' = IF CanOpen(a) THEN Opened(a) ELSE conn
    /\ UNCHANGED <<queue, consumerVars, pushes, historyVars, faultVars>>

Subscribe(a, ask) == sub[a].stage = "none" /\ Call(a, ask.mode, ask.durable, ask)

(* Faulty variant: a retry that finds no channel waits for one.                *)
RetryWaits(a) ==
    sub[a].stage = "sleep" /\ CanOpen(a) /\ Call(a, "direct", FALSE, sub[a].ask)

(* The retry, 2 s after the exception: of either method it is SubscribleDirect,*)
(* and without durable.                                                        *)
Retry(a) == sub[a].stage = "sleep" /\ Call(a, "direct", FALSE, sub[a].ask)

(* The queue a declaration is for: the one of that name, or a new one.         *)
Unused == {q \in Generated : /\ queue[q].state = "absent"
                             /\ \A b \in Apps : <<q, "queue">> \notin conn[b].recorded}
Candidates(a) ==
    IF sub[a].ask.name # "" THEN {sub[a].ask.name}
    ELSE IF Unused # {} THEN {CHOOSE q \in Unused : TRUE} ELSE {}

Wanted(a) == IF sub[a].durable THEN "durable" ELSE "transient"

QueueDeclare(a) ==
    /\ sub[a].stage = "declare" /\ conn[a].up
    /\ \E q \in Candidates(a) :
        /\ queue[q].state \in {"absent", Wanted(a)}
        /\ queue' = [queue EXCEPT ![q].state = Wanted(a)]
        /\ sub' = [sub EXCEPT ![a].stage = "bind", ![a].queue = q]
        /\ conn' = [conn EXCEPT ![a].recorded = @ \cup {<<q, "queue">>}]
    /\ UNCHANGED <<consumerVars, pushes, historyVars, faultVars>>

(* The queue is there with the other durability: the broker closes the         *)
(* channel, and the exception leads to a retry.                                *)
DeclareRefused(a) ==
    /\ sub[a].stage = "declare" /\ conn[a].up
    /\ \E q \in Candidates(a) : queue[q].state \notin {"absent", Wanted(a)}
    /\ sub' = [sub EXCEPT ![a].stage = "sleep"]
    /\ conn' = [conn EXCEPT ![a].channels = @ - 1]
    /\ UNCHANGED <<queue, consumerVars, pushes, historyVars, faultVars>>

QueueBind(a) ==
    /\ sub[a].stage = "bind" /\ conn[a].up
    /\ queue' = [queue EXCEPT ![sub[a].queue].bound = @ \cup {sub[a].mode}]
    /\ conn' = [conn EXCEPT ![a].recorded = @ \cup {<<sub[a].queue, sub[a].mode>>}]
    /\ sub' = [sub EXCEPT ![a].stage = "consume"]
    /\ UNCHANGED <<consumerVars, pushes, historyVars, faultVars>>

BasicConsume(a) ==
    /\ sub[a].stage = "consume" /\ conn[a].up
    /\ sub' = [sub EXCEPT ![a].stage = "on"]
    /\ UNCHANGED <<queue, conn, consumerVars, pushes, historyVars, faultVars>>

--------------------------------------------------------------------------------
(* Consuming.  There is no limit on what the broker delivers ahead.            *)
Consumes(a, q) == sub[a].stage = "on" /\ sub[a].queue = q

Deliver(a) ==
    /\ sub[a].stage = "on" /\ conn[a].up
    /\ \E m \in queue[sub[a].queue].ready :
        /\ queue' = [queue EXCEPT ![sub[a].queue].ready = @ \ {m}]
        /\ unacked' = [unacked EXCEPT ![a] = Append(@, m)]
    /\ UNCHANGED <<conn, sub, running, late, pushes, historyVars, faultVars>>

(* Faulty variant: deliveries are dispatched side by side.                     *)
ReceivedTogether(a) ==
    /\ conn[a].up
    /\ \E i \in DOMAIN unacked[a] :
        /\ running[a] \cap {unacked[a][i]} = {}
        /\ running' = [running EXCEPT ![a] = @ \cup {unacked[a][i]}]
        /\ runs' = [runs EXCEPT ![sub[a].queue][unacked[a][i]] = @ + 1]
    /\ UNCHANGED <<queue, conn, sub, unacked, late, pushes, handled, failed, faultVars>>

(* A channel's deliveries are dispatched one after the other, and each is      *)
(* settled before the next: the next one is the oldest that is left.           *)
Received(a) ==
    /\ conn[a].up /\ running[a] = {} /\ unacked[a] # <<>>
    /\ LET m == Head(unacked[a]) IN
        /\ running' = [running EXCEPT ![a] = {m}]
        /\ runs' = [runs EXCEPT ![sub[a].queue][m] = @ + 1]
    /\ UNCHANGED <<queue, conn, sub, unacked, late, pushes, handled, failed, faultVars>>

Position(a, m) == CHOOSE i \in DOMAIN unacked[a] : unacked[a][i] = m

(* BasicAck with multiple: this delivery and every one before it.              *)
BasicAck(a, m) == SubSeq(unacked[a], Position(a, m) + 1, Len(unacked[a]))

(* BasicNack of this one delivery, without requeue: there is no dead-letter    *)
(* exchange, the broker drops the message.                                     *)
BasicNack(a, m) == SubSeq(unacked[a], 1, Position(a, m) - 1) \o BasicAck(a, m)

(* onMessage returns.                                                          *)
HandlerReturns(a) ==
    /\ \E m \in running[a] :
        /\ handled' = [handled EXCEPT ![sub[a].queue] = @ \cup {m}]
        /\ unacked' = [unacked EXCEPT ![a] = BasicAck(a, m)]
    /\ running' = [running EXCEPT ![a] = {}]
    /\ UNCHANGED <<queue, conn, sub, late, pushes, failed, runs, faultVars>>

(* Faulty variant: the message is put back.                                    *)
HandlerThrowsRequeue(a) ==
    /\ \E m \in running[a] :
        /\ failed' = [failed EXCEPT ![sub[a].queue] = @ \cup {m}]
        /\ unacked' = [unacked EXCEPT ![a] = BasicNack(a, m)]
        /\ queue' = [queue EXCEPT ![sub[a].queue].ready = @ \cup {m}]
    /\ running' = [running EXCEPT ![a] = {}]
    /\ UNCHANGED <<conn, sub, late, pushes, handled, runs, faultVars>>

(* The body cannot be read, or onMessage throws.                               *)
HandlerThrows(a) ==
    /\ \E m \in running[a] :
        /\ failed' = [failed EXCEPT ![sub[a].queue] = @ \cup {m}]
        /\ unacked' = [unacked EXCEPT ![a] = BasicNack(a, m)]
    /\ running' = [running EXCEPT ![a] = {}]
    /\ UNCHANGED <<queue, conn, sub, late, pushes, handled, runs, faultVars>>

(* A handler ends after its connection was lost: the broker learns nothing.    *)
LateReturns(a, q, m) ==
    /\ <<q, m>> \in late[a]
    /\ late' = [late EXCEPT ![a] = @ \ {<<q, m>>}]
    /\ handled' = [handled EXCEPT ![q] = @ \cup {m}]
    /\ UNCHANGED <<queue, conn, sub, unacked, running, pushes, failed, runs, faultVars>>

LateThrows(a, q, m) ==
    /\ <<q, m>> \in late[a]
    /\ late' = [late EXCEPT ![a] = @ \ {<<q, m>>}]
    /\ failed' = [failed EXCEPT ![q] = @ \cup {m}]
    /\ UNCHANGED <<queue, conn, sub, unacked, running, pushes, handled, runs, faultVars>>

--------------------------------------------------------------------------------
(* What a lost connection does to the calls of the applications in A.  A       *)
(* WaitForConfirms throws.  An interrupted declaration or binding is retried,  *)
(* done or not; BasicConsume is not inside the try block, so its exception     *)
(* leaves the subscription.                                                    *)
Thrown(m) ==
    [pushes[m] EXCEPT !.stage = IF @ \in {"sent", "routed"} THEN "threw" ELSE @]

Interrupted(s) ==
    CASE s \in {"declare", "bind"} -> {"sleep"}
      [] s = "consume" -> {"sleep", "threw"}
      [] OTHER -> {s}

CallsInterrupted(A) ==
    \E next \in [A -> {"none", "sleep", "threw", "on"}] :
        /\ \A a \in A : next[a] \in Interrupted(sub[a].stage)
        /\ sub' = [a \in Apps |-> IF a \in A THEN [sub[a] EXCEPT !.stage = next[a]] ELSE sub[a]]

(* The consumers of A lose their channels.  A handler that runs runs on, and   *)
(* what the library has queued for it (begun: so many deliveries in all) may   *)
(* still be dispatched.                                                        *)
Begun(a, n) == {unacked[a][i] : i \in 1 .. n}

ChannelsLost(A) ==
    \E begun \in [A -> 0 .. Cardinality(Messages)] :
        /\ \A a \in A : /\ begun[a] <= Len(unacked[a])
                         /\ running[a] \subseteq Begun(a, begun[a])
        /\ unacked' = [a \in Apps |-> IF a \in A THEN <<>> ELSE unacked[a]]
        /\ running' = [a \in Apps |-> IF a \in A THEN {} ELSE running[a]]
        /\ late' = [a \in Apps |->
               IF a \in A THEN late[a] \cup {sub[a].queue} \X Begun(a, begun[a]) ELSE late[a]]
        /\ runs' = [q \in Queues |-> [m \in Messages |->
               IF \E a \in A : sub[a].queue = q /\ m \in Begun(a, begun[a]) \ running[a]
               THEN runs[q][m] + 1 ELSE runs[q][m]]]

(* The broker puts back what a's channel had not acknowledged.                 *)
Requeued(a) ==
    [queue EXCEPT ![sub[a].queue].ready = @ \cup {unacked[a][i] : i \in DOMAIN unacked[a]}]

ConnectionLost(a) ==
    /\ losses + restarts < MaxFaults /\ conn[a].up
    /\ losses' = losses + 1
    /\ conn' = [conn EXCEPT ![a].up = FALSE]
    /\ queue' = Requeued(a)
    /\ pushes' = [m \in Messages |-> IF pushes[m].app = a THEN Thrown(m) ELSE pushes[m]]
    /\ CallsInterrupted({a}) /\ ChannelsLost({a})
    /\ UNCHANGED <<handled, failed, restarts>>

(* The application ends, by Dispose or by a crash, and is started again.       *)
Stop(a) ==
    /\ losses + restarts < MaxFaults
    /\ losses' = losses + 1
    /\ conn' = [conn EXCEPT ![a] = Fresh]
    /\ sub' = [sub EXCEPT ![a] = NoSub]
    /\ queue' = Requeued(a)
    /\ unacked' = [unacked EXCEPT ![a] = <<>>]
    /\ running' = [running EXCEPT ![a] = {}] /\ late' = [late EXCEPT ![a] = {}]
    /\ pushes' = [m \in Messages |->
           IF pushes[m].app # a THEN pushes[m]
           ELSE [Thrown(m) EXCEPT !.stage = IF @ = "returned" THEN "past" ELSE @]]
    /\ UNCHANGED <<historyVars, restarts>>

(* The broker restarts: queues that are not durable go, and with basicProperties *)
(* null every message is transient and goes, those of durable queues too.      *)
Restart ==
    /\ losses + restarts < MaxFaults
    /\ restarts' = restarts + 1
    /\ queue' = [q \in Queues |->
           IF queue[q].state = "durable" THEN [queue[q] EXCEPT !.ready = {}]
           ELSE [state |-> "absent", bound |-> {}, ready |-> {}]]
    /\ conn' = [a \in Apps |-> [conn[a] EXCEPT !.up = FALSE]]
    /\ pushes' = [m \in Messages |-> [Thrown(m) EXCEPT !.owed = {}]]
    /\ CallsInterrupted(Apps) /\ ChannelsLost(Apps)
    /\ UNCHANGED <<handled, failed, losses>>

(* Faulty variant: automatic recovery is switched off.                         *)
RecoverNever(a) == FALSE /\ UNCHANGED vars

(* A queue declared without a name is declared without one again: it gets      *)
(* another name, and the old one stays as it is, without a consumer.           *)
Redeclared(a) == {q \in Generated : <<q, "queue">> \in conn[a].recorded}
NewNames(a) ==
    LET F == {f \in [Redeclared(a) -> Unused] :
                \A p, q \in Redeclared(a) : p # q => f[p] # f[q]}
    IN  IF F = {} THEN {} ELSE {CHOOSE f \in F : TRUE}
Renamed(new, q) == IF q \in DOMAIN new THEN new[q] ELSE q

(* The state of a queue that is declared again.                                *)
StateAgain(new, q) ==
    IF queue[q].state # "absent" THEN queue[q].state
    ELSE IF \E p \in DOMAIN new : new[p] = q /\ queue[p].state = "durable"
         THEN "durable" ELSE "transient"

(* The library connects again with the channels, queues, bindings and          *)
(* consumers it has recorded.  A named queue that is missing was not durable.  *)
Recover(a) ==
    /\ ~conn[a].up
    /\ \E new \in NewNames(a) :
        /\ conn' = [conn EXCEPT ![a].up = TRUE,
                               ![a].recorded = {<<Renamed(new, r[1]), r[2]>> : r \in @}]
        /\ sub' = [sub EXCEPT ![a].queue = Renamed(new, @)]
        /\ queue' = [q \in Queues |->
               IF <<q, "queue">> \notin conn'[a].recorded THEN queue[q]
               ELSE [queue[q] EXCEPT
                       !.state = StateAgain(new, q),
                       !.bound = @ \cup {e \in Modes : <<q, e>> \in conn'[a].recorded}]]
    /\ UNCHANGED <<consumerVars, pushes, historyVars, faultVars>>

--------------------------------------------------------------------------------
Consumer(a) ==
    \/ Deliver(a) \/ Received(a) \/ HandlerReturns(a) \/ HandlerThrows(a)
    \/ \E q \in Queues, m \in Messages : LateReturns(a, q, m) \/ LateThrows(a, q, m)

Subscriber(a) ==
    \/ Retry(a) \/ QueueDeclare(a) \/ DeclareRefused(a) \/ QueueBind(a) \/ BasicConsume(a)

Next ==
    \/ \E m \in Messages :
        \/ \E a \in Publishers, mode \in PushedTo : PushMessage(m, a, mode)
        \/ Route(m) \/ Refuse(m) \/ PushReturns(m)
    \/ \E a \in Apps :
        \/ \E ask \in Asked[a] : Subscribe(a, ask)
        \/ Subscriber(a) \/ Consumer(a)
        \/ ConnectionLost(a) \/ Stop(a) \/ Recover(a)
    \/ Restart

Spec == Init /\ [][Next]_vars

(* The broker, the library and the application's threads go on; a handler ends *)
(* after it has started.                                                       *)
Fairness == \A a \in Apps :
    /\ WF_vars(Subscriber(a)) /\ WF_vars(Recover(a))
    /\ WF_vars(Deliver(a)) /\ WF_vars(Received(a))
    /\ WF_vars(HandlerReturns(a) \/ HandlerThrows(a))

FairSpec == Spec /\ Fairness

--------------------------------------------------------------------------------
TypeOK ==
    /\ queue \in [Queues -> [state : {"absent", "transient", "durable"},
                             bound : SUBSET Modes, ready : SUBSET Messages]]
    /\ conn \in [Apps -> [up : BOOLEAN, channels : 0 .. ChannelMax,
                          recorded : SUBSET (Queues \X (Modes \cup {"queue"}))]]
    /\ sub \in [Apps -> [stage : {"none", "declare", "bind", "consume", "on", "sleep", "threw"},
                         queue : Queues, mode : Modes, durable : BOOLEAN, ask : Asks]]
    /\ unacked \in [Apps -> Seq(Messages)]
    /\ running \in [Apps -> SUBSET Messages]
    /\ late \in [Apps -> SUBSET (Queues \X Messages)]
    /\ pushes \in [Messages ->
           [stage : {"none", "sent", "routed", "returned", "past", "threw"},
            app : Apps, mode : Modes, owed : SUBSET Queues, nacked : BOOLEAN]]
    /\ handled \in [Queues -> SUBSET Messages] /\ failed \in [Queues -> SUBSET Messages]
    /\ runs \in [Queues -> [Messages -> Nat]]
    /\ losses \in Nat /\ restarts \in Nat /\ losses + restarts <= MaxFaults

Unacked(a) == {unacked[a][i] : i \in DOMAIN unacked[a]}

(* What is held for a queue's consumers: what is ready and what is delivered   *)
(* and not yet settled.                                                        *)
Held(q) == queue[q].ready \cup UNION {Unacked(a) : a \in {b \in Apps : Consumes(b, q)}}

(* A push that the broker has confirmed and that returned was no promise in    *)
(* vain: in every queue that was bound when it began, the message is there     *)
(* until a handler has ended for it, well or not, if the broker does not       *)
(* restart (PushMessage waits for the confirmation, MQManager.cs:50, and the   *)
(* consumer acknowledges by hand, :92).  Of a push that was refused and        *)
(* returned all the same nothing is said.                                      *)
ReturnedIsKept ==
    \A m \in Messages : pushes[m].stage \in {"returned", "past"} /\ ~pushes[m].nacked =>
        \A q \in pushes[m].owed : m \in Held(q) \cup handled[q] \cup failed[q]

(* However many consumers share a queue, a message is with one at a time, and  *)
(* another handler is started for it only after a lost connection or a stopped *)
(* application: neither the acknowledgement of several deliveries nor the      *)
(* rejection brings a message back (MQManager.cs:92, :97).                     *)
OneAtATime ==
    /\ \A q \in Queues, m \in Messages : runs[q][m] <= 1 + losses
    /\ \A a, b \in Apps, i, j \in 1 .. Cardinality(Messages) :
          /\ i \in DOMAIN unacked[a] /\ j \in DOMAIN unacked[b]
          /\ sub[a].queue = sub[b].queue /\ unacked[a][i] = unacked[b][j]
          => a = b /\ i = j

(* The consumers give what manual acknowledgement promises: at least one       *)
(* handler ends for each message, well or not, before it goes.                 *)
Promise == INSTANCE AtLeastOnce
    WITH held <- [q \in Queues |-> Held(q)], purges <- restarts
KeepsMessages == Promise!Spec

(* A message held for a queue that the caller has named and that has a consumer*)
(* is settled sooner or later, or the queue loses its consumer because the     *)
(* application stops.  A queue without a name gets another one at each         *)
(* reconnection, and nobody settles what the old one holds (MQManager.cs:67).  *)
Waiting(m, q) == m \in Held(q) /\ \E a \in Apps : Consumes(a, q)
EventuallySettled == \A m \in Messages, q \in Named : Waiting(m, q) ~> ~Waiting(m, q)

(* A subscription that is under way ends, with a consumer or an exception,     *)
(* unless its queue is durable: the retries ask for one that is not, and are   *)
(* refused each time (MQManager.cs:80, :144).                                  *)
RetriesEnd == \A a \in Apps :
    sub[a].stage \notin {"none", "on", "threw"} ~>
        \/ sub[a].stage \in {"none", "on", "threw"}
        \/ \E q \in Named : /\ sub[a].ask.name = q /\ ~sub[a].durable
                            /\ queue[q].state = "durable"
=============================================================================
