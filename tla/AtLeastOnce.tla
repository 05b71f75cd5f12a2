------------------------------ MODULE AtLeastOnce ------------------------------
(* What manual acknowledgement promises of the messages held for each queue's  *)
(* consumers: a message goes only when a handler has ended for it, well or     *)
(* with an exception, or when the broker restarts.  A message may be handled   *)
(* any number of times.                                                        *)
EXTENDS Naturals

CONSTANTS Queues, Messages

VARIABLES held, handled, failed, purges

vars == <<held, handled, failed, purges>>

None == [q \in Queues |-> {}]

Init == held = None /\ handled = None /\ failed = None /\ purges = 0

Arrive(m) ==
    /\ \E Q \in SUBSET Queues :
           held' = [q \in Queues |-> IF q \in Q THEN held[q] \cup {m} ELSE held[q]]
    /\ UNCHANGED <<handled, failed, purges>>

(* A handler ends well; its acknowledgement settles handled messages, or is    *)
(* lost.                                                                       *)
Handle(q, m) ==
    /\ handled' = [handled EXCEPT ![q] = @ \cup {m}]
    /\ \E S \in SUBSET handled'[q] : held' = [held EXCEPT ![q] = @ \ S]
    /\ UNCHANGED <<failed, purges>>

Fail(q, m) ==
    /\ failed' = [failed EXCEPT ![q] = @ \cup {m}]
    /\ held' \in {held, [held EXCEPT ![q] = @ \ {m}]}
    /\ UNCHANGED <<handled, purges>>

Purge ==
    /\ held' = None
    /\ purges' = purges + 1
    /\ UNCHANGED <<handled, failed>>

Next ==
    \/ \E m \in Messages : Arrive(m) \/ \E q \in Queues : Handle(q, m) \/ Fail(q, m)
    \/ Purge

Spec == Init /\ [][Next]_vars
=============================================================================
