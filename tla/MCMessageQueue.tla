---------------------------- MODULE MCMessageQueue ----------------------------
(* The arguments the applications of the instance pass: a durable queue they   *)
(* share, and for one of them the default, a queue of its own.                 *)
EXTENDS MessageQueue

CONSTANTS a1, a2, orders

Shared == [mode |-> "topic", durable |-> TRUE, name |-> orders]
Own == [mode |-> "topic", durable |-> FALSE, name |-> ""]

MCAsked == [a \in Apps |-> IF a = a1 THEN {Shared} ELSE {Shared, Own}]
=============================================================================
