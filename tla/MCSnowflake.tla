------------------------------ MODULE MCSnowflake ------------------------------
(* Instances of SnowflakeGenerator for TLC: one node of two may miss its       *)
(* refreshes, so that the other one finds ids to recycle.                      *)
EXTENDS SnowflakeGenerator

CONSTANTS n1, n2

Stalling == {n1}
=============================================================================
