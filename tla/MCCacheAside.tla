------------------------------ MODULE MCCacheAside -----------------------------
(* Instances of CacheAside for TLC.                                            *)
EXTENDS CacheAside

CONSTANTS r1, r2, w1, w2
=============================================================================
