------------------------------ MODULE MCAsyncLoops -----------------------------
(* Instances of AsyncLoops for TLC: more items than fit at once, so that the   *)
(* loops wait, drop tasks and start others.                                    *)
EXTENDS AsyncLoops
=============================================================================
