----------------------------- MODULE BranchBarrier -----------------------------
(* What a sub-transaction barrier promises about the branches of one global    *)
(* transaction, whatever the order, the number and the fate of the requests    *)
(* for them: an action takes effect at most once, a compensation at most once  *)
(* and only after its action, and an action not at all once its branch has     *)
(* been compensated without it.  If a barrier can be left half written         *)
(* (orphans), a compensation may also run without its action.                  *)
EXTENDS Naturals

CONSTANT Branch

VARIABLES acted, undone, barred, orphans

vars == <<acted, undone, barred, orphans>>

Init ==
    /\ acted = [b \in Branch |-> 0]
    /\ undone = [b \in Branch |-> 0]
    /\ barred = {}
    /\ orphans \in BOOLEAN

Act(b) ==
    /\ acted[b] = 0
    /\ b \notin barred
    /\ acted' = [acted EXCEPT ![b] = 1]
    /\ UNCHANGED <<undone, barred, orphans>>

Undo(b) ==
    /\ acted[b] = 1 \/ (orphans /\ b \in barred)
    /\ undone[b] = 0
    /\ undone' = [undone EXCEPT ![b] = 1]
    /\ UNCHANGED <<acted, barred, orphans>>

Bar(b) ==
    /\ acted[b] = 0
    /\ b \notin barred
    /\ barred' = barred \cup {b}
    /\ UNCHANGED <<acted, undone, orphans>>

Next == \E b \in Branch : Act(b) \/ Undo(b) \/ Bar(b)

Spec == Init /\ [][Next]_vars
=============================================================================
