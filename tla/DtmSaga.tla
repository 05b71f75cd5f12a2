-------------------------------- MODULE DtmSaga --------------------------------
(* SagaErrorDemo: the saga it submits, driven by the DTM server (external)     *)
(* through the branch handlers of DtmBarrier.  The branches are 1, 2, ... in   *)
(* the order in which the saga adds them.                                      *)
EXTENDS DtmBarrier

ASSUME BranchAssumption == \E n \in Branch : n \in Nat \ {0} /\ Branch = 1 .. n

VARIABLES
    phase,    \* "acting", "aborting", and at the end "succeeded" or "failed"
    at        \* the branch the server is at

serverVars == <<phase, at>>
sagaVars == <<vars, serverVars>>

Last == CHOOSE b \in Branch : \A d \in Branch : d <= b

Init == BInit /\ phase = "acting" /\ at = 1

(* The operation the server wants done next.                                   *)
Pending == <<at, IF phase = "acting" THEN "action" ELSE "compensate">>

(* The server calls the branch, again if no answer has come in time; a request *)
(* may take any time to arrive and to be handled.                              *)
Send(c) ==
    /\ phase \in {"acting", "aborting"}
    /\ Receive(c, Pending)
    /\ UNCHANGED serverVars

Answered(c) == pc[c] \in {"commit", "ended"} /\ result[c] # "none" /\ req[c] = Pending

(* The answer to a branch's action: on to the next branch, or, for FAILURE,    *)
(* back through the branches, this one included.                               *)
ActionAnswered(c) ==
    /\ phase = "acting"
    /\ Answered(c)
    /\ CASE result[c] = "FAILURE" -> phase' = "aborting" /\ at' = at
         [] result[c] = "SUCCESS" /\ at < Last -> phase' = phase /\ at' = at + 1
         [] OTHER -> phase' = "succeeded" /\ at' = at
    /\ UNCHANGED vars

CompensationAnswered(c) ==
    /\ phase = "aborting"
    /\ Answered(c)
    /\ result[c] = "SUCCESS"
    /\ IF at > 1 THEN phase' = phase /\ at' = at - 1 ELSE phase' = "failed" /\ at' = at
    /\ UNCHANGED vars

Handle(c) == BStep(c) /\ UNCHANGED serverVars

Next == \E c \in Call :
    Send(c) \/ Handle(c) \/ ActionAnswered(c) \/ CompensationAnswered(c)

Spec == Init /\ [][Next]_sagaVars

--------------------------------------------------------------------------------
TypeOK ==
    /\ BTypeOK
    /\ phase \in {"acting", "aborting", "succeeded", "failed"}
    /\ at \in Branch

(* A branch whose action fails for the business never lets the saga succeed,   *)
(* whatever else goes wrong and whichever request is repeated.                 *)
FailureIsSeen == Failing # {} => phase # "succeeded"

(* A saga that failed leaves nothing behind: what was done has been undone     *)
(* once its calls have ended, if nothing else went wrong and no compensation   *)
(* was lost to a deadlock, whose exception DTM takes for success.              *)
Idle == \A c \in Call : pc[c] \in {"free", "ended"}
NothingLeft ==
    phase = "failed" /\ Idle =>
        \A b \in Branch : times[<<b, "action">>] = times[<<b, "compensate">>]
NothingLeftWhenWell == mishaps = {} /\ ~unheard => NothingLeft
=============================================================================
