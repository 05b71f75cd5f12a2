------------------------------- MODULE DtmProofs -------------------------------
(* Proofs about DtmBarrier and DtmSaga.  First, for any set of branches and    *)
(* requests and without BranchAssumption: the rows and transactions of Call    *)
(* keep the promise of BranchBarrier.  Then: the saga's handlers are those of  *)
(* DtmBarrier, and a branch that fails is never passed over.                   *)
EXTENDS DtmSaga, TLAPS

(* Where a call is bounds what its transaction holds.                          *)
Requests == \A c \in Call : pc[c] # "free" => req[c] \in Key

Idleness == \A c \in Call :
    /\ pc[c] \in {"free", "origin", "ended"} => mine[c] = {}
    /\ pc[c] = "free" => result[c] = "none"
    /\ pc[c] = "origin" => req[c][2] = "compensate"
    /\ ran[c] => pc[c] \in {"respond", "commit"}

(* A call holds its own row and, for a compensation, the action's.             *)
Holds == \A c \in Call : pc[c] # "free" =>
    /\ mine[c] \subseteq {OriginKey(c), req[c]}
    /\ pc[c] = "current" => req[c] \notin mine[c]
    /\ pc[c] = "busi" => req[c] \in mine[c]
    /\ ran[c] => req[c] \in mine[c]
    /\ req[c][2] = "action" /\ pc[c] \in {"respond", "commit"} /\ ~ran[c] => mine[c] = {}

(* No row is held twice, or held and committed.                                *)
Exclusive ==
    /\ \A c, d \in Call : c # d => mine[c] \cap mine[d] = {}
    /\ \A c \in Call : mine[c] \cap rows = {}

(* A committed operation has its row, and was committed once.                  *)
Counted == \A k \in Key : times[k] \in {0, 1} /\ (k \notin rows => times[k] = 0)

(* What a compensation knows of its action's row.                              *)
KnowsOf(c) ==
    req[c] \in Key /\ req[c][2] = "compensate" =>
        /\ pc[c] \in {"current", "busi", "respond", "commit"} /\ OriginKey(c) \in mine[c]
              => fresh[c] /\ pc[c] # "busi" /\ ~ran[c]
        /\ pc[c] \in {"current", "busi"} /\ ~fresh[c] => OriginKey(c) \in rows
        /\ pc[c] = "busi" => ~fresh[c]
        /\ ran[c] => OriginKey(c) \in rows
Knows == \A c \in Call : KnowsOf(c)

(* An action's row without its action is a compensation's, which has its own   *)
(* row too unless that could fail.                                             *)
Whole == "current" \notin mishaps =>
    /\ \A b \in Branch : <<b, "action">> \in rows /\ times[<<b, "action">>] = 0
                            => <<b, "compensate">> \in rows
    /\ \A c \in Call :
        /\ req[c] \in Key
        /\ req[c][2] = "compensate"
        /\ pc[c] \in {"respond", "commit"}
        /\ OriginKey(c) \in mine[c]
        => req[c] \in rows \cup mine[c]

IInv == /\ BTypeOK
        /\ Requests
        /\ Idleness
        /\ Holds
        /\ Exclusive
        /\ Counted
        /\ Knows
        /\ Whole

(* The parts of an operation's key.                                            *)
LEMMA KeyFacts ==
  ASSUME NEW k \in Key
  PROVE  /\ k[1] \in Branch
         /\ k[2] \in {"action", "compensate"}
         /\ k = <<k[1], k[2]>>
         /\ <<k[1], "action">> \in Key
         /\ <<k[1], "compensate">> \in Key
BY DEF Key, Op

(* An action is its own origin.                                                *)
LEMMA OriginFacts ==
  ASSUME NEW c \in Call, req[c] \in Key
  PROVE  /\ OriginKey(c) \in Key
         /\ OriginKey(c)[2] = "action"
         /\ req[c][2] \in {"action", "compensate"}
         /\ req[c][2] = "action" <=> req[c] = OriginKey(c)
BY KeyFacts DEF OriginKey

(* The invariant survives the insertion of the origin's row.                   *)
LEMMA InsertOriginPreserves ==
  ASSUME IInv, NEW c \in Call, InsertOrigin(c)
  PROVE  IInv'
<1> USE OriginFacts DEF IInv, BTypeOK, Pcs, txVars, callVars, lockVars
<1>1. BTypeOK'
  BY DEF InsertOrigin, InsertBarrier, Locked, Goto, Requests, OriginKey
<1>2. Requests'
  BY DEF InsertOrigin, InsertBarrier, Locked, Goto, Requests
<1>3. Idleness'
  BY DEF InsertOrigin, InsertBarrier, Locked, Goto, Idleness, Requests
<1>4. Holds'
  BY DEF InsertOrigin, InsertBarrier, Locked, Goto, Holds, Idleness, Requests, OriginKey
<1>5. Exclusive'
  <2>1. /\ mine' = [mine EXCEPT ![c] = @ \cup ({OriginKey(c)} \ rows)]
        /\ rows' = rows
        /\ \A d \in Call : d # c => OriginKey(c) \notin mine[d]
    BY DEF InsertOrigin, InsertBarrier, Locked
  <2> QED  BY <2>1 DEF Exclusive
<1>6. Counted'
  BY DEF InsertOrigin, InsertBarrier, Locked, Goto, Counted, Requests
<1>7. Knows'
  <2>1. /\ pc[c] = "origin" /\ ~ran[c] /\ pc' = [pc EXCEPT ![c] = "current"]
        /\ fresh' = [fresh EXCEPT ![c] = OriginKey(c) \notin rows]
        /\ mine' = [mine EXCEPT ![c] = {OriginKey(c)} \ rows]
        /\ rows' = rows /\ req' = req /\ ran' = ran
    BY DEF InsertOrigin, InsertBarrier, Goto, Idleness
  <2>2. KnowsOf(c)'
    BY <2>1 DEF KnowsOf, OriginKey
  <2>3. ASSUME NEW d \in Call, d # c  PROVE KnowsOf(d)'
    BY <2>1, <2>3 DEF Knows, KnowsOf, OriginKey
  <2> QED  BY <2>2, <2>3 DEF Knows
<1>8. Whole'
  BY DEF InsertOrigin, InsertBarrier, Locked, Goto, Whole, Requests, Idleness, Holds, Knows, KnowsOf, OriginKey
<1> QED  BY <1>1, <1>2, <1>3, <1>4, <1>5, <1>6, <1>7, <1>8

(* The invariant survives a failed insertion of the origin's row.              *)
LEMMA InsertOriginFailsPreserves ==
  ASSUME IInv, NEW c \in Call, InsertOriginFails(c)
  PROVE  IInv'
<1> USE OriginFacts DEF IInv, BTypeOK, Pcs, txVars, callVars, lockVars
<1>1. BTypeOK'
  BY DEF InsertOriginFails, Throw, Reply, Goto, Requests, OriginKey
<1>2. Requests'
  BY DEF InsertOriginFails, Throw, Reply, Goto, Requests
<1>3. Idleness'
  BY DEF InsertOriginFails, Throw, Reply, Goto, Idleness, Requests
<1>4. Holds'
  BY DEF InsertOriginFails, Throw, Reply, Goto, Holds, Idleness, Requests, OriginKey
<1>5. Exclusive'
  BY DEF InsertOriginFails, Throw, Reply, Goto, Exclusive, Requests
<1>6. Counted'
  BY DEF InsertOriginFails, Throw, Reply, Goto, Counted, Requests
<1>7. Knows'
  <2>1. KnowsOf(c)'
    BY DEF InsertOriginFails, Throw, Reply, Goto, Knows, KnowsOf, Requests, Idleness, Holds, Exclusive, OriginKey
  <2>2. ASSUME NEW d \in Call, d # c  PROVE KnowsOf(d)'
    BY DEF InsertOriginFails, Throw, Reply, Goto, Knows, KnowsOf, Requests, Idleness, Holds, Exclusive, OriginKey
  <2> QED  BY <2>1, <2>2 DEF Knows
<1>8. Whole'
  BY DEF InsertOriginFails, Throw, Reply, Goto, Whole, Requests, Idleness, Holds, Knows, KnowsOf, OriginKey
<1> QED  BY <1>1, <1>2, <1>3, <1>4, <1>5, <1>6, <1>7, <1>8

(* The invariant survives the insertion of the operation's row.                *)
LEMMA InsertCurrentPreserves ==
  ASSUME IInv, NEW c \in Call, InsertCurrent(c)
  PROVE  IInv'
<1> USE OriginFacts DEF IInv, BTypeOK, Pcs, txVars, callVars, lockVars
<1>1. BTypeOK'
  BY DEF InsertCurrent, InsertBarrier, Locked, IsNullCompensation, IsDuplicateOrPend, Reply, Goto, Requests, OriginKey
<1>2. Requests'
  BY DEF InsertCurrent, InsertBarrier, Locked, IsNullCompensation, IsDuplicateOrPend, Reply, Goto, Requests
<1>3. Idleness'
  BY DEF InsertCurrent, InsertBarrier, Locked, IsNullCompensation, IsDuplicateOrPend, Reply, Goto, Idleness, Requests
<1>4. Holds'
  BY DEF InsertCurrent, InsertBarrier, Locked, IsNullCompensation, IsDuplicateOrPend, Reply, Goto, Holds, Idleness, Requests, OriginKey
<1>5. Exclusive'
  <2>1. /\ mine' = [mine EXCEPT ![c] = @ \cup ({req[c]} \ rows)]
        /\ rows' = rows
        /\ \A d \in Call : d # c => req[c] \notin mine[d]
    BY DEF InsertCurrent, InsertBarrier, Locked
  <2> QED  BY <2>1 DEF Exclusive
<1>6. Counted'
  BY DEF InsertCurrent, InsertBarrier, Locked, IsNullCompensation, IsDuplicateOrPend, Reply, Goto, Counted, Requests
<1>7. Knows'
  <2>1. KnowsOf(c)'
    BY DEF InsertCurrent, InsertBarrier, Locked, IsNullCompensation, IsDuplicateOrPend, Reply, Goto, Knows, KnowsOf, Requests, Idleness, Holds, Exclusive, OriginKey
  <2>2. ASSUME NEW d \in Call, d # c  PROVE KnowsOf(d)'
    BY DEF InsertCurrent, InsertBarrier, Locked, IsNullCompensation, IsDuplicateOrPend, Reply, Goto, Knows, KnowsOf, Requests, Idleness, Holds, Exclusive, OriginKey
  <2> QED  BY <2>1, <2>2 DEF Knows
<1>8. Whole'
  BY DEF InsertCurrent, InsertBarrier, Locked, IsNullCompensation, IsDuplicateOrPend, Reply, Goto, Whole, Requests, Idleness, Holds, Knows, KnowsOf, OriginKey
<1> QED  BY <1>1, <1>2, <1>3, <1>4, <1>5, <1>6, <1>7, <1>8

(* The invariant survives a failed insertion of the operation's row.           *)
LEMMA InsertCurrentFailsPreserves ==
  ASSUME IInv, NEW c \in Call, InsertCurrentFails(c)
  PROVE  IInv'
<1> USE OriginFacts DEF IInv, BTypeOK, Pcs, txVars, callVars, lockVars
<1>1. BTypeOK'
  BY DEF InsertCurrentFails, Throw, Reply, Goto, Requests, OriginKey
<1>2. Requests'
  BY DEF InsertCurrentFails, Throw, Reply, Goto, Requests
<1>3. Idleness'
  BY DEF InsertCurrentFails, Throw, Reply, Goto, Idleness, Requests
<1>4. Holds'
  BY DEF InsertCurrentFails, Throw, Reply, Goto, Holds, Idleness, Requests, OriginKey
<1>5. Exclusive'
  BY DEF InsertCurrentFails, Throw, Reply, Goto, Exclusive, Requests
<1>6. Counted'
  BY DEF InsertCurrentFails, Throw, Reply, Goto, Counted, Requests
<1>7. Knows'
  <2>1. KnowsOf(c)'
    BY DEF InsertCurrentFails, Throw, Reply, Goto, Knows, KnowsOf, Requests, Idleness, Holds, Exclusive, OriginKey
  <2>2. ASSUME NEW d \in Call, d # c  PROVE KnowsOf(d)'
    BY DEF InsertCurrentFails, Throw, Reply, Goto, Knows, KnowsOf, Requests, Idleness, Holds, Exclusive, OriginKey
  <2> QED  BY <2>1, <2>2 DEF Knows
<1>8. Whole'
  BY DEF InsertCurrentFails, Throw, Reply, Goto, Whole, Requests, Idleness, Holds, Knows, KnowsOf, OriginKey
<1> QED  BY <1>1, <1>2, <1>3, <1>4, <1>5, <1>6, <1>7, <1>8

(* The invariant survives a deadlock, of which the call is the victim.         *)
LEMMA DeadlockVictimPreserves ==
  ASSUME IInv, NEW c \in Call, DeadlockVictim(c)
  PROVE  IInv'
<1> USE OriginFacts DEF IInv, BTypeOK, Pcs, txVars, callVars, lockVars
<1>0. pc[c] \in {"origin", "current"} /\ req[c] \in Key /\ ~ran[c]
  BY DEF DeadlockVictim, Deadlocked, Inserting, Requests, Idleness
<1>1. BTypeOK'
  BY <1>0 DEF DeadlockVictim, RollBack, Throw, Reply, Goto, Requests, OriginKey
<1>2. Requests'
  BY <1>0 DEF DeadlockVictim, RollBack, Throw, Reply, Goto, Requests
<1>3. Idleness'
  BY <1>0 DEF DeadlockVictim, RollBack, Throw, Reply, Goto, Idleness, Requests
<1>4. Holds'
  BY <1>0 DEF DeadlockVictim, RollBack, Throw, Reply, Goto, Holds, Idleness, Requests, OriginKey
<1>5. Exclusive'
  BY <1>0 DEF DeadlockVictim, RollBack, Throw, Reply, Goto, Exclusive, Requests
<1>6. Counted'
  BY <1>0 DEF DeadlockVictim, RollBack, Throw, Reply, Goto, Counted, Requests
<1>7. Knows'
  <2>1. KnowsOf(c)'
    BY <1>0 DEF DeadlockVictim, RollBack, Throw, Reply, Goto, Knows, KnowsOf, Requests, Idleness, Holds, Exclusive, OriginKey
  <2>2. ASSUME NEW d \in Call, d # c  PROVE KnowsOf(d)'
    BY <1>0 DEF DeadlockVictim, RollBack, Throw, Reply, Goto, Knows, KnowsOf, Requests, Idleness, Holds, Exclusive, OriginKey
  <2> QED  BY <2>1, <2>2 DEF Knows
<1>8. Whole'
  BY <1>0 DEF DeadlockVictim, RollBack, Throw, Reply, Goto, Whole, Requests, Idleness, Holds, Knows, KnowsOf, OriginKey
<1> QED  BY <1>1, <1>2, <1>3, <1>4, <1>5, <1>6, <1>7, <1>8

(* The invariant survives busiCall.                                            *)
LEMMA BusiPreserves ==
  ASSUME IInv, NEW c \in Call, Busi(c)
  PROVE  IInv'
<1> USE OriginFacts DEF IInv, BTypeOK, Pcs, txVars, callVars, lockVars
<1>1. BTypeOK'
  BY DEF Busi, Reply, Goto, Requests, OriginKey
<1>2. Requests'
  BY DEF Busi, Reply, Goto, Requests
<1>3. Idleness'
  BY DEF Busi, Reply, Goto, Idleness, Requests
<1>4. Holds'
  BY DEF Busi, Reply, Goto, Holds, Idleness, Requests, OriginKey, Knows, KnowsOf
<1>5. Exclusive'
  BY DEF Busi, Reply, Goto, Exclusive, Requests
<1>6. Counted'
  BY DEF Busi, Reply, Goto, Counted, Requests
<1>7. Knows'
  <2>1. KnowsOf(c)'
    BY DEF Busi, Reply, Goto, Knows, KnowsOf, Requests, Idleness, Holds, Exclusive, OriginKey
  <2>2. ASSUME NEW d \in Call, d # c  PROVE KnowsOf(d)'
    BY DEF Busi, Reply, Goto, Knows, KnowsOf, Requests, Idleness, Holds, Exclusive, OriginKey
  <2> QED  BY <2>1, <2>2 DEF Knows
<1>8. Whole'
  BY DEF Busi, Reply, Goto, Whole, Requests, Idleness, Holds, Knows, KnowsOf, OriginKey, IsNullCompensation
<1> QED  BY <1>1, <1>2, <1>3, <1>4, <1>5, <1>6, <1>7, <1>8

(* The invariant survives an exception of busiCall.                            *)
LEMMA BusiThrowsPreserves ==
  ASSUME IInv, NEW c \in Call, BusiThrows(c)
  PROVE  IInv'
<1> USE OriginFacts DEF IInv, BTypeOK, Pcs, txVars, callVars, lockVars
<1>1. BTypeOK'
  BY DEF BusiThrows, RollBack, Throw, Reply, Goto, Requests, OriginKey
<1>2. Requests'
  BY DEF BusiThrows, RollBack, Throw, Reply, Goto, Requests
<1>3. Idleness'
  BY DEF BusiThrows, RollBack, Throw, Reply, Goto, Idleness, Requests
<1>4. Holds'
  BY DEF BusiThrows, RollBack, Throw, Reply, Goto, Holds, Idleness, Requests, OriginKey
<1>5. Exclusive'
  BY DEF BusiThrows, RollBack, Throw, Reply, Goto, Exclusive, Requests
<1>6. Counted'
  BY DEF BusiThrows, RollBack, Throw, Reply, Goto, Counted, Requests
<1>7. Knows'
  <2>1. KnowsOf(c)'
    BY DEF BusiThrows, RollBack, Throw, Reply, Goto, Knows, KnowsOf, Requests, Idleness, Holds, Exclusive, OriginKey
  <2>2. ASSUME NEW d \in Call, d # c  PROVE KnowsOf(d)'
    BY DEF BusiThrows, RollBack, Throw, Reply, Goto, Knows, KnowsOf, Requests, Idleness, Holds, Exclusive, OriginKey
  <2> QED  BY <2>1, <2>2 DEF Knows
<1>8. Whole'
  BY DEF BusiThrows, RollBack, Throw, Reply, Goto, Whole, Requests, Idleness, Holds, Knows, KnowsOf, OriginKey
<1> QED  BY <1>1, <1>2, <1>3, <1>4, <1>5, <1>6, <1>7, <1>8

(* The invariant survives the response.                                        *)
LEMMA RespondPreserves ==
  ASSUME IInv, NEW c \in Call, Respond(c)
  PROVE  IInv'
<1> USE OriginFacts DEF IInv, BTypeOK, Pcs, txVars, callVars, lockVars
<1>1. BTypeOK'
  BY DEF Respond, Goto, Requests, OriginKey
<1>2. Requests'
  BY DEF Respond, Goto, Requests
<1>3. Idleness'
  BY DEF Respond, Goto, Idleness, Requests
<1>4. Holds'
  BY DEF Respond, Goto, Holds, Idleness, Requests, OriginKey
<1>5. Exclusive'
  BY DEF Respond, Goto, Exclusive, Requests
<1>6. Counted'
  BY DEF Respond, Goto, Counted, Requests
<1>7. Knows'
  <2>1. KnowsOf(c)'
    BY DEF Respond, Goto, Knows, KnowsOf, Requests, Idleness, Holds, Exclusive, OriginKey
  <2>2. ASSUME NEW d \in Call, d # c  PROVE KnowsOf(d)'
    BY DEF Respond, Goto, Knows, KnowsOf, Requests, Idleness, Holds, Exclusive, OriginKey
  <2> QED  BY <2>1, <2>2 DEF Knows
<1>8. Whole'
  BY DEF Respond, Goto, Whole, Requests, Idleness, Holds, Knows, KnowsOf, OriginKey
<1> QED  BY <1>1, <1>2, <1>3, <1>4, <1>5, <1>6, <1>7, <1>8

(* The invariant survives the commit.                                          *)
LEMMA CommitPreserves ==
  ASSUME IInv, NEW c \in Call, Commit(c)
  PROVE  IInv'
<1> USE OriginFacts DEF IInv, BTypeOK, Pcs, txVars, callVars, lockVars
<1>1. BTypeOK'
  BY DEF Commit, Goto, Requests, OriginKey
<1>2. Requests'
  BY DEF Commit, Goto, Requests
<1>3. Idleness'
  BY DEF Commit, Goto, Idleness, Requests
<1>4. Holds'
  BY DEF Commit, Goto, Holds, Idleness, Requests, OriginKey
<1>5. Exclusive'
  BY DEF Commit, Goto, Exclusive, Requests
<1>6. Counted'
  BY DEF Commit, Goto, Counted, Requests, Holds, Exclusive, Idleness
<1>7. Knows'
  <2>1. KnowsOf(c)'
    BY DEF Commit, Goto, Knows, KnowsOf, Requests, Idleness, Holds, Exclusive, OriginKey
  <2>2. ASSUME NEW d \in Call, d # c  PROVE KnowsOf(d)'
    BY DEF Commit, Goto, Knows, KnowsOf, Requests, Idleness, Holds, Exclusive, OriginKey
  <2> QED  BY <2>1, <2>2 DEF Knows
<1>8. Whole'
  <2>1. ASSUME "current" \notin mishaps, NEW b \in Branch,
               <<b, "action">> \in rows', times'[<<b, "action">>] = 0
        PROVE  <<b, "compensate">> \in rows'
    <3>1. <<b, "action">> \in Key
      BY DEF Key, Op
    <3>2. times[<<b, "action">>] = 0
      BY <2>1, <3>1 DEF Commit
    <3>3. CASE <<b, "action">> \in rows
      BY <2>1, <3>2, <3>3 DEF Commit, Whole
    <3>4. CASE <<b, "action">> \in mine[c]
      <4>1. pc[c] = "commit" /\ req[c] \in Key /\ rows' = rows \cup mine[c]
        BY DEF Commit, Requests
      <4>2. req[c] # <<b, "action">>
        BY <2>1, <3>1, <3>2, <3>4, <4>1 DEF Commit, Holds
      <4>3. OriginKey(c) = <<b, "action">>
        BY <3>4, <4>1, <4>2 DEF Holds
      <4>4. req[c] = <<b, "compensate">>
        BY <4>1, <4>2, <4>3, KeyFacts DEF OriginKey
      <4> QED  BY <2>1, <3>4, <4>1, <4>3, <4>4 DEF Whole
    <3> QED  BY <2>1, <3>3, <3>4 DEF Commit
  <2>2. ASSUME NEW d \in Call
        PROVE  /\ req'[d] = req[d] /\ OriginKey(d)' = OriginKey(d) /\ rows \subseteq rows'
               /\ d = c => pc'[d] = "ended"
               /\ d # c => pc'[d] = pc[d] /\ mine'[d] = mine[d]
    BY DEF Commit, Goto, OriginKey
  <2>3. mishaps' = mishaps
    BY DEF Commit
  <2> QED  BY <2>1, <2>2, <2>3 DEF Whole
<1> QED  BY <1>1, <1>2, <1>3, <1>4, <1>5, <1>6, <1>7, <1>8

(* The invariant survives the loss of a call.                                  *)
LEMMA LostPreserves ==
  ASSUME IInv, NEW c \in Call, Lost(c)
  PROVE  IInv'
<1> USE OriginFacts DEF IInv, BTypeOK, Pcs, txVars, callVars, lockVars
<1>1. BTypeOK'
  BY DEF Lost, RollBack, Goto, Requests, OriginKey
<1>2. Requests'
  BY DEF Lost, RollBack, Goto, Requests
<1>3. Idleness'
  BY DEF Lost, RollBack, Goto, Idleness, Requests
<1>4. Holds'
  BY DEF Lost, RollBack, Goto, Holds, Idleness, Requests, OriginKey
<1>5. Exclusive'
  BY DEF Lost, RollBack, Goto, Exclusive, Requests
<1>6. Counted'
  BY DEF Lost, RollBack, Goto, Counted, Requests
<1>7. Knows'
  <2>1. KnowsOf(c)'
    BY DEF Lost, RollBack, Goto, Knows, KnowsOf, Requests, Idleness, Holds, Exclusive, OriginKey
  <2>2. ASSUME NEW d \in Call, d # c  PROVE KnowsOf(d)'
    BY DEF Lost, RollBack, Goto, Knows, KnowsOf, Requests, Idleness, Holds, Exclusive, OriginKey
  <2> QED  BY <2>1, <2>2 DEF Knows
<1>8. Whole'
  BY DEF Lost, RollBack, Goto, Whole, Requests, Idleness, Holds, Knows, KnowsOf, OriginKey
<1> QED  BY <1>1, <1>2, <1>3, <1>4, <1>5, <1>6, <1>7, <1>8

(* The invariant survives the arrival of a request.                            *)
LEMMA ReceivePreserves ==
  ASSUME IInv, NEW c \in Call, NEW k \in Key, Receive(c, k)
  PROVE  IInv'
<1> USE OriginFacts DEF IInv, BTypeOK, Pcs, txVars, callVars, lockVars
<1>1. BTypeOK'
  BY DEF Receive, Goto, Requests, OriginKey
<1>2. Requests'
  BY DEF Receive, Goto, Requests
<1>3. Idleness'
  BY DEF Receive, Goto, Idleness, Requests
<1>4. Holds'
  BY DEF Receive, Goto, Holds, Idleness, Requests, OriginKey
<1>5. Exclusive'
  BY DEF Receive, Goto, Exclusive, Requests
<1>6. Counted'
  BY DEF Receive, Goto, Counted, Requests
<1>7. Knows'
  <2>1. KnowsOf(c)'
    BY DEF Receive, Goto, Knows, KnowsOf, Requests, Idleness, Holds, Exclusive, OriginKey
  <2>2. ASSUME NEW d \in Call, d # c  PROVE KnowsOf(d)'
    BY DEF Receive, Goto, Knows, KnowsOf, Requests, Idleness, Holds, Exclusive, OriginKey
  <2> QED  BY <2>1, <2>2 DEF Knows
<1>8. Whole'
  BY DEF Receive, Goto, Whole, Requests, Idleness, Holds, Knows, KnowsOf, OriginKey
<1> QED  BY <1>1, <1>2, <1>3, <1>4, <1>5, <1>6, <1>7, <1>8

(* The invariant holds at first.                                               *)
LEMMA InitEstablishes == BInit => IInv
<1> SUFFICES ASSUME BInit  PROVE IInv
  OBVIOUS
<1>1. BTypeOK
  BY BarrierAssumption DEF BInit, BTypeOK, Pcs, Mishap
<1>2. Requests /\ Idleness /\ Holds
  BY DEF BInit, Requests, Idleness, Holds
<1>3. Exclusive /\ Counted
  BY DEF BInit, Exclusive, Counted
<1>4. Knows /\ Whole
  BY DEF BInit, Knows, KnowsOf, Whole
<1> QED  BY <1>1, <1>2, <1>3, <1>4 DEF IInv

(* It survives the steps of others.                                            *)
LEMMA StutterPreserves == IInv /\ UNCHANGED vars => IInv'
<1> SUFFICES ASSUME IInv, UNCHANGED vars  PROVE IInv'
  OBVIOUS
<1> USE DEF IInv, vars, txVars, callVars, lockVars
<1>1. BTypeOK' /\ Requests' /\ Idleness'
  BY DEF BTypeOK, Requests, Idleness
<1>2. Holds' /\ Exclusive' /\ Counted'
  BY DEF Holds, Exclusive, Counted, OriginKey
<1>3. Knows' /\ Whole'
  BY DEF Knows, KnowsOf, Whole, OriginKey
<1> QED  BY <1>1, <1>2, <1>3

(* What is common to the steps of a call.                                      *)
LEMMA StepFacts ==
  ASSUME BTypeOK, NEW c \in Call, BStep(c)
  PROVE  /\ pc[c] \notin {"free", "ended"} /\ pc'[c] # "free"
         /\ req' = req /\ mishaps' = mishaps /\ (unheard => unheard')
         /\ \A d \in Call : d # c =>
              /\ pc'[d] = pc[d] /\ mine'[d] = mine[d] /\ ran'[d] = ran[d]
              /\ fresh'[d] = fresh[d] /\ result'[d] = result[d]
         /\ pc[c] = "commit" => pc'[c] = "ended" /\ result' = result
         /\ Commit(c) \/ (rows' = rows /\ times' = times)
<1> USE DEF BTypeOK, txVars, lockVars
<1>1. CASE InsertOrigin(c) \/ InsertCurrent(c)
  BY <1>1 DEF InsertOrigin, InsertCurrent, InsertBarrier, Reply, Goto
<1>2. CASE InsertOriginFails(c) \/ InsertCurrentFails(c)
  BY <1>2 DEF InsertOriginFails, InsertCurrentFails, Throw, Reply, Goto
<1>3. CASE DeadlockVictim(c) \/ BusiThrows(c)
  BY <1>3 DEF DeadlockVictim, Deadlocked, Inserting, BusiThrows, RollBack, Throw, Reply, Goto
<1>4. CASE Busi(c) \/ Respond(c)
  BY <1>4 DEF Busi, Respond, Reply, Goto
<1>5. CASE Commit(c)
  BY <1>5 DEF Commit, Goto
<1>6. CASE Lost(c)
  BY <1>6 DEF Lost, RollBack, Goto
<1> QED  BY <1>1, <1>2, <1>3, <1>4, <1>5, <1>6 DEF BStep

(* The invariant is inductive: one lemma for each action.                      *)
LEMMA NextPreserves == IInv /\ [BNext]_vars => IInv'
<1> SUFFICES ASSUME IInv, [BNext]_vars  PROVE IInv'
  OBVIOUS
<1>1. ASSUME NEW c \in Call, BStep(c)  PROVE IInv'
  BY <1>1, InsertOriginPreserves, InsertOriginFailsPreserves, InsertCurrentPreserves,
     InsertCurrentFailsPreserves, DeadlockVictimPreserves, BusiPreserves, BusiThrowsPreserves,
     RespondPreserves, CommitPreserves, LostPreserves
     DEF BStep
<1>2. ASSUME NEW c \in Call, NEW k \in Key, Receive(c, k)  PROVE IInv'
  BY <1>2, ReceivePreserves
<1>3. CASE UNCHANGED vars
  BY <1>3, StutterPreserves
<1> QED  BY <1>1, <1>2, <1>3 DEF BNext

(* In every behaviour of the branch handlers, what each transaction holds and  *)
(* what is committed agree with where the calls are (IInv).                    *)
THEOREM Invariant == BSpec => []IInv
<1> QED  BY InitEstablishes, NextPreserves, PTL DEF BSpec

(* The handlers' variables keep their types.                                   *)
THEOREM TypeCorrect == BSpec => []BTypeOK
<1>1. IInv => BTypeOK
  BY DEF IInv
<1> QED  BY <1>1, Invariant, PTL

--------------------------------------------------------------------------------
(* The handlers implement the promise: at first,                               *)
LEMMA InitKeeps == BInit => Promise!Init
BY DEF BInit, Promise!Init, Acted, Undone, Barred, Key, Op

(* and in the one step that commits; a commit acts, undoes, bars or changes    *)
(* nothing that the promise is about.                                          *)
LEMMA CommitKeeps ==
  ASSUME IInv, NEW c \in Call, Commit(c)
  PROVE  [Promise!Next]_Promise!vars
<1> DEFINE b == req[c][1]
           action == <<b, "action">>
           compensate == <<b, "compensate">>
<1> USE DEF IInv, BTypeOK
<1>1. /\ pc[c] = "commit"
      /\ req[c] \in Key
      /\ rows' = rows \cup mine[c]
      /\ times' = IF ran[c] THEN [times EXCEPT ![req[c]] = @ + 1] ELSE times
      /\ mishaps' = mishaps
  BY DEF Commit, Requests
<1>2. /\ b \in Branch
      /\ action \in Key /\ compensate \in Key
      /\ OriginKey(c) = action
      /\ req[c] \in {action, compensate}
      /\ mine[c] \subseteq {action, req[c]}
      /\ mine[c] \cap rows = {}
  BY <1>1, KeyFacts DEF OriginKey, Holds, Exclusive
<1>3. \A d \in Branch : <<d, "action">> \in Key /\ <<d, "compensate">> \in Key
  BY DEF Key, Op
<1>4. CASE ran[c] /\ req[c] = action
  <2>1. action \in mine[c] /\ action \notin rows /\ times[action] = 0 /\ mine[c] = {action}
    BY <1>1, <1>2, <1>4 DEF Holds, Counted
  <2>2. times' = [times EXCEPT ![action] = 1] /\ rows' = rows \cup {action}
    <3>1. times' = [times EXCEPT ![req[c]] = times[req[c]] + 1] /\ times[req[c]] = 0
      BY <1>1, <1>4, <2>1
    <3>2. times' = [times EXCEPT ![req[c]] = 1]
      BY <3>1
    <3> QED  BY <1>1, <1>4, <2>1, <3>2
  <2>3. Acted[b] = 0 /\ b \notin Barred
    BY <1>2, <2>1 DEF Acted, Barred
  <2>4. Acted' = [Acted EXCEPT ![b] = 1] /\ Undone' = Undone
    BY <1>2, <1>3, <2>2 DEF Acted, Undone
  <2>5. Barred' = Barred
    <3>1. ASSUME NEW d \in Branch, d # b  PROVE d \in Barred' <=> d \in Barred
      BY <1>2, <1>3, <2>2, <2>4, <3>1 DEF Barred, Acted
    <3>2. b \notin Barred'
      BY <1>2, <2>4 DEF Barred, Acted
    <3> QED  BY <2>3, <3>1, <3>2 DEF Barred
  <2>6. Promise!Act(b)
    BY <1>1, <2>3, <2>4, <2>5 DEF Promise!Act
  <2> QED  BY <1>2, <2>6 DEF Promise!Next
<1>5. CASE ran[c] /\ req[c] = compensate
  <2>1. /\ compensate \in mine[c] /\ compensate \notin rows /\ times[compensate] = 0
        /\ action \in rows /\ mine[c] = {compensate}
    BY <1>1, <1>2, <1>5 DEF Holds, Counted, Knows, KnowsOf
  <2>2. times' = [times EXCEPT ![compensate] = 1] /\ rows' = rows \cup {compensate}
    <3>1. times' = [times EXCEPT ![req[c]] = times[req[c]] + 1] /\ times[req[c]] = 0
      BY <1>1, <1>5, <2>1
    <3>2. times' = [times EXCEPT ![req[c]] = 1]
      BY <3>1
    <3> QED  BY <1>1, <1>5, <2>1, <3>2
  <2>3. Undone[b] = 0
    BY <1>2, <2>1 DEF Undone
  <2>4. Acted' = Acted /\ Undone' = [Undone EXCEPT ![b] = 1]
    BY <1>2, <1>3, <2>2 DEF Acted, Undone
  <2>5. Barred' = Barred
    BY <2>2, <2>4 DEF Barred
  <2>6. Acted[b] = 1 \/ ("current" \in mishaps /\ b \in Barred)
    <3>1. times[action] \in {0, 1}
      BY <1>2 DEF Counted
    <3>2. times[action] = 0 => "current" \in mishaps
      BY <1>2, <2>1 DEF Whole
    <3>3. times[action] = 0 => b \in Barred
      BY <1>2, <2>1 DEF Barred, Acted
    <3> QED  BY <1>2, <3>1, <3>2, <3>3 DEF Acted
  <2>7. Promise!Undo(b)
    BY <1>1, <2>3, <2>4, <2>5, <2>6 DEF Promise!Undo
  <2> QED  BY <1>2, <2>7 DEF Promise!Next
<1>6. CASE ~ran[c]
  <2>1. Acted' = Acted /\ Undone' = Undone
    BY <1>1, <1>6 DEF Acted, Undone
  <2>2. CASE action \in mine[c]
    <3>1. times[action] = 0 /\ action \notin rows
      BY <1>2, <2>2 DEF Counted
    <3>2. Acted[b] = 0 /\ b \notin Barred
      BY <1>2, <3>1 DEF Acted, Barred
    <3>3. Barred' = Barred \cup {b}
      <4>1. ASSUME NEW d \in Branch, d # b  PROVE d \in Barred' <=> d \in Barred
        BY <1>1, <1>2, <2>1, <4>1 DEF Barred
      <4>2. b \in Barred'
        BY <1>1, <1>2, <2>1, <2>2, <3>2 DEF Barred
      <4> QED  BY <1>2, <4>1, <4>2 DEF Barred
    <3>4. Promise!Bar(b)
      BY <1>1, <2>1, <3>2, <3>3 DEF Promise!Bar
    <3> QED  BY <1>2, <3>4 DEF Promise!Next
  <2>3. CASE action \notin mine[c]
    <3>1. Barred' = Barred
      BY <1>1, <1>2, <2>1, <2>3 DEF Barred
    <3> QED  BY <1>1, <2>1, <3>1 DEF Promise!vars
  <2> QED  BY <2>2, <2>3
<1> QED  BY <1>2, <1>4, <1>5, <1>6

(* The other steps leave the tables alone.                                     *)
LEMMA StepKeeps == IInv /\ [BNext]_vars => [Promise!Next]_Promise!vars
<1> SUFFICES ASSUME IInv, [BNext]_vars  PROVE [Promise!Next]_Promise!vars
  OBVIOUS
<1>1. UNCHANGED <<txVars, mishaps>> => UNCHANGED Promise!vars
  BY DEF txVars, Promise!vars, Acted, Undone, Barred
<1>2. ASSUME NEW c \in Call, BStep(c)  PROVE Commit(c) \/ UNCHANGED <<txVars, mishaps>>
  BY <1>2, StepFacts DEF IInv, txVars
<1>3. ASSUME NEW c \in Call, NEW k \in Key, Receive(c, k)  PROVE UNCHANGED <<txVars, mishaps>>
  BY <1>3 DEF Receive
<1>4. UNCHANGED vars => UNCHANGED <<txVars, mishaps>>
  BY DEF vars
<1> QED  BY <1>1, <1>2, <1>3, <1>4, CommitKeeps DEF BNext

(* Whatever the number, the order and the fate of the requests, an action and  *)
(* a compensation take effect at most once, the action never after its branch  *)
(* was compensated, and the compensation never without the action unless the   *)
(* barrier can be left half written.                                           *)
THEOREM BarrierKeepsPromise == BSpec => KeepsPromise
<1> QED  BY InitKeeps, StepKeeps, Invariant, PTL DEF BSpec, KeepsPromise, Promise!Spec

--------------------------------------------------------------------------------
(* A shared lock is on a row that nobody has inserted, unless it is the origin *)
(* of the call that has the lock, which then has inserted it.                  *)
Sharing ==
    /\ \A c \in Call : pc[c] \in {"free", "ended"} => shared[c] = {}
    /\ \A c \in Call : pc[c] # "free" => shared[c] \subseteq {OriginKey(c), req[c]}
    /\ \A c \in Call : pc[c] = "origin" => shared[c] \subseteq {OriginKey(c)}
    /\ \A c, d \in Call : c # d => shared[c] \cap mine[d] = {}
    /\ \A c \in Call : shared[c] \cap rows = {}
    /\ \A c \in Call : pc[c] = "current" /\ OriginKey(c) \in shared[c] =>
                          OriginKey(c) = req[c] \/ OriginKey(c) \in mine[c]

(* What a rollback leaves: locks on the rows of the call that is undone.       *)
LEMMA RollBackShares ==
  ASSUME IInv, Sharing, NEW c \in Call, RollBack(c), req' = req, rows' = rows,
         \A d \in Call : d # c => pc'[d] = pc[d],
         pc'[c] \in {"respond", "ended"}, pc[c] # "free"
  PROVE  Sharing'
<1> USE DEF IInv, BTypeOK
<1>1. PICK w \in SUBSET {d \in Call \ {c} : Inserting(d) /\ Target(d) \in mine[c]} :
         shared' = [d \in Call |->
             IF d = c THEN {} ELSE IF d \in w THEN shared[d] \cup {Target(d)} ELSE shared[d]]
  BY DEF RollBack
<1>2. mine' = [mine EXCEPT ![c] = {}]
  BY DEF RollBack
<1>3. shared'[c] = {} /\ mine'[c] = {}
  BY <1>1, <1>2
<1>4. ASSUME NEW d \in Call, d # c
      PROVE  /\ mine'[d] = mine[d]
             /\ \A k \in shared'[d] : k \in shared[d] \/ (Inserting(d) /\ k = Target(d) /\ k \in mine[c])
  BY <1>1, <1>2, <1>4
<1>5. \A d \in Call : OriginKey(d)' = OriginKey(d)
  BY DEF OriginKey
<1>6. \A d \in Call : d # c /\ pc[d] \in {"free", "ended"} => shared'[d] = {}
  BY <1>4 DEF Sharing, Inserting
<1>7. \A d \in Call : d # c /\ pc[d] # "free" => shared'[d] \subseteq {OriginKey(d), req[d]}
  BY <1>4 DEF Sharing, Target
<1>8. \A d \in Call : d # c /\ pc[d] = "origin" => shared'[d] \subseteq {OriginKey(d)}
  BY <1>4 DEF Sharing, Target
<1>9. \A d, e \in Call : d # e => shared'[d] \cap mine'[e] = {}
  <2> SUFFICES ASSUME NEW d \in Call, NEW e \in Call, d # e, NEW k \in shared'[d], k \in mine'[e]
               PROVE  FALSE
    OBVIOUS
  <2>1. d # c /\ e # c /\ k \in mine[e]
    BY <1>3, <1>4
  <2>2. k \in shared[d] \/ k \in mine[c]
    BY <1>4, <2>1
  <2> QED  BY <2>1, <2>2 DEF Sharing, Exclusive
<1>10. \A d \in Call : shared'[d] \cap rows = {}
  BY <1>3, <1>4 DEF Sharing, Exclusive
<1>11. \A d \in Call : d # c /\ pc[d] = "current" /\ OriginKey(d) \in shared'[d] =>
                          OriginKey(d) = req[d] \/ OriginKey(d) \in mine[d]
  BY <1>4 DEF Sharing, Target
<1> QED  BY <1>3, <1>4, <1>5, <1>6, <1>7, <1>8, <1>9, <1>10, <1>11 DEF Sharing

(* The locks' invariant survives each step.                                    *)
LEMMA SharingPreserved == IInv /\ Sharing /\ [BNext]_vars => Sharing'
<1> SUFFICES ASSUME IInv, Sharing, [BNext]_vars  PROVE Sharing'
  OBVIOUS
<1> USE DEF IInv, BTypeOK
<1>1. ASSUME NEW c \in Call, NEW k \in Key, Receive(c, k)  PROVE Sharing'
  BY <1>1 DEF Receive, Goto, Sharing, OriginKey, lockVars, txVars
<1>2. ASSUME NEW c \in Call, InsertOrigin(c)  PROVE Sharing'
  <2>1. /\ pc[c] = "origin" /\ pc' = [pc EXCEPT ![c] = "current"]
        /\ mine' = [mine EXCEPT ![c] = @ \cup ({OriginKey(c)} \ rows)]
        /\ \A d \in Call : d # c => OriginKey(c) \notin shared[d]
        /\ UNCHANGED <<rows, req, shared>>
        /\ \A d \in Call : OriginKey(d)' = OriginKey(d)
    BY <1>2 DEF InsertOrigin, InsertBarrier, Locked, Goto, txVars, OriginKey
  <2> HIDE DEF OriginKey
  <2> QED  BY <2>1 DEF Sharing
<1>3. ASSUME NEW c \in Call, InsertCurrent(c)  PROVE Sharing'
  <2>1. /\ pc[c] = "current" /\ pc'[c] \in {"busi", "respond"}
        /\ \A d \in Call : d # c => pc'[d] = pc[d]
        /\ mine' = [mine EXCEPT ![c] = @ \cup ({req[c]} \ rows)]
        /\ \A d \in Call : d # c => req[c] \notin shared[d]
        /\ UNCHANGED <<rows, req, shared>>
        /\ \A d \in Call : OriginKey(d)' = OriginKey(d)
    BY <1>3 DEF InsertCurrent, InsertBarrier, Locked, Reply, Goto, txVars, OriginKey
  <2> QED  BY <2>1 DEF Sharing
<1>4. ASSUME NEW c \in Call,
             InsertOriginFails(c) \/ InsertCurrentFails(c) \/ Busi(c) \/ Respond(c)
      PROVE  Sharing'
  <2>1. /\ pc[c] # "free" /\ pc'[c] \in {"respond", "commit"}
        /\ \A d \in Call : d # c => pc'[d] = pc[d]
        /\ UNCHANGED <<rows, req, mine, shared>>
        /\ \A d \in Call : OriginKey(d)' = OriginKey(d)
    BY <1>4 DEF InsertOriginFails, InsertCurrentFails, Busi, Respond, Throw, Reply, Goto, txVars,
       lockVars, OriginKey
  <2> QED  BY <2>1 DEF Sharing
<1>5. ASSUME NEW c \in Call, DeadlockVictim(c) \/ BusiThrows(c) \/ Lost(c)  PROVE Sharing'
  <2>1. /\ RollBack(c) /\ req' = req /\ rows' = rows
        /\ \A d \in Call : d # c => pc'[d] = pc[d]
        /\ pc'[c] \in {"respond", "ended"} /\ pc[c] # "free"
    BY <1>5 DEF DeadlockVictim, Deadlocked, Inserting, BusiThrows, Lost, Throw, Reply, Goto, txVars
  <2> QED  BY <2>1, RollBackShares
<1>6. ASSUME NEW c \in Call, Commit(c)  PROVE Sharing'
  <2>1. /\ pc' = [pc EXCEPT ![c] = "ended"] /\ rows' = rows \cup mine[c] /\ req' = req
        /\ mine' = [mine EXCEPT ![c] = {}] /\ shared' = [shared EXCEPT ![c] = {}]
        /\ \A d \in Call : OriginKey(d)' = OriginKey(d)
    BY <1>6 DEF Commit, Goto, OriginKey
  <2> QED  BY <2>1 DEF Sharing
<1>7. CASE UNCHANGED vars
  BY <1>7 DEF Sharing, OriginKey, vars, txVars, callVars, lockVars
<1> QED  BY <1>1, <1>2, <1>3, <1>4, <1>5, <1>6, <1>7 DEF BNext, BStep

(* A call that waits for the row it has a shared lock on is in a deadlock: the *)
(* other lock on that row is a shared one of a call that wants the same.       *)
LEMMA SharedWaitsAreDeadlocks ==
  ASSUME IInv, Sharing, NEW d \in Call, Waits(d), Target(d) \in shared[d],
         \A e \in Call : ~GoesOn(e)
  PROVE  \E e \in Call : Deadlocked(d, e)
<1> USE DEF IInv, BTypeOK, Pcs
<1>1. PICK e \in Call : e # d /\ Target(d) \in mine[e] \cup shared[e]
  BY DEF Waits, Locked
<1>2. Target(d) \in shared[e] /\ Target(d) \notin mine[e]
  BY <1>1 DEF Sharing
<1>3. Inserting(e)
  BY <1>2 DEF Sharing, GoesOn, Waits
<1>4. Target(e) = Target(d)
  BY <1>2, <1>3 DEF Sharing, Inserting, Target
<1> QED  BY <1>1, <1>2, <1>3, <1>4 DEF Deadlocked, Waits

(* The handlers of the branches are never stuck, but for requests that a       *)
(* rollback has left with shared locks on the same row.                        *)
THEOREM OnlySharedLocksDeadlock == BSpec => []OnlySharedDeadlock
<1>1. ASSUME IInv, Sharing  PROVE OnlySharedDeadlock
  <2> USE <1>1 DEF IInv, BTypeOK, Pcs
  <2> SUFFICES ASSUME NEW c \in Call, Waits(c), \A e \in Call : ~GoesOn(e)
               PROVE  \E d, e \in Call : Deadlocked(d, e)
    BY DEF OnlySharedDeadlock
  <2>1. ASSUME NEW d \in Call, mine[d] \cup shared[d] # {}  PROVE Waits(d) /\ Inserting(d)
    BY <2>1 DEF Idleness, Sharing, GoesOn, Waits
  <2>2. PICK d \in Call : d # c /\ Target(c) \in mine[d] \cup shared[d]
    BY DEF Waits, Locked
  <2>3. Waits(d) /\ Inserting(d) /\ req[d] \in Key
    BY <2>1, <2>2 DEF Requests, Inserting
  <2>4. CASE Target(d) \in shared[d]
    BY <2>3, <2>4, SharedWaitsAreDeadlocks
  <2>5. CASE Target(d) \notin shared[d]
    <3>1. pc[d] = "current" /\ OriginKey(d) # req[d] /\ Target(d) = req[d]
      BY <2>2, <2>3, <2>5 DEF Inserting, Target, Idleness, Holds, Sharing
    <3>2. req[d][2] # "action"
      BY <2>3, <3>1, OriginFacts
    <3>3. PICK e \in Call : e # d /\ req[d] \in mine[e] \cup shared[e]
      BY <2>3, <3>1 DEF Waits, Locked
    <3>4. Waits(e) /\ Inserting(e) /\ req[e] \in Key
      BY <2>1, <3>3 DEF Requests, Inserting
    <3>5. req[d] # OriginKey(e)
      BY <3>2, <3>4, OriginFacts
    <3>6. req[d] \in shared[e] /\ pc[e] = "current" /\ req[d] = req[e]
      BY <3>3, <3>4, <3>5 DEF Inserting, Idleness, Holds, Sharing
    <3>7. Target(e) \in shared[e]
      BY <3>6 DEF Target
    <3> QED  BY <3>4, <3>7, SharedWaitsAreDeadlocks
  <2> QED  BY <2>4, <2>5
<1>2. BInit => Sharing
  BY DEF BInit, Sharing
<1> QED  BY <1>1, <1>2, Invariant, SharingPreserved, PTL DEF BSpec

--------------------------------------------------------------------------------
ServerOK == phase \in {"acting", "aborting", "succeeded", "failed"} /\ at \in Branch

(* As long as nothing is compensated, a failing branch has no row to be taken  *)
(* for a duplicate by, no answer of SUCCESS, and has not been passed.          *)
Forward ==
    /\ \A c \in Call : pc[c] # "free" => req[c][2] = "action"
    /\ \A f \in Failing :
        /\ <<f, "action">> \notin rows
        /\ at <= f
        /\ \A c \in Call : req[c] = <<f, "action">> =>
            /\ result[c] # "SUCCESS"
            /\ pc[c] \in {"respond", "commit"} => mine[c] = {}

SInv == /\ ServerOK
        /\ phase = "acting" => Forward
        /\ FailureIsSeen

(* The branches are numbered from 1 to Last.                                   *)
LEMMA BranchFacts ==
  /\ Last \in Branch
  /\ 1 \in Branch
  /\ \A b \in Branch : b \in Nat /\ b >= 1 /\ b <= Last
  /\ \A b \in Branch : b < Last => b + 1 \in Branch
  /\ \A b \in Branch : b > 1 => b - 1 \in Branch
<1>1. PICK n \in Nat \ {0} : Branch = 1 .. n
  BY BranchAssumption
<1>2. n \in Branch /\ \A d \in Branch : d <= n
  BY <1>1
<1>3. Last \in Branch /\ \A d \in Branch : d <= Last
  BY <1>2 DEF Last
<1> QED  BY <1>1, <1>3

(* What the server asks for is an operation of a branch.                       *)
LEMMA PendingIsKey == ServerOK => Pending \in Key
BY DEF ServerOK, Pending, Key, Op

(* What the server and the handlers do is what DtmBarrier's requests may do.   *)
LEMMA StepIsBarrierStep == ServerOK /\ [Next]_sagaVars => [BNext]_vars
<1> SUFFICES ASSUME ServerOK, [Next]_sagaVars  PROVE [BNext]_vars
  OBVIOUS
<1>1. ASSUME NEW c \in Call, Send(c)  PROVE BNext
  BY <1>1, PendingIsKey DEF Send, BNext
<1>2. ASSUME NEW c \in Call, Handle(c)  PROVE BNext
  BY <1>2 DEF Handle, BNext
<1>3. ASSUME NEW c \in Call, ActionAnswered(c) \/ CompensationAnswered(c)  PROVE UNCHANGED vars
  BY <1>3 DEF ActionAnswered, CompensationAnswered
<1> QED  BY <1>1, <1>2, <1>3 DEF Next, sagaVars

(* The server stays at a branch.                                               *)
LEMMA ServerOKPreserved == ServerOK /\ [Next]_sagaVars => ServerOK'
<1> SUFFICES ASSUME ServerOK, [Next]_sagaVars  PROVE ServerOK'
  OBVIOUS
<1> USE DEF ServerOK
<1>1. ASSUME NEW c \in Call, Send(c) \/ Handle(c)  PROVE ServerOK'
  BY <1>1 DEF Send, Handle, serverVars
<1>2. ASSUME NEW c \in Call, ActionAnswered(c)  PROVE ServerOK'
  BY <1>2, BranchFacts DEF ActionAnswered
<1>3. ASSUME NEW c \in Call, CompensationAnswered(c)  PROVE ServerOK'
  BY <1>3, BranchFacts DEF CompensationAnswered
<1> QED  BY <1>1, <1>2, <1>3 DEF Next, sagaVars, serverVars

(* A handler's step keeps the forward part.                                    *)
LEMMA HandleForward ==
  ASSUME IInv, ServerOK, Forward, NEW c \in Call, BStep(c), UNCHANGED serverVars
  PROVE  Forward'
<1> USE DEF IInv, BTypeOK, Pcs
<1>1. /\ req' = req /\ at' = at
      /\ \A d \in Call : d # c => pc'[d] = pc[d] /\ mine'[d] = mine[d] /\ result'[d] = result[d]
      /\ pc[c] # "free" /\ req[c] \in Key /\ req[c][2] = "action" /\ OriginKey(c) = req[c]
  <2>1. pc[c] # "free"
    BY StepFacts
  <2>2. req[c] \in Key /\ req[c][2] = "action" /\ OriginKey(c) = req[c]
    BY <2>1, OriginFacts DEF Requests, Forward
  <2> QED  BY <2>1, <2>2, StepFacts DEF serverVars
<1>2. \A f \in Failing : <<f, "action">> \notin rows'
  <2>1. CASE Commit(c)
    <3>1. mine[c] \subseteq {req[c]} /\ pc[c] = "commit" /\ rows' = rows \cup mine[c]
      BY <1>1, <2>1 DEF Commit, Holds
    <3>2. ASSUME NEW f \in Failing, <<f, "action">> \in mine[c]  PROVE FALSE
      BY <3>1, <3>2 DEF Forward
    <3> QED  BY <3>1, <3>2 DEF Forward
  <2>2. CASE ~Commit(c)
    BY <2>2, StepFacts DEF Forward
  <2> QED  BY <2>1, <2>2
<1>3. ASSUME NEW f \in Failing, req[c] = <<f, "action">>
      PROVE  /\ result'[c] # "SUCCESS"
             /\ pc'[c] \in {"respond", "commit"} => mine'[c] = {}
  <2>1. CatchesAll(c) /\ ~IsNullCompensation(c) /\ ~IsDuplicateOrPend(c) /\ pc[c] # "origin"
    BY <1>1, <1>3 DEF CatchesAll, IsNullCompensation, IsDuplicateOrPend, Forward, Idleness
  <2>2. result[c] # "SUCCESS" /\ (pc[c] \in {"respond", "commit"} => mine[c] = {})
    BY <1>3 DEF Forward
  <2>3. CASE InsertCurrent(c)
    BY <2>1, <2>2, <2>3 DEF InsertCurrent, Goto
  <2>4. CASE InsertCurrentFails(c)
    BY <1>1, <2>1, <2>4 DEF InsertCurrentFails, Throw, Reply, Goto, Holds, lockVars
  <2>5. CASE BusiThrows(c) \/ DeadlockVictim(c)
    BY <2>1, <2>5 DEF BusiThrows, DeadlockVictim, RollBack, Throw, Reply, Goto
  <2>6. CASE Respond(c) \/ Commit(c) \/ Lost(c)
    BY <2>2, <2>6 DEF Respond, Commit, Lost, RollBack, Goto, lockVars
  <2> QED  BY <2>1, <2>3, <2>4, <2>5, <2>6 DEF BStep, InsertOrigin, InsertOriginFails, Busi
<1>4. \A d \in Call : pc'[d] # "free" => req'[d][2] = "action"
  BY <1>1 DEF Forward
<1> QED  BY <1>1, <1>2, <1>3, <1>4 DEF Forward

(* A request of the server keeps it while the server goes forward.             *)
LEMMA SendForward ==
  ASSUME IInv, ServerOK, Forward, phase = "acting", NEW c \in Call, Send(c)
  PROVE  Forward'
<1> USE DEF IInv, BTypeOK
<1>1. /\ req' = [req EXCEPT ![c] = <<at, "action">>]
      /\ pc[c] = "free" /\ pc' = [pc EXCEPT ![c] = "current"]
      /\ at' = at /\ rows' = rows /\ mine' = mine /\ result' = result
  BY DEF Send, Receive, Goto, Pending, txVars, lockVars, serverVars
<1>2. result[c] = "none"
  BY <1>1 DEF Idleness
<1> QED  BY <1>1, <1>2 DEF Forward

(* So does an answer that it goes forward on: it is not of a failing branch.   *)
LEMMA AnswerForward ==
  ASSUME IInv, ServerOK, Forward, NEW c \in Call, ActionAnswered(c)
  PROVE  (phase' = "acting" => Forward') /\ FailureIsSeen'
<1> USE DEF IInv, BTypeOK
<1>1. /\ phase = "acting" /\ result[c] \in {"SUCCESS", "FAILURE"} /\ req[c] = <<at, "action">>
      /\ UNCHANGED vars /\ at \in Branch
  BY DEF ActionAnswered, Answered, Pending, ServerOK
<1>2. CASE result[c] = "FAILURE"
  BY <1>2 DEF ActionAnswered, FailureIsSeen
<1>3. CASE result[c] = "SUCCESS"
  <2>1. at \notin Failing
    BY <1>1, <1>3 DEF Forward
  <2>2. \A f \in Failing : f \in Branch /\ f \in Nat /\ at \in Nat /\ at < f
    <3> SUFFICES ASSUME NEW f \in Failing
                 PROVE  f \in Branch /\ f \in Nat /\ at \in Nat /\ at < f
      OBVIOUS
    <3>1. f \in Branch /\ f \in Nat /\ at \in Nat
      BY <1>1, BarrierAssumption, BranchFacts
    <3>2. at <= f /\ at # f
      BY <2>1 DEF Forward
    <3> QED  BY <3>1, <3>2
  <2>3. CASE at < Last
    <3>1. phase' = phase /\ at' = at + 1
      BY <1>3, <2>3 DEF ActionAnswered
    <3> QED  BY <1>1, <2>2, <3>1 DEF Forward, vars, txVars, callVars, lockVars, FailureIsSeen
  <2>4. CASE ~(at < Last)
    <3>1. Failing = {}
      BY <1>1, <2>2, <2>4, BranchFacts
    <3>2. phase' = "succeeded"
      BY <1>3, <2>4 DEF ActionAnswered
    <3> QED  BY <3>1, <3>2 DEF FailureIsSeen
  <2> QED  BY <2>3, <2>4
<1> QED  BY <1>1, <1>2, <1>3

(* The server's part of the invariant is inductive, given the handlers'.       *)
LEMMA SInvPreserved == IInv /\ SInv /\ [Next]_sagaVars => SInv'
<1> SUFFICES ASSUME IInv, SInv, [Next]_sagaVars  PROVE SInv'
  OBVIOUS
<1>1. ServerOK'
  BY ServerOKPreserved DEF SInv
<1>2. CASE phase # "acting"
  <2>1. phase' = phase \/ phase' = "failed"
    BY <1>2 DEF Next, Send, Handle, ActionAnswered, CompensationAnswered, sagaVars, serverVars
  <2> QED  BY <1>1, <1>2, <2>1 DEF SInv, FailureIsSeen
<1>3. CASE phase = "acting"
  <2>1. ServerOK /\ Forward
    BY <1>3 DEF SInv
  <2>2. ASSUME NEW c \in Call, Send(c)  PROVE SInv'
    BY <1>1, <1>3, <2>1, <2>2, SendForward DEF SInv, FailureIsSeen, Send, serverVars
  <2>3. ASSUME NEW c \in Call, Handle(c)  PROVE SInv'
    BY <1>1, <1>3, <2>1, <2>3, HandleForward DEF SInv, FailureIsSeen, Handle, serverVars
  <2>4. ASSUME NEW c \in Call, ActionAnswered(c)  PROVE SInv'
    BY <1>1, <2>1, <2>4, AnswerForward DEF SInv
  <2>5. ASSUME NEW c \in Call, CompensationAnswered(c)  PROVE FALSE
    BY <1>3, <2>5 DEF CompensationAnswered
  <2>6. CASE UNCHANGED sagaVars
    BY <1>1, <1>3, <2>1, <2>6
       DEF SInv, FailureIsSeen, Forward, sagaVars, serverVars, vars, txVars, callVars, lockVars
  <2> QED  BY <2>2, <2>3, <2>4, <2>5, <2>6 DEF Next
<1> QED  BY <1>2, <1>3

(* In every behaviour of the saga, the handlers' invariant holds, and the      *)
(* server's position agrees with it.                                           *)
THEOREM SagaInvariant == Spec => [](IInv /\ SInv)
<1>1. Init => IInv /\ SInv
  <2> SUFFICES ASSUME Init  PROVE IInv /\ SInv
    OBVIOUS
  <2>1. ServerOK /\ IInv
    BY InitEstablishes, BranchFacts DEF Init, ServerOK
  <2>2. Forward
    BY BarrierAssumption, BranchFacts DEF Init, BInit, Forward
  <2> QED  BY <2>1, <2>2 DEF Init, SInv, FailureIsSeen
<1>2. IInv /\ SInv /\ [Next]_sagaVars => IInv'
  BY StepIsBarrierStep, NextPreserves DEF SInv
<1> QED  BY <1>1, <1>2, SInvPreserved, PTL DEF Spec

(* The saga's variables keep their types.                                      *)
THEOREM SagaTypeCorrect == Spec => []TypeOK
<1>1. IInv /\ SInv => TypeOK
  BY DEF IInv, SInv, ServerOK, TypeOK
<1> QED  BY <1>1, SagaInvariant, PTL

(* A saga with a branch that fails for the business never succeeds, whatever   *)
(* is lost, repeated or late.                                                  *)
THEOREM FailureIsNeverMissed == Spec => []FailureIsSeen
<1>1. SInv => FailureIsSeen
  BY DEF SInv
<1> QED  BY <1>1, SagaInvariant, PTL

(* Every behaviour of the saga is one of the branch handlers, so that what     *)
(* holds of these holds of it.                                                 *)
THEOREM SagaIsBarrier == Spec => BSpec
<1>1. Init => BInit
  BY DEF Init
<1>2. SInv /\ [Next]_sagaVars => [BNext]_vars
  BY StepIsBarrierStep DEF SInv
<1> QED  BY <1>1, <1>2, SagaInvariant, PTL DEF Spec, BSpec

(* The saga's branches keep the barrier's promise.                             *)
THEOREM SagaKeepsPromise == Spec => KeepsPromise
<1> QED  BY SagaIsBarrier, BarrierKeepsPromise, PTL

(* The saga's handlers are stuck only as OnlySharedDeadlock says.              *)
THEOREM SagaGoesOn == Spec => []OnlySharedDeadlock
<1> QED  BY SagaIsBarrier, OnlySharedLocksDeadlock, PTL
--------------------------------------------------------------------------------
(* NothingLeftWhenWell.  What is committed under an operation was requested.   *)
Requested == \A k \in Key : times[k] # 0 => \E c \in Call : pc[c] # "free" /\ req[c] = k

(* A compensation that is fresh has inserted its action's row; one that keeps  *)
(* its own row has compensated, or keeps the action's row too.                 *)
Reasoned == \A c \in Call : req[c] \in Key /\ req[c][2] = "compensate" =>
    /\ pc[c] = "current" /\ fresh[c] => OriginKey(c) \in mine[c]
    /\ pc[c] \in {"respond", "commit"} /\ req[c] \in mine[c] => ran[c] \/ OriginKey(c) \in mine[c]

(* The row of a compensation stands for a branch that is undone for good.      *)
Paired == mishaps = {} => \A b \in Branch : <<b, "compensate">> \in rows =>
    /\ <<b, "action">> \in rows
    /\ times[<<b, "action">>] = times[<<b, "compensate">>]

(* A compensation answered with SUCCESS has its row, or is about to commit it, *)
(* unless a deadlock has undone one.                                           *)
Truthful == mishaps = {} /\ ~unheard => \A c \in Call :
  req[c] \in Key /\ req[c][2] = "compensate" /\ result[c] = "SUCCESS" =>
    /\ pc[c] \in {"respond", "commit", "ended"}
    /\ req[c] \in rows \cup mine[c]

(* On the way back each branch is still to be compensated, or its compensation *)
(* was answered, or it was never asked for anything.                           *)
Untouched(b) == \A c \in Call : pc[c] # "free" => req[c][1] # b
Compensated(b) == \E c \in Call :
    /\ pc[c] \in {"commit", "ended"}
    /\ req[c] = <<b, "compensate">>
    /\ result[c] = "SUCCESS"
Backward ==
    /\ phase = "acting" => \A b \in Branch : b > at => Untouched(b)
    /\ phase \in {"aborting", "failed"} =>
        \A b \in Branch : \/ phase = "aborting" /\ b <= at
                          \/ mishaps = {} => Compensated(b)
                          \/ Untouched(b)

HInv == Requested /\ Reasoned /\ Paired /\ Truthful
WInv == HInv /\ Backward

(* The handlers keep their part.                                               *)
LEMMA HandleRequested ==
  ASSUME IInv, Requested, NEW c \in Call, BStep(c)
  PROVE  Requested'
<1> USE DEF IInv, BTypeOK
<1>1. pc[c] # "free" /\ req' = req /\ \A d \in Call : pc[d] # "free" => pc'[d] # "free"
  BY StepFacts
<1>2. times' = times \/ times' = [times EXCEPT ![req[c]] = @ + 1]
  BY StepFacts DEF Commit
<1>3. ASSUME NEW k \in Key, times'[k] # 0
      PROVE  \E d \in Call : pc'[d] # "free" /\ req'[d] = k
  <2>1. CASE times[k] # 0
    BY <1>1, <2>1 DEF Requested
  <2>2. CASE times[k] = 0
    <3>1. req[c] = k
      BY <1>2, <1>3, <2>2
    <3> QED  BY <1>1, <3>1
  <2> QED  BY <2>1, <2>2
<1> QED  BY <1>3 DEF Requested

LEMMA HandleReasoned ==
  ASSUME IInv, Reasoned, NEW c \in Call, BStep(c)
  PROVE  Reasoned'
<1> USE DEF IInv, BTypeOK, OriginKey
<1>1. /\ req' = req
      /\ \A d \in Call : d # c => pc'[d] = pc[d] /\ mine'[d] = mine[d] /\ ran'[d] = ran[d]
                                /\ fresh'[d] = fresh[d]
  BY StepFacts
<1>2. ASSUME req[c] \in Key, req[c][2] = "compensate"
      PROVE  /\ pc'[c] = "current" /\ fresh'[c] => OriginKey(c) \in mine'[c]
             /\ pc'[c] \in {"respond", "commit"} /\ req[c] \in mine'[c]
                    => ran'[c] \/ OriginKey(c) \in mine'[c]
  <2>1. CASE InsertOrigin(c)
    BY <2>1 DEF InsertOrigin, InsertBarrier, Goto
  <2>2. CASE InsertOriginFails(c)
    BY <2>2 DEF InsertOriginFails, Throw, Reply, Goto, Idleness, lockVars
  <2>3. CASE InsertCurrent(c)
    <3>1. CASE IsNullCompensation(c)
      BY <1>2, <2>3, <3>1 DEF InsertCurrent, InsertBarrier, IsNullCompensation, Reply, Goto, Reasoned
    <3>2. CASE ~IsNullCompensation(c) /\ IsDuplicateOrPend(c)
      <4>1. req[c] \notin mine[c] /\ req[c] \in rows
        BY <2>3, <3>2 DEF InsertCurrent, IsDuplicateOrPend, Holds
      <4> QED  BY <2>3, <3>2, <4>1 DEF InsertCurrent, InsertBarrier, Reply, Goto
    <3>3. CASE ~IsNullCompensation(c) /\ ~IsDuplicateOrPend(c)
      BY <2>3, <3>3 DEF InsertCurrent, Goto
    <3> QED  BY <3>1, <3>2, <3>3
  <2>4. CASE InsertCurrentFails(c)
    BY <2>4 DEF InsertCurrentFails, Throw, Reply, Goto, Holds, lockVars
  <2>5. CASE Busi(c)
    BY <2>5 DEF Busi, Reply, Goto
  <2>6. CASE BusiThrows(c) \/ DeadlockVictim(c)
    BY <2>6 DEF BusiThrows, DeadlockVictim, RollBack, Throw, Reply, Goto
  <2>7. CASE Respond(c)
    BY <1>2, <2>7 DEF Respond, Goto, Reasoned, lockVars
  <2>8. CASE Commit(c) \/ Lost(c)
    BY <2>8 DEF Commit, Lost, RollBack, Goto
  <2> QED  BY <2>1, <2>2, <2>3, <2>4, <2>5, <2>6, <2>7, <2>8 DEF BStep
<1>3. ASSUME NEW d \in Call, req'[d] \in Key, req'[d][2] = "compensate"
      PROVE  /\ pc'[d] = "current" /\ fresh'[d] => OriginKey(d)' \in mine'[d]
             /\ pc'[d] \in {"respond", "commit"} /\ req'[d] \in mine'[d]
                    => ran'[d] \/ OriginKey(d)' \in mine'[d]
  <2>1. CASE d = c
    BY <1>1, <1>2, <1>3, <2>1
  <2>2. CASE d # c
    BY <1>1, <1>3, <2>2 DEF Reasoned
  <2> QED  BY <2>1, <2>2
<1> QED  BY <1>3 DEF Reasoned

(* Only a commit changes what is committed.                                    *)
LEMMA CommitPaired ==
  ASSUME IInv, Reasoned, Paired, NEW c \in Call, Commit(c)
  PROVE  Paired'
<1> USE DEF IInv, BTypeOK
<1> SUFFICES ASSUME mishaps = {}, NEW b \in Branch, <<b, "compensate">> \in rows'
             PROVE  /\ <<b, "action">> \in rows'
                    /\ times'[<<b, "action">>] = times'[<<b, "compensate">>]
  BY DEF Paired, Commit
<1>1. /\ pc[c] = "commit" /\ req[c] \in Key /\ rows' = rows \cup mine[c]
      /\ times' = IF ran[c] THEN [times EXCEPT ![req[c]] = @ + 1] ELSE times
      /\ mine[c] \subseteq {OriginKey(c), req[c]} /\ (ran[c] => req[c] \in mine[c])
      /\ mine[c] \cap rows = {}
  BY DEF Commit, Requests, Holds, Exclusive
<1>2. <<b, "action">> \in Key /\ <<b, "compensate">> \in Key
  BY DEF Key, Op
<1>3. CASE <<b, "compensate">> \in rows
  <2>1. /\ <<b, "action">> \in rows
        /\ times[<<b, "action">>] = times[<<b, "compensate">>]
    BY <1>3 DEF Paired
  <2>2. ran[c] => req[c] \notin {<<b, "action">>, <<b, "compensate">>}
    BY <1>1, <1>3, <2>1
  <2> QED  BY <1>1, <1>2, <2>1, <2>2
<1>4. CASE <<b, "compensate">> \in mine[c]
  <2>1. req[c] = <<b, "compensate">> /\ OriginKey(c) = <<b, "action">> /\ req[c][2] = "compensate"
    BY <1>1, <1>4, OriginFacts, KeyFacts DEF OriginKey
  <2>2. times[<<b, "compensate">>] = 0 /\ <<b, "compensate">> \notin rows
    BY <1>1, <1>2, <1>4 DEF Counted
  <2>3. CASE ran[c]
    <3>1. <<b, "action">> \in rows
      BY <1>1, <2>1, <2>3 DEF Knows, KnowsOf
    <3>2. times[<<b, "action">>] = 1
      BY <1>2, <2>2, <3>1 DEF Whole, Counted
    <3>3. <<b, "action">> # <<b, "compensate">>
      OBVIOUS
    <3> QED  BY <1>1, <1>2, <2>1, <2>2, <2>3, <3>1, <3>2, <3>3
  <2>4. CASE ~ran[c]
    <3>1. <<b, "action">> \in mine[c]
      BY <1>1, <1>4, <2>1, <2>4 DEF Reasoned
    <3>2. times[<<b, "action">>] = 0
      BY <1>1, <1>2, <3>1 DEF Counted
    <3> QED  BY <1>1, <2>2, <2>4, <3>1, <3>2
  <2> QED  BY <2>3, <2>4
<1> QED  BY <1>1, <1>3, <1>4

LEMMA HandleTruthful ==
  ASSUME IInv, Truthful, NEW c \in Call, BStep(c)
  PROVE  Truthful'
<1> USE DEF IInv, BTypeOK
<1> SUFFICES ASSUME mishaps = {}, ~unheard', NEW d \in Call, req[d] \in Key,
                    req[d][2] = "compensate", result'[d] = "SUCCESS"
             PROVE  /\ pc'[d] \in {"respond", "commit", "ended"}
                    /\ req[d] \in rows' \cup mine'[d]
  BY StepFacts DEF Truthful
<1>1. /\ ~unheard /\ rows \subseteq rows'
      /\ d # c => pc'[d] = pc[d] /\ mine'[d] = mine[d] /\ result'[d] = result[d]
  BY StepFacts DEF Commit
<1>2. result[d] = "SUCCESS" => /\ pc[d] \in {"respond", "commit", "ended"}
                               /\ req[d] \in rows \cup mine[d]
  BY <1>1 DEF Truthful
<1>3. CASE d # c
  BY <1>1, <1>2, <1>3
<1>4. CASE d = c
  <2>1. ~InsertOriginFails(c) /\ ~InsertCurrentFails(c)
    BY DEF InsertOriginFails, InsertCurrentFails
  <2>2. ~DeadlockVictim(c)
    BY <1>4 DEF DeadlockVictim
  <2>3. CASE InsertOrigin(c)
    BY <1>2, <1>4, <2>3 DEF InsertOrigin
  <2>4. CASE InsertCurrent(c)
    <3>1. result[c] # "SUCCESS"
      BY <1>2, <1>4, <2>4 DEF InsertCurrent
    <3>2. result'[c] # result[c] /\ pc'[c] = "respond"
      BY <1>4, <2>4, <3>1 DEF InsertCurrent, Reply, Goto
    <3> QED  BY <1>1, <1>4, <2>4, <3>2 DEF InsertCurrent, InsertBarrier
  <2>5. CASE Busi(c)
    BY <1>1, <1>4, <2>5 DEF Busi, Reply, Goto, Holds, lockVars
  <2>6. CASE BusiThrows(c)
    BY <1>4, <2>6 DEF BusiThrows, Throw, Reply, CatchesAll
  <2>7. CASE Respond(c)
    BY <1>1, <1>2, <1>4, <2>7 DEF Respond, Goto, lockVars
  <2>8. CASE Commit(c)
    BY <1>1, <1>2, <1>4, <2>8 DEF Commit, Goto
  <2>9. CASE Lost(c)
    BY <1>4, <2>9 DEF Lost
  <2> QED  BY <2>1, <2>2, <2>3, <2>4, <2>5, <2>6, <2>7, <2>8, <2>9 DEF BStep
<1> QED  BY <1>3, <1>4

LEMMA HandleKeepsHInv ==
  ASSUME IInv, HInv, NEW c \in Call, BStep(c)
  PROVE  HInv'
<1>1. Paired'
  <2>1. CASE ~Commit(c)
    BY <2>1, StepFacts DEF IInv, HInv, Paired
  <2> QED  BY <2>1, CommitPaired DEF HInv
<1> QED  BY <1>1, HandleRequested, HandleReasoned, HandleTruthful DEF HInv

(* A request that arrives keeps it as well.                                    *)
LEMMA ReceiveKeepsHInv ==
  ASSUME IInv, HInv, NEW c \in Call, NEW k \in Key, Receive(c, k)
  PROVE  HInv'
<1> USE DEF IInv, BTypeOK
<1>1. /\ pc[c] = "free" /\ req' = [req EXCEPT ![c] = k]
      /\ pc' = [pc EXCEPT ![c] = IF k[2] = "compensate" THEN "origin" ELSE "current"]
      /\ UNCHANGED <<rows, times, fresh, mine, ran, result, unheard, mishaps>>
      /\ result[c] = "none"
  BY DEF Receive, Goto, txVars, lockVars, Idleness
<1>2. Requested'
  <2> SUFFICES ASSUME NEW j \in Key, times'[j] # 0
               PROVE  \E d \in Call : pc'[d] # "free" /\ req'[d] = j
    BY DEF Requested
  <2>1. PICK d \in Call : pc[d] # "free" /\ req[d] = j
    BY <1>1 DEF HInv, Requested
  <2> QED  BY <1>1, <2>1
<1>3. Reasoned'
  <2> SUFFICES ASSUME NEW d \in Call, req'[d] \in Key, req'[d][2] = "compensate"
               PROVE  /\ pc'[d] = "current" /\ fresh'[d] => OriginKey(d)' \in mine'[d]
                      /\ pc'[d] \in {"respond", "commit"} /\ req'[d] \in mine'[d]
                             => ran'[d] \/ OriginKey(d)' \in mine'[d]
    BY DEF Reasoned
  <2>1. CASE d = c
    BY <1>1, <2>1
  <2>2. CASE d # c
    BY <1>1, <2>2 DEF HInv, Reasoned, OriginKey
  <2> QED  BY <2>1, <2>2
<1>4. Paired'
  BY <1>1 DEF HInv, Paired
<1>5. Truthful'
  BY <1>1 DEF HInv, Truthful
<1> QED  BY <1>2, <1>3, <1>4, <1>5 DEF HInv

(* The server's way back.  A handler's step takes no answer back.              *)
LEMMA HandleBackward ==
  ASSUME IInv, Backward, NEW c \in Call, BStep(c), UNCHANGED serverVars
  PROVE  Backward'
<1> USE DEF IInv, BTypeOK
<1>1. pc[c] # "free" /\ req' = req /\ phase' = phase /\ at' = at /\ mishaps' = mishaps
  BY StepFacts DEF serverVars
<1>2. \A d \in Call : d # c => pc'[d] = pc[d] /\ result'[d] = result[d]
  BY StepFacts
<1>3. pc[c] \in {"commit", "ended"} => pc'[c] = "ended" /\ result'[c] = result[c]
  BY StepFacts
<1>4. ASSUME NEW b \in Branch, Untouched(b)  PROVE Untouched(b)'
  BY <1>1, <1>2, <1>4 DEF Untouched
<1>5. ASSUME NEW b \in Branch, Compensated(b)  PROVE Compensated(b)'
  <2>1. PICK d \in Call : /\ pc[d] \in {"commit", "ended"} /\ req[d] = <<b, "compensate">>
                          /\ result[d] = "SUCCESS"
    BY <1>5 DEF Compensated
  <2>2. pc'[d] \in {"commit", "ended"} /\ result'[d] = "SUCCESS"
    BY <1>2, <1>3, <2>1
  <2> QED  BY <1>1, <2>1, <2>2 DEF Compensated
<1> QED  BY <1>1, <1>4, <1>5 DEF Backward

(* The server asks only for the branch it is at.                               *)
LEMMA SendBackward ==
  ASSUME IInv, ServerOK, Backward, NEW c \in Call, Send(c)
  PROVE  Backward'
<1> USE DEF IInv, BTypeOK
<1>1. /\ pc[c] = "free" /\ req' = [req EXCEPT ![c] = Pending] /\ Pending[1] = at
      /\ \A d \in Call : d # c => pc'[d] = pc[d]
      /\ UNCHANGED <<phase, at, result, mishaps>>
      /\ phase \in {"acting", "aborting"}
  BY DEF Send, Receive, Goto, Pending, serverVars
<1>2. ASSUME NEW b \in Branch, Untouched(b), b # at  PROVE Untouched(b)'
  <2> SUFFICES ASSUME NEW d \in Call, pc'[d] # "free"  PROVE req'[d][1] # b
    BY DEF Untouched
  <2>1. CASE d = c
    BY <1>1, <1>2, <2>1
  <2>2. CASE d # c
    BY <1>1, <1>2, <2>2 DEF Untouched
  <2> QED  BY <2>1, <2>2
<1>3. ASSUME NEW b \in Branch, Compensated(b)  PROVE Compensated(b)'
  <2>1. PICK d \in Call : /\ pc[d] \in {"commit", "ended"} /\ req[d] = <<b, "compensate">>
                          /\ result[d] = "SUCCESS"
    BY <1>3 DEF Compensated
  <2>2. d # c
    BY <1>1, <2>1
  <2> QED  BY <1>1, <2>1, <2>2 DEF Compensated
<1>4. \A b \in Branch : b > at \/ ~(b <= at) => b # at
  BY BranchFacts DEF ServerOK
<1>5. CASE phase = "acting"
  BY <1>1, <1>2, <1>4, <1>5 DEF Backward
<1>6. CASE phase = "aborting"
  BY <1>1, <1>2, <1>3, <1>4, <1>6 DEF Backward
<1> QED  BY <1>1, <1>5, <1>6

(* Each answer moves it by one branch.                                         *)
LEMMA AnswerBackward ==
  ASSUME ServerOK, Backward, NEW c \in Call, ActionAnswered(c) \/ CompensationAnswered(c)
  PROVE  Backward'
<1>1. /\ mishaps' = mishaps /\ at \in Branch /\ at \in Nat /\ \A b \in Branch : b \in Nat
      /\ \A b \in Branch : (Untouched(b) <=> Untouched(b)') /\ (Compensated(b) <=> Compensated(b)')
  BY BranchFacts DEF ServerOK, ActionAnswered, CompensationAnswered, Untouched, Compensated,
     vars, callVars, lockVars
<1>2. CASE ActionAnswered(c)
  <2>1. phase = "acting" /\ \A b \in Branch : b > at => Untouched(b)
    BY <1>2 DEF ActionAnswered, Backward
  <2>2. CASE phase' = "aborting" /\ at' = at
    BY <1>1, <2>1, <2>2 DEF Backward
  <2>3. CASE phase' = phase /\ at' = at + 1
    BY <1>1, <2>1, <2>3 DEF Backward
  <2>4. CASE phase' = "succeeded"
    BY <2>4 DEF Backward
  <2> QED  BY <1>2, <2>2, <2>3, <2>4 DEF ActionAnswered
<1>3. CASE CompensationAnswered(c)
  <2>1. /\ phase = "aborting" /\ Compensated(at)
        /\ \A b \in Branch : b <= at \/ (mishaps = {} => Compensated(b)) \/ Untouched(b)
    BY <1>3 DEF CompensationAnswered, Answered, Pending, Compensated, Backward
  <2>2. CASE at > 1 /\ phase' = phase /\ at' = at - 1
    <3>1. \A b \in Branch : b <= at => b <= at' \/ b = at
      BY <1>1, <2>2
    <3> QED  BY <1>1, <2>1, <2>2, <3>1 DEF Backward
  <2>3. CASE ~(at > 1) /\ phase' = "failed"
    <3>1. \A b \in Branch : b <= at => b = at
      BY <1>1, <2>3, BranchFacts
    <3> QED  BY <1>1, <2>1, <2>3, <3>1 DEF Backward
  <2> QED  BY <1>3, <2>2, <2>3 DEF CompensationAnswered
<1> QED  BY <1>2, <1>3

LEMMA WInvPreserved == IInv /\ SInv /\ WInv /\ [Next]_sagaVars => WInv'
<1> SUFFICES ASSUME IInv, ServerOK, WInv, [Next]_sagaVars  PROVE WInv'
  BY DEF SInv
<1>1. ASSUME NEW c \in Call, Send(c)  PROVE WInv'
  BY <1>1, PendingIsKey, ReceiveKeepsHInv, SendBackward DEF WInv, Send
<1>2. ASSUME NEW c \in Call, Handle(c)  PROVE WInv'
  BY <1>2, HandleKeepsHInv, HandleBackward DEF WInv, Handle
<1>3. ASSUME NEW c \in Call, ActionAnswered(c) \/ CompensationAnswered(c)  PROVE WInv'
  <2>1. UNCHANGED vars
    BY <1>3 DEF ActionAnswered, CompensationAnswered
  <2>2. HInv'
    BY <2>1 DEF WInv, HInv, Requested, Reasoned, Paired, Truthful, OriginKey, vars, txVars, callVars, lockVars
  <2> QED  BY <1>3, <2>2, AnswerBackward DEF WInv
<1>4. CASE UNCHANGED sagaVars
  BY <1>4 DEF WInv, HInv, Requested, Reasoned, Paired, Truthful, OriginKey, Backward, Untouched,
     Compensated, sagaVars, serverVars, vars, txVars, callVars, lockVars
<1> QED  BY <1>1, <1>2, <1>3, <1>4 DEF Next

(* A saga that failed has undone all it did when its calls have ended, if      *)
(* nothing but requests and responses was lost and no compensation to a        *)
(* deadlock: its handlers compensate each branch that acted, and no other,     *)
(* whatever is repeated, late or overtaken.                                    *)
THEOREM FailedSagaLeavesNothing == Spec => []NothingLeftWhenWell
<1>1. Init => WInv
  <2> SUFFICES ASSUME Init  PROVE WInv
    OBVIOUS
  <2>1. HInv
    BY DEF Init, BInit, HInv, Requested, Reasoned, Paired, Truthful
  <2>2. Backward
    BY DEF Init, BInit, Backward, Untouched
  <2> QED  BY <2>1, <2>2 DEF WInv
<1>2. IInv /\ SInv /\ WInv => NothingLeftWhenWell
  <2> SUFFICES ASSUME IInv, WInv, mishaps = {}, ~unheard, phase = "failed", Idle, NEW b \in Branch
               PROVE  times[<<b, "action">>] = times[<<b, "compensate">>]
    BY DEF NothingLeftWhenWell, NothingLeft
  <2>1. <<b, "action">> \in Key /\ <<b, "compensate">> \in Key
    BY DEF Key, Op
  <2>2. CASE Compensated(b)
    <3>1. PICK c \in Call : /\ pc[c] \in {"commit", "ended"} /\ req[c] = <<b, "compensate">>
                            /\ result[c] = "SUCCESS"
      BY <2>2 DEF Compensated
    <3>2. pc[c] = "ended" /\ mine[c] = {}
      BY <3>1 DEF Idle, IInv, Idleness
    <3>3. <<b, "compensate">> \in rows
      BY <2>1, <3>1, <3>2 DEF WInv, HInv, Truthful
    <3> QED  BY <3>3 DEF WInv, HInv, Paired
  <2>3. CASE Untouched(b)
    <3>1. ASSUME NEW k \in Key, k[1] = b, times[k] # 0  PROVE FALSE
      BY <2>3, <3>1 DEF WInv, HInv, Requested, Untouched
    <3> QED  BY <2>1, <3>1
  <2> QED  BY <2>2, <2>3 DEF WInv, Backward
<1> QED  BY <1>1, <1>2, WInvPreserved, SagaInvariant, PTL DEF Spec
=============================================================================
