------------------------------- MODULE CacheProofs -----------------------------
(* Proofs about CacheAside, for any number of queries and commands.            *)
EXTENDS CacheAside, TLAPS

(* A query between its lock and its exit holds the lock, unless it gave up on  *)
(* it.                                                                         *)
Guarded == {"recheck", "reget", "body", "success", "exit"}
HoldsLock == ~returnsTask =>
    \A r \in Reader : rpc[r] \in Guarded /\ r \notin timedOut => lock = r

(* A query that has run its body has an answer to store.                       *)
HasLoaded == \A r \in Reader : rpc[r] \in {"success", "exit"} => loaded[r] \in Nat

(* Until its body has run a query has neither loaded nor answered, and until   *)
(* OnExit it has not answered, except that the caller of one that returned its *)
(* Task has the answer as soon as the task ends.                               *)
Asking == {"entry", "get", "locking", "recheck", "reget", "body", "task"}
NotServed == \A r \in Reader :
    /\ rpc[r] \in Asking => loaded[r] = Absent /\ answer[r] = Absent
    /\ rpc[r] = "success" /\ ~returnsTask => answer[r] = Absent
    /\ rpc[r] = "exit" => ~returnsTask /\ answer[r] = Absent

(* Writes that a key has outlived are written down while it is there, and a    *)
(* command that writes before it clears is not through with them.              *)
AtClearing == {"scan", "unlink", "failed"}
CauseKept ==
    /\ ~Present => outlived = {}
    /\ Present /\ cache.version # db /\ ~lateSet => outlived # {}
    /\ ~taskCommand => writing = {}
    /\ ~isBefore /\ ~taskCommand => \A w \in outlived : wpc[w] \in AtClearing

IInv == TypeOK /\ HoldsLock /\ HasLoaded /\ NotServed /\ CauseKept

(* The invariant survives a reader's Exists.                                   *)
LEMMA ExistsPreserves ==
  ASSUME IInv, NEW r \in Reader, Exists(r)
  PROVE  IInv'
<1> USE CacheAssumption DEF IInv, TypeOK, Rpcs, Wpcs, Asking, Null, readerVars, writerVars, fixedVars, history
<1>1. TypeOK'
  BY DEF Exists, Goto, HasLoaded
<1>2. HoldsLock'
  BY DEF Exists, Goto, HoldsLock, Guarded
<1>3. HasLoaded'
  BY DEF Exists, Goto, HasLoaded
<1>4. CauseKept'
  BY DEF Exists, Goto, CauseKept, AtClearing, Present
<1>5. NotServed'
  BY DEF Exists, Goto, NotServed
<1> QED  BY <1>1, <1>2, <1>3, <1>4, <1>5

(* The invariant survives a reader's Get.                                      *)
LEMMA GetPreserves ==
  ASSUME IInv, NEW r \in Reader, Get(r)
  PROVE  IInv'
<1> USE CacheAssumption DEF IInv, TypeOK, Rpcs, Wpcs, Asking, Null, readerVars, writerVars, fixedVars, history
<1>1. TypeOK'
  BY DEF Get, Goto, Answer, Cached, Present, HasLoaded
<1>2. HoldsLock'
  BY DEF Get, Goto, Answer, Cached, Present, HoldsLock, Guarded
<1>3. HasLoaded'
  BY DEF Get, Goto, Answer, Cached, Present, HasLoaded
<1>4. CauseKept'
  BY DEF Get, Goto, Answer, Cached, Present, CauseKept, AtClearing
<1>5. NotServed'
  BY DEF Get, Goto, Answer, Cached, Present, NotServed
<1> QED  BY <1>1, <1>2, <1>3, <1>4, <1>5

(* The invariant survives a reader's AcquireLock.                              *)
LEMMA AcquireLockPreserves ==
  ASSUME IInv, NEW r \in Reader, AcquireLock(r)
  PROVE  IInv'
<1> USE CacheAssumption DEF IInv, TypeOK, Rpcs, Wpcs, Asking, Null, readerVars, writerVars, fixedVars, history
<1>1. TypeOK'
  BY DEF AcquireLock, Goto, HasLoaded
<1>2. HoldsLock'
  BY DEF AcquireLock, Goto, HoldsLock, Guarded
<1>3. HasLoaded'
  BY DEF AcquireLock, Goto, HasLoaded
<1>4. CauseKept'
  BY DEF AcquireLock, Goto, CauseKept, AtClearing, Present
<1>5. NotServed'
  BY DEF AcquireLock, Goto, NotServed
<1> QED  BY <1>1, <1>2, <1>3, <1>4, <1>5

(* The invariant survives a reader's LockTimeout.                              *)
LEMMA LockTimeoutPreserves ==
  ASSUME IInv, NEW r \in Reader, LockTimeout(r)
  PROVE  IInv'
<1> USE CacheAssumption DEF IInv, TypeOK, Rpcs, Wpcs, Asking, Null, readerVars, writerVars, fixedVars, history
<1>1. TypeOK'
  BY DEF LockTimeout, Goto, HasLoaded
<1>2. HoldsLock'
  BY DEF LockTimeout, Goto, HoldsLock, Guarded
<1>3. HasLoaded'
  BY DEF LockTimeout, Goto, HasLoaded
<1>4. CauseKept'
  BY DEF LockTimeout, Goto, CauseKept, AtClearing, Present
<1>5. NotServed'
  BY DEF LockTimeout, Goto, NotServed
<1> QED  BY <1>1, <1>2, <1>3, <1>4, <1>5

(* The invariant survives a reader's ExistsAgain.                              *)
LEMMA ExistsAgainPreserves ==
  ASSUME IInv, NEW r \in Reader, ExistsAgain(r)
  PROVE  IInv'
<1> USE CacheAssumption DEF IInv, TypeOK, Rpcs, Wpcs, Asking, Null, readerVars, writerVars, fixedVars, history
<1>1. TypeOK'
  BY DEF ExistsAgain, Goto, HasLoaded
<1>2. HoldsLock'
  BY DEF ExistsAgain, Goto, HoldsLock, Guarded
<1>3. HasLoaded'
  BY DEF ExistsAgain, Goto, HasLoaded
<1>4. CauseKept'
  BY DEF ExistsAgain, Goto, CauseKept, AtClearing, Present
<1>5. NotServed'
  BY DEF ExistsAgain, Goto, NotServed
<1> QED  BY <1>1, <1>2, <1>3, <1>4, <1>5

(* The invariant survives a reader's GetAgain.                                 *)
LEMMA GetAgainPreserves ==
  ASSUME IInv, NEW r \in Reader, GetAgain(r)
  PROVE  IInv'
<1> USE CacheAssumption DEF IInv, TypeOK, Rpcs, Wpcs, Asking, Null, readerVars, writerVars, fixedVars, history
<1>1. TypeOK'
  BY DEF GetAgain, Goto, Answer, Cached, Unlock, Present, HasLoaded
<1>2. HoldsLock'
  BY DEF GetAgain, Goto, Answer, Cached, Unlock, Present, HoldsLock, Guarded
<1>3. HasLoaded'
  BY DEF GetAgain, Goto, Answer, Cached, Unlock, Present, HasLoaded
<1>4. CauseKept'
  BY DEF GetAgain, Goto, Answer, Cached, Unlock, Present, CauseKept, AtClearing
<1>5. NotServed'
  BY DEF GetAgain, Goto, Answer, Cached, Unlock, Present, NotServed
<1> QED  BY <1>1, <1>2, <1>3, <1>4, <1>5

(* The invariant survives a reader's GetThrows.                                *)
LEMMA GetThrowsPreserves ==
  ASSUME IInv, NEW r \in Reader, GetThrows(r)
  PROVE  IInv'
<1> USE CacheAssumption DEF IInv, TypeOK, Rpcs, Wpcs, Asking, Null, readerVars, writerVars, fixedVars, history
<1>1. TypeOK'
  BY DEF GetThrows, Goto, HasLoaded
<1>2. HoldsLock'
  BY DEF GetThrows, Goto, HoldsLock, Guarded
<1>3. HasLoaded'
  BY DEF GetThrows, Goto, HasLoaded
<1>4. CauseKept'
  BY DEF GetThrows, Goto, CauseKept, AtClearing, Present
<1>5. NotServed'
  BY DEF GetThrows, Goto, NotServed
<1> QED  BY <1>1, <1>2, <1>3, <1>4, <1>5

(* The invariant survives a reader's EntryThrows.                              *)
LEMMA EntryThrowsPreserves ==
  ASSUME IInv, NEW r \in Reader, EntryThrows(r)
  PROVE  IInv'
<1> USE CacheAssumption DEF IInv, TypeOK, Rpcs, Wpcs, Asking, Null, readerVars, writerVars, fixedVars, history
<1>1. TypeOK'
  BY DEF EntryThrows, Goto, HasLoaded
<1>2. HoldsLock'
  BY DEF EntryThrows, Goto, HoldsLock, Guarded
<1>3. HasLoaded'
  BY DEF EntryThrows, Goto, HasLoaded
<1>4. CauseKept'
  BY DEF EntryThrows, Goto, CauseKept, AtClearing, Present
<1>5. NotServed'
  BY DEF EntryThrows, Goto, NotServed
<1> QED  BY <1>1, <1>2, <1>3, <1>4, <1>5

(* The invariant survives a reader's ReturnTask.                               *)
LEMMA ReturnTaskPreserves ==
  ASSUME IInv, NEW r \in Reader, ReturnTask(r)
  PROVE  IInv'
<1> USE CacheAssumption DEF IInv, TypeOK, Rpcs, Wpcs, Asking, Null, readerVars, writerVars, fixedVars, history
<1>1. TypeOK'
  BY DEF ReturnTask, Goto, Unlock, HasLoaded
<1>2. HoldsLock'
  BY DEF ReturnTask, Goto, Unlock, HoldsLock, Guarded
<1>3. HasLoaded'
  BY DEF ReturnTask, Goto, Unlock, HasLoaded
<1>4. CauseKept'
  BY DEF ReturnTask, Goto, Unlock, CauseKept, AtClearing, Present
<1>5. NotServed'
  BY DEF ReturnTask, Goto, Unlock, NotServed
<1> QED  BY <1>1, <1>2, <1>3, <1>4, <1>5

(* The invariant survives a reader's Load.                                     *)
LEMMA LoadPreserves ==
  ASSUME IInv, NEW r \in Reader, Load(r)
  PROVE  IInv'
<1> USE CacheAssumption DEF IInv, TypeOK, Rpcs, Wpcs, Asking, Null, readerVars, writerVars, fixedVars, history
<1>1. TypeOK'
  BY DEF Load, Goto, HasLoaded
<1>2. HoldsLock'
  BY DEF Load, Goto, HoldsLock, Guarded
<1>3. HasLoaded'
  BY DEF Load, Goto, HasLoaded
<1>4. CauseKept'
  BY DEF Load, Goto, CauseKept, AtClearing, Present
<1>5. NotServed'
  BY DEF Load, Goto, NotServed
<1> QED  BY <1>1, <1>2, <1>3, <1>4, <1>5

(* The invariant survives a reader's BodyThrows.                               *)
LEMMA BodyThrowsPreserves ==
  ASSUME IInv, NEW r \in Reader, BodyThrows(r)
  PROVE  IInv'
<1> USE CacheAssumption DEF IInv, TypeOK, Rpcs, Wpcs, Asking, Null, readerVars, writerVars, fixedVars, history
<1>1. TypeOK'
  BY DEF BodyThrows, Goto, Unlock, HasLoaded
<1>2. HoldsLock'
  BY DEF BodyThrows, Goto, Unlock, HoldsLock, Guarded
<1>3. HasLoaded'
  BY DEF BodyThrows, Goto, Unlock, HasLoaded
<1>4. CauseKept'
  BY DEF BodyThrows, Goto, Unlock, CauseKept, AtClearing, Present
<1>5. NotServed'
  BY DEF BodyThrows, Goto, Unlock, NotServed
<1> QED  BY <1>1, <1>2, <1>3, <1>4, <1>5

(* The invariant survives a reader's OnSuccess.                                *)
LEMMA OnSuccessPreserves ==
  ASSUME IInv, NEW r \in Reader, OnSuccess(r)
  PROVE  IInv'
<1> USE CacheAssumption DEF IInv, TypeOK, Rpcs, Wpcs, Asking, Null, readerVars, writerVars, fixedVars, history
<1>1. TypeOK'
  BY DEF OnSuccess, Goto, SetCache, HasLoaded
<1>2. HoldsLock'
  BY DEF OnSuccess, Goto, SetCache, HoldsLock, Guarded
<1>3. HasLoaded'
  BY DEF OnSuccess, Goto, SetCache, HasLoaded
<1>4. CauseKept'
  <2>1. PICK t \in Ttls : cache' = [version |-> loaded[r], ttl |-> t]
    BY DEF OnSuccess, SetCache
  <2>2. cache'.version = loaded[r] /\ db' = db /\ lateSet' = (loaded[r] # db)
    BY <2>1 DEF OnSuccess
  <2> QED  BY <2>2 DEF CauseKept, OnSuccess
<1>5. NotServed'
  BY DEF OnSuccess, Goto, SetCache, NotServed
<1> QED  BY <1>1, <1>2, <1>3, <1>4, <1>5

(* The invariant survives a failing Set.                                       *)
LEMMA SetThrowsPreserves ==
  ASSUME IInv, NEW r \in Reader, SetThrows(r)
  PROVE  IInv'
<1> USE CacheAssumption DEF IInv, TypeOK, Rpcs, Wpcs, Asking, Null, readerVars, writerVars, fixedVars, history
<1>1. TypeOK'
  BY DEF SetThrows, Goto, Unlock, HasLoaded
<1>2. HoldsLock'
  BY DEF SetThrows, Goto, Unlock, HoldsLock, Guarded
<1>3. HasLoaded'
  BY DEF SetThrows, Goto, Unlock, HasLoaded
<1>4. CauseKept'
  BY DEF SetThrows, Goto, Unlock, CauseKept, AtClearing, Present
<1>5. NotServed'
  BY DEF SetThrows, Goto, Unlock, NotServed
<1> QED  BY <1>1, <1>2, <1>3, <1>4, <1>5

(* The invariant survives a reader's Await.                                    *)
LEMMA AwaitPreserves ==
  ASSUME IInv, NEW r \in Reader, Await(r)
  PROVE  IInv'
<1> USE CacheAssumption DEF IInv, TypeOK, Rpcs, Wpcs, Asking, Null, readerVars, writerVars, fixedVars, history
<1>1. TypeOK'
  BY DEF Await, HasLoaded
<1>2. HoldsLock'
  BY DEF Await, HoldsLock, Guarded
<1>3. HasLoaded'
  BY DEF Await, HasLoaded
<1>4. CauseKept'
  BY DEF Await, CauseKept, AtClearing, Present
<1>5. NotServed'
  BY DEF Await, NotServed
<1> QED  BY <1>1, <1>2, <1>3, <1>4, <1>5

(* The invariant survives a reader's OnExit.                                   *)
LEMMA OnExitPreserves ==
  ASSUME IInv, NEW r \in Reader, OnExit(r)
  PROVE  IInv'
<1> USE CacheAssumption DEF IInv, TypeOK, Rpcs, Wpcs, Asking, Null, readerVars, writerVars, fixedVars, history
<1>1. TypeOK'
  BY DEF OnExit, Goto, Answer, Unlock, HasLoaded
<1>2. HoldsLock'
  BY DEF OnExit, Goto, Answer, Unlock, HoldsLock, Guarded
<1>3. HasLoaded'
  BY DEF OnExit, Goto, Answer, Unlock, HasLoaded
<1>4. CauseKept'
  BY DEF OnExit, Goto, Answer, Unlock, CauseKept, AtClearing, Present
<1>5. NotServed'
  BY DEF OnExit, Goto, Answer, Unlock, NotServed
<1> QED  BY <1>1, <1>2, <1>3, <1>4, <1>5

(* The invariant survives a writer's Write.                                    *)
LEMMA WritePreserves ==
  ASSUME IInv, NEW w \in Writer, Write(w)
  PROVE  IInv'
<1> USE CacheAssumption DEF IInv, TypeOK, Rpcs, Wpcs, Asking, Null, readerVars, writerVars, fixedVars, history
<1>1. TypeOK'
  BY DEF Write, Store, AfterBody, GotoW, HasLoaded
<1>2. HoldsLock'
  BY DEF Write, Store, AfterBody, GotoW, HoldsLock, Guarded
<1>3. HasLoaded'
  BY DEF Write, Store, AfterBody, GotoW, HasLoaded
<1>4. CauseKept'
  BY DEF Write, Store, AfterBody, GotoW, CauseKept, AtClearing, Present
<1>5. NotServed'
  BY DEF Write, Store, AfterBody, GotoW, NotServed
<1> QED  BY <1>1, <1>2, <1>3, <1>4, <1>5

(* The invariant survives a writer's ReturnsTask.                            *)
LEMMA ReturnsTaskPreserves ==
  ASSUME IInv, NEW w \in Writer, ReturnsTask(w)
  PROVE  IInv'
<1> USE CacheAssumption DEF IInv, TypeOK, Rpcs, Wpcs, Asking, Null, readerVars, writerVars, fixedVars, history
<1>1. TypeOK'
  BY DEF ReturnsTask, AfterBody, GotoW, HasLoaded
<1>2. HoldsLock'
  BY DEF ReturnsTask, AfterBody, GotoW, HoldsLock, Guarded
<1>3. HasLoaded'
  BY DEF ReturnsTask, AfterBody, GotoW, HasLoaded
<1>4. CauseKept'
  BY DEF ReturnsTask, AfterBody, GotoW, CauseKept, AtClearing, Present
<1>5. NotServed'
  BY DEF ReturnsTask, AfterBody, GotoW, NotServed
<1> QED  BY <1>1, <1>2, <1>3, <1>4, <1>5

(* The invariant survives a writer's TaskWrites.                             *)
LEMMA TaskWritesPreserves ==
  ASSUME IInv, NEW w \in Writer, TaskWrites(w)
  PROVE  IInv'
<1> USE CacheAssumption DEF IInv, TypeOK, Rpcs, Wpcs, Asking, Null, readerVars, writerVars, fixedVars, history
<1>1. TypeOK'
  BY DEF TaskWrites, Store, HasLoaded
<1>2. HoldsLock'
  BY DEF TaskWrites, Store, HoldsLock, Guarded
<1>3. HasLoaded'
  BY DEF TaskWrites, Store, HasLoaded
<1>4. CauseKept'
  BY DEF TaskWrites, Store, CauseKept, AtClearing, Present
<1>5. NotServed'
  BY DEF TaskWrites, Store, NotServed
<1> QED  BY <1>1, <1>2, <1>3, <1>4, <1>5

(* The invariant survives a writer's WriteThrows.                              *)
LEMMA WriteThrowsPreserves ==
  ASSUME IInv, NEW w \in Writer, WriteThrows(w)
  PROVE  IInv'
<1> USE CacheAssumption DEF IInv, TypeOK, Rpcs, Wpcs, Asking, Null, readerVars, writerVars, fixedVars, history
<1>1. TypeOK'
  BY DEF WriteThrows, GotoW, HasLoaded
<1>2. HoldsLock'
  BY DEF WriteThrows, GotoW, HoldsLock, Guarded
<1>3. HasLoaded'
  BY DEF WriteThrows, GotoW, HasLoaded
<1>4. CauseKept'
  BY DEF WriteThrows, GotoW, CauseKept, AtClearing, Present
<1>5. NotServed'
  BY DEF WriteThrows, GotoW, NotServed
<1> QED  BY <1>1, <1>2, <1>3, <1>4, <1>5

(* The invariant survives a writer's TaskThrows.                              *)
LEMMA TaskThrowsPreserves ==
  ASSUME IInv, NEW w \in Writer, TaskThrows(w)
  PROVE  IInv'
<1> USE CacheAssumption DEF IInv, TypeOK, Rpcs, Wpcs, Asking, Null, readerVars, writerVars, fixedVars, history
<1>1. TypeOK'
  BY DEF TaskThrows, HasLoaded
<1>2. HoldsLock'
  BY DEF TaskThrows, HoldsLock, Guarded
<1>3. HasLoaded'
  BY DEF TaskThrows, HasLoaded
<1>4. CauseKept'
  BY DEF TaskThrows, CauseKept, AtClearing, Present
<1>5. NotServed'
  BY DEF TaskThrows, NotServed
<1> QED  BY <1>1, <1>2, <1>3, <1>4, <1>5

(* The invariant survives a writer's Scan.                                     *)
LEMMA ScanPreserves ==
  ASSUME IInv, NEW w \in Writer, Scan(w)
  PROVE  IInv'
<1> USE CacheAssumption DEF IInv, TypeOK, Rpcs, Wpcs, Asking, Null, readerVars, writerVars, fixedVars, history
<1>1. TypeOK'
  BY DEF Scan, GotoW, AfterClear, HasLoaded
<1>2. HoldsLock'
  BY DEF Scan, GotoW, AfterClear, HoldsLock, Guarded
<1>3. HasLoaded'
  BY DEF Scan, GotoW, AfterClear, HasLoaded
<1>4. CauseKept'
  BY DEF Scan, GotoW, AfterClear, CauseKept, AtClearing, Present
<1>5. NotServed'
  BY DEF Scan, GotoW, AfterClear, NotServed
<1> QED  BY <1>1, <1>2, <1>3, <1>4, <1>5

(* The invariant survives a writer's UnLink.                                   *)
LEMMA UnLinkPreserves ==
  ASSUME IInv, NEW w \in Writer, UnLink(w)
  PROVE  IInv'
<1> USE CacheAssumption DEF IInv, TypeOK, Rpcs, Wpcs, Asking, Null, readerVars, writerVars, fixedVars, history
<1>1. TypeOK'
  BY DEF UnLink, GotoW, AfterClear, HasLoaded
<1>2. HoldsLock'
  BY DEF UnLink, GotoW, AfterClear, HoldsLock, Guarded
<1>3. HasLoaded'
  BY DEF UnLink, GotoW, AfterClear, HasLoaded
<1>4. CauseKept'
  BY DEF UnLink, GotoW, AfterClear, CauseKept, AtClearing, Present
<1>5. NotServed'
  BY DEF UnLink, GotoW, AfterClear, NotServed
<1> QED  BY <1>1, <1>2, <1>3, <1>4, <1>5

(* The invariant survives a writer's ClearThrows.                              *)
LEMMA ClearThrowsPreserves ==
  ASSUME IInv, NEW w \in Writer, ClearThrows(w)
  PROVE  IInv'
<1> USE CacheAssumption DEF IInv, TypeOK, Rpcs, Wpcs, Asking, Null, readerVars, writerVars, fixedVars, history
<1>1. TypeOK'
  BY DEF ClearThrows, GotoW, HasLoaded
<1>2. HoldsLock'
  BY DEF ClearThrows, GotoW, HoldsLock, Guarded
<1>3. HasLoaded'
  BY DEF ClearThrows, GotoW, HasLoaded
<1>4. CauseKept'
  BY DEF ClearThrows, GotoW, CauseKept, AtClearing, Present
<1>5. NotServed'
  BY DEF ClearThrows, GotoW, NotServed
<1> QED  BY <1>1, <1>2, <1>3, <1>4, <1>5

(* The invariant survives the expiration of the key.                           *)
LEMMA ExpirePreserves ==
  ASSUME IInv, Expire
  PROVE  IInv'
<1> USE CacheAssumption DEF IInv, TypeOK, Rpcs, Wpcs, Asking, Null, readerVars, writerVars, fixedVars, history
<1>1. TypeOK'
  BY DEF Expire, HasLoaded
<1>2. HoldsLock'
  BY DEF Expire, HoldsLock, Guarded
<1>3. HasLoaded'
  BY DEF Expire, HasLoaded
<1>4. CauseKept'
  BY DEF Expire, CauseKept, AtClearing, Present
<1>5. NotServed'
  BY DEF Expire, NotServed
<1> QED  BY <1>1, <1>2, <1>3, <1>4, <1>5

(* The invariant holds at first.                                               *)
LEMMA InitEstablishes == Init => IInv
<1> SUFFICES ASSUME Init  PROVE IInv
  OBVIOUS
<1>1. TypeOK
  BY CacheAssumption DEF Init, TypeOK, Rpcs, Wpcs
<1>2. HoldsLock /\ HasLoaded /\ NotServed /\ CauseKept
  BY DEF Init, HoldsLock, Guarded, HasLoaded, NotServed, Asking, CauseKept, Present
<1> QED  BY <1>1, <1>2 DEF IInv

(* It survives the steps of others.                                            *)
LEMMA StutterPreserves == IInv /\ UNCHANGED vars => IInv'
BY DEF IInv, TypeOK, HoldsLock, HasLoaded, NotServed, CauseKept, Present, vars, readerVars, writerVars, fixedVars, history

(* The invariant is inductive.                                                 *)
LEMMA NextPreserves == IInv /\ [Next]_vars => IInv'
<1> SUFFICES ASSUME IInv, [Next]_vars  PROVE IInv'
  OBVIOUS
<1>1. ASSUME NEW r \in Reader, ReaderStep(r)  PROVE IInv'
  BY <1>1, ExistsPreserves, GetPreserves, GetThrowsPreserves, AcquireLockPreserves, LockTimeoutPreserves, ExistsAgainPreserves, GetAgainPreserves, EntryThrowsPreserves, ReturnTaskPreserves, LoadPreserves, BodyThrowsPreserves, OnSuccessPreserves, SetThrowsPreserves, OnExitPreserves, AwaitPreserves
     DEF ReaderStep, ReaderRuns
<1>2. ASSUME NEW w \in Writer, WriterStep(w)  PROVE IInv'
  BY <1>2, WritePreserves, ReturnsTaskPreserves, TaskWritesPreserves, WriteThrowsPreserves,
     TaskThrowsPreserves, ScanPreserves, UnLinkPreserves, ClearThrowsPreserves
     DEF WriterStep, WriterRuns
<1> QED  BY <1>1, <1>2, ExpirePreserves, StutterPreserves DEF Next

(* In every behaviour, who holds the lock and what the key holds agree with    *)
(* where the calls are.                                                        *)
THEOREM Invariant == Spec => []IInv
<1> QED  BY InitEstablishes, NextPreserves, PTL DEF Spec

(* The variables keep their types.                                             *)
THEOREM TypeCorrect == Spec => []TypeOK
<1>1. IInv => TypeOK
  BY DEF IInv
<1> QED  BY <1>1, Invariant, PTL

(* Two calls of the query are at the database for one key only if one of them  *)
(* gave up on the lock.                                                        *)
THEOREM LoadersExclude == Spec => []SingleLoader
<1>1. IInv => SingleLoader
  BY DEF IInv, HoldsLock, Guarded, SingleLoader, Loading
<1> QED  BY <1>1, Invariant, PTL

(* What is left of a row from before a command was put there after it, or a    *)
(* command that wrote since is still to clear it or failed to, unless commands *)
(* may clear before they write.                                                *)
THEOREM StaleEntriesHaveACause == Spec => []StaleHasACause
<1>1. IInv => StaleHasACause
  BY DEF IInv, CauseKept, AtClearing, StaleHasACause
<1> QED  BY <1>1, Invariant, PTL

(* With more than a second of it, an expiration never comes to 0 s, which the  *)
(* client library takes for none: every entry has a time to live.              *)
THEOREM EntriesExpire ==
  ASSUME ExpireSec >= 2
  PROVE  Spec => [](Present => cache.ttl > 0)
<1>1. Ttls \subseteq Nat \ {0}
  <2>1. (8 * ExpireSec) \div 10 >= 1
    BY CacheAssumption
  <2> QED  BY <2>1, CacheAssumption DEF Ttls
<1>2. IInv => (Present => cache.ttl > 0)
  <2> SUFFICES ASSUME IInv, Present  PROVE cache.ttl > 0
    OBVIOUS
  <2>1. cache.ttl \in Ttls
    BY DEF IInv, TypeOK, Present
  <2>2. \A t \in Nat \ {0} : t > 0
    OBVIOUS
  <2> QED  BY <2>1, <2>2, <1>1
<1> QED  BY <1>2, Invariant, PTL

--------------------------------------------------------------------------------
(* CacheAside implements CachedQuery.  A step that the callers are promised    *)
(* nothing about is a stutter there.                                           *)
Entry == IF Present THEN cache.version ELSE Absent
Found == {r \in Reader : rpc[r] \in {"get", "reget"}}
Stored == {r \in Reader : rpc[r] \in {"exit", "done"} /\ loaded[r] # Absent}

(* A present key holds a version, which is never Absent.                       *)
LEMMA EntryIsVersion == IInv => (Present <=> Entry # Absent)
BY CacheAssumption DEF IInv, TypeOK, Present, Entry

(* The first state of the cache is one of the promise.                         *)
LEMMA InitImplements == Init => Promise!Init
BY DEF Init, Promise!Init, Present

(* Exists, and Exists after the lock, find the key or leave the call asking.   *)
LEMMA ExistsImplements ==
  ASSUME IInv, NEW r \in Reader, Exists(r) \/ ExistsAgain(r)
  PROVE  Promise!Find(r) \/ UNCHANGED Promise!vars
<1>1. Entry' = Entry /\ Stored' = Stored /\ UNCHANGED <<db, loaded, answer>>
  BY DEF Exists, ExistsAgain, Goto, IInv, TypeOK, Entry, Present, Stored
<1>2. r \notin Found /\ loaded[r] = Absent /\ answer[r] = Absent
  BY DEF Exists, ExistsAgain, IInv, NotServed, Asking, Found
<1>3. CASE Present
  <2>1. Found' = Found \cup {r}
    BY <1>3 DEF Exists, ExistsAgain, Goto, IInv, TypeOK, Found
  <2>2. Entry # Absent
    BY <1>3, EntryIsVersion
  <2> QED  BY <1>1, <1>2, <2>1, <2>2 DEF Promise!Find, Promise!Fresh, Entry, Found, Stored
<1>4. CASE ~Present
  <2>1. Found' = Found
    BY <1>4 DEF Exists, ExistsAgain, Goto, IInv, TypeOK, Found
  <2> QED  BY <1>1, <2>1 DEF Promise!vars, Entry, Found, Stored
<1> QED  BY <1>3, <1>4

(* Get answers with the entry, or with nothing when that has gone.             *)
LEMMA GetImplements ==
  ASSUME IInv, NEW r \in Reader, Get(r) \/ GetAgain(r)
  PROVE  Promise!AnswerFound(r)
<1>1. Entry' = Entry /\ UNCHANGED <<db, loaded>>
  BY DEF Get, GetAgain, Entry, Present
<1>2. rpc[r] \in {"get", "reget"} /\ rpc' = [rpc EXCEPT ![r] = "done"]
  BY DEF Get, GetAgain, Answer, Goto
<1>3. r \in Found /\ Found' = Found \ {r}
  BY <1>2 DEF IInv, TypeOK, Found
<1>4. Stored' = Stored
  BY <1>1, <1>2 DEF IInv, TypeOK, NotServed, Asking, Stored
<1>5. answer' = [answer EXCEPT ![r] = IF Entry = Absent THEN Null ELSE Entry]
  <2>1. Cached = IF Entry = Absent THEN Null ELSE Entry
    BY EntryIsVersion DEF Cached, Entry
  <2> QED  BY <2>1 DEF Get, GetAgain, Answer
<1> QED  BY <1>1, <1>3, <1>4, <1>5 DEF Promise!AnswerFound, Entry, Found, Stored

(* A call that fails before its body has run has no answer.                    *)
LEMMA EntryThrowsImplements ==
  ASSUME IInv, NEW r \in Reader, EntryThrows(r) \/ GetThrows(r)
  PROVE  Promise!Fail(r) \/ UNCHANGED Promise!vars
<1>1. Entry' = Entry /\ UNCHANGED <<db, loaded, answer>>
  BY DEF EntryThrows, GetThrows, Entry, Present
<1>2. rpc[r] \in Asking /\ rpc' = [rpc EXCEPT ![r] = "failed"]
  BY DEF EntryThrows, GetThrows, Goto, Asking
<1>3. Stored' = Stored
  BY <1>1, <1>2 DEF IInv, TypeOK, Asking, Stored
<1>4. Found' = Found \ {r}
  BY <1>2 DEF IInv, TypeOK, Found
<1>5. CASE r \in Found
  BY <1>1, <1>3, <1>4, <1>5 DEF Promise!Fail, Entry, Found, Stored
<1>6. CASE r \notin Found
  <2>1. Found' = Found
    BY <1>4, <1>6
  <2> QED  BY <1>1, <1>3, <2>1 DEF Promise!vars, Entry, Found, Stored
<1> QED  BY <1>5, <1>6

(* Waiting for the lock and having it, giving it up, failing to load or to     *)
(* store: the callers are promised nothing about these.                        *)
LEMMA SilentImplements ==
  ASSUME IInv, NEW r \in Reader,
         AcquireLock(r) \/ LockTimeout(r) \/ ReturnTask(r) \/ BodyThrows(r) \/ SetThrows(r)
  PROVE  UNCHANGED Promise!vars
<1>1. UNCHANGED <<db, cache, loaded, answer>>
  BY DEF AcquireLock, LockTimeout, ReturnTask, BodyThrows, SetThrows
<1>2. PICK p \in {"recheck", "task", "failed"} : rpc' = [rpc EXCEPT ![r] = p]
  BY DEF AcquireLock, LockTimeout, ReturnTask, BodyThrows, SetThrows, Goto
<1>3. rpc[r] \in {"locking", "body", "task", "success"}
  BY DEF AcquireLock, LockTimeout, ReturnTask, BodyThrows, SetThrows
<1>4. Entry' = Entry
  BY <1>1 DEF Entry, Present
<1>5. Found' = Found /\ Stored' = Stored
  BY <1>1, <1>2, <1>3 DEF IInv, TypeOK, Found, Stored
<1> QED  BY <1>1, <1>4, <1>5 DEF Promise!vars, Entry, Found, Stored

(* The body loads the row that is there.                                       *)
LEMMA LoadImplements ==
  ASSUME IInv, NEW r \in Reader, Load(r)
  PROVE  Promise!Load(r)
<1>1. Entry' = Entry /\ UNCHANGED <<db, answer>>
  BY DEF Load, Entry, Present
<1>2. rpc[r] \in {"body", "task"} /\ rpc' = [rpc EXCEPT ![r] = "success"]
  BY DEF Load, Goto
<1>3. loaded' = [loaded EXCEPT ![r] = db]
  BY DEF Load
<1>4. r \notin Found /\ Found' = Found /\ Stored' = Stored
  BY <1>2, <1>3 DEF IInv, TypeOK, Found, Stored
<1>5. loaded[r] = Absent /\ answer[r] = Absent
  BY <1>2 DEF IInv, NotServed, Asking
<1> QED  BY <1>1, <1>3, <1>4, <1>5 DEF Promise!Load, Promise!Fresh, Entry, Found, Stored

(* OnSuccess stores what the body has loaded.                                  *)
LEMMA OnSuccessImplements ==
  ASSUME IInv, NEW r \in Reader, OnSuccess(r)
  PROVE  Promise!Store(r)
<1>1. UNCHANGED <<db, loaded, answer>> /\ rpc[r] = "success"
  BY DEF OnSuccess
<1>2. PICK p \in {"exit", "done"} : rpc' = [rpc EXCEPT ![r] = p]
  BY DEF OnSuccess, Goto
<1>3. loaded[r] # Absent
  BY <1>1, CacheAssumption DEF IInv, HasLoaded
<1>4. Entry' = loaded[r]
  <2>1. PICK t \in Ttls : cache' = [version |-> loaded[r], ttl |-> t]
    BY DEF OnSuccess, SetCache
  <2>2. cache' \in [version : Nat, ttl : Nat]
    <3>1. Ttls \subseteq Nat
      BY CacheAssumption DEF Ttls
    <3>2. loaded[r] \in Nat
      BY <1>1 DEF IInv, HasLoaded
    <3> QED  BY <2>1, <3>1, <3>2
  <2> QED  BY <2>1, <2>2, CacheAssumption DEF Entry, Present
<1>5. Found' = Found /\ r \notin Stored /\ Stored' = Stored \cup {r}
  BY <1>1, <1>2, <1>3 DEF IInv, TypeOK, Found, Stored
<1> QED  BY <1>1, <1>3, <1>4, <1>5 DEF Promise!Store, Entry, Found, Stored

(* The caller gets what its call has loaded.                                   *)
LEMMA AnswerImplements ==
  ASSUME IInv, NEW r \in Reader, OnExit(r) \/ Await(r)
  PROVE  Promise!AnswerLoaded(r)
<1>1. Entry' = Entry /\ UNCHANGED <<db, loaded>>
  BY DEF OnExit, Await, Entry, Present
<1>2. answer' = [answer EXCEPT ![r] = loaded[r]]
  BY DEF OnExit, Await, Answer
<1>3. loaded[r] # Absent /\ answer[r] = Absent
  BY CacheAssumption DEF OnExit, Await, IInv, HasLoaded, NotServed
<1>4. Found' = Found /\ Stored' = Stored
  BY DEF OnExit, Await, Answer, Goto, IInv, TypeOK, Found, Stored
<1> QED  BY <1>1, <1>2, <1>3, <1>4 DEF Promise!AnswerLoaded, Entry, Found, Stored

(* Commands change the row and take the entry away, and so does time.          *)
LEMMA OthersImplement ==
  ASSUME IInv, Expire \/ \E w \in Writer : WriterStep(w)
  PROVE  Promise!Change \/ Promise!Forget \/ UNCHANGED Promise!vars
<1>1. Found' = Found /\ Stored' = Stored /\ UNCHANGED <<loaded, answer>>
  BY DEF Expire, WriterStep, WriterRuns, Write, ReturnsTask, TaskWrites, Store, Scan, UnLink,
         WriteThrows, TaskThrows, ClearThrows, readerVars, Found, Stored
<1>2. CASE \E w \in Writer : Write(w) \/ TaskWrites(w)
  <2>1. db' = db + 1 /\ Entry' = Entry
    BY <1>2 DEF Write, TaskWrites, Store, Entry, Present
  <2> QED  BY <1>1, <2>1 DEF Promise!Change, Entry, Found, Stored
<1>3. CASE Expire \/ \E w \in Writer : UnLink(w)
  <2>1. db' = db /\ Entry' = Absent
    BY <1>3 DEF Expire, UnLink, Entry, Present
  <2> QED  BY <1>1, <2>1 DEF Promise!Forget, Entry, Found, Stored
<1>4. CASE \E w \in Writer :
              Scan(w) \/ ReturnsTask(w) \/ WriteThrows(w) \/ TaskThrows(w) \/ ClearThrows(w)
  <2>1. db' = db /\ Entry' = Entry
    BY <1>4 DEF Scan, ReturnsTask, WriteThrows, TaskThrows, ClearThrows, Entry, Present
  <2> QED  BY <1>1, <2>1 DEF Promise!vars, Entry, Found, Stored
<1> QED  BY <1>2, <1>3, <1>4 DEF WriterStep, WriterRuns

(* Every step of the cache is a step of the promise, or a stutter.             *)
LEMMA StepImplements == IInv /\ [Next]_vars => [Promise!Next]_Promise!vars
<1> SUFFICES ASSUME IInv, [Next]_vars  PROVE [Promise!Next]_Promise!vars
  OBVIOUS
<1>1. ASSUME NEW r \in Reader, ReaderStep(r)  PROVE Promise!Serve(r) \/ UNCHANGED Promise!vars
  BY <1>1, ExistsImplements, GetImplements, EntryThrowsImplements, SilentImplements,
     LoadImplements, OnSuccessImplements, AnswerImplements
     DEF ReaderStep, ReaderRuns, Promise!Serve
<1>2. ASSUME UNCHANGED vars  PROVE UNCHANGED Promise!vars
  BY <1>2 DEF vars, readerVars, writerVars, fixedVars, history, Present, Promise!vars
<1> QED  BY <1>1, <1>2, OthersImplement DEF Next, Promise!Next

(* Callers get what CachedQuery promises them: a row the call loaded or an     *)
(* entry it found.                                                             *)
THEOREM CallersGetWhatWasLoaded == Spec => AnswersFromQuery
<1> QED  BY InitImplements, StepImplements, Invariant, PTL DEF Spec, AnswersFromQuery, Promise!Spec
=============================================================================
