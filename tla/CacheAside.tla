------------------------------- MODULE CacheAside ------------------------------
(* One cached query and the writes that invalidate it: CachingEnableAttribute  *)
(* around a query (a reader is one call of it), CacheClearAttribute around a   *)
(* command (a writer is one call of it), the Redis key of the query and its    *)
(* lock key.                                                                   *)
(*                                                                             *)
(* The database row is a version number that a command increments; version 0   *)
(* is "no row", for which the query returns null and the cache holds "".       *)
(* Each Redis command and each access to the database is an action.            *)
EXTENDS Integers

CONSTANTS
    Reader,       \* calls of the cached query
    Writer,       \* calls of the command
    FirstVersion, \* the row's version at the start; 0 when there is no row
    ExpireSec,    \* ExpireSec ?? CacheOptions.RedisCacheExpireSec
    Free,         \* the lock key does not exist
    Absent        \* the cached key does not exist, or a call has no answer yet

ASSUME CacheAssumption ==
    /\ FirstVersion \in Nat /\ ExpireSec \in Nat
    /\ Free \notin Reader
    /\ Absent \notin Nat /\ Absent \notin [version : Nat, ttl : Nat]

Null == 0

VARIABLES
    db,           \* the row's version
    cache,        \* the cached key: Absent, or a version and its time to live
    lock,         \* the lock key: Free, or the reader that holds it
    rpc,          \* where each reader is
    loaded,       \* context.ReturnValue of a reader whose body has run
    answer,       \* what each reader's caller gets
    timedOut,     \* readers whose Lock returned null after 10 s
    wpc,          \* where each writer is
    writing,      \* writers whose command has returned a Task that still runs
    returnsTask,  \* the query returns a Task without being an async method
    taskCommand,  \* and so does the command
    isBefore,     \* CacheClearAttribute.IsBefore of the command
    lateSet,      \* had the database left that version already when it was set
    outlived      \* writers whose write the key has outlived so far

readerVars == <<rpc, loaded, answer, timedOut>>
writerVars == <<wpc, writing>>
fixedVars == <<returnsTask, taskCommand, isBefore>>
history == <<lateSet, outlived>>
vars == <<db, cache, lock, readerVars, writerVars, fixedVars, history>>

Present == cache # Absent

(* new Random().Next(floor(0.8 e), ceil(1.2 e)): the upper end is excluded     *)
(* unless both ends are the same.                                              *)
Ttls ==
    LET low == (8 * ExpireSec) \div 10
        high == (12 * ExpireSec + 9) \div 10
    IN  IF low = high THEN {low} ELSE low .. high - 1

(* Faulty variant: the key is set without an expiration (0 stands for none).   *)
SetForever(v) == cache' = [version |-> v, ttl |-> 0]

(* Set with that expiration; 0 s is no expiration for the client library.      *)
SetCache(v) == \E t \in Ttls : cache' = [version |-> v, ttl |-> t]

Init ==
    /\ db = FirstVersion
    /\ cache = Absent
    /\ lock = Free
    /\ rpc = [r \in Reader |-> "entry"]
    /\ loaded = [r \in Reader |-> Absent]
    /\ answer = [r \in Reader |-> Absent]
    /\ timedOut = {}
    /\ returnsTask \in BOOLEAN
    /\ taskCommand \in BOOLEAN
    /\ isBefore \in BOOLEAN
    /\ wpc = [w \in Writer |-> IF isBefore THEN "scan" ELSE "body"]
    /\ writing = {}
    /\ lateSet = FALSE
    /\ outlived = {}

--------------------------------------------------------------------------------
(* CachingEnableAttribute.                                                     *)
Goto(r, p) == rpc' = [rpc EXCEPT ![r] = p]
Answer(r, v) == answer' = [answer EXCEPT ![r] = v] /\ Goto(r, "done")

(* LockController.Dispose: deletes the lock key if it is still this reader's;  *)
(* a reader without a lock has nothing to dispose.                             *)
Unlock(r) == lock' = IF lock = r THEN Free ELSE lock

(* What Get returns: nothing for a key that has gone since Exists, and nothing *)
(* for the "" that stands for a row that is not there.                         *)
Cached == IF Present THEN cache.version ELSE Null

(* Faulty variant: Get is called without asking Exists first.                  *)
ExistsUnchecked(r) ==
    /\ rpc[r] = "entry"
    /\ Goto(r, "get")
    /\ UNCHANGED <<db, cache, lock, loaded, answer, timedOut, writerVars, fixedVars, history>>

(* OnEntry: Exists.                                                            *)
Exists(r) ==
    /\ rpc[r] = "entry"
    /\ Goto(r, IF Present THEN "get" ELSE "locking")
    /\ UNCHANGED <<db, cache, lock, loaded, answer, timedOut, writerVars, fixedVars, history>>

(* The entry of a query that returns its Task is the Task itself, serialized:  *)
(* nothing can be made of it.                                                  *)
Readable == Present => ~returnsTask

(* OnEntry: Get, and ReplaceReturnValue: the body is skipped.                  *)
Get(r) ==
    /\ rpc[r] = "get"
    /\ Readable
    /\ Answer(r, Cached)
    /\ UNCHANGED <<db, cache, lock, loaded, timedOut, writerVars, fixedVars, history>>

(* OnEntry: Lock("Lock" + key, 10) sets the lock key if it does not exist.     *)
AcquireLock(r) ==
    /\ rpc[r] = "locking"
    /\ lock = Free
    /\ lock' = r
    /\ Goto(r, "recheck")
    /\ UNCHANGED <<db, cache, loaded, answer, timedOut, writerVars, fixedVars, history>>

(* Faulty variant: Lock waits without a limit.                                 *)
LockWaitsForever(r) == FALSE /\ UNCHANGED vars

(* OnEntry: Lock gives up after 10 s, returns null, and the call goes on.      *)
LockTimeout(r) ==
    /\ rpc[r] = "locking"
    /\ lock # Free
    /\ timedOut' = timedOut \cup {r}
    /\ Goto(r, "recheck")
    /\ UNCHANGED <<db, cache, lock, loaded, answer, writerVars, fixedVars, history>>

(* Faulty variant: the lock is disposed whether or not the key is there.       *)
ExistsAgainUnlocks(r) ==
    /\ rpc[r] = "recheck"
    /\ Goto(r, IF Present THEN "reget" ELSE "body")
    /\ Unlock(r)
    /\ UNCHANGED <<db, cache, loaded, answer, timedOut, writerVars, fixedVars, history>>

(* OnEntry: Exists once more, after the lock.                                  *)
ExistsAgain(r) ==
    /\ rpc[r] = "recheck"
    /\ Goto(r, IF Present THEN "reget" ELSE "body")
    /\ UNCHANGED <<db, cache, lock, loaded, answer, timedOut, writerVars, fixedVars, history>>

(* OnEntry: Get, ReplaceReturnValue, and Dispose of the lock.                  *)
GetAgain(r) ==
    /\ rpc[r] = "reget"
    /\ Readable
    /\ Answer(r, Cached)
    /\ Unlock(r)
    /\ UNCHANGED <<db, cache, loaded, timedOut, writerVars, fixedVars, history>>

(* OnEntry: the deserialization throws.  OnExit does not run then, and a lock  *)
(* the reader holds stays, renewed by its own timer.                           *)
GetThrows(r) ==
    /\ rpc[r] \in {"get", "reget"}
    /\ ~Readable
    /\ Goto(r, "failed")
    /\ UNCHANGED <<db, cache, lock, loaded, answer, timedOut, writerVars, fixedVars, history>>

(* OnEntry: a Redis command throws, with the same end.                         *)
EntryThrows(r) ==
    /\ rpc[r] \in {"entry", "get", "locking", "recheck", "reget"}
    /\ Goto(r, "failed")
    /\ UNCHANGED <<db, cache, lock, loaded, answer, timedOut, writerVars, fixedVars, history>>

(* OnExit of a method that returns its Task: the lock is disposed while the    *)
(* task still runs.                                                            *)
ReturnTask(r) ==
    /\ rpc[r] = "body"
    /\ returnsTask
    /\ Goto(r, "task")
    /\ Unlock(r)
    /\ UNCHANGED <<db, cache, loaded, answer, timedOut, writerVars, fixedVars, history>>

(* The body reads the row.                                                     *)
Load(r) ==
    /\ rpc[r] = IF returnsTask THEN "task" ELSE "body"
    /\ loaded' = [loaded EXCEPT ![r] = db]
    /\ Goto(r, "success")
    /\ UNCHANGED <<db, cache, lock, answer, timedOut, writerVars, fixedVars, history>>

(* The body throws, or the task it has returned fails: nothing is cached,      *)
(* OnExit disposes the lock or has done so.                                    *)
BodyThrows(r) ==
    /\ rpc[r] \in {"body", "task"}
    /\ Goto(r, "failed")
    /\ Unlock(r)
    /\ UNCHANGED <<db, cache, loaded, answer, timedOut, writerVars, fixedVars, history>>

(* OnSuccess: Set the value, or "" for null.  For a task this is a             *)
(* continuation, which nothing waits for, and the value is the task.           *)
OnSuccess(r) ==
    /\ rpc[r] = "success"
    /\ SetCache(loaded[r])
    /\ lateSet' = (loaded[r] # db)
    /\ outlived' = {}
    /\ Goto(r, IF returnsTask THEN "done" ELSE "exit")
    /\ UNCHANGED <<db, lock, loaded, answer, timedOut, writerVars, fixedVars>>

(* OnSuccess: Set throws.  Whether OnExit runs then is up to the weaver.       *)
SetThrows(r) ==
    /\ rpc[r] = "success"
    /\ Goto(r, "failed")
    /\ Unlock(r) \/ UNCHANGED lock
    /\ UNCHANGED <<db, cache, loaded, answer, timedOut, writerVars, fixedVars, history>>

(* The caller awaits the task: its continuation and OnSuccess' race.           *)
Await(r) ==
    /\ returnsTask
    /\ loaded[r] # Absent
    /\ answer[r] = Absent
    /\ answer' = [answer EXCEPT ![r] = loaded[r]]
    /\ UNCHANGED <<db, cache, lock, rpc, loaded, timedOut, writerVars, fixedVars, history>>

(* OnExit: Dispose of the lock; the caller gets what the body returned.        *)
OnExit(r) ==
    /\ rpc[r] = "exit"
    /\ Unlock(r)
    /\ Answer(r, loaded[r])
    /\ UNCHANGED <<db, cache, loaded, timedOut, writerVars, fixedVars, history>>

ReaderRuns(r) ==
    \/ Exists(r)
    \/ Get(r)
    \/ GetThrows(r)
    \/ AcquireLock(r)
    \/ LockTimeout(r)
    \/ ExistsAgain(r)
    \/ GetAgain(r)
    \/ ReturnTask(r)
    \/ Load(r)
    \/ OnSuccess(r)
    \/ OnExit(r)
    \/ Await(r)

ReaderStep(r) == ReaderRuns(r) \/ EntryThrows(r) \/ BodyThrows(r) \/ SetThrows(r)

--------------------------------------------------------------------------------
(* CacheClearAttribute.                                                        *)
GotoW(w, p) == wpc' = [wpc EXCEPT ![w] = p]
AfterClear == IF isBefore THEN "body" ELSE "done"
AfterBody == IF isBefore THEN "done" ELSE "scan"

(* The row is written; a key that is there outlives this.                      *)
Store(w) ==
    /\ db' = db + 1
    /\ outlived' = IF Present THEN outlived \cup {w} ELSE outlived
    /\ UNCHANGED <<cache, lock, readerVars, fixedVars, lateSet>>

(* Faulty variant: OnSuccess clears only what OnEntry should have.             *)
WriteWithoutClear(w) ==
    /\ wpc[w] = "body"
    /\ ~taskCommand
    /\ Store(w)
    /\ GotoW(w, "done")
    /\ UNCHANGED writing

(* The command's body; OnSuccess clears afterwards unless IsBefore.            *)
Write(w) ==
    /\ wpc[w] = "body"
    /\ ~taskCommand
    /\ Store(w)
    /\ GotoW(w, AfterBody)
    /\ UNCHANGED writing

(* A command that is not async has returned its Task.  OnSuccess does not look *)
(* at it and clears at once, whatever the task has still to do.                *)
ReturnsTask(w) ==
    /\ wpc[w] = "body"
    /\ taskCommand
    /\ writing' = writing \cup {w}
    /\ GotoW(w, AfterBody)
    /\ UNCHANGED <<db, cache, lock, readerVars, fixedVars, history>>

(* The task writes, before, during or after the clearing.                      *)
TaskWrites(w) ==
    /\ w \in writing
    /\ writing' = writing \ {w}
    /\ Store(w)
    /\ UNCHANGED wpc

(* The command fails: there is no OnSuccess and so no clearing.                *)
WriteThrows(w) ==
    /\ wpc[w] = "body"
    /\ GotoW(w, "done")
    /\ UNCHANGED <<db, cache, lock, readerVars, writing, fixedVars, history>>

(* The command's task fails, which no clearing waits for.                      *)
TaskThrows(w) ==
    /\ w \in writing
    /\ writing' = writing \ {w}
    /\ UNCHANGED <<db, cache, lock, readerVars, wpc, fixedVars, history>>

(* ClearCaching: Scan for the keys with the prefix.                            *)
Scan(w) ==
    /\ wpc[w] = "scan"
    /\ GotoW(w, IF Present THEN "unlink" ELSE AfterClear)
    /\ UNCHANGED <<db, cache, lock, readerVars, writing, fixedVars, history>>

(* ClearCaching: UnLink a key the scan found.                                  *)
UnLink(w) ==
    /\ wpc[w] = "unlink"
    /\ cache' = Absent
    /\ outlived' = {}
    /\ GotoW(w, AfterClear)
    /\ UNCHANGED <<db, lock, readerVars, writing, fixedVars, lateSet>>

(* ClearCaching throws: after the body, the write stays and so does the key.   *)
ClearThrows(w) ==
    /\ wpc[w] \in {"scan", "unlink"}
    /\ GotoW(w, "failed")
    /\ UNCHANGED <<db, cache, lock, readerVars, writing, fixedVars, history>>

WriterRuns(w) == Write(w) \/ ReturnsTask(w) \/ TaskWrites(w) \/ Scan(w) \/ UnLink(w)
WriterStep(w) == WriterRuns(w) \/ WriteThrows(w) \/ TaskThrows(w) \/ ClearThrows(w)

(* Redis drops the key when its time to live is over.                          *)
Expire ==
    /\ Present
    /\ cache.ttl > 0
    /\ cache' = Absent
    /\ outlived' = {}
    /\ UNCHANGED <<db, lock, readerVars, writerVars, fixedVars, lateSet>>

Next == Expire \/ (\E r \in Reader : ReaderStep(r)) \/ (\E w \in Writer : WriterStep(w))

Spec == Init /\ [][Next]_vars

(* Calls run to their end, without having to fail for it, and Redis expires    *)
(* keys.                                                                       *)
FairSpec ==
    /\ Spec
    /\ WF_vars(Expire)
    /\ \A r \in Reader : WF_vars(ReaderRuns(r))
    /\ \A w \in Writer : WF_vars(WriterRuns(w))

--------------------------------------------------------------------------------
Rpcs == {"entry", "get", "locking", "recheck", "reget", "body", "task", "success",
         "exit", "done", "failed"}
Wpcs == {"body", "scan", "unlink", "done", "failed"}

(* The variables keep their types.                                             *)
TypeOK ==
    /\ db \in Nat
    /\ cache = Absent \/ cache \in [version : Nat, ttl : Ttls]
    /\ lock \in Reader \cup {Free}
    /\ rpc \in [Reader -> Rpcs]
    /\ loaded \in [Reader -> Nat \cup {Absent}]
    /\ answer \in [Reader -> Nat \cup {Absent}]
    /\ timedOut \in SUBSET Reader
    /\ wpc \in [Writer -> Wpcs]
    /\ writing \in SUBSET Writer
    /\ returnsTask \in BOOLEAN
    /\ taskCommand \in BOOLEAN
    /\ isBefore \in BOOLEAN
    /\ lateSet \in BOOLEAN
    /\ outlived \in SUBSET Writer

(* Cache breakdown: two calls are at the database for the same key at once     *)
(* only if one of them gave up on the lock (or the query returns its Task, and *)
(* then the lock ends before the query does).                                  *)
Loading(r) == rpc[r] \in {"body", "success"}
SingleLoader ==
    ~returnsTask => \A r, s \in Reader :
        r # s /\ Loading(r) /\ Loading(s) => r \in timedOut \/ s \in timedOut

(* An entry older than the database was so already when it was set, by a       *)
(* query that had loaded the row before the write; or a command that wrote     *)
(* since is still at its clearing, or failed at it.  Only when the clearing    *)
(* does not wait for the write, by IsBefore or because the command has         *)
(* returned its Task, can a command be through and leave such an entry.        *)
StaleHasACause ==
    /\ Present
    /\ cache.version # db
    /\ ~isBefore
    /\ ~taskCommand
    => lateSet \/ \E w \in outlived : wpc[w] \in {"scan", "unlink", "failed"}

(* What a caller is promised: the answer is a row this call loaded or an entry *)
(* it found, and nothing instead of it only if the key goes between Exists and *)
(* Get.                                                                        *)
Promise == INSTANCE CachedQuery WITH
    Call <- Reader,
    FirstRow <- FirstVersion,
    Nothing <- Null,
    NoEntry <- Absent,
    row <- db,
    entry <- IF Present THEN cache.version ELSE Absent,
    found <- {r \in Reader : rpc[r] \in {"get", "reget"}},
    stored <- {r \in Reader : rpc[r] \in {"exit", "done"} /\ loaded[r] # Absent}
AnswersFromQuery == Promise!Spec

(* A call that misses the lock, an exception or a lock nobody will release     *)
(* never keeps the others waiting for good: each fails or has its answer.      *)
AllCallsEnd == <>(\A r \in Reader :
    rpc[r] = "failed" \/ (rpc[r] = "done" /\ answer[r] # Absent))

(* Whatever races with a write, the cache is in the end right or empty: what   *)
(* the clearing leaves behind expires (Wiki.md, default and random             *)
(* expiration).                                                                *)
EventuallyFresh == <>[](Present => cache.version = db)
=============================================================================
