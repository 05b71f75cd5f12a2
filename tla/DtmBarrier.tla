------------------------------- MODULE DtmBarrier ------------------------------
(* The branch handlers of DtmController with DtmBarrierExtension.Call, each in *)
(* the database transaction of its request, for one global transaction.        *)
(*                                                                             *)
(* A call is one HTTP request of the DTM server: a branch's action or its      *)
(* compensation, possibly a repetition.  Its unit of work is begun by the      *)
(* handler and committed by the request's UnitOfWorkManager when the request's *)
(* scope is disposed, after the response.  The others that insert a row of a   *)
(* transaction that has not ended wait for a shared lock on it, as InnoDB has  *)
(* it: a rollback gives it to all of them, and then none gets the exclusive    *)
(* one until all but one have been rolled back as victims of the deadlock.     *)
EXTENDS Naturals

CONSTANTS
    Branch,     \* branches of the saga
    Failing,    \* those whose action is SagaInError; the others' is SagaOut
    Call,       \* requests, numbered in the order in which they are made
    MayFail,    \* what can go wrong, of Mishap
    NoRequest   \* the request of a call that was not made

Mishap == {"origin",    \* the insertion of the origin's row fails
           "current",   \* the insertion of the operation's row fails
           "body",      \* ChangeMoney throws
           "commit"}    \* the process or its connection is lost before the commit

ASSUME BarrierAssumption ==
    /\ Call \subseteq Nat
    /\ Failing \subseteq Branch
    /\ MayFail \subseteq Mishap
    /\ NoRequest \notin Branch \X {"action", "compensate"}

Op == {"action", "compensate"}
Key == Branch \X Op

VARIABLES
    rows,     \* the barrier table
    times,    \* how often each operation of each branch has been committed
    pc,       \* where each call is
    req,      \* the branch and the operation of each call
    fresh,    \* originAffected > 0
    mine,     \* barrier rows a call has inserted and not committed
    shared,   \* rows a call has a shared lock on, got by a rollback
    ran,      \* has the call's busiCall changed the row, not yet committed
    result,   \* the call's response
    unheard,  \* has a deadlock undone a compensation that was then answered 200
    mishaps   \* what goes wrong in this behaviour

txVars == <<rows, times>>
lockVars == <<mine, shared>>
callVars == <<pc, req, fresh, lockVars, ran, result>>
vars == <<txVars, callVars, unheard, mishaps>>

BInit ==
    /\ rows = {}
    /\ times = [k \in Key |-> 0]
    /\ pc = [c \in Call |-> "free"]
    /\ req = [c \in Call |-> NoRequest]
    /\ fresh = [c \in Call |-> FALSE]
    /\ mine = [c \in Call |-> {}]
    /\ shared = [c \in Call |-> {}]
    /\ unheard = FALSE
    /\ ran = [c \in Call |-> FALSE]
    /\ result = [c \in Call |-> "none"]
    /\ mishaps \in {{}, MayFail \ {"current"}, MayFail}

Goto(c, p) == pc' = [pc EXCEPT ![c] = p]
Reply(c, r) == Goto(c, "respond") /\ result' = [result EXCEPT ![c] = r]

(* SagaInError catches everything and answers FAILURE; for the other handlers  *)
(* GlobalExceptionsFilter answers 200, which DTM takes for SUCCESS.            *)
CatchesAll(c) == req[c][2] = "action" /\ req[c][1] \in Failing
Throw(c) == Reply(c, IF CatchesAll(c) THEN "FAILURE" ELSE "SUCCESS")

(* A request arrives, and the handler begins its transaction.  An action has   *)
(* no origin: InsertBarrier returns (0, null) at once.                         *)
Receive(c, k) ==
    /\ pc[c] = "free"
    /\ \A d \in Call : d < c => pc[d] # "free"
    /\ req' = [req EXCEPT ![c] = k]
    /\ Goto(c, IF k[2] = "compensate" THEN "origin" ELSE "current")
    /\ UNCHANGED <<txVars, fresh, lockVars, ran, result, unheard, mishaps>>

OriginKey(c) == <<req[c][1], "action">>

(* The row a call is about to insert, or waits for.                            *)
Inserting(c) == pc[c] \in {"origin", "current"}
Target(c) == IF pc[c] = "origin" THEN OriginKey(c) ELSE req[c]

(* Another transaction has inserted the row, or has a shared lock on it.       *)
Locked(c, k) == \E d \in Call : d # c /\ k \in mine[d] \cup shared[d]

(* InsertBarrier: INSERT IGNORE, after which this call holds a row that was    *)
(* not there.                                                                  *)
InsertBarrier(c, k) ==
    /\ ~Locked(c, k)
    /\ mine' = [mine EXCEPT ![c] = @ \cup ({k} \ rows)]

(* A transaction is rolled back, and whoever (w) waits for one of its rows has *)
(* the shared lock on it.                                                      *)
RollBack(c) ==
    /\ mine' = [mine EXCEPT ![c] = {}]
    /\ \E w \in SUBSET {d \in Call \ {c} : Inserting(d) /\ Target(d) \in mine[c]} :
         shared' = [d \in Call |->
             IF d = c THEN {} ELSE IF d \in w THEN shared[d] \cup {Target(d)} ELSE shared[d]]

(* Both have the shared lock on a row and want the exclusive one.              *)
Deadlocked(c, d) ==
    /\ c # d
    /\ Inserting(c) /\ Inserting(d)
    /\ Target(c) = Target(d)
    /\ Target(c) \in shared[c] \cap shared[d]

(* InsertBarrier: the call is chosen as the deadlock's victim, its whole       *)
(* transaction is rolled back, and Call throws the exception it returns.       *)
DeadlockVictim(c) ==
    /\ \E d \in Call : Deadlocked(c, d)
    /\ RollBack(c)
    /\ Throw(c)
    /\ unheard' = (unheard \/ req[c][2] = "compensate")
    /\ UNCHANGED <<txVars, req, fresh, ran, mishaps>>

InsertOrigin(c) ==
    /\ pc[c] = "origin"
    /\ InsertBarrier(c, OriginKey(c))
    /\ fresh' = [fresh EXCEPT ![c] = OriginKey(c) \notin rows]
    /\ Goto(c, "current")
    /\ UNCHANGED <<txVars, req, shared, ran, result, unheard, mishaps>>

(* oEx # null: Call throws DtmOngingException.                                 *)
InsertOriginFails(c) ==
    /\ pc[c] = "origin"
    /\ "origin" \in mishaps
    /\ Throw(c)
    /\ UNCHANGED <<txVars, req, fresh, lockVars, ran, unheard, mishaps>>

NeverNull(c) == FALSE                    \* faulty: compensates what never ran
IsNullCompensation(c) == req[c][2] = "compensate" /\ fresh[c]

NeverDuplicate(c) == FALSE               \* faulty: the rows are not looked at
IsDuplicateOrPend(c) == req[c] \in rows

(* The operation's own row, and the decision whether to run busiCall.          *)
InsertCurrent(c) ==
    /\ pc[c] = "current"
    /\ InsertBarrier(c, req[c])
    /\ IF IsNullCompensation(c) \/ IsDuplicateOrPend(c)
       THEN Reply(c, "SUCCESS")
       ELSE Goto(c, "busi") /\ UNCHANGED result
    /\ UNCHANGED <<txVars, req, shared, fresh, ran, unheard, mishaps>>

(* rEx # null: Call throws, with the origin's row in the transaction.          *)
InsertCurrentFails(c) ==
    /\ pc[c] = "current"
    /\ "current" \in mishaps
    /\ Throw(c)
    /\ UNCHANGED <<txVars, req, fresh, lockVars, ran, unheard, mishaps>>

(* busiCall: ChangeMoney updates the row in this transaction.                  *)
Busi(c) ==
    /\ pc[c] = "busi"
    /\ ~CatchesAll(c)
    /\ ran' = [ran EXCEPT ![c] = TRUE]
    /\ Reply(c, "SUCCESS")
    /\ UNCHANGED <<txVars, req, fresh, lockVars, unheard, mishaps>>

(* Faulty variant: the failed body's transaction is kept.                      *)
BusiThrowsKeeps(c) ==
    /\ pc[c] = "busi"
    /\ CatchesAll(c) \/ "body" \in mishaps
    /\ ran' = [ran EXCEPT ![c] = TRUE]
    /\ Throw(c)
    /\ UNCHANGED <<txVars, req, fresh, lockVars, unheard, mishaps>>

(* busiCall: ChangeMoney, or ChangeMoneyError as always, throws, and its       *)
(* Transactional aspect rolls the request's transaction back.                  *)
BusiThrows(c) ==
    /\ pc[c] = "busi"
    /\ CatchesAll(c) \/ "body" \in mishaps
    /\ RollBack(c)
    /\ Throw(c)
    /\ UNCHANGED <<txVars, req, fresh, ran, unheard, mishaps>>

(* Faulty variant: the response of a failed call ends it without its scope.    *)
RespondLeaksScope(c) ==
    /\ pc[c] = "respond"
    /\ Goto(c, IF result[c] = "FAILURE" THEN "commit" ELSE "leaked")
    /\ UNCHANGED <<txVars, req, fresh, lockVars, ran, result, unheard, mishaps>>

(* The response is sent.                                                       *)
Respond(c) ==
    /\ pc[c] = "respond"
    /\ Goto(c, "commit")
    /\ UNCHANGED <<txVars, req, fresh, lockVars, ran, result, unheard, mishaps>>

(* Faulty variant: only the barrier's rows are committed.                      *)
CommitRowsOnly(c) ==
    /\ pc[c] = "commit"
    /\ Goto(c, "ended")
    /\ rows' = rows \cup mine[c]
    /\ mine' = [mine EXCEPT ![c] = {}]
    /\ shared' = [shared EXCEPT ![c] = {}]
    /\ ran' = [ran EXCEPT ![c] = FALSE]
    /\ UNCHANGED <<times, req, fresh, result, unheard, mishaps>>

(* The request's scope is disposed and its unit of work committed.             *)
Commit(c) ==
    /\ pc[c] = "commit"
    /\ Goto(c, "ended")
    /\ rows' = rows \cup mine[c]
    /\ times' = IF ran[c] THEN [times EXCEPT ![req[c]] = @ + 1] ELSE times
    /\ mine' = [mine EXCEPT ![c] = {}]
    /\ shared' = [shared EXCEPT ![c] = {}]
    /\ ran' = [ran EXCEPT ![c] = FALSE]
    /\ UNCHANGED <<req, fresh, result, unheard, mishaps>>

(* The process or its connection is lost: before the response, that is lost    *)
(* too; after it, only the transaction is.                                     *)
Lost(c) ==
    /\ \/ pc[c] \in {"origin", "current", "busi", "respond"}
          /\ result' = [result EXCEPT ![c] = "none"]
       \/ pc[c] = "commit"
          /\ "commit" \in mishaps
          /\ UNCHANGED result
    /\ Goto(c, "ended")
    /\ RollBack(c)
    /\ ran' = [ran EXCEPT ![c] = FALSE]
    /\ UNCHANGED <<txVars, req, fresh, unheard, mishaps>>

BStep(c) ==
    \/ InsertOrigin(c)
    \/ InsertOriginFails(c)
    \/ InsertCurrent(c)
    \/ InsertCurrentFails(c)
    \/ DeadlockVictim(c)
    \/ Busi(c)
    \/ BusiThrows(c)
    \/ Respond(c)
    \/ Commit(c)
    \/ Lost(c)

BNext == \E c \in Call : BStep(c) \/ \E k \in Key : Receive(c, k)

BSpec == BInit /\ [][BNext]_vars

--------------------------------------------------------------------------------
Pcs == {"free", "origin", "current", "busi", "respond", "commit", "ended"}

BTypeOK ==
    /\ rows \in SUBSET Key
    /\ times \in [Key -> Nat]
    /\ pc \in [Call -> Pcs]
    /\ req \in [Call -> Key \cup {NoRequest}]
    /\ fresh \in [Call -> BOOLEAN]
    /\ mine \in [Call -> SUBSET Key]
    /\ shared \in [Call -> SUBSET Key]
    /\ unheard \in BOOLEAN
    /\ ran \in [Call -> BOOLEAN]
    /\ result \in [Call -> {"none", "SUCCESS", "FAILURE"}]
    /\ mishaps \in SUBSET MayFail

(* The barrier's promise, by what is committed: Call implements it.            *)
Acted == [b \in Branch |-> times[<<b, "action">>]]
Undone == [b \in Branch |-> times[<<b, "compensate">>]]
Barred == {b \in Branch : <<b, "action">> \in rows /\ Acted[b] = 0}

Promise == INSTANCE BranchBarrier WITH
    acted <- Acted, undone <- Undone, barred <- Barred, orphans <- "current" \in mishaps
KeepsPromise == Promise!Spec

(* Requests wait for one another's transactions, also over two rows each, but  *)
(* when all of them wait there is one kind of deadlock: two requests for the   *)
(* same row, left with its shared lock by a rollback.  There is no other       *)
(* cycle, of different rows, of an action and the compensation that overtook   *)
(* it, or with a request whose insertion has failed.                           *)
Waits(c) == Inserting(c) /\ Locked(c, Target(c))
GoesOn(c) == pc[c] \in {"origin", "current", "busi", "respond", "commit"} /\ ~Waits(c)
OnlySharedDeadlock ==
    (\E c \in Call : Waits(c)) =>
        (\E c \in Call : GoesOn(c)) \/ \E c, d \in Call : Deadlocked(c, d)

(* No branch is compensated without its action having run.                     *)
NoOrphanCompensation ==
    \A b \in Branch : times[<<b, "compensate">>] > 0 => times[<<b, "action">>] > 0
=============================================================================
