------------------------------ MODULE AsyncLoops -------------------------------
(* The throttled asynchronous loops of Utility's IEnumerableExtensions:        *)
(* ForeachAsync, ForAsync and SelectAsync with maxParallelCount.  One call of  *)
(* one of them runs here, beside the tasks it starts; which one is chosen in   *)
(* the initial state.  A task is named by the index of its source item.        *)
EXTENDS Integers, FiniteSets

CONSTANTS
    Items,         \* the number of items of the source
    MaxParallel    \* parameter maxParallelCount

ASSUME LoopAssumption == Items \in Nat /\ MaxParallel \in Nat

Item == 1 .. Items
Loops == {"ForeachAsync", "ForAsync", "SelectAsync"}

VARIABLES
    loopKind,    \* which method was called
    debugger,    \* Debugger.IsAttached
    cancelled,   \* cancellationToken.IsCancellationRequested
    pc,          \* where the method is
    next,        \* the item the enumerator gives next
    task,        \* item -> state of the task its action or selector returned
    list,        \* local list (tasks in SelectAsync)
    completed,   \* local completedTasks of SelectAsync
    results,     \* local results of SelectAsync: how often each item's result is in it
    outcome      \* how the method's own task ended

vars == <<loopKind, debugger, cancelled, pc, next, task, list, completed, results, outcome>>

Completed(i) == task[i] \in {"done", "faulted"}
Running == {i \in Item : task[i] = "running"}

Init ==
    /\ loopKind \in Loops
    /\ debugger \in IF loopKind = "SelectAsync" THEN {FALSE} ELSE BOOLEAN
    /\ cancelled = FALSE
    /\ pc = "head"
    /\ next = 1
    /\ task = [i \in Item |-> "none"]
    /\ list = {}
    /\ completed = {}
    /\ results = [i \in Item |-> 0]
    /\ outcome = "none"

Return(o) ==
    /\ pc' = "returned"
    /\ outcome' = o

--------------------------------------------------------------------------------
(* The environment: the tasks run on their own, the caller may cancel.         *)
Finish(i) ==
    /\ task[i] = "running"
    /\ \E s \in {"done", "faulted"} : task' = [task EXCEPT ![i] = s]
    /\ UNCHANGED <<loopKind, debugger, cancelled, pc, next, list, completed, results, outcome>>

Cancel ==
    /\ loopKind # "SelectAsync"
    /\ ~cancelled
    /\ cancelled' = TRUE
    /\ UNCHANGED <<loopKind, debugger, pc, next, task, list, completed, results, outcome>>

--------------------------------------------------------------------------------
(* The head of the loop: cancelled, the call returns without waiting for the   *)
(* tasks it started.                                                           *)
ReturnCancelled ==
    /\ pc = "head"
    /\ ~debugger
    /\ next <= Items
    /\ cancelled
    /\ Return("cancelled")
    /\ UNCHANGED <<loopKind, debugger, cancelled, next, task, list, completed, results>>

(* Faulty variant: the loop does not stop at the last item.                    *)
StartItemPastEnd ==
    /\ pc = "head"
    /\ ~cancelled \/ debugger
    /\ \E s \in {"running", "done", "faulted"} : task' = [task EXCEPT ![next] = s]
    /\ list' = IF debugger THEN list ELSE list \cup {next}
    /\ next' = next + 1
    /\ pc' = IF debugger THEN "awaiting" ELSE "check"
    /\ UNCHANGED <<loopKind, debugger, cancelled, completed, results, outcome>>

(* list.Add(action(item)): the task may be completed already when the call     *)
(* returns.  Under a debugger the task is awaited at once.                     *)
StartItem ==
    /\ pc = "head"
    /\ next <= Items
    /\ ~cancelled \/ debugger
    /\ \E s \in {"running", "done", "faulted"} : task' = [task EXCEPT ![next] = s]
    /\ list' = IF debugger THEN list ELSE list \cup {next}
    /\ next' = next + 1
    /\ pc' = IF debugger THEN "awaiting" ELSE "check"
    /\ UNCHANGED <<loopKind, debugger, cancelled, completed, results, outcome>>

(* The action throws before it returns a task: so does the loop.               *)
StartThrows ==
    /\ pc = "head"
    /\ next <= Items
    /\ ~cancelled \/ debugger
    /\ Return("faulted")
    /\ UNCHANGED <<loopKind, debugger, cancelled, next, task, list, completed, results>>

(* await action(item) of the debugger's branch.                                *)
AwaitItem ==
    /\ pc = "awaiting"
    /\ Completed(next - 1)
    /\ IF task[next - 1] = "faulted"
       THEN Return("faulted")
       ELSE pc' = "head" /\ UNCHANGED outcome
    /\ UNCHANGED <<loopKind, debugger, cancelled, next, task, list, completed, results>>

(* Faulty variant: one task more before the loop waits.                        *)
ThrottledLate ==
    IF loopKind = "ForeachAsync"
    THEN Cardinality(list \cap Running) > MaxParallel
    ELSE Cardinality(list) > MaxParallel

(* ForeachAsync counts the tasks that are not completed, the others all tasks  *)
(* of their list.                                                              *)
Throttled ==
    IF loopKind = "ForeachAsync"
    THEN Cardinality(list \cap Running) >= MaxParallel
    ELSE Cardinality(list) >= MaxParallel

CheckThrottle ==
    /\ pc = "check"
    /\ pc' = IF Throttled THEN "waiting" ELSE "head"
    /\ UNCHANGED <<loopKind, debugger, cancelled, next, task, list, completed, results, outcome>>

(* Faulty variant: the limit is waited for in a loop that drops no task.       *)
AnyCompletedKept ==
    /\ pc = "waiting"
    /\ \E i \in list : Completed(i)
    /\ pc' = "check"
    /\ UNCHANGED <<loopKind, debugger, cancelled, next, task, list, completed, results, outcome>>

(* await Task.WhenAny(list), and what follows: ForeachAsync and ForAsync drop  *)
(* the tasks that are completed by now, with their exceptions; SelectAsync     *)
(* takes a snapshot of them.                                                   *)
AnyCompleted ==
    /\ pc = "waiting"
    /\ \E i \in list : Completed(i)
    /\ IF loopKind = "SelectAsync"
       THEN /\ completed' = {i \in list : Completed(i)}
            /\ pc' = "collecting"
            /\ UNCHANGED list
       ELSE /\ list' = {i \in list : ~Completed(i)}
            /\ pc' = "head"
            /\ UNCHANGED completed
    /\ UNCHANGED <<loopKind, debugger, cancelled, next, task, results, outcome>>

(* Faulty variant: RemoveWhere asks again which tasks are completed.           *)
CollectAsksAgain ==
    /\ pc = "collecting"
    /\ IF \E i \in completed : task[i] = "faulted"
       THEN Return("faulted") /\ UNCHANGED <<list, results>>
       ELSE /\ results' = [i \in Item |-> results[i] + IF i \in completed THEN 1 ELSE 0]
            /\ list' = {i \in list : ~Completed(i)}
            /\ pc' = "head"
            /\ UNCHANGED outcome
    /\ completed' = {}
    /\ UNCHANGED <<loopKind, debugger, cancelled, next, task>>

(* Faulty variant: the results are added and their exceptions are not seen.    *)
CollectIgnoresFaults ==
    /\ pc = "collecting"
    /\ results' = [i \in Item |-> results[i] + IF i \in completed THEN 1 ELSE 0]
    /\ list' = list \ completed
    /\ pc' = "head"
    /\ completed' = {}
    /\ UNCHANGED <<loopKind, debugger, cancelled, next, task, outcome>>

(* AddRange of the snapshot's results, then RemoveWhere of the snapshot.       *)
(* t.Result throws for a faulted task.                                         *)
Collect ==
    /\ pc = "collecting"
    /\ IF \E i \in completed : task[i] = "faulted"
       THEN Return("faulted") /\ UNCHANGED <<list, results>>
       ELSE /\ results' = [i \in Item |-> results[i] + IF i \in completed THEN 1 ELSE 0]
            /\ list' = list \ completed
            /\ pc' = "head"
            /\ UNCHANGED outcome
    /\ completed' = {}
    /\ UNCHANGED <<loopKind, debugger, cancelled, next, task>>

(* Faulty variant: the call ends without await Task.WhenAll(list).             *)
JoinNotAwaited ==
    /\ pc = "head"
    /\ next > Items
    /\ Return(IF \E i \in list : task[i] = "faulted" THEN "faulted" ELSE "ok")
    /\ results' = [i \in Item |-> results[i] +
                     IF loopKind = "SelectAsync" /\ i \in list THEN 1 ELSE 0]
    /\ UNCHANGED <<loopKind, debugger, cancelled, next, task, list, completed>>

(* await Task.WhenAll(list) after the loop.                                    *)
Join ==
    /\ pc = "head"
    /\ next > Items
    /\ \A i \in list : Completed(i)
    /\ Return(IF \E i \in list : task[i] = "faulted" THEN "faulted" ELSE "ok")
    /\ results' = [i \in Item |-> results[i] +
                     IF loopKind = "SelectAsync" /\ i \in list THEN 1 ELSE 0]
    /\ UNCHANGED <<loopKind, debugger, cancelled, next, task, list, completed>>

Method == \/ ReturnCancelled
          \/ StartItem
          \/ StartThrows
          \/ AwaitItem
          \/ CheckThrottle
          \/ AnyCompleted
          \/ Collect
          \/ Join

Next == Method \/ Cancel \/ \E i \in Item : Finish(i)

(* The scheduler runs the method when it can go on, and the tasks end.         *)
Spec == Init /\ [][Next]_vars
FairSpec == Spec /\ WF_vars(Method) /\ \A i \in Item : WF_vars(Finish(i))

--------------------------------------------------------------------------------
Pcs == {"head", "awaiting", "check", "waiting", "collecting", "returned"}

(* The variables keep their types.                                             *)
TypeOK ==
    /\ loopKind \in Loops
    /\ debugger \in BOOLEAN
    /\ cancelled \in BOOLEAN
    /\ pc \in Pcs
    /\ next \in 1 .. Items + 1
    /\ task \in [Item -> {"none", "running", "done", "faulted"}]
    /\ list \in SUBSET Item
    /\ completed \in SUBSET Item
    /\ results \in [Item -> Nat]
    /\ outcome \in {"none", "ok", "cancelled", "faulted"}

(* No more tasks run at once than maxParallelCount (one, if it is 0); in       *)
(* ForeachAsync one more, because a completed task it has not dropped yet lets *)
(* WhenAny return at once.                                                     *)
Bound == IF loopKind = "ForeachAsync" THEN MaxParallel + 1
         ELSE IF MaxParallel = 0 THEN 1 ELSE MaxParallel
ParallelBound == Cardinality(Running) <= Bound

(* A call that ends well has started a task for every item and waited for all  *)
(* of them, also for those it dropped from its list on the way.                *)
OkMeansAllEnded == outcome = "ok" => \A i \in Item : Completed(i)

(* SelectAsync: no result is lost or taken twice, and a result that is missing *)
(* because its selector failed makes the call fail.                            *)
ResultsExact ==
    loopKind = "SelectAsync" =>
        /\ \A i \in Item : results[i] <= 1 /\ (results[i] = 1 => Completed(i))
        /\ outcome = "ok" => \A i \in Item : results[i] = 1 /\ task[i] = "done"

(* Every call returns, when the tasks it waits for end.                        *)
Returns == <>(pc = "returned")
=============================================================================
