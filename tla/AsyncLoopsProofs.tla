---------------------------- MODULE AsyncLoopsProofs ---------------------------
(* What the throttled loops promise for any number of items and any            *)
(* maxParallelCount.                                                           *)
EXTENDS AsyncLoops, FiniteSetTheorems, TLAPS

USE LoopAssumption

--------------------------------------------------------------------------------
(* The inductive invariant.                                                    *)

(* A task that left the list, or never entered it under a debugger, has ended, *)
(* unless the debugger's branch is just awaiting it.                           *)
TasksOK ==
    /\ \A i \in Item : i >= next <=> task[i] = "none"
    /\ \A i \in list : i < next
    /\ \A i \in Item : i < next /\ i \notin list =>
          Completed(i) \/ (pc = "awaiting" /\ i = next - 1)
    /\ debugger => list = {} /\ pc \in {"head", "awaiting", "returned"}
    /\ pc = "awaiting" => debugger /\ next > 1
    /\ completed \subseteq list
    /\ pc # "collecting" => completed = {}
    /\ pc = "collecting" => /\ loopKind = "SelectAsync"
                            /\ completed # {}
                            /\ \A i \in completed : Completed(i)
    /\ outcome # "none" <=> pc = "returned"
    /\ loopKind = "SelectAsync" => ~debugger

(* Until SelectAsync returns it holds the results of just the tasks it has     *)
(* removed from its list.                                                      *)
ResultsOK == loopKind = "SelectAsync" /\ pc # "returned" =>
    \A i \in Item : IF i < next /\ i \notin list
                    THEN results[i] = 1 /\ task[i] = "done"
                    ELSE results[i] = 0

(* ForeachAsync is one above the limit only with a list of running tasks, and  *)
(* then waits for one of them.  The others bound the list itself.              *)
CountOK == ~debugger =>
    /\ loopKind = "ForeachAsync" =>
        /\ pc = "head" => /\ Cardinality(Running) <= MaxParallel
                          /\ Cardinality(Running) = MaxParallel => list = Running
        /\ pc \in {"check", "waiting"} =>
              /\ Cardinality(Running) <= MaxParallel + 1
              /\ Cardinality(Running) = MaxParallel + 1 => list = Running
    /\ loopKind # "ForeachAsync" =>
        /\ pc = "head" => list = {} \/ Cardinality(list) < MaxParallel
        /\ pc \in {"check", "waiting", "collecting"} => Cardinality(list) <= Bound

IInv ==
    /\ TypeOK
    /\ TasksOK
    /\ ResultsOK
    /\ CountOK
    /\ ParallelBound
    /\ OkMeansAllEnded
    /\ ResultsExact

--------------------------------------------------------------------------------
(* Facts about the finite sets of items.                                       *)
LEMMA ItemsFinite ==
    ASSUME NEW S \in SUBSET Item
    PROVE  IsFiniteSet(S) /\ Cardinality(S) \in Nat
<1>1. IsFiniteSet(Item)
    BY FS_Interval DEF Item
<1>. QED
    BY <1>1, FS_Subset, FS_CardinalityType

(* A set of items is no smaller than its subsets, and larger than the others.  *)
LEMMA ItemsSubset ==
    ASSUME NEW T \in SUBSET Item, NEW S \in SUBSET T
    PROVE  /\ Cardinality(S) <= Cardinality(T)
           /\ Cardinality(S) = Cardinality(T) => S = T
BY ItemsFinite, FS_Subset

(* One item more makes a set larger by one at most.                            *)
LEMMA ItemsAdd ==
    ASSUME NEW S \in SUBSET Item, NEW i \in Item
    PROVE  /\ Cardinality(S \cup {i}) <= Cardinality(S) + 1
           /\ Cardinality(S) <= Cardinality(S \cup {i})
BY ItemsFinite, FS_AddElement

--------------------------------------------------------------------------------
(* Type correctness.                                                           *)

(* The variables keep their types.                                             *)
LEMMA TypeStep ==
    ASSUME TypeOK, [Next]_vars
    PROVE  TypeOK'
<1> USE DEF TypeOK, Pcs, Item
<1>1. CASE UNCHANGED vars
    BY <1>1 DEF vars
<1>2. CASE ReturnCancelled
    BY <1>2 DEF ReturnCancelled, Return
<1>3. CASE StartItem
    BY <1>3 DEF StartItem
<1>4. CASE StartThrows
    BY <1>4 DEF StartThrows, Return
<1>5. CASE AwaitItem
    BY <1>5 DEF AwaitItem, Return
<1>6. CASE CheckThrottle
    BY <1>6 DEF CheckThrottle
<1>7. CASE AnyCompleted
    BY <1>7 DEF AnyCompleted
<1>8. CASE Collect
    <2>1. results' \in [Item -> Nat]
        BY <1>8 DEF Collect, Return
    <2>2. pc' \in Pcs /\ outcome' \in {"none", "ok", "cancelled", "faulted"}
        BY <1>8 DEF Collect, Return
    <2>. QED
        BY <1>8, <2>1, <2>2 DEF Collect, Return
<1>9. CASE Join
    BY <1>9 DEF Join, Return
<1>10. CASE Cancel
    BY <1>10 DEF Cancel
<1>11. ASSUME NEW i \in Item, Finish(i)
      PROVE  TypeOK'
    BY <1>11 DEF Finish
<1>. QED
    BY <1>1, <1>2, <1>3, <1>4, <1>5, <1>6, <1>7, <1>8, <1>9, <1>10, <1>11 DEF Next, Method

--------------------------------------------------------------------------------
(* The tasks and the results.                                                  *)

(* A task leaves the list only when it has ended.                              *)
LEMMA TasksStep ==
    ASSUME TypeOK, TasksOK, [Next]_vars
    PROVE  TasksOK'
<1> USE DEF TypeOK, TasksOK, Completed, Item, Pcs
<1>1. CASE UNCHANGED vars
    BY <1>1 DEF vars
<1>2. CASE ReturnCancelled
    BY <1>2 DEF ReturnCancelled, Return
<1>3. CASE StartItem
    BY <1>3 DEF StartItem
<1>4. CASE StartThrows
    BY <1>4 DEF StartThrows, Return
<1>5. CASE AwaitItem
    BY <1>5 DEF AwaitItem, Return
<1>6. CASE CheckThrottle
    <2>1. pc' \in {"waiting", "head"}
        BY <1>6 DEF CheckThrottle
    <2>. QED
        BY <1>6, <2>1 DEF CheckThrottle
<1>7. CASE AnyCompleted
    <2>1. CASE loopKind = "SelectAsync"
        <3>1. /\ completed' = {i \in list : Completed(i)}
              /\ completed' # {}
              /\ pc' = "collecting"
              /\ UNCHANGED <<loopKind, debugger, next, task, list, outcome>>
            BY <1>7, <2>1 DEF AnyCompleted
        <3>. QED
            BY <1>7, <2>1, <3>1 DEF AnyCompleted
    <2>2. CASE loopKind # "SelectAsync"
        <3>1. /\ list' = {i \in list : ~Completed(i)}
              /\ pc' = "head"
              /\ pc = "waiting"
              /\ UNCHANGED <<loopKind, debugger, next, task, completed, outcome>>
            BY <1>7, <2>2 DEF AnyCompleted
        <3>. QED
            BY <2>2, <3>1
    <2>. QED
        BY <2>1, <2>2
<1>8. CASE Collect
    BY <1>8 DEF Collect, Return
<1>9. CASE Join
    BY <1>9 DEF Join, Return
<1>10. CASE Cancel
    BY <1>10 DEF Cancel
<1>11. ASSUME NEW i \in Item, Finish(i)
      PROVE  TasksOK'
    BY <1>11 DEF Finish
<1>. QED
    BY <1>1, <1>2, <1>3, <1>4, <1>5, <1>6, <1>7, <1>8, <1>9, <1>10, <1>11 DEF Next, Method

(* SelectAsync adds the results of the tasks it removes, and no others.        *)
LEMMA ResultsStep ==
    ASSUME TypeOK, TasksOK, ResultsOK, [Next]_vars
    PROVE  ResultsOK'
<1> USE DEF TypeOK, TasksOK, ResultsOK, Completed, Item, Pcs
<1>1. CASE UNCHANGED vars
    BY <1>1 DEF vars
<1>2. CASE ReturnCancelled
    BY <1>2 DEF ReturnCancelled, Return
<1>3. CASE StartItem
    BY <1>3 DEF StartItem
<1>4. CASE StartThrows
    BY <1>4 DEF StartThrows, Return
<1>5. CASE AwaitItem
    BY <1>5 DEF AwaitItem, Return
<1>6. CASE CheckThrottle
    BY <1>6 DEF CheckThrottle
<1>7. CASE AnyCompleted
    BY <1>7 DEF AnyCompleted
<1>8. CASE Collect
    BY <1>8 DEF Collect, Return
<1>9. CASE Join
    BY <1>9 DEF Join, Return
<1>10. CASE Cancel
    BY <1>10 DEF Cancel
<1>11. ASSUME NEW i \in Item, Finish(i)
      PROVE  ResultsOK'
    BY <1>11 DEF Finish
<1>. QED
    BY <1>1, <1>2, <1>3, <1>4, <1>5, <1>6, <1>7, <1>8, <1>9, <1>10, <1>11 DEF Next, Method

(* The call waits for what is left in the list.                                *)
LEMMA OkStep ==
    ASSUME TypeOK, TasksOK, OkMeansAllEnded, [Next]_vars
    PROVE  OkMeansAllEnded'
<1> USE DEF TypeOK, TasksOK, OkMeansAllEnded, Completed, Item, Pcs
<1>1. CASE UNCHANGED vars
    BY <1>1 DEF vars
<1>2. CASE ReturnCancelled
    BY <1>2 DEF ReturnCancelled, Return
<1>3. CASE StartItem
    BY <1>3 DEF StartItem
<1>4. CASE StartThrows
    BY <1>4 DEF StartThrows, Return
<1>5. CASE AwaitItem
    BY <1>5 DEF AwaitItem, Return
<1>6. CASE CheckThrottle
    BY <1>6 DEF CheckThrottle
<1>7. CASE AnyCompleted
    BY <1>7 DEF AnyCompleted
<1>8. CASE Collect
    BY <1>8 DEF Collect, Return
<1>9. CASE Join
    BY <1>9 DEF Join, Return
<1>10. CASE Cancel
    BY <1>10 DEF Cancel
<1>11. ASSUME NEW i \in Item, Finish(i)
      PROVE  OkMeansAllEnded'
    BY <1>11 DEF Finish
<1>. QED
    BY <1>1, <1>2, <1>3, <1>4, <1>5, <1>6, <1>7, <1>8, <1>9, <1>10, <1>11 DEF Next, Method

(* At the end the rest of the list is added.                                   *)
LEMMA ExactStep ==
    ASSUME TypeOK, TasksOK, ResultsOK, ResultsExact, [Next]_vars
    PROVE  ResultsExact'
<1> USE DEF TypeOK, TasksOK, ResultsOK, ResultsExact, Completed, Item, Pcs
<1>1. CASE UNCHANGED vars
    BY <1>1 DEF vars
<1>2. CASE ReturnCancelled
    BY <1>2 DEF ReturnCancelled, Return
<1>3. CASE StartItem
    BY <1>3 DEF StartItem
<1>4. CASE StartThrows
    BY <1>4 DEF StartThrows, Return
<1>5. CASE AwaitItem
    BY <1>5 DEF AwaitItem, Return
<1>6. CASE CheckThrottle
    BY <1>6 DEF CheckThrottle
<1>7. CASE AnyCompleted
    BY <1>7 DEF AnyCompleted
<1>8. CASE Collect
    BY <1>8 DEF Collect, Return
<1>9. CASE Join
    BY <1>9 DEF Join, Return
<1>10. CASE Cancel
    BY <1>10 DEF Cancel
<1>11. ASSUME NEW i \in Item, Finish(i)
      PROVE  ResultsExact'
    BY <1>11 DEF Finish
<1>. QED
    BY <1>1, <1>2, <1>3, <1>4, <1>5, <1>6, <1>7, <1>8, <1>9, <1>10, <1>11 DEF Next, Method

--------------------------------------------------------------------------------
(* The number of tasks.                                                        *)
LEMMA RunningInList ==
    ASSUME TypeOK, TasksOK, ~debugger
    PROVE  Running \subseteq list
BY DEF TypeOK, TasksOK, Running, Completed, Item

(* Only StartItem makes a task run.                                            *)
LEMMA RunningStep ==
    ASSUME TypeOK, [Next]_vars, ~StartItem
    PROVE  Running' \subseteq Running
<1>1. task' = task \/ \E i \in Item : Finish(i)
    BY DEF Next, Method, vars, ReturnCancelled, StartThrows, AwaitItem, CheckThrottle,
       AnyCompleted, Collect, Join, Cancel
<1>2. CASE task' = task
    BY <1>2 DEF Running
<1>3. ASSUME NEW i \in Item, Finish(i)
      PROVE  Running' \subseteq Running
    BY <1>3 DEF Finish, Running, TypeOK
<1>. QED
    BY <1>1, <1>2, <1>3

(* ForeachAsync at the head of the loop.                                       *)
LEMMA StartForeach ==
    ASSUME TypeOK, TasksOK, CountOK, StartItem, ~debugger, loopKind = "ForeachAsync"
    PROVE  /\ Cardinality(Running') <= MaxParallel + 1
           /\ Cardinality(Running') = MaxParallel + 1 => list' = Running'
<1>1. /\ next \in Item
      /\ task' \in [Item -> {"none", "running", "done", "faulted"}]
      /\ \A i \in Item : i # next => task'[i] = task[i]
      /\ list' = list \cup {next}
      /\ task[next] = "none"
      /\ pc = "head"
    BY DEF StartItem, TypeOK, TasksOK, Item
<1>2. Running \in SUBSET Item /\ Running' \in SUBSET Item
    BY DEF Running
<1>3. Running \subseteq list
    BY RunningInList
<1>4. /\ Cardinality(Running) <= MaxParallel
      /\ Cardinality(Running) = MaxParallel => list = Running
    BY <1>1 DEF CountOK
<1>5. Cardinality(Running) \in Nat /\ Cardinality(Running') \in Nat
    BY <1>2, ItemsFinite
<1>6. CASE task'[next] = "running"
    <2>1. Running' = Running \cup {next}
        BY <1>1, <1>6 DEF Running
    <2>2. Cardinality(Running') <= Cardinality(Running) + 1
        BY <1>1, <1>2, <2>1, ItemsAdd
    <2>. QED
        BY <1>1, <1>4, <1>5, <2>1, <2>2
<1>7. CASE task'[next] # "running"
    <2>1. Running' = Running
        BY <1>1, <1>7 DEF Running
    <2>. QED
        BY <1>4, <1>5, <2>1
<1>. QED
    BY <1>6, <1>7

(* ForeachAsync after the wait: a running task has ended, or the list held one *)
(* that had ended, and then it was not one above the limit.                    *)
LEMMA DropForeach ==
    ASSUME TypeOK, TasksOK, CountOK, AnyCompleted, loopKind = "ForeachAsync"
    PROVE  /\ Running' = Running
           /\ ~debugger => list' = Running
           /\ ~debugger => Cardinality(Running) <= MaxParallel
<1> SUFFICES ASSUME ~debugger
             PROVE  /\ Running' = Running
                    /\ list' = Running
                    /\ Cardinality(Running) <= MaxParallel
    BY DEF AnyCompleted, Running
<1>1. pc = "waiting" /\ Running' = Running
    BY DEF AnyCompleted, Running
<1>2. list' = {i \in list : ~Completed(i)}
    BY DEF AnyCompleted
<1>3. Running \subseteq list
    BY RunningInList
<1>4. list' = Running
    <2>1. \A i \in list : i \in Item /\ task[i] \in {"running", "done", "faulted"}
        BY DEF TypeOK, TasksOK, Item
    <2>. QED
        BY <1>2, <1>3, <2>1 DEF Running, Completed
<1>5. list # Running
    BY DEF AnyCompleted, Completed, Running
<1>6. Cardinality(Running) \in Nat
    BY ItemsFinite DEF Running
<1>. QED
    BY <1>1, <1>4, <1>5, <1>6 DEF CountOK

(* ForAsync and SelectAsync: the list grows by one at the head of the loop and *)
(* shrinks by one at least after the wait.                                     *)
LEMMA StartOther ==
    ASSUME TypeOK, CountOK, StartItem, ~debugger, loopKind # "ForeachAsync"
    PROVE  Cardinality(list') <= Bound
<1>1. next \in Item /\ list \in SUBSET Item /\ list' = list \cup {next} /\ pc = "head"
    BY DEF StartItem, TypeOK, Item
<1>2. Cardinality(list') <= Cardinality(list) + 1
    BY <1>1, ItemsAdd
<1>3. Cardinality(list) \in Nat /\ Cardinality(list') \in Nat
    <2>1. list' \in SUBSET Item
        BY <1>1
    <2>. QED
        BY <1>1, <2>1, ItemsFinite
<1>4. list = {} \/ Cardinality(list) < MaxParallel
    BY <1>1 DEF CountOK
<1>5. CASE list = {}
    <2>1. Cardinality(list) = 0
        BY <1>5, FS_EmptySet
    <2>. QED
        BY <1>2, <1>3, <2>1 DEF Bound
<1>6. CASE Cardinality(list) < MaxParallel
    BY <1>2, <1>3, <1>6 DEF Bound
<1>. QED
    BY <1>4, <1>5, <1>6

(* ForAsync and SelectAsync have room again once their list has shrunk.        *)
LEMMA ShrinkOther ==
    ASSUME NEW S \in SUBSET Item, NEW T \in SUBSET S, T # S,
           loopKind # "ForeachAsync", Cardinality(S) <= Bound
    PROVE  T = {} \/ Cardinality(T) < MaxParallel
<1>1. Cardinality(T) <= Cardinality(S) /\ Cardinality(T) # Cardinality(S)
    BY ItemsSubset
<1>2. Cardinality(T) \in Nat /\ Cardinality(S) \in Nat
    BY ItemsFinite
<1>3. Cardinality(T) = 0 => T = {}
    BY ItemsFinite, FS_EmptySet
<1>. QED
    BY <1>1, <1>2, <1>3 DEF Bound

(* The bounds hold at each point of the loop.                                  *)
LEMMA CountStep ==
    ASSUME TypeOK, TasksOK, CountOK, [Next]_vars
    PROVE  CountOK'
<1> USE DEF CountOK, Running, Bound
<1>1. CASE UNCHANGED vars
    BY <1>1 DEF vars
<1>2. CASE ReturnCancelled
    BY <1>2 DEF ReturnCancelled, Return
<1>3. CASE StartItem
    <2>1. debugger' = debugger /\ loopKind' = loopKind /\ Bound' = Bound
        BY <1>3 DEF StartItem, Bound
    <2>2. ~debugger => pc' = "check"
        BY <1>3 DEF StartItem
    <2>. QED
        BY <1>3, <2>1, <2>2, StartForeach, StartOther DEF CountOK
<1>4. CASE StartThrows
    BY <1>4 DEF StartThrows, Return
<1>5. CASE AwaitItem
    <2>1. debugger /\ debugger'
        BY <1>5 DEF AwaitItem, TasksOK
    <2>. QED
        BY <2>1
<1>6. CASE CheckThrottle
    <2>1. /\ pc = "check"
          /\ UNCHANGED <<debugger, loopKind, list, task>>
          /\ pc' = IF Throttled THEN "waiting" ELSE "head"
        BY <1>6 DEF CheckThrottle
    <2>2. Running' = Running /\ Bound' = Bound
        BY <2>1 DEF Running, Bound
    <2>3. Cardinality(Running) \in Nat /\ Cardinality(list) \in Nat
        BY ItemsFinite DEF Running, TypeOK
    <2>4. CASE Throttled
        BY <2>1, <2>2, <2>4 DEF CountOK
    <2>5. CASE ~Throttled /\ loopKind = "ForeachAsync"
        <3>1. ~debugger => list \cap Running = Running
            BY RunningInList
        <3>2. ~debugger => Cardinality(Running) < MaxParallel
            BY <2>3, <2>5, <3>1 DEF Throttled
        <3>. QED
            BY <2>1, <2>2, <2>3, <2>5, <3>2 DEF CountOK
    <2>6. CASE ~Throttled /\ loopKind # "ForeachAsync"
        <3>1. Cardinality(list) < MaxParallel
            BY <2>3, <2>6 DEF Throttled
        <3>. QED
            BY <2>1, <2>2, <2>6, <3>1 DEF CountOK
    <2>. QED
        BY <2>4, <2>5, <2>6
<1>7. CASE AnyCompleted
    <2>1. /\ pc = "waiting"
          /\ UNCHANGED <<debugger, loopKind, task>>
          /\ Bound' = Bound
        BY <1>7 DEF AnyCompleted, Bound
    <2>2. CASE loopKind = "ForeachAsync"
        <3>1. pc' = "head"
            BY <1>7, <2>2 DEF AnyCompleted
        <3>. QED
            BY <1>7, <2>1, <2>2, <3>1, DropForeach DEF CountOK
    <2>3. CASE loopKind = "ForAsync"
        <3>1. /\ pc' = "head"
              /\ list' = {i \in list : ~Completed(i)}
              /\ list' # list
            BY <1>7, <2>3 DEF AnyCompleted
        <3>2. CASE debugger
            BY <2>1, <3>2 DEF CountOK
        <3>3. CASE ~debugger
            <4>1. Cardinality(list) <= Bound
                BY <2>1, <2>3, <3>3 DEF CountOK
            <4>2. list' = {} \/ Cardinality(list') < MaxParallel
                BY <2>3, <3>1, <4>1, ShrinkOther DEF TypeOK
            <4>. QED
                BY <2>1, <2>3, <3>1, <4>2 DEF CountOK
        <3>. QED
            BY <3>2, <3>3
    <2>4. CASE loopKind = "SelectAsync"
        BY <1>7, <2>1, <2>4 DEF AnyCompleted, CountOK
    <2>. QED
        BY <2>2, <2>3, <2>4 DEF TypeOK, Loops
<1>8. CASE Collect
    <2>1. /\ pc = "collecting"
          /\ loopKind = "SelectAsync"
          /\ UNCHANGED <<debugger, loopKind>>
          /\ ~debugger
          /\ completed # {} /\ completed \subseteq list
        BY <1>8 DEF Collect, TasksOK
    <2>2. CASE pc' = "head" /\ list' = list \ completed
        <3>1. Cardinality(list) <= Bound
            BY <2>1 DEF CountOK
        <3>2. list' = {} \/ Cardinality(list') < MaxParallel
            BY <2>1, <2>2, <3>1, ShrinkOther DEF TypeOK
        <3>. QED
            BY <2>1, <2>2, <3>2 DEF CountOK
    <2>3. CASE pc' = "returned"
        BY <2>1, <2>3 DEF CountOK
    <2>. QED
        BY <1>8, <2>2, <2>3 DEF Collect, Return
<1>9. CASE Join
    BY <1>9 DEF Join, Return
<1>10. CASE Cancel
    BY <1>10 DEF Cancel
<1>11. ASSUME NEW i \in Item, Finish(i)
      PROVE  CountOK'
    <2>1. /\ UNCHANGED <<debugger, loopKind, pc, list>>
          /\ Bound' = Bound
          /\ task[i] = "running"
          /\ Running' = Running \ {i}
        BY <1>11 DEF Finish, Bound, Running, TypeOK
    <2>2. Running \in SUBSET Item /\ i \in Running
        BY <2>1 DEF Running
    <2>3. Cardinality(Running') = Cardinality(Running) - 1
        <3>1. IsFiniteSet(Running)
            BY <2>2, ItemsFinite
        <3>2. Cardinality(Running \ {i}) = Cardinality(Running) - 1
            BY <2>2, <3>1, FS_RemoveElement
        <3>. QED
            BY <2>1, <3>2
    <2>4. Cardinality(Running) \in Nat
        BY <2>2, ItemsFinite
    <2>. QED
        BY <2>1, <2>3, <2>4 DEF CountOK
<1>. QED
    BY <1>1, <1>2, <1>3, <1>4, <1>5, <1>6, <1>7, <1>8, <1>9, <1>10, <1>11 DEF Next, Method

(* Only starting an item brings the running tasks nearer to the bound.         *)
LEMMA ParallelStep ==
    ASSUME TypeOK, TasksOK, CountOK, ParallelBound, [Next]_vars
    PROVE  ParallelBound'
<1>1. TypeOK' /\ TasksOK'
    BY TypeStep, TasksStep
<1>2. Bound' = Bound
    BY DEF Next, Method, vars, Bound, ReturnCancelled, StartItem, StartThrows, AwaitItem,
       CheckThrottle, AnyCompleted, Collect, Join, Cancel, Finish
<1>3. Running \in SUBSET Item /\ Running' \in SUBSET Item
    BY DEF Running
<1>4. Cardinality(Running) \in Nat /\ Cardinality(Running') \in Nat
    BY <1>3, ItemsFinite
<1>5. CASE ~StartItem
    <2>1. Cardinality(Running') <= Cardinality(Running)
        BY <1>3, <1>5, RunningStep, ItemsSubset
    <2>. QED
        BY <1>2, <1>4, <2>1 DEF ParallelBound, Bound
<1>6. CASE StartItem /\ debugger
    <2>1. Running' \subseteq {next}
        <3>1. pc = "head" /\ list = {} /\ next \in Nat
            BY <1>6 DEF StartItem, TypeOK, TasksOK
        <3>2. \A i \in Item : task[i] # "running"
            BY <3>1 DEF TasksOK, Completed, Item
        <3>3. \A i \in Item : i # next => task'[i] = task[i]
            BY <1>6 DEF StartItem, TypeOK
        <3>. QED
            BY <3>2, <3>3 DEF Running
    <2>2. Cardinality({next}) = 1
        BY FS_Singleton
    <2>3. Cardinality(Running') <= 1
        <3>1. {next} \in SUBSET Item
            BY <1>6 DEF StartItem, Item, TypeOK
        <3>. QED
            BY <2>1, <2>2, <3>1, ItemsSubset
    <2>. QED
        BY <1>2, <1>4, <2>3 DEF ParallelBound, Bound
<1>7. CASE StartItem /\ ~debugger
    <2>1. CASE loopKind = "ForeachAsync"
        BY <1>2, <1>7, <2>1, StartForeach DEF ParallelBound, Bound
    <2>2. CASE loopKind # "ForeachAsync"
        <3>1. Cardinality(list') <= Bound
            BY <1>7, <2>2, StartOther
        <3>2. Running' \subseteq list' /\ list' \in SUBSET Item
            BY <1>1, <1>7 DEF StartItem, TypeOK, TasksOK, Running, Completed, Item
        <3>3. Cardinality(Running') <= Cardinality(list') /\ Cardinality(list') \in Nat
            BY <3>2, ItemsSubset, ItemsFinite
        <3>. QED
            BY <1>2, <1>4, <3>1, <3>3 DEF ParallelBound, Bound
    <2>. QED
        BY <2>1, <2>2
<1>. QED
    BY <1>5, <1>6, <1>7

--------------------------------------------------------------------------------
(* The theorems.                                                               *)
LEMMA InvariantInit == Init => IInv
<1> SUFFICES ASSUME Init
             PROVE  IInv
    OBVIOUS
<1>1. Running = {} /\ list = {}
    BY DEF Init, Running
<1>2. Cardinality({}) = 0
    BY FS_EmptySet
<1>3. debugger \in BOOLEAN
    BY DEF Init
<1>4. TypeOK /\ TasksOK /\ ResultsOK
    <2>1. loopKind = "SelectAsync" => debugger = FALSE
        BY DEF Init
    <2>2. TypeOK
        <3>1. next \in 1 .. Items + 1 /\ pc \in Pcs /\ outcome = "none"
            BY DEF Init, Pcs
        <3>2. task \in [Item -> {"none", "running", "done", "faulted"}]
            BY DEF Init
        <3>3. results \in [Item -> Nat]
            BY DEF Init
        <3>4. /\ loopKind \in Loops /\ cancelled \in BOOLEAN
              /\ list \in SUBSET Item /\ completed \in SUBSET Item
            BY DEF Init
        <3>. QED
            BY <1>3, <3>1, <3>2, <3>3, <3>4 DEF TypeOK
    <2>3. TasksOK
        BY <1>1, <2>1 DEF Init, TasksOK, Item
    <2>. QED
        BY <2>2, <2>3 DEF Init, ResultsOK, Item
<1>5. CountOK /\ ParallelBound
    BY <1>1, <1>2 DEF Init, CountOK, ParallelBound, Bound
<1>6. OkMeansAllEnded /\ ResultsExact
    BY DEF Init, OkMeansAllEnded, ResultsExact
<1>. QED
    BY <1>4, <1>5, <1>6 DEF IInv

(* The invariant is inductive.                                                 *)
LEMMA InvariantStep == IInv /\ [Next]_vars => IInv'
BY TypeStep, TasksStep, ResultsStep, CountStep, ParallelStep, OkStep, ExactStep DEF IInv

(* The variables keep their types, and the invariants that explain the rest    *)
(* hold.                                                                       *)
THEOREM Invariant == Spec => []IInv
BY InvariantInit, InvariantStep, PTL DEF Spec

(* The variables keep their types.                                             *)
THEOREM TypeCorrect == Spec => []TypeOK
<1>1. IInv => TypeOK
    BY DEF IInv
<1>. QED
    BY <1>1, Invariant, PTL

(* maxParallelCount bounds the running tasks of ForAsync and SelectAsync, and  *)
(* ForeachAsync exceeds it by one at most, for any number of items.            *)
THEOREM ParallelismBounded == Spec => []ParallelBound
<1>1. IInv => ParallelBound
    BY DEF IInv
<1>. QED
    BY <1>1, Invariant, PTL

(* A call that ends well has waited for every task.                            *)
THEOREM NothingLeftRunning == Spec => []OkMeansAllEnded
<1>1. IInv => OkMeansAllEnded
    BY DEF IInv
<1>. QED
    BY <1>1, Invariant, PTL

(* SelectAsync returns each result once, or fails.                             *)
THEOREM ResultsExactlyOnce == Spec => []ResultsExact
<1>1. IInv => ResultsExact
    BY DEF IInv
<1>. QED
    BY <1>1, Invariant, PTL

--------------------------------------------------------------------------------
(* What liveness rests on: the call always can go on or waits for a task that  *)
(* runs, and no behaviour has more steps than Left allows.                     *)

(* The method's next step is not held up by a task.                            *)
CanGoOn ==
    \/ pc \in {"check", "collecting"}
    \/ pc = "head" /\ next <= Items
    \/ pc = "head" /\ \A i \in list : Completed(i)
    \/ pc = "waiting" /\ \E i \in list : Completed(i)
    \/ pc = "awaiting" /\ Completed(next - 1)
WaitsForTask == pc # "returned" => CanGoOn \/ Running # {}

(* WhenAny is never given an empty list, which it refuses.                     *)
ListToWaitFor == pc \in {"check", "waiting"} => list # {}

(* The steps that are left: those to the next item, seven at most for each     *)
(* item, one for each task and one for the cancellation.                       *)
Open == {i \in Item : ~Completed(i)}
Rank == CASE pc = "head" -> 2
          [] pc = "check" -> 5
          [] pc = "waiting" -> 4
          [] pc \in {"collecting", "awaiting"} -> 3
          [] pc = "returned" -> 0
Left == 7 * (Items + 1 - next) + Rank + Cardinality(Open) + IF cancelled THEN 0 ELSE 1

(* A started task is in the list until the loop has waited.                    *)
LEMMA ListToWaitForStep ==
    ASSUME TypeOK, TasksOK, ListToWaitFor, [Next]_vars
    PROVE  ListToWaitFor'
<1> USE DEF ListToWaitFor
<1>1. CASE StartItem
    BY <1>1 DEF StartItem, TasksOK
<1>2. CASE ~StartItem
    <2>1. \/ pc' \notin {"check", "waiting"}
          \/ list' = list /\ (pc' = pc \/ pc = "check")
        BY <1>2 DEF Next, Method, vars, ReturnCancelled, StartThrows, AwaitItem,
           CheckThrottle, AnyCompleted, Collect, Join, Cancel, Finish, Return
    <2>. QED
        BY <2>1
<1>. QED
    BY <1>1, <1>2

(* The tasks that have not ended are finitely many, and none comes back.       *)
LEMMA OpenStep ==
    ASSUME TypeOK, TasksOK, [Next]_vars
    PROVE  /\ Cardinality(Open) \in Nat /\ Cardinality(Open') \in Nat
           /\ Cardinality(Open') <= Cardinality(Open)
           /\ \A i \in Item : Finish(i) => Cardinality(Open') < Cardinality(Open)
<1>1. Open \in SUBSET Item /\ Open' \in SUBSET Item
    BY DEF Open
<1>2. task' = task \/ StartItem \/ \E i \in Item : Finish(i)
    BY DEF Next, Method, vars, ReturnCancelled, StartThrows, AwaitItem, CheckThrottle,
       AnyCompleted, Collect, Join, Cancel
<1>3. Open' \subseteq Open
    <2>1. CASE task' = task
        BY <2>1 DEF Open, Completed
    <2>2. CASE StartItem
        <3>1. next \in Item /\ task[next] = "none" /\ \A i \in Item : i # next => task'[i] = task[i]
            BY <2>2 DEF StartItem, TypeOK, TasksOK, Item
        <3>. QED
            BY <3>1 DEF Open, Completed
    <2>3. ASSUME NEW i \in Item, Finish(i)
          PROVE  Open' \subseteq Open
        BY <2>3 DEF Finish, Open, Completed, TypeOK
    <2>. QED
        BY <1>2, <2>1, <2>2, <2>3
<1>4. ASSUME NEW i \in Item, Finish(i)
      PROVE  Open' # Open
    <2>1. i \in Open /\ i \notin Open'
        BY <1>4 DEF Finish, Open, Completed, TypeOK
    <2>. QED
        BY <2>1
<1>. QED
    BY <1>1, <1>3, <1>4, ItemsFinite, ItemsSubset

(* Each step lowers what is left.                                              *)
LEMMA LeftStep ==
    ASSUME TypeOK, TasksOK, Next
    PROVE  Left' < Left
<1>1. /\ Cardinality(Open) \in Nat /\ Cardinality(Open') \in Nat
      /\ Cardinality(Open') <= Cardinality(Open)
    BY OpenStep
<1>2. next \in 1 .. Items + 1 /\ pc \in Pcs /\ cancelled \in BOOLEAN
    BY DEF TypeOK
<1>3. ASSUME NEW i \in Item, Finish(i)
      PROVE  Left' < Left
    <2>1. UNCHANGED <<pc, next, cancelled>>
        BY <1>3 DEF Finish
    <2>2. Cardinality(Open') < Cardinality(Open)
        BY <1>3, OpenStep
    <2>3. Rank \in 0 .. 5 /\ Rank' = Rank
        BY <1>2, <2>1 DEF Rank, Pcs
    <2>. QED
        BY <1>1, <1>2, <2>1, <2>2, <2>3 DEF Left
<1>4. CASE StartItem
    <2>1. pc = "head" /\ pc' \in {"awaiting", "check"} /\ next' = next + 1 /\ cancelled' = cancelled
        BY <1>4 DEF StartItem
    <2>2. Rank = 2 /\ Rank' \in 3 .. 5
        BY <2>1 DEF Rank
    <2>. QED
        BY <1>1, <1>2, <2>1, <2>2 DEF Left
<1>5. CASE Cancel
    <2>1. UNCHANGED <<pc, next>> /\ ~cancelled /\ cancelled'
        BY <1>5 DEF Cancel
    <2>2. Rank \in 0 .. 5 /\ Rank' = Rank
        BY <1>2, <2>1 DEF Rank, Pcs
    <2>. QED
        BY <1>1, <1>2, <2>1, <2>2 DEF Left
<1>6. CASE Method /\ ~StartItem
    <2>1. UNCHANGED <<next, cancelled>>
        BY <1>6 DEF Method, ReturnCancelled, StartThrows, AwaitItem, CheckThrottle,
           AnyCompleted, Collect, Join
    <2>2. \/ pc = "head" /\ pc' = "returned"
          \/ pc = "awaiting" /\ pc' \in {"head", "returned"}
          \/ pc = "check" /\ pc' \in {"waiting", "head"}
          \/ pc = "waiting" /\ pc' \in {"collecting", "head"}
          \/ pc = "collecting" /\ pc' \in {"head", "returned"}
        BY <1>6 DEF Method, ReturnCancelled, StartThrows, AwaitItem, CheckThrottle,
           AnyCompleted, Collect, Join, Return
    <2>3. Rank \in 0 .. 5 /\ Rank' \in 0 .. 5 /\ Rank' < Rank
        BY <2>2 DEF Rank
    <2>. QED
        BY <1>1, <1>2, <2>1, <2>3 DEF Left
<1>. QED
    BY <1>3, <1>4, <1>5, <1>6 DEF Next

(* A call that has not returned goes on by itself or waits for a task that     *)
(* runs: it never waits for a list without tasks, as WhenAny would throw.      *)
THEOREM WaitsOnlyForTasks == Spec => [](WaitsForTask /\ ListToWaitFor)
<1>1. IInv /\ ListToWaitFor => WaitsForTask
    <2> SUFFICES ASSUME IInv, ListToWaitFor, pc # "returned", ~CanGoOn
                 PROVE  Running # {}
        BY DEF WaitsForTask
    <2>1. TypeOK /\ TasksOK
        BY DEF IInv
    <2>2. CASE pc \in {"head", "waiting"}
        <3>1. PICK i \in list : ~Completed(i)
            BY <2>2 DEF CanGoOn, ListToWaitFor
        <3>2. i \in Item /\ i < next /\ task[i] # "none"
            BY <2>1, <3>1 DEF TypeOK, TasksOK, Item
        <3>. QED
            BY <2>1, <3>1, <3>2 DEF TypeOK, Completed, Running
    <2>3. CASE pc = "awaiting"
        <3>1. next - 1 \in Item /\ task[next - 1] # "none" /\ ~Completed(next - 1)
            BY <2>1, <2>3 DEF TypeOK, TasksOK, Item, CanGoOn
        <3>. QED
            BY <2>1, <3>1 DEF TypeOK, Completed, Running
    <2>. QED
        BY <2>1, <2>2, <2>3 DEF CanGoOn, TypeOK, Pcs
<1>2. Init => ListToWaitFor
    BY DEF Init, ListToWaitFor
<1>3. IInv /\ ListToWaitFor /\ [Next]_vars => ListToWaitFor'
    BY ListToWaitForStep DEF IInv
<1>. QED
    BY <1>1, <1>2, <1>3, Invariant, PTL DEF Spec

(* Every step takes the call nearer to its end, so none goes on for ever: the  *)
(* loop has no way to drop its tasks and wait again without starting one.      *)
THEOREM EveryStepCounts == Spec => [](Left \in Nat) /\ [][Left' < Left]_vars
<1>1. IInv => Left \in Nat
    <2> SUFFICES ASSUME IInv  PROVE Left \in Nat
        OBVIOUS
    <2>1. next \in 1 .. Items + 1 /\ pc \in Pcs
        BY DEF IInv, TypeOK
    <2>2. Cardinality(Open) \in Nat
        BY ItemsFinite DEF Open
    <2>3. Rank \in 0 .. 5
        BY <2>1 DEF Rank, Pcs
    <2>. QED
        BY <2>1, <2>2, <2>3 DEF Left
<1>2. IInv /\ [Next]_vars => [Left' < Left]_vars
    BY LeftStep DEF IInv
<1>. QED
    BY <1>1, <1>2, Invariant, PTL DEF Spec
=============================================================================
