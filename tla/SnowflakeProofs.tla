---------------------------- MODULE SnowflakeProofs ----------------------------
(* The safety of the worker ids and of the ids generated from them, for any    *)
(* nodes, any width of a byte and of a worker id, and any bounds.              *)
EXTENDS SnowflakeGenerator, TLAPS

USE RangeAssumption, NodeAssumption, SequenceAssumption

--------------------------------------------------------------------------------
(* The byte conversion, up to the first wrap-around.                           *)
LEMMA ToByteValue ==
    ASSUME NEW i \in 0 .. ByteRange
    PROVE  ToByte(i) = IF i = ByteRange THEN 0 ELSE i
BY SMT DEF ToByte

(* The byte conversion gives a byte, and never a larger number.                *)
LEMMA ToByteType ==
    ASSUME NEW i \in Nat
    PROVE  ToByte(i) \in WorkIds /\ ToByte(i) <= i
BY SMT DEF ToByte, WorkIds

--------------------------------------------------------------------------------
(* The inductive invariant.                                                    *)

(* A start's number is one the counter gave out, and its worker id is that     *)
(* number (past the limit, a recycled id) or a configured one.                 *)
NumbersOK == \A n \in Node :
    /\ cur[n] <= counter
    /\ pc[n] = "down" => cur[n] = 0
    /\ pc[n] = "recycling" => cur[n] > MaxWorkId
    /\ HoldsId(n) /\ cur[n] # 0 /\ cur[n] <= MaxWorkId => workId[n] = ToByte(cur[n])
    /\ HoldsId(n) /\ cur[n] = 0 => workId[n] \in ConfigurableIds

(* The counter gives a number out once.                                        *)
NumbersDistinct == \A n, m \in Node : n # m /\ cur[n] # 0 => cur[n] # cur[m]

(* Once a loop has refreshed, its id's score is no older than that refresh,    *)
(* unless another holder of the id removed it.                                 *)
LeasesOK ==
    /\ \A w \in WorkIds : lease[w] <= now
    /\ \A n \in Node :
        /\ loop[n] => pc[n] \in {"serving", "stopping"}
        /\ refreshedAt[n] # Never =>
              /\ pc[n] \in {"serving", "stopping"}
              /\ refreshedAt[n] <= now
              /\ lease[workId[n]] = NoLease \/ lease[workId[n]] >= refreshedAt[n]
        /\ Punctual(n) /\ refreshedAt[n] # Never => now <= refreshedAt[n] + RefreshEvery

(* The worker ids of the generated ids were given out, and no generator is     *)
(* behind the ids that carry its worker id.                                    *)
IssuedOK == Unexhausted =>
    /\ \A id \in issued : \/ id[1] \in ConfigurableIds
                          \/ \E i \in 1 .. counter : id[1] = ToByte(i)
    /\ \A n \in Node : Allocated(n) =>
          \A id \in issued : id[1] = workId[n] => id[2] <= sequence[n]

IInv ==
    /\ TypeOK
    /\ NumbersOK
    /\ NumbersDistinct
    /\ LeasesOK
    /\ FailsOnlyAtLimit
    /\ IssuedOK

--------------------------------------------------------------------------------
(* Type correctness.                                                           *)
LEMMA TypeInit == Init => TypeOK
BY DEF Init, WInit, TypeOK, WTypeOK, Pcs, WorkIds, NoLease, Never, NoneYet

(* Every step keeps the types.                                                 *)
LEMMA TypeStep == TypeOK /\ [Next]_vars => TypeOK'
<1> SUFFICES ASSUME TypeOK, [Next]_vars
             PROVE  TypeOK'
    OBVIOUS
<1> USE DEF TypeOK, WTypeOK, Pcs, redisVars, nodeVars, generatorVars
<1>1. CASE UNCHANGED vars
    BY <1>1 DEF vars, workIdVars
<1>2. CASE ClockTick
    BY <1>2 DEF ClockTick, Tick, NoneYet
<1>3. ASSUME NEW n \in Node, ExitProcess(n)
      PROVE  TypeOK'
    <2>1. 0 \in WorkIds
        BY DEF WorkIds
    <2>. QED
        BY <1>3, <2>1 DEF ExitProcess, Exit, Never, NoneYet
<1>4. ASSUME NEW n \in Node, NextId(n)
      PROVE  TypeOK'
    <2>1. sequence[n] + 1 \in 0 .. MaxSequence
        BY <1>4 DEF NextId, NoneYet
    <2>. QED
        BY <1>4, <2>1 DEF NextId, workIdVars
<1>5. ASSUME NEW n \in Node, WorkIdStep(n)
      PROVE  TypeOK'
    <2>1. UNCHANGED generatorVars
        BY <1>5 DEF WorkIdStep
    <2>2. CASE InitConfigured(n)
        BY <2>1, <2>2 DEF InitConfigured
    <2>3. CASE IncrWorkId(n)
        <3>1. /\ counter + 1 \in 0 .. MaxStarts
              /\ ToByte(counter + 1) \in WorkIds
            BY <2>3, ToByteType DEF IncrWorkId
        <3>. QED
            BY <2>1, <2>3, <3>1 DEF IncrWorkId
    <2>4. CASE RegisterWorkId(n)
        BY <2>1, <2>4 DEF RegisterWorkId, RefreshWorkId
    <2>5. CASE RecycleWorkId(n)
        BY <2>1, <2>5 DEF RecycleWorkId, OldestExpired, Expired
    <2>6. CASE NoWorkIdAvailable(n)
        BY <2>1, <2>6 DEF NoWorkIdAvailable
    <2>7. CASE StartAsync(n)
        BY <2>1, <2>7 DEF StartAsync
    <2>8. CASE GeneratorRejectsId(n)
        BY <2>1, <2>8 DEF GeneratorRejectsId
    <2>9. CASE LoopRefresh(n)
        BY <2>1, <2>9 DEF LoopRefresh, RefreshWorkId
    <2>10. CASE LoopDies(n)
        BY <2>1, <2>10 DEF LoopDies
    <2>11. CASE StopAsync(n)
        BY <2>1, <2>11 DEF StopAsync
    <2>. QED
        BY <1>5, <2>2, <2>3, <2>4, <2>5, <2>6, <2>7, <2>8, <2>9, <2>10, <2>11
        DEF WorkIdStep
<1>. QED
    BY <1>1, <1>2, <1>3, <1>4, <1>5 DEF Next

(* The variables keep their types, whatever the deployment and the widths.     *)
THEOREM TypeCorrect == Spec => []TypeOK
BY TypeInit, TypeStep, PTL DEF Spec

--------------------------------------------------------------------------------
(* The numbers of the counter.                                                 *)
(* A start keeps its number, and its id, until the process exits.              *)
LEMMA NumbersStep == TypeOK /\ NumbersOK /\ [Next]_vars => NumbersOK'
<1> SUFFICES ASSUME TypeOK, NumbersOK, [Next]_vars
             PROVE  NumbersOK'
    OBVIOUS
<1> USE DEF NumbersOK, HoldsId, TypeOK, WTypeOK, redisVars, nodeVars, generatorVars
<1>1. CASE UNCHANGED vars
    BY <1>1 DEF vars, workIdVars
<1>2. CASE ClockTick
    BY <1>2 DEF ClockTick, Tick
<1>3. ASSUME NEW n \in Node, ExitProcess(n)
      PROVE  NumbersOK'
    BY <1>3 DEF ExitProcess, Exit
<1>4. ASSUME NEW n \in Node, NextId(n)
      PROVE  NumbersOK'
    BY <1>4 DEF NextId, workIdVars
<1>5. ASSUME NEW n \in Node, WorkIdStep(n)
      PROVE  NumbersOK'
    <2>1. UNCHANGED generatorVars
        BY <1>5 DEF WorkIdStep
    <2>2. CASE InitConfigured(n)
        BY <2>1, <2>2 DEF InitConfigured
    <2>3. CASE IncrWorkId(n)
        BY <2>1, <2>3 DEF IncrWorkId
    <2>4. CASE RegisterWorkId(n)
        BY <2>1, <2>4 DEF RegisterWorkId, RefreshWorkId
    <2>5. CASE RecycleWorkId(n)
        BY <2>1, <2>5 DEF RecycleWorkId, OldestExpired, Expired
    <2>6. CASE NoWorkIdAvailable(n)
        BY <2>1, <2>6 DEF NoWorkIdAvailable
    <2>7. CASE StartAsync(n)
        BY <2>1, <2>7 DEF StartAsync
    <2>8. CASE GeneratorRejectsId(n)
        BY <2>1, <2>8 DEF GeneratorRejectsId
    <2>9. CASE LoopRefresh(n)
        BY <2>1, <2>9 DEF LoopRefresh, RefreshWorkId
    <2>10. CASE LoopDies(n)
        BY <2>1, <2>10 DEF LoopDies
    <2>11. CASE StopAsync(n)
        BY <2>1, <2>11 DEF StopAsync
    <2>. QED
        BY <1>5, <2>2, <2>3, <2>4, <2>5, <2>6, <2>7, <2>8, <2>9, <2>10, <2>11
        DEF WorkIdStep
<1>. QED
    BY <1>1, <1>2, <1>3, <1>4, <1>5 DEF Next

(* INCR gives a start a number greater than every one in use.                  *)
LEMMA DistinctStep == TypeOK /\ NumbersOK /\ NumbersDistinct /\ [Next]_vars => NumbersDistinct'
<1> SUFFICES ASSUME TypeOK, NumbersOK, NumbersDistinct, [Next]_vars
             PROVE  NumbersDistinct'
    OBVIOUS
<1> USE DEF NumbersOK, NumbersDistinct, TypeOK, WTypeOK, redisVars, nodeVars, generatorVars
<1>1. CASE UNCHANGED vars
    BY <1>1 DEF vars, workIdVars
<1>2. CASE ClockTick
    BY <1>2 DEF ClockTick, Tick
<1>3. ASSUME NEW n \in Node, ExitProcess(n)
      PROVE  NumbersDistinct'
    BY <1>3 DEF ExitProcess, Exit
<1>4. ASSUME NEW n \in Node, NextId(n)
      PROVE  NumbersDistinct'
    BY <1>4 DEF NextId, workIdVars
<1>5. ASSUME NEW n \in Node, WorkIdStep(n)
      PROVE  NumbersDistinct'
    <2>1. UNCHANGED generatorVars
        BY <1>5 DEF WorkIdStep
    <2>2. CASE InitConfigured(n)
        BY <2>1, <2>2 DEF InitConfigured
    <2>3. CASE IncrWorkId(n)
        BY <2>1, <2>3 DEF IncrWorkId
    <2>4. CASE RegisterWorkId(n)
        BY <2>1, <2>4 DEF RegisterWorkId, RefreshWorkId
    <2>5. CASE RecycleWorkId(n)
        BY <2>1, <2>5 DEF RecycleWorkId, OldestExpired, Expired
    <2>6. CASE NoWorkIdAvailable(n)
        BY <2>1, <2>6 DEF NoWorkIdAvailable
    <2>7. CASE StartAsync(n)
        BY <2>1, <2>7 DEF StartAsync
    <2>8. CASE GeneratorRejectsId(n)
        BY <2>1, <2>8 DEF GeneratorRejectsId
    <2>9. CASE LoopRefresh(n)
        BY <2>1, <2>9 DEF LoopRefresh, RefreshWorkId
    <2>10. CASE LoopDies(n)
        BY <2>1, <2>10 DEF LoopDies
    <2>11. CASE StopAsync(n)
        BY <2>1, <2>11 DEF StopAsync
    <2>. QED
        BY <1>5, <2>2, <2>3, <2>4, <2>5, <2>6, <2>7, <2>8, <2>9, <2>10, <2>11
        DEF WorkIdStep
<1>. QED
    BY <1>1, <1>2, <1>3, <1>4, <1>5 DEF Next

(* A start fails with a number that is no id, or with the first that is none.  *)
LEMMA FailsStep == TypeOK /\ NumbersOK /\ FailsOnlyAtLimit /\ [Next]_vars => FailsOnlyAtLimit'
<1> SUFFICES ASSUME TypeOK, NumbersOK, FailsOnlyAtLimit, [Next]_vars
             PROVE  FailsOnlyAtLimit'
    OBVIOUS
<1> USE DEF NumbersOK, FailsOnlyAtLimit, HoldsId, TypeOK, WTypeOK, redisVars, nodeVars, generatorVars
<1>1. CASE UNCHANGED vars
    BY <1>1 DEF vars, workIdVars
<1>2. CASE ClockTick
    BY <1>2 DEF ClockTick, Tick
<1>3. ASSUME NEW n \in Node, ExitProcess(n)
      PROVE  FailsOnlyAtLimit'
    BY <1>3 DEF ExitProcess, Exit
<1>4. ASSUME NEW n \in Node, NextId(n)
      PROVE  FailsOnlyAtLimit'
    BY <1>4 DEF NextId, workIdVars
<1>5. ASSUME NEW n \in Node, WorkIdStep(n)
      PROVE  FailsOnlyAtLimit'
    <2>1. UNCHANGED generatorVars
        BY <1>5 DEF WorkIdStep
    <2>2. CASE InitConfigured(n)
        BY <2>1, <2>2 DEF InitConfigured
    <2>3. CASE IncrWorkId(n)
        BY <2>1, <2>3 DEF IncrWorkId
    <2>4. CASE RegisterWorkId(n)
        BY <2>1, <2>4 DEF RegisterWorkId, RefreshWorkId
    <2>5. CASE RecycleWorkId(n)
        BY <2>1, <2>5 DEF RecycleWorkId, OldestExpired, Expired
    <2>6. CASE NoWorkIdAvailable(n)
        BY <2>1, <2>6 DEF NoWorkIdAvailable
    <2>7. CASE StartAsync(n)
        BY <2>1, <2>7 DEF StartAsync
    <2>8. CASE GeneratorRejectsId(n)
        <3>1. cur[n] \in Nat /\ workId[n] \in Nat
            BY DEF WorkIds
        <3>2. ToByte(cur[n]) <= cur[n] /\ ToByte(cur[n]) \in WorkIds
            BY <3>1, ToByteType
        <3>3. cur[n] # 0 /\ cur[n] <= MaxWorkId => cur[n] >= MaxWorkId
            BY <2>8, <3>1, <3>2 DEF GeneratorRejectsId, FitsGenerator
        <3>. QED
            BY <2>1, <2>8, <3>3 DEF GeneratorRejectsId
    <2>9. CASE LoopRefresh(n)
        BY <2>1, <2>9 DEF LoopRefresh, RefreshWorkId
    <2>10. CASE LoopDies(n)
        BY <2>1, <2>10 DEF LoopDies
    <2>11. CASE StopAsync(n)
        BY <2>1, <2>11 DEF StopAsync
    <2>. QED
        BY <1>5, <2>2, <2>3, <2>4, <2>5, <2>6, <2>7, <2>8, <2>9, <2>10, <2>11
        DEF WorkIdStep
<1>. QED
    BY <1>1, <1>2, <1>3, <1>4, <1>5 DEF Next

(* A score only grows, except that a holder of the id may remove it.           *)
LEMMA LeasesStep == TypeOK /\ LeasesOK /\ [Next]_vars => LeasesOK'
<1> SUFFICES ASSUME TypeOK, LeasesOK, [Next]_vars
             PROVE  LeasesOK'
    OBVIOUS
<1> USE DEF LeasesOK, Punctual, NoLease, Never, RefreshEvery, TypeOK, WTypeOK, redisVars, nodeVars, generatorVars
<1>1. CASE UNCHANGED vars
    BY <1>1 DEF vars, workIdVars
<1>2. CASE ClockTick
    BY <1>2 DEF ClockTick, Tick
<1>3. ASSUME NEW n \in Node, ExitProcess(n)
      PROVE  LeasesOK'
    BY <1>3 DEF ExitProcess, Exit
<1>4. ASSUME NEW n \in Node, NextId(n)
      PROVE  LeasesOK'
    BY <1>4 DEF NextId, workIdVars
<1>5. ASSUME NEW n \in Node, WorkIdStep(n)
      PROVE  LeasesOK'
    <2>1. UNCHANGED generatorVars
        BY <1>5 DEF WorkIdStep
    <2>2. CASE InitConfigured(n)
        BY <2>1, <2>2 DEF InitConfigured
    <2>3. CASE IncrWorkId(n)
        BY <2>1, <2>3 DEF IncrWorkId
    <2>4. CASE RegisterWorkId(n)
        BY <2>1, <2>4 DEF RegisterWorkId, RefreshWorkId
    <2>5. CASE RecycleWorkId(n)
        BY <2>1, <2>5 DEF RecycleWorkId, OldestExpired, Expired
    <2>6. CASE NoWorkIdAvailable(n)
        BY <2>1, <2>6 DEF NoWorkIdAvailable
    <2>7. CASE StartAsync(n)
        BY <2>1, <2>7 DEF StartAsync
    <2>8. CASE GeneratorRejectsId(n)
        BY <2>1, <2>8 DEF GeneratorRejectsId
    <2>9. CASE LoopRefresh(n)
        BY <2>1, <2>9 DEF LoopRefresh, RefreshWorkId
    <2>10. CASE LoopDies(n)
        BY <2>1, <2>10 DEF LoopDies
    <2>11. CASE StopAsync(n)
        BY <2>1, <2>11 DEF StopAsync
    <2>. QED
        BY <1>5, <2>2, <2>3, <2>4, <2>5, <2>6, <2>7, <2>8, <2>9, <2>10, <2>11
        DEF WorkIdStep
<1>. QED
    BY <1>1, <1>2, <1>3, <1>4, <1>5 DEF Next

--------------------------------------------------------------------------------
(* Until the ids are exhausted.                                                *)

(* What is exhausted stays so: the counter never goes back.                    *)
LEMMA UnexhaustedBefore ==
    ASSUME TypeOK, [Next]_vars, Unexhausted'
    PROVE  Unexhausted /\ counter <= counter'
<1> USE DEF TypeOK, WTypeOK, redisVars, nodeVars
<1>1. counter \in Nat /\ (counter' = counter \/ counter' = counter + 1)
    <2>1. CASE UNCHANGED vars
        BY <2>1 DEF vars, workIdVars
    <2>2. CASE ClockTick
        BY <2>2 DEF ClockTick, Tick
    <2>3. ASSUME NEW n \in Node, ExitProcess(n)
          PROVE  counter' = counter
        BY <2>3 DEF ExitProcess, Exit
    <2>4. ASSUME NEW n \in Node, NextId(n)
          PROVE  counter' = counter
        BY <2>4 DEF NextId, workIdVars
    <2>5. ASSUME NEW n \in Node, WorkIdStep(n)
          PROVE  counter' = counter \/ counter' = counter + 1
        BY <2>5 DEF WorkIdStep, InitConfigured, IncrWorkId, RegisterWorkId,
            RecycleWorkId, NoWorkIdAvailable, StartAsync, GeneratorRejectsId,
            LoopRefresh, LoopDies, StopAsync
    <2>. QED
        BY <2>1, <2>2, <2>3, <2>4, <2>5 DEF Next
<1>. QED
    BY <1>1 DEF Unexhausted

(* Different numbers are then different ids.                                   *)
LEMMA ToByteInjective ==
    ASSUME NEW i \in 1 .. ByteRange, NEW j \in 1 .. ByteRange, i # j
    PROVE  ToByte(i) # ToByte(j)
<1>1. /\ ToByte(i) = IF i = ByteRange THEN 0 ELSE i
      /\ ToByte(j) = IF j = ByteRange THEN 0 ELSE j
    BY ToByteValue
<1>. QED
    BY <1>1

(* Different numbers of the counter are different ids, until it wraps around.  *)
LEMMA NumbersGiveDistinctIds ==
    ASSUME TypeOK, NumbersOK, NumbersDistinct
    PROVE  DistinctWorkIds
<1> SUFFICES ASSUME Unexhausted, NEW n \in Node, NEW m \in Node,
                    n # m, Allocated(n), Allocated(m)
             PROVE  workId[n] # workId[m]
    BY DEF DistinctWorkIds
<1> USE DEF TypeOK, WTypeOK, NumbersOK, NumbersDistinct, Allocated
<1>1. /\ cur[n] \in 1 .. counter /\ cur[n] <= MaxWorkId
      /\ cur[m] \in 1 .. counter /\ cur[m] <= MaxWorkId
      /\ cur[n] # cur[m]
    BY DEF Unexhausted
<1>2. cur[n] \in 1 .. ByteRange /\ cur[m] \in 1 .. ByteRange
    BY <1>1 DEF Unexhausted
<1>3. workId[n] = ToByte(cur[n]) /\ workId[m] = ToByte(cur[m])
    BY <1>1
<1>. QED
    BY <1>1, <1>2, <1>3, ToByteInjective

(* A new id carries a worker id that was given out, and only its own node's    *)
(* generator has got that far with it.                                         *)
LEMMA IssuedStep ==
    ASSUME TypeOK, NumbersOK, NumbersDistinct, IssuedOK, [Next]_vars
    PROVE  IssuedOK'
<1> SUFFICES ASSUME Unexhausted'
             PROVE  /\ \A id \in issued' : \/ id[1] \in ConfigurableIds
                                           \/ \E i \in 1 .. counter' : id[1] = ToByte(i)
                    /\ \A m \in Node : Allocated(m)' =>
                          \A id \in issued' : id[1] = workId'[m] => id[2] <= sequence'[m]
    BY DEF IssuedOK, ToByte
<1>0. Unexhausted /\ counter <= counter'
    BY UnexhaustedBefore
<1>a. \A id \in issued : \/ id[1] \in ConfigurableIds
                         \/ \E i \in 1 .. counter : id[1] = ToByte(i)
    BY <1>0 DEF IssuedOK
<1>b. \A m \in Node : Allocated(m) =>
          \A id \in issued : id[1] = workId[m] => id[2] <= sequence[m]
    BY <1>0 DEF IssuedOK
<1>c. 1 .. counter \subseteq 1 .. counter'
    <2>1. TypeOK'
        BY TypeStep
    <2>. QED
        BY <1>0, <2>1 DEF TypeOK, WTypeOK
<1> USE DEF TypeOK, WTypeOK, redisVars, nodeVars, generatorVars
<1>1. CASE UNCHANGED vars
    BY <1>1, <1>a, <1>b DEF vars, workIdVars, Allocated, HoldsId
<1>2. CASE ClockTick
    BY <1>2 DEF ClockTick, Tick
<1>3. ASSUME NEW n \in Node, ExitProcess(n)
      PROVE  IssuedOK'
    <2>1. \A m \in Node : Allocated(m)' => m # n /\ Allocated(m)
        BY <1>3 DEF ExitProcess, Exit, Allocated, HoldsId
    <2>. QED
        BY <1>3, <1>a, <1>b, <2>1 DEF ExitProcess, Exit, IssuedOK
<1>4. ASSUME NEW n \in Node, NextId(n)
      PROVE  IssuedOK'
    <2>1. HoldsId(n) /\ UNCHANGED workIdVars
        BY <1>4 DEF NextId, HoldsId
    <2>2. cur[n] # 0 => cur[n] \in 1 .. counter /\ workId[n] = ToByte(cur[n])
        BY <1>0, <2>1 DEF NumbersOK, Unexhausted
    <2>3. cur[n] = 0 => workId[n] \in ConfigurableIds
        BY <2>1 DEF NumbersOK
    <2>4. \A m \in Node : m # n /\ Allocated(m) => workId[m] # workId[n]
        <3> SUFFICES ASSUME NEW m \in Node, m # n, Allocated(m)
                     PROVE  workId[m] # workId[n]
            OBVIOUS
        <3>1. CASE cur[n] = 0
            <4>1. cur[m] \in 1 .. counter /\ workId[m] = ToByte(cur[m])
                BY <1>0 DEF NumbersOK, Unexhausted, Allocated
            <4>. QED
                BY <1>0, <2>3, <3>1, <4>1 DEF Unexhausted
        <3>2. CASE cur[n] # 0
            BY <1>0, <2>1, <3>2, NumbersGiveDistinctIds DEF DistinctWorkIds, Allocated
        <3>. QED
            BY <3>1, <3>2
    <2>5. /\ issued' = issued \cup {<<workId[n], sequence[n] + 1>>}
          /\ sequence' = [sequence EXCEPT ![n] = @ + 1]
        BY <1>4 DEF NextId
    <2>6. \A id \in issued' : \/ id[1] \in ConfigurableIds
                              \/ \E i \in 1 .. counter' : id[1] = ToByte(i)
        BY <1>a, <2>1, <2>2, <2>3, <2>5 DEF workIdVars
    <2>7. ASSUME NEW m \in Node, Allocated(m)', NEW id \in issued', id[1] = workId'[m]
          PROVE  id[2] <= sequence'[m]
        <3>1. Allocated(m) /\ workId'[m] = workId[m]
            BY <2>1, <2>7 DEF workIdVars, Allocated, HoldsId
        <3>2. CASE id \in issued
            <4>1. id[2] <= sequence[m]
                BY <1>b, <2>7, <3>1, <3>2
            <4>2. id[2] \in Int /\ sequence[m] \in Int
                BY <3>2 DEF NoneYet
            <4>. QED
                BY <2>5, <4>1, <4>2
        <3>3. CASE id = <<workId[n], sequence[n] + 1>>
            <4>1. m = n
                BY <2>4, <2>7, <3>1, <3>3
            <4>. QED
                BY <2>5, <3>3, <4>1 DEF NoneYet
        <3>. QED
            BY <2>5, <3>2, <3>3
    <2>. QED
        BY <2>6, <2>7 DEF IssuedOK
<1>5. ASSUME NEW n \in Node, WorkIdStep(n)
      PROVE  IssuedOK'
    <2>1. UNCHANGED generatorVars
        BY <1>5 DEF WorkIdStep
    <2>2. \A id \in issued' : \/ id[1] \in ConfigurableIds
                              \/ \E i \in 1 .. counter' : id[1] = ToByte(i)
        <3> SUFFICES ASSUME NEW id \in issued
                     PROVE  \/ id[1] \in ConfigurableIds
                            \/ \E i \in 1 .. counter' : id[1] = ToByte(i)
            BY <2>1
        <3>. QED
            BY <1>a, <1>c
    <2>3. CASE IncrWorkId(n)
        <3>1. counter' = counter + 1 /\ counter + 1 <= MaxWorkId
            BY <2>3 DEF IncrWorkId, Unexhausted
        <3>2. workId' = [workId EXCEPT ![n] = ToByte(counter + 1)]
            BY <2>3, <3>1 DEF IncrWorkId
        <3>3. \A id \in issued : id[1] # ToByte(counter + 1)
            <4>1. ToByte(counter + 1) \notin ConfigurableIds
                BY <3>1 DEF Unexhausted
            <4>2. \A i \in 1 .. counter : ToByte(i) # ToByte(counter + 1)
                <5>1. counter + 1 \in 1 .. ByteRange
                    BY <3>1 DEF Unexhausted
                <5>. QED
                    BY <5>1, ToByteInjective
            <4>. QED
                BY <1>a, <4>1, <4>2
        <3>4. \A m \in Node : m # n /\ Allocated(m)' => Allocated(m)
            BY <2>3 DEF IncrWorkId, Allocated, HoldsId
        <3>. QED
            BY <1>b, <2>1, <2>2, <3>2, <3>3, <3>4 DEF IssuedOK
    <2>4. ASSUME ~IncrWorkId(n), NEW m \in Node, Allocated(m)'
          PROVE  Allocated(m) /\ workId'[m] = workId[m]
        <3>1. CASE RecycleWorkId(n)
            <4>1. cur[n] > MaxWorkId /\ cur[n] <= counter
                BY <3>1 DEF RecycleWorkId, NumbersOK
            <4>. QED
                BY <1>0, <4>1 DEF Unexhausted
        <3>2. CASE InitConfigured(n)
            <4>1. m # n
                BY <2>4, <3>2 DEF InitConfigured, NumbersOK, Allocated
            <4>. QED
                BY <2>4, <3>2, <4>1 DEF InitConfigured, Allocated, HoldsId
        <3>3. CASE ~RecycleWorkId(n) /\ ~InitConfigured(n)
            BY <1>5, <2>4, <3>3 DEF WorkIdStep, RegisterWorkId, NoWorkIdAvailable,
                StartAsync, GeneratorRejectsId, LoopRefresh, LoopDies, StopAsync,
                Allocated, HoldsId
        <3>. QED
            BY <3>1, <3>2, <3>3
    <2>. QED
        BY <1>b, <2>1, <2>2, <2>3, <2>4 DEF IssuedOK
<1>. QED
    BY <1>1, <1>2, <1>3, <1>4, <1>5 DEF Next, IssuedOK

--------------------------------------------------------------------------------
(* The theorems.                                                               *)
LEMMA InvariantInit == Init => IInv
<1> SUFFICES ASSUME Init
             PROVE  IInv
    OBVIOUS
<1>1. TypeOK
    BY TypeInit
<1>. QED
    BY <1>1 DEF Init, WInit, IInv, NumbersOK, NumbersDistinct, LeasesOK,
       FailsOnlyAtLimit, IssuedOK, HoldsId, Allocated, Punctual, NoLease, Never

(* The invariant is inductive.                                                 *)
LEMMA InvariantStep == IInv /\ [Next]_vars => IInv'
BY TypeStep, NumbersStep, DistinctStep, LeasesStep, FailsStep, IssuedStep DEF IInv

(* A lease as fresh as the last refresh is outside the 15 s query.             *)
LEMMA LeasesProtect ==
    ASSUME TypeOK, LeasesOK
    PROVE  PunctualNotRecyclable
<1> SUFFICES ASSUME NEW n \in Node, Punctual(n), refreshedAt[n] # Never,
                    workId[n] \in Expired
             PROVE  FALSE
    BY DEF PunctualNotRecyclable
<1>1. /\ lease[workId[n]] >= refreshedAt[n]
      /\ now <= refreshedAt[n] + RefreshEvery
    BY DEF LeasesOK, Expired
<1>2. lease[workId[n]] <= now - ExpireAfter
    BY DEF Expired
<1>. QED
    BY <1>1, <1>2 DEF TypeOK, WTypeOK, NoLease, Never, RefreshEvery

(* The next sequence number of an id nobody shares is in no id of this tick.   *)
LEMMA NewIdIsFresh ==
    ASSUME IInv, NEW n \in Node, NextId(n), Unexhausted, cur[n] # 0
    PROVE  issued' # issued
<1>1. Allocated(n)
    BY DEF NextId, Allocated, HoldsId
<1>2. \A id \in issued : id[1] = workId[n] => id[2] <= sequence[n]
    BY <1>1 DEF IInv, IssuedOK
<1>3. sequence[n] \in Int
    BY DEF IInv, TypeOK, NoneYet
<1>4. <<workId[n], sequence[n] + 1>> \notin issued
    BY <1>2, <1>3
<1>. QED
    BY <1>4 DEF NextId

(* In every behaviour, the counter, the ids, the leases, the failures and the  *)
(* ids generated in this tick agree with one another.                          *)
THEOREM Invariant == Spec => []IInv
BY InvariantInit, InvariantStep, PTL DEF Spec

(* No two nodes that took their ids from the counter hold the same one, until  *)
(* the byte wraps around or ids are recycled.                                  *)
THEOREM WorkIdsDistinct == Spec => []DistinctWorkIds
<1>1. IInv => DistinctWorkIds
    BY NumbersGiveDistinctIds DEF IInv
<1>. QED
    BY <1>1, Invariant, PTL

(* A node that refreshes in time is never offered to another one, even with    *)
(* recycling under way.                                                        *)
THEOREM PunctualNodesKeepIds == Spec => []PunctualNotRecyclable
<1>1. IInv => PunctualNotRecyclable
    BY LeasesProtect DEF IInv
<1>. QED
    BY <1>1, Invariant, PTL

(* Every start before the limit of the counter succeeds.                       *)
THEOREM StartsSucceedBelowLimit == Spec => []FailsOnlyAtLimit
<1>1. IInv => FailsOnlyAtLimit
    BY DEF IInv
<1>. QED
    BY <1>1, Invariant, PTL

(* No id is generated twice, until the worker ids are exhausted.               *)
THEOREM GeneratedIdsFresh == Spec => IdsAreFresh
<1>1. IInv /\ [Next]_vars =>
        [\A n \in Node : NextId(n) /\ Unexhausted /\ cur[n] # 0 => issued' # issued]_vars
    BY NewIdIsFresh
<1>. QED
    BY <1>1, Invariant, PTL DEF Spec, IdsAreFresh
=============================================================================
