--------------------------- MODULE TransactionalProofs --------------------------
(* Safety of the transactional aspect for requests of plain methods, of any    *)
(* number, nesting and fate.                                                   *)
EXTENDS Transactional, WellFoundedInduction, TLAPS

USE TransactionalAssumption

--------------------------------------------------------------------------------
(* A set of calls that is not empty has a newest one.                          *)
LEMMA NewestIsLast ==
    ASSUME NEW S \in SUBSET Call, S # {}
    PROVE  Newest(S) \in S /\ \A d \in S : d <= Newest(S)
<1> DEFINE T == {n \in Nat : n <= MaxCalls /\ MaxCalls - n \in S}
           R == {ss \in Nat \X Nat : ss[1] < ss[2]}
<1>1. IsWellFoundedOn(R, Nat)
    BY NatLessThanWellFounded DEF OpToRel
<1>2. PICK c \in S : TRUE
    OBVIOUS
<1>3. c \in Nat /\ MaxCalls - c \in T
    BY <1>2 DEF Call
<1>4. T \subseteq Nat /\ T # {}
    BY <1>3
<1>5. PICK n \in T : \A m \in T : <<m, n>> \notin R
    <2> HIDE DEF T, R
    <2>. QED
        BY <1>1, <1>4, WFMin
<1>6. MaxCalls - n \in S
    BY <1>5
<1>7. \A d \in S : d <= MaxCalls - n
    <2> TAKE d \in S
    <2>1. d \in Nat /\ MaxCalls - d \in T /\ MaxCalls - d \in Nat
        BY DEF Call
    <2>2. ~(MaxCalls - d < n)
        BY <1>5, <2>1
    <2>. QED
        BY <1>5, <2>1, <2>2
<1>. QED
    BY <1>6, <1>7 DEF Newest

(* The newest call of a set that has one is that one.                          *)
LEMMA NewestIs ==
    ASSUME NEW S \in SUBSET Call, NEW c \in S, \A d \in S : d <= c
    PROVE  Newest(S) = c
<1>1. Newest(S) \in S /\ c <= Newest(S) /\ Newest(S) <= c
    BY NewestIsLast
<1>2. \A x, y \in Call : x <= y /\ y <= x => x = y
    BY DEF Call
<1>. QED
    BY <1>1, <1>2

--------------------------------------------------------------------------------
(* The inductive invariant.                                                    *)
Active == {c \in Call : outcome[c] = "running"}

(* The calls that run are a stack, and their units of work are in the list.    *)
Nesting ==
    /\ Active \subseteq listed
    /\ \A c \in exits : outcome[c] \in {"ok", "failed", "unsure"}
    /\ current = 0 => Active = {}
    /\ current # 0 => current \in Active
    /\ \A c \in Active : c <= current
    /\ \A c \in Active : /\ parent[c] < c
                         /\ parent[c] # 0 => parent[c] \in Active
                         /\ \A d \in Active : d < c => d <= parent[c]
    /\ \A c \in Call : c <= calls <=> outcome[c] # "none"

(* Among plain methods nothing else is in the list.                            *)
Listed == listed \subseteq Active /\ exits = {}

(* A call joins the transaction of a call that encloses it.                    *)
Bases == \A c \in Call :
    /\ outcome[c] = "none" <=> kind[c] = "none"
    /\ kind[c] # "virtual" => base[c] = c
    /\ kind[c] = "virtual" => base[c] < c /\ kind[base[c]] = "raw"
    /\ kind[c] = "virtual" /\ c \in Active => base[c] \in Active

(* Transactions are open only in calls that run, and hold what was written in  *)
(* them; all of it, unless a joined call has rolled them back.                 *)
Transactions == \A u \in Call :
    /\ u \in open => u \in Active /\ kind[u] = "raw"
    /\ u \notin open => pending[u] = {}
    /\ pending[u] \subseteq written[u]
    /\ u \in Active /\ kind[u] = "raw" /\ u \notin spoiled => written[u] \subseteq pending[u]

(* A call writes in its own transaction.                                       *)
Belong == \A u \in Call : \A w \in written[u] :
    base[w[1]] = u /\ kind[w[1]] \in {"raw", "virtual"}

(* What is committed, and what can still be.                                   *)
Fates ==
    /\ \A w \in committed :
         /\ kind[w[1]] # "none"
         /\ kind[w[1]] # "nothing" => outcome[base[w[1]]] \in {"ok", "unsure"}
    /\ \A c \in Call : outcome[c] = "failed" => \A w \in pending[base[c]] : w[1] # c
    /\ \A u \in Call : kind[u] = "raw" /\ outcome[u] \in {"ok", "unsure"} /\ u \notin spoiled
                         => written[u] \subseteq committed

PlainInv == /\ Listed
            /\ Bases
            /\ Transactions
            /\ Belong
            /\ Fates
            /\ FailedLeaveNothing

(* A call has no style before it is made.                                      *)
Styled == \A c \in Call : outcome[c] = "none" => style[c] = "none"

IInv == TypeOK /\ Nesting /\ Styled /\ (OnlyPlain => PlainInv)

--------------------------------------------------------------------------------
(* Every step keeps the types.                                                 *)
LEMMA TypeStep == TypeOK /\ Nesting /\ [Next]_vars => TypeOK'
<1> SUFFICES ASSUME TypeOK, Nesting, [Next]_vars
             PROVE  TypeOK'
    OBVIOUS
<1> USE DEF TypeOK
<1>1. CASE UNCHANGED vars
    BY <1>1 DEF vars, frameVars, dataVars
<1>2. ASSUME NEW p \in Propagation, OnEntryThrows(p)
      PROVE  TypeOK'
    BY <1>2 DEF OnEntryThrows, dataVars
<1>3. ASSUME NEW p \in Propagation, NEW s \in Styles, OnEntry(p, s)
      PROVE  TypeOK'
    <2>1. /\ calls + 1 \in Call
          /\ calls + 1 \in 0 .. MaxCalls
          /\ s \in {"plain", "task"}
        BY <1>3 DEF OnEntry, Call
    <2>2. Joins(p) => Newest(RawOpen) \in Call
        <3>1. RawOpen \in SUBSET Call
            BY DEF RawOpen
        <3>. QED
            BY <3>1, NewestIsLast DEF Joins, InTransaction
    <2>3. KindOf(p) \in {"raw", "virtual", "nothing"}
        BY DEF KindOf
    <2>4. current \in 0 .. MaxCalls
        BY DEF Call
    <2>5. /\ calls' = calls + 1
          /\ current' = calls + 1
          /\ parent' = [parent EXCEPT ![calls + 1] = current]
          /\ style' = [style EXCEPT ![calls + 1] = s]
          /\ kind' = [kind EXCEPT ![calls + 1] = KindOf(p)]
          /\ base' = [base EXCEPT ![calls + 1] = IF Joins(p) THEN Newest(RawOpen) ELSE calls + 1]
          /\ outcome' = [outcome EXCEPT ![calls + 1] = "running"]
          /\ listed' = listed \cup {calls + 1}
          /\ suspended' = suspended \cup {calls + 1} \/ suspended' = suspended
          /\ open' = open \cup {calls + 1} \/ open' = open
          /\ UNCHANGED <<raised, wrote, pending, committed, written, spoiled, exits, closed>>
        BY <1>3 DEF OnEntry
    <2>. QED
        BY <2>1, <2>2, <2>3, <2>4, <2>5
<1>4. CASE BodyWrites
    <2>1. /\ current \in Call
          /\ wrote[current] + 1 \in 1 .. MaxWrites
          /\ wrote[current] + 1 \in 0 .. MaxWrites
        <3>1. current \in Call /\ wrote[current] < MaxWrites
            BY <1>4 DEF BodyWrites, Running, Call
        <3>2. wrote[current] \in Nat
            BY <3>1
        <3>. QED
            BY <3>1, <3>2
    <2>2. <<current, wrote[current] + 1>> \in Write
        BY <2>1 DEF Write
    <2>3. UNCHANGED <<calls, current, raised, parent, style, kind, base, outcome,
                      listed, suspended, spoiled, exits, closed>>
        BY <1>4 DEF BodyWrites, frameVars
    <2>4. wrote' \in [Call -> 0 .. MaxWrites] /\ committed' \in SUBSET Write
        BY <1>4, <2>1, <2>2 DEF BodyWrites
    <2>5. open' \in SUBSET Call /\ pending' \in [Call -> SUBSET Write] /\ written' \in [Call -> SUBSET Write]
        <3>1. CASE kind[Target] = "nothing"
            BY <1>4, <3>1 DEF BodyWrites
        <3>2. CASE kind[Target] # "nothing"
            <4>1. \E u : /\ u = base[Target]
                         /\ open' = open \cup {u}
                         /\ pending' = [pending EXCEPT ![u] = @ \cup {<<current, wrote[current] + 1>>}]
                         /\ written' = [written EXCEPT ![u] = @ \cup {<<current, wrote[current] + 1>>}]
                BY <1>4, <3>2 DEF BodyWrites
            <4>2. listed # {}
                BY <1>4 DEF BodyWrites, Running, Nesting
            <4>3. base[Target] \in Call
                BY <4>2, NewestIsLast DEF Target
            <4>. QED
                BY <4>1, <4>3, <2>2
        <3>. QED
            BY <3>1, <3>2
    <2>. QED
        BY <2>3, <2>4, <2>5
<1>5. CASE Catch
    BY <1>5 DEF Catch, dataVars
<1>6. ASSUME NEW c \in Call, Exit(c)
      PROVE  TypeOK'
    <2> USE DEF CommitUow, RollbackBase, Rollback, Dispose, Ends
    <2>1. CASE Return(c)
        BY <1>6, <2>1 DEF Return
    <2>2. CASE ReturnCommitThrows(c)
        BY <1>6, <2>2 DEF ReturnCommitThrows
    <2>3. CASE Throw(c)
        <3>1. open' \in SUBSET Call /\ pending' \in [Call -> SUBSET Write] /\ spoiled' \in SUBSET Call
            <4>1. base[c] \in Call /\ Rollback(c)
                BY <1>6, <2>3 DEF Throw
            <4>2. spoiled' \in SUBSET Call
                BY <4>1
            <4>3. CASE kind[c] = "nothing"
                BY <4>1, <4>2, <4>3
            <4>4. CASE kind[c] # "nothing"
                BY <4>1, <4>2, <4>4
            <4>. QED
                BY <4>3, <4>4
        <3>2. UNCHANGED <<committed, wrote, written, calls, parent, style, kind, base, exits, closed>>
            BY <2>3 DEF Throw
        <3>3. /\ outcome' \in [Call -> {"none", "running", "ok", "failed", "unsure"}]
              /\ current' \in 0 .. MaxCalls
              /\ listed' \in SUBSET Call /\ suspended' \in SUBSET listed'
              /\ raised' \in BOOLEAN
            BY <1>6, <2>3 DEF Throw
        <3>. QED
            BY <3>1, <3>2, <3>3
    <2>4. CASE TaskEnds(c)
        BY <1>6, <2>4 DEF TaskEnds
    <2>5. CASE ThrowWithoutTask(c)
        BY <1>6, <2>5 DEF ThrowWithoutTask
    <2>6. CASE Continuation(c)
        BY <1>6, <2>6 DEF Continuation, frameVars
    <2>7. CASE ContinuationCommitThrows(c)
        BY <1>6, <2>7 DEF ContinuationCommitThrows, frameVars
    <2>8. CASE ReturnAnswerLost(c)
        BY <1>6, <2>8 DEF ReturnAnswerLost
    <2>. QED
        BY <1>6, <2>1, <2>2, <2>3, <2>4, <2>5, <2>6, <2>7, <2>8 DEF Exit
<1>7. CASE CloseScope
    BY <1>7 DEF CloseScope, frameVars
<1>. QED
    BY <1>1, <1>2, <1>3, <1>4, <1>5, <1>6, <1>7 DEF Next, Body

--------------------------------------------------------------------------------
(* The stack of calls.                                                         *)

(* It survives the end of the innermost call.                                  *)
LEMMA NestingEnds ==
    ASSUME TypeOK, Nesting, NEW c \in Call, current = c,
           NEW o \in {"ok", "failed", "unsure"}, Ends(c, o),
           listed \ {c} \subseteq listed', exits' \subseteq exits \cup {c}
    PROVE  Nesting' /\ Active' = Active \ {c}
<1>1. c \in Active /\ \A d \in Call : outcome'[d] = IF d = c THEN o ELSE outcome[d]
    BY DEF Nesting, Ends, TypeOK, Call
<1>2. Active' = Active \ {c}
    BY <1>1 DEF Active
<1>3. \A d \in Active : d \in Nat
    BY DEF Active, Call
<1>4. /\ UNCHANGED <<calls, parent>>
      /\ current' = parent[c]
    BY DEF Ends
<1>5. /\ Active' \subseteq listed'
      /\ \A d \in exits' : outcome'[d] \in {"ok", "failed", "unsure"}
    BY <1>1, <1>2 DEF Nesting, TypeOK
<1>6. \A d \in Active' : d < c /\ d <= parent[c]
    BY <1>1, <1>2, <1>3 DEF Nesting
<1>7. parent[c] < c /\ (parent[c] # 0 => parent[c] \in Active')
    BY <1>1, <1>2, <1>3 DEF Nesting
<1>8. parent[c] = 0 => Active' = {}
    <2> SUFFICES ASSUME parent[c] = 0, NEW d \in Active'
                 PROVE  FALSE
        OBVIOUS
    <2>1. d \in Call
        BY DEF Active
    <2>. QED
        BY <1>6, <2>1 DEF Call
<1>9. \A d \in Active' : /\ parent'[d] < d
                         /\ parent'[d] # 0 => parent'[d] \in Active'
                         /\ \A e \in Active' : e < d => e <= parent'[d]
    <2> TAKE d \in Active'
    <2>1. d \in Active /\ d < c
        BY <1>2, <1>6
    <2>2. parent[d] < d /\ (parent[d] # 0 => parent[d] \in Active)
        BY <2>1 DEF Nesting
    <2>3. parent[d] # c
        BY <2>1, <2>2, <1>3, <1>1
    <2>4. \A e \in Active' : e < d => e <= parent[d]
        BY <2>1, <1>2 DEF Nesting
    <2>. QED
        BY <2>2, <2>3, <2>4, <1>2, <1>4
<1>10. \A d \in Call : d <= calls' <=> outcome'[d] # "none"
    BY <1>1, <1>4 DEF Nesting, Active
<1>. QED
    BY <1>2, <1>4, <1>5, <1>6, <1>7, <1>8, <1>9, <1>10 DEF Nesting

(* It survives a call.                                                         *)
LEMMA NestingEntry ==
    ASSUME TypeOK, Nesting, NEW p \in Propagation, NEW s \in Styles, OnEntry(p, s)
    PROVE  Nesting' /\ Active' = Active \cup {calls + 1} /\ calls + 1 \in Call
<1> DEFINE k == calls + 1
<1>1. /\ k \in Call
      /\ calls' = k
      /\ current' = k
      /\ parent' = [parent EXCEPT ![k] = current]
      /\ outcome' = [outcome EXCEPT ![k] = "running"]
      /\ listed' = listed \cup {k}
      /\ exits' = exits
    BY DEF OnEntry, TypeOK, Call
<1>2. outcome[k] = "none" /\ k \notin Active
    BY <1>1 DEF Nesting, TypeOK, Active, Call
<1>3. \A d \in Active : d \in Call /\ d < k
    BY DEF Nesting, TypeOK, Active, Call
<1>4. Active' = Active \cup {k}
    BY <1>1 DEF Active, TypeOK
<1>5. /\ Active' \subseteq listed'
      /\ \A d \in exits' : outcome'[d] \in {"ok", "failed", "unsure"}
    BY <1>1, <1>2, <1>4 DEF Nesting, TypeOK
<1>6. \A d \in Active' : d <= k
    BY <1>1, <1>3, <1>4 DEF Call
<1>7. current < k /\ (current # 0 => current \in Active) /\ \A d \in Active : d <= current
    BY <1>1, <1>3 DEF Nesting, Call
<1>8. \A d \in Active' : /\ parent'[d] < d
                         /\ parent'[d] # 0 => parent'[d] \in Active'
                         /\ \A e \in Active' : e < d => e <= parent'[d]
    <2> TAKE d \in Active'
    <2>1. CASE d = k
        <3>1. parent'[k] = current
            BY <1>1 DEF TypeOK
        <3>2. \A e \in Active' : e < k => e <= current
            BY <1>1, <1>4, <1>7 DEF Call
        <3>. QED
            BY <1>4, <1>7, <2>1, <3>1, <3>2
    <2>2. CASE d \in Active
        <3>1. parent'[d] = parent[d] /\ d # k
            BY <1>1, <1>2, <2>2 DEF TypeOK, Active
        <3>2. \A e \in Active' : e < d => e \in Active
            BY <1>1, <1>3, <1>4, <2>2 DEF Call
        <3>. QED
            BY <1>4, <2>2, <3>1, <3>2 DEF Nesting
    <2>. QED
        BY <1>4, <2>1, <2>2
<1>9. \A d \in Call : d <= calls' <=> outcome'[d] # "none"
    <2> TAKE d \in Call
    <2>1. d \in Nat /\ calls \in Nat
        BY DEF TypeOK, Call
    <2>2. outcome'[d] = IF d = k THEN "running" ELSE outcome[d]
        BY <1>1 DEF TypeOK
    <2>3. d <= calls <=> outcome[d] # "none"
        BY DEF Nesting
    <2>. QED
        BY <1>1, <2>1, <2>2, <2>3
<1>10. current' # 0 /\ current' \in Active' /\ current' = k
    BY <1>1, <1>4 DEF Call
<1>. QED
    BY <1>1, <1>4, <1>5, <1>6, <1>8, <1>9, <1>10 DEF Nesting

(* It survives every step.                                                     *)
LEMMA NestingStep == TypeOK /\ Nesting /\ [Next]_vars => Nesting'
<1> SUFFICES ASSUME TypeOK, Nesting, [Next]_vars
             PROVE  Nesting'
    OBVIOUS
<1>1. ASSUME UNCHANGED <<outcome, listed, exits, current, parent, calls>>
      PROVE  Nesting'
    BY <1>1 DEF Nesting, Active
<1>2. CASE UNCHANGED vars
    BY <1>1, <1>2 DEF vars, frameVars, dataVars
<1>3. ASSUME NEW p \in Propagation, OnEntryThrows(p)
      PROVE  Nesting'
    BY <1>1, <1>3 DEF OnEntryThrows, dataVars
<1>4. ASSUME NEW p \in Propagation, NEW s \in Styles, OnEntry(p, s)
      PROVE  Nesting'
    BY <1>4, NestingEntry
<1>5. CASE Body \/ CloseScope
    BY <1>1, <1>5 DEF Body, BodyWrites, Catch, CloseScope, frameVars, dataVars
<1>6. ASSUME NEW c \in Call, Exit(c)
      PROVE  Nesting'
    <2>1. CASE Return(c)
        BY <1>6, <2>1, NestingEnds DEF Return, Dispose
    <2>2. CASE ReturnCommitThrows(c)
        BY <1>6, <2>2, NestingEnds DEF ReturnCommitThrows, Dispose
    <2>3. CASE Throw(c)
        BY <1>6, <2>3, NestingEnds DEF Throw, Dispose
    <2>4. CASE TaskEnds(c)
        BY <1>6, <2>4, NestingEnds DEF TaskEnds
    <2>5. CASE ThrowWithoutTask(c)
        BY <1>6, <2>5, NestingEnds DEF ThrowWithoutTask
    <2>6. CASE Continuation(c) \/ ContinuationCommitThrows(c)
        <3>1. /\ c \in exits
              /\ exits' = exits \ {c}
              /\ listed' = listed \ {c}
              /\ UNCHANGED frameVars
            BY <2>6 DEF Continuation, ContinuationCommitThrows, Dispose
        <3>. QED
            BY <3>1 DEF Nesting, Active, frameVars
    <2>7. CASE ReturnAnswerLost(c)
        BY <1>6, <2>7, NestingEnds DEF ReturnAnswerLost, Dispose
    <2>. QED
        BY <1>6, <2>1, <2>2, <2>3, <2>4, <2>5, <2>6, <2>7 DEF Exit
<1>. QED
    BY <1>2, <1>3, <1>4, <1>5, <1>6 DEF Next

--------------------------------------------------------------------------------
(* Requests of plain methods.                                                  *)

(* A request of plain methods has been one all along.                          *)
LEMMA StyledStep ==
    TypeOK /\ Nesting /\ Styled /\ [Next]_vars => Styled' /\ (OnlyPlain' => OnlyPlain)
<1> SUFFICES ASSUME TypeOK, Nesting, Styled, [Next]_vars
             PROVE  Styled' /\ (OnlyPlain' => OnlyPlain)
    OBVIOUS
<1>1. ASSUME UNCHANGED <<outcome, style>>
      PROVE  Styled' /\ (OnlyPlain' => OnlyPlain)
    BY <1>1 DEF Styled, OnlyPlain
<1>2. CASE UNCHANGED vars
    BY <1>1, <1>2 DEF vars, frameVars
<1>3. ASSUME NEW p \in Propagation, OnEntryThrows(p)
      PROVE  Styled' /\ (OnlyPlain' => OnlyPlain)
    BY <1>1, <1>3 DEF OnEntryThrows
<1>4. ASSUME NEW p \in Propagation, NEW s \in Styles, OnEntry(p, s)
      PROVE  Styled' /\ (OnlyPlain' => OnlyPlain)
    <2>1. /\ calls + 1 \in Call
          /\ outcome' = [outcome EXCEPT ![calls + 1] = "running"]
          /\ style' = [style EXCEPT ![calls + 1] = s]
        BY <1>4, NestingEntry DEF OnEntry
    <2>2. outcome[calls + 1] = "none"
        BY <2>1 DEF Nesting, TypeOK, Call
    <2>. QED
        BY <2>1, <2>2 DEF Styled, OnlyPlain, TypeOK
<1>5. CASE Body \/ CloseScope
    BY <1>1, <1>5 DEF Body, BodyWrites, Catch, CloseScope, frameVars
<1>6. ASSUME NEW c \in Call, Exit(c)
      PROVE  Styled' /\ (OnlyPlain' => OnlyPlain)
    <2>1. UNCHANGED style /\ \A d \in Call : outcome'[d] = "none" => outcome[d] = "none"
        BY <1>6 DEF Exit, Return, ReturnCommitThrows, ReturnAnswerLost, Throw,
                    TaskEnds, ThrowWithoutTask, Continuation, ContinuationCommitThrows, Ends, frameVars, TypeOK
    <2>. QED
        BY <2>1 DEF Styled, OnlyPlain
<1>. QED
    BY <1>2, <1>3, <1>4, <1>5, <1>6 DEF Next

(* The steps that only catch, or throw at Begin, and those that do nothing.    *)
LEMMA PlainFrame ==
    ASSUME PlainInv,
           UNCHANGED <<listed, exits, outcome, kind, base, open, pending, written, spoiled,
                       committed>>
    PROVE  PlainInv'
BY DEF PlainInv, Listed, Bases, Transactions, Belong, Fates, FailedLeaveNothing, Active

(* A call that has not been made has written nothing, and none is in its       *)
(* transaction.                                                                *)
LEMMA NotCalled ==
    ASSUME TypeOK, PlainInv, NEW k \in Call, outcome[k] = "none"
    PROVE  /\ kind[k] = "none" /\ base[k] = k
           /\ \A d \in Call : d # k => base[d] # k
           /\ \A w \in committed : w[1] # k
           /\ \A u \in Call : \A w \in written[u] : w[1] # k
           /\ written[k] = {} /\ pending[k] = {} /\ k \notin open
<1>1. kind[k] = "none" /\ base[k] = k
    BY DEF PlainInv, Bases
<1>2. \A d \in Call : d # k => base[d] # k
    BY <1>1 DEF PlainInv, Bases
<1>3. \A w \in committed : w[1] # k
    BY <1>1 DEF PlainInv, Fates
<1>4. \A u \in Call : \A w \in written[u] : w[1] # k
    BY <1>1 DEF PlainInv, Belong
<1>5. written[k] = {}
    <2> SUFFICES ASSUME NEW w \in written[k]
                 PROVE  FALSE
        OBVIOUS
    <2>1. w[1] \in Call
        BY DEF TypeOK, Write
    <2>2. base[w[1]] = k
        BY DEF PlainInv, Belong
    <2>. QED
        BY <1>2, <1>4, <2>1, <2>2
<1>6. pending[k] = {} /\ k \notin open
    BY <1>5 DEF PlainInv, Transactions, Active
<1>. QED
    BY <1>1, <1>2, <1>3, <1>4, <1>5, <1>6

(* OnEntry.                                                                    *)
LEMMA PlainEntry ==
    ASSUME TypeOK, Nesting, PlainInv, NEW p \in Propagation, NEW s \in Styles, OnEntry(p, s)
    PROVE  PlainInv'
<1> DEFINE k == calls + 1
           b == IF Joins(p) THEN Newest(RawOpen) ELSE k
<1>1. k \in Call /\ Active' = Active \cup {k}
    BY NestingEntry
<1>2. /\ kind' = [kind EXCEPT ![k] = KindOf(p)]
      /\ base' = [base EXCEPT ![k] = b]
      /\ outcome' = [outcome EXCEPT ![k] = "running"]
      /\ listed' = listed \cup {k}
      /\ open' = IF BeginsRaw(p) THEN open \cup {k} ELSE open
      /\ UNCHANGED <<pending, committed, written, spoiled, exits>>
    BY DEF OnEntry
<1>3. outcome[k] = "none"
    BY <1>1 DEF Nesting, TypeOK, Call
<1>4. Joins(p) => b \in RawOpen /\ b \in Active /\ kind[b] = "raw" /\ b \in Call /\ b < k /\ b # k
    <2> SUFFICES ASSUME Joins(p)
                 PROVE  b \in RawOpen /\ b \in Active /\ kind[b] = "raw" /\ b \in Call /\ b < k /\ b # k
        OBVIOUS
    <2>1. RawOpen \in SUBSET Call /\ RawOpen # {}
        BY DEF RawOpen, TypeOK, Joins, InTransaction
    <2>2. b \in RawOpen
        BY <2>1, NewestIsLast
    <2>3. b \in Active /\ kind[b] = "raw"
        BY <2>2 DEF RawOpen, PlainInv, Listed
    <2>4. b \in Call /\ b <= calls
        BY <2>3 DEF Active, Nesting
    <2>5. \A d \in Call : d <= calls => d < k /\ d # k
        BY DEF TypeOK, Call
    <2> HIDE DEF b, k
    <2>. QED
        BY <2>2, <2>3, <2>4, <2>5
<1>5. /\ KindOf(p) # "none"
      /\ KindOf(p) = "virtual" <=> Joins(p)
      /\ KindOf(p) = "raw" <=> BeginsRaw(p)
    BY DEF KindOf, BeginsRaw, Joins
<1>6. /\ kind'[k] = KindOf(p) /\ base'[k] = b /\ outcome'[k] = "running"
      /\ \A d \in Call : d # k => /\ kind'[d] = kind[d]
                                  /\ base'[d] = base[d]
                                  /\ outcome'[d] = outcome[d]
    BY <1>1, <1>2 DEF TypeOK
<1>7. /\ kind[k] = "none" /\ base[k] = k
      /\ \A d \in Call : d # k => base[d] # k
      /\ \A w \in committed : w[1] # k
      /\ \A u \in Call : \A w \in written[u] : w[1] # k
      /\ written[k] = {} /\ pending[k] = {} /\ k \notin open
    BY <1>1, <1>3, NotCalled
<1>8. \A d \in Call : base[d] \in Call
    BY DEF TypeOK
<1> HIDE DEF k, b
<1>9. Listed'
    BY <1>1, <1>2 DEF PlainInv, Listed
<1>10. Bases'
    <2> SUFFICES ASSUME NEW c \in Call
                 PROVE  /\ outcome'[c] = "none" <=> kind'[c] = "none"
                        /\ kind'[c] # "virtual" => base'[c] = c
                        /\ kind'[c] = "virtual" => base'[c] < c /\ kind'[base'[c]] = "raw"
                        /\ kind'[c] = "virtual" /\ c \in Active' => base'[c] \in Active'
        BY DEF Bases
    <2>1. CASE c = k
        <3>1. kind'[k] # "virtual" => base'[k] = k
            BY <1>5, <1>6 DEF b
        <3>2. kind'[k] = "virtual" =>
                  base'[k] < k /\ kind'[base'[k]] = "raw" /\ base'[k] \in Active'
            BY <1>1, <1>4, <1>5, <1>6
        <3>. QED
            BY <2>1, <3>1, <3>2, <1>5, <1>6
    <2>2. CASE c # k
        BY <2>2, <1>1, <1>6, <1>7, <1>8 DEF PlainInv, Bases
    <2>. QED
        BY <2>1, <2>2
<1>11. Transactions'
    <2> SUFFICES ASSUME NEW u \in Call
                 PROVE  /\ u \in open' => u \in Active' /\ kind'[u] = "raw"
                        /\ u \notin open' => pending[u] = {}
                        /\ pending[u] \subseteq written[u]
                        /\ u \in Active' /\ kind'[u] = "raw" /\ u \notin spoiled
                             => written[u] \subseteq pending[u]
        BY <1>2 DEF Transactions
    <2>1. CASE u = k
        BY <2>1, <1>1, <1>2, <1>5, <1>6, <1>7
    <2>2. CASE u # k
        BY <2>2, <1>1, <1>2, <1>6 DEF PlainInv, Transactions
    <2>. QED
        BY <2>1, <2>2
<1>12. Belong'
    <2> SUFFICES ASSUME NEW u \in Call, NEW w \in written[u]
                 PROVE  base'[w[1]] = u /\ kind'[w[1]] \in {"raw", "virtual"}
        BY <1>2 DEF Belong
    <2>1. w[1] \in Call
        BY DEF TypeOK, Write
    <2>. QED
        BY <2>1, <1>6, <1>7 DEF PlainInv, Belong
<1>13. Fates'
    <2>1. \A w \in committed : /\ kind'[w[1]] # "none"
                               /\ kind'[w[1]] # "nothing" => outcome'[base'[w[1]]] \in {"ok", "unsure"}
        <3> TAKE w \in committed
        <3>1. w[1] \in Call /\ w[1] # k
            BY <1>7 DEF TypeOK, Write
        <3>. QED
            BY <3>1, <1>6, <1>7, <1>8 DEF PlainInv, Fates
    <2>2. \A c \in Call : outcome'[c] = "failed" => \A w \in pending[base'[c]] : w[1] # c
        BY <1>6 DEF PlainInv, Fates
    <2>3. \A u \in Call : kind'[u] = "raw" /\ outcome'[u] \in {"ok", "unsure"} /\ u \notin spoiled
                            => written[u] \subseteq committed
        BY <1>6 DEF PlainInv, Fates
    <2>. QED
        BY <2>1, <2>2, <2>3, <1>2 DEF Fates
<1>14. FailedLeaveNothing'
    BY <1>2, <1>6 DEF PlainInv, FailedLeaveNothing
<1>. QED
    BY <1>9, <1>10, <1>11, <1>12, <1>13, <1>14 DEF PlainInv

(* A method that runs writes in its own unit of work.                          *)
LEMMA WritesInOwn ==
    ASSUME TypeOK, Nesting, Listed, current # 0
    PROVE  current \in Active /\ Target = current
<1>1. current \in Active /\ listed = Active
    BY DEF Nesting, Listed
<1>2. \A d \in listed : d <= current
    BY <1>1 DEF Nesting
<1>. QED
    BY <1>1, <1>2, NewestIs DEF Target, TypeOK, Active

(* A write of the body.                                                        *)
LEMMA PlainWrite ==
    ASSUME TypeOK, Nesting, PlainInv, BodyWrites
    PROVE  PlainInv'
<1> DEFINE w == <<current, wrote[current] + 1>>
           u == base[current]
<1>1. current \in Active /\ Target = current /\ current \in Call /\ outcome[current] = "running"
    BY WritesInOwn DEF BodyWrites, Running, PlainInv, Active
<1>2. /\ UNCHANGED <<listed, exits, outcome, kind, base, spoiled>>
      /\ w[1] = current
      /\ Active' = Active
    BY DEF BodyWrites, frameVars, Active
<1>3. kind[current] # "none"
    BY <1>1 DEF PlainInv, Bases
<1>4. Listed' /\ Bases'
    BY <1>2 DEF PlainInv, Listed, Bases
<1>5. CASE kind[current] = "nothing"
    <2>1. committed' = committed \cup {w} /\ UNCHANGED <<open, pending, written>>
        BY <1>1, <1>5 DEF BodyWrites
    <2> HIDE DEF w, u
    <2>2. Transactions' /\ Belong'
        BY <2>1, <1>2 DEF PlainInv, Transactions, Belong
    <2>3. Fates'
        BY <2>1, <1>2, <1>3, <1>5 DEF PlainInv, Fates
    <2>4. FailedLeaveNothing'
        BY <2>1, <1>1, <1>2 DEF PlainInv, FailedLeaveNothing
    <2>. QED
        BY <1>4, <2>2, <2>3, <2>4 DEF PlainInv
<1>6. CASE kind[current] # "nothing"
    <2>1. /\ open' = open \cup {u}
          /\ pending' = [pending EXCEPT ![u] = @ \cup {w}]
          /\ written' = [written EXCEPT ![u] = @ \cup {w}]
          /\ UNCHANGED committed
        BY <1>1, <1>6 DEF BodyWrites
    <2>2. kind[current] \in {"raw", "virtual"} /\ u \in Call /\ u \in Active /\ kind[u] = "raw"
        BY <1>1, <1>3, <1>6 DEF PlainInv, Bases, TypeOK
    <2>3. /\ pending'[u] = pending[u] \cup {w} /\ written'[u] = written[u] \cup {w}
          /\ \A d \in Call : d # u => pending'[d] = pending[d] /\ written'[d] = written[d]
        BY <2>1, <2>2 DEF TypeOK
    <2>4. base[current] = u
        OBVIOUS
    <2> HIDE DEF w, u
    <2>5. Transactions'
        <3> SUFFICES ASSUME NEW d \in Call
                     PROVE  /\ d \in open' => d \in Active' /\ kind'[d] = "raw"
                            /\ d \notin open' => pending'[d] = {}
                            /\ pending'[d] \subseteq written'[d]
                            /\ d \in Active' /\ kind'[d] = "raw" /\ d \notin spoiled'
                                 => written'[d] \subseteq pending'[d]
            BY DEF Transactions
        <3>1. CASE d = u
            BY <3>1, <2>1, <2>2, <2>3, <1>2 DEF PlainInv, Transactions
        <3>2. CASE d # u
            BY <3>2, <2>1, <2>3, <1>2 DEF PlainInv, Transactions
        <3>. QED
            BY <3>1, <3>2
    <2>6. Belong'
        <3> SUFFICES ASSUME NEW d \in Call, NEW v \in written'[d]
                     PROVE  base[v[1]] = d /\ kind[v[1]] \in {"raw", "virtual"}
            BY <1>2 DEF Belong
        <3>1. v \in written[d] \/ (v = w /\ d = u)
            BY <2>3
        <3>. QED
            BY <3>1, <2>2, <2>4, <1>2 DEF PlainInv, Belong
    <2>7. Fates'
        <3>1. \A c \in Call : outcome[c] = "failed" => \A v \in pending'[base[c]] : v[1] # c
            <4> SUFFICES ASSUME NEW c \in Call, outcome[c] = "failed", NEW v \in pending'[base[c]]
                         PROVE  v[1] # c
                OBVIOUS
            <4>1. v \in pending[base[c]] \/ v = w
                BY <2>3 DEF TypeOK
            <4>. QED
                BY <4>1, <1>1, <1>2 DEF PlainInv, Fates
        <3>2. \A d \in Call : kind[d] = "raw" /\ outcome[d] \in {"ok", "unsure"} /\ d \notin spoiled
                                => written'[d] \subseteq committed
            <4> SUFFICES ASSUME NEW d \in Call, kind[d] = "raw", outcome[d] \in {"ok", "unsure"},
                                d \notin spoiled
                         PROVE  written'[d] \subseteq committed
                OBVIOUS
            <4>1. d # u
                BY <2>2 DEF Active
            <4>. QED
                BY <4>1, <2>3 DEF PlainInv, Fates
        <3>. QED
            BY <3>1, <3>2, <2>1, <1>2 DEF PlainInv, Fates
    <2>8. FailedLeaveNothing'
        BY <2>1, <1>2 DEF PlainInv, FailedLeaveNothing
    <2>. QED
        BY <1>4, <2>5, <2>6, <2>7, <2>8 DEF PlainInv
<1>. QED
    BY <1>5, <1>6

(* The innermost call ends: what does not depend on how.                       *)
LEMMA PlainEnds ==
    ASSUME TypeOK, Nesting, PlainInv, NEW c \in Call, current = c,
           NEW o \in {"ok", "failed", "unsure"}, Ends(c, o), listed' = listed \ {c}, exits' = exits
    PROVE  /\ Listed' /\ Bases' /\ Belong'
           /\ Active' = Active \ {c} /\ c \in Active /\ kind[c] # "none"
           /\ UNCHANGED <<kind, base, written>>
           /\ \A d \in Call : outcome'[d] = IF d = c THEN o ELSE outcome[d]
           /\ kind[c] = "virtual" => base[c] \in Active /\ base[c] # c /\ kind[base[c]] = "raw"
<1>1. Active' = Active \ {c}
    BY NestingEnds
<1>2. c \in Active /\ \A d \in Active : d <= c
    BY DEF Nesting, Call
<1>3. UNCHANGED <<kind, base, written>> /\ \A d \in Call : outcome'[d] = IF d = c THEN o ELSE outcome[d]
    BY DEF Ends, TypeOK
<1>4. Listed'
    BY <1>1 DEF PlainInv, Listed
<1>5. Belong'
    BY <1>3 DEF PlainInv, Belong
<1>6. \A d \in Active' : kind[d] = "virtual" => base[d] \in Active'
    <2> SUFFICES ASSUME NEW d \in Active', kind[d] = "virtual"
                 PROVE  base[d] \in Active'
        OBVIOUS
    <2>1. d \in Active /\ d \in Call /\ base[d] \in Call
        BY <1>1 DEF Active, TypeOK
    <2>2. base[d] < d /\ base[d] \in Active /\ d <= c
        BY <1>2, <2>1 DEF PlainInv, Bases
    <2>. QED
        BY <1>1, <2>1, <2>2 DEF Call
<1>7. \A d \in Call : outcome'[d] = "none" <=> outcome[d] = "none"
    BY <1>2, <1>3 DEF Active
<1>8. Bases'
    BY <1>3, <1>6, <1>7 DEF PlainInv, Bases
<1>9. kind[c] # "none"
    BY <1>2 DEF PlainInv, Bases, Active
<1>10. kind[c] = "virtual" => base[c] \in Active /\ base[c] # c /\ kind[base[c]] = "raw"
    BY <1>2 DEF PlainInv, Bases, TypeOK, Call
<1>. QED
    BY <1>1, <1>2, <1>3, <1>4, <1>5, <1>8, <1>9, <1>10

(* Commit and Dispose.                                                         *)
LEMMA PlainCommits ==
    ASSUME TypeOK, Nesting, PlainInv, NEW c \in Call, current = c,
           NEW o \in {"ok", "unsure"}, Ends(c, o), CommitUow(c), listed' = listed \ {c},
           UNCHANGED <<spoiled, exits>>
    PROVE  PlainInv'
<1>1. /\ Listed' /\ Bases' /\ Belong'
      /\ Active' = Active \ {c} /\ c \in Active /\ kind[c] # "none"
      /\ UNCHANGED <<kind, base, written>>
      /\ \A d \in Call : outcome'[d] = IF d = c THEN o ELSE outcome[d]
    BY PlainEnds
<1>2. outcome[c] = "running"
    BY <1>1 DEF Active
<1>3. CASE kind[c] = "raw"
    <2>1. /\ committed' = committed \cup pending[c]
          /\ open' = open \ {c}
          /\ \A u \in Call : pending'[u] = IF u = c THEN {} ELSE pending[u]
        BY <1>3 DEF CommitUow, TypeOK
    <2>2. Transactions'
        BY <2>1, <1>1 DEF PlainInv, Transactions
    <2>3. \A w \in pending[c] : w[1] \in Call /\ base[w[1]] = c /\ kind[w[1]] \in {"raw", "virtual"}
        BY DEF PlainInv, Transactions, Belong, TypeOK, Write
    <2>4. \A w \in committed' : /\ kind[w[1]] # "none"
                                /\ kind[w[1]] # "nothing" => outcome'[base[w[1]]] \in {"ok", "unsure"}
        <3> TAKE w \in committed'
        <3>1. CASE w \in pending[c]
            BY <3>1, <2>3, <1>1
        <3>2. CASE w \in committed
            <4>1. base[w[1]] \in Call
                BY <3>2 DEF TypeOK, Write
            <4>. QED
                BY <3>2, <4>1, <1>1 DEF PlainInv, Fates
        <3>. QED
            BY <3>1, <3>2, <2>1
    <2>5. \A d \in Call : outcome'[d] = "failed" => \A w \in pending'[base[d]] : w[1] # d
        BY <2>1, <1>1 DEF PlainInv, Fates, TypeOK
    <2>6. \A u \in Call : kind[u] = "raw" /\ outcome'[u] \in {"ok", "unsure"} /\ u \notin spoiled
                            => written[u] \subseteq committed'
        <3> SUFFICES ASSUME NEW u \in Call, kind[u] = "raw", outcome'[u] \in {"ok", "unsure"},
                            u \notin spoiled
                     PROVE  written[u] \subseteq committed'
            OBVIOUS
        <3>1. CASE u = c
            BY <3>1, <2>1, <1>1 DEF PlainInv, Transactions
        <3>2. CASE u # c
            BY <3>2, <2>1, <1>1 DEF PlainInv, Fates
        <3>. QED
            BY <3>1, <3>2
    <2>7. Fates'
        BY <2>4, <2>5, <2>6, <1>1 DEF Fates
    <2>8. FailedLeaveNothing'
        <3> SUFFICES ASSUME NEW d \in Call, outcome'[d] = "failed", kind[d] \in {"raw", "virtual"},
                            NEW w \in committed', w[1] = d
                     PROVE  FALSE
            BY <1>1 DEF FailedLeaveNothing
        <3>1. outcome[d] = "failed"
            BY <1>1
        <3>2. w \in pending[c]
            BY <3>1, <2>1 DEF PlainInv, FailedLeaveNothing
        <3>. QED
            BY <3>1, <3>2, <2>3 DEF PlainInv, Fates
    <2>. QED
        BY <1>1, <2>2, <2>7, <2>8 DEF PlainInv
<1>4. CASE kind[c] # "raw"
    <2>1. UNCHANGED <<committed, pending, open>>
        BY <1>4 DEF CommitUow
    <2>2. Transactions'
        BY <2>1, <1>1, <1>4 DEF PlainInv, Transactions
    <2>3. \A w \in committed : kind[w[1]] # "nothing" => outcome'[base[w[1]]] \in {"ok", "unsure"}
        <3> TAKE w \in committed
        <3>1. base[w[1]] \in Call
            BY DEF TypeOK, Write
        <3>. QED
            BY <3>1, <1>1 DEF PlainInv, Fates
    <2>4. Fates'
        BY <2>1, <2>3, <1>1, <1>4 DEF PlainInv, Fates
    <2>5. FailedLeaveNothing'
        BY <2>1, <1>1 DEF PlainInv, FailedLeaveNothing
    <2>. QED
        BY <1>1, <2>2, <2>4, <2>5 DEF PlainInv
<1>. QED
    BY <1>3, <1>4

(* Rollback and Dispose.                                                       *)
LEMMA PlainRollsBack ==
    ASSUME TypeOK, Nesting, PlainInv, NEW c \in Call, current = c, Ends(c, "failed"),
           Rollback(c), listed' = listed \ {c}, UNCHANGED exits
    PROVE  PlainInv'
<1> DEFINE b == base[c]
<1>1. /\ Listed' /\ Bases' /\ Belong'
      /\ Active' = Active \ {c} /\ c \in Active /\ kind[c] # "none"
      /\ UNCHANGED <<kind, base, written>>
      /\ \A d \in Call : outcome'[d] = IF d = c THEN "failed" ELSE outcome[d]
      /\ kind[c] = "virtual" => b \in Active /\ b # c /\ kind[b] = "raw"
    BY PlainEnds
<1>2. /\ kind[c] # "virtual" => b = c
      /\ b \in Call
      /\ outcome[b] = "running"
    BY <1>1 DEF PlainInv, Bases, Active, TypeOK
<1>3. /\ UNCHANGED committed
      /\ spoiled' = IF kind[c] = "virtual" THEN spoiled \cup {b} ELSE spoiled
      /\ kind[c] = "nothing" => UNCHANGED <<pending, open>>
      /\ kind[c] # "nothing" => /\ open' = open \ {b}
                                /\ \A u \in Call : pending'[u] = IF u = b THEN {} ELSE pending[u]
    BY DEF Rollback, RollbackBase, TypeOK
<1>4. \A u \in Call : pending'[u] \subseteq pending[u]
    BY <1>3
<1>5. base[c] = b
    OBVIOUS
<1> HIDE DEF b
<1>6. Transactions'
    <2> SUFFICES ASSUME NEW u \in Call
                 PROVE  /\ u \in open' => u \in Active' /\ kind'[u] = "raw"
                        /\ u \notin open' => pending'[u] = {}
                        /\ pending'[u] \subseteq written'[u]
                        /\ u \in Active' /\ kind'[u] = "raw" /\ u \notin spoiled'
                             => written'[u] \subseteq pending'[u]
        BY DEF Transactions
    <2>1. CASE kind[c] = "nothing"
        BY <2>1, <1>1, <1>3 DEF PlainInv, Transactions
    <2>2. CASE kind[c] = "raw"
        BY <2>2, <1>1, <1>2, <1>3 DEF PlainInv, Transactions
    <2>3. CASE kind[c] = "virtual"
        BY <2>3, <1>1, <1>2, <1>3 DEF PlainInv, Transactions
    <2>. QED
        BY <2>1, <2>2, <2>3, <1>1 DEF TypeOK
<1>7. \A w \in pending'[b] : w[1] # c
    <2>1. CASE kind[c] = "nothing"
        BY <2>1, <1>2, <1>4 DEF PlainInv, Transactions, Belong
    <2>2. CASE kind[c] # "nothing"
        BY <2>2, <1>2, <1>3
    <2>. QED
        BY <2>1, <2>2
<1>8. Fates'
    <2>1. \A w \in committed : kind[w[1]] # "nothing" => outcome'[base[w[1]]] \in {"ok", "unsure"}
        <3> TAKE w \in committed
        <3>1. base[w[1]] \in Call
            BY DEF TypeOK, Write
        <3>. QED
            BY <3>1, <1>1 DEF PlainInv, Fates, Active
    <2>2. \A d \in Call : outcome'[d] = "failed" => \A w \in pending'[base[d]] : w[1] # d
        <3> SUFFICES ASSUME NEW d \in Call, outcome'[d] = "failed", NEW w \in pending'[base[d]]
                     PROVE  w[1] # d
            OBVIOUS
        <3>1. CASE d = c
            BY <3>1, <1>5, <1>7
        <3>2. CASE d # c
            <4>1. outcome[d] = "failed" /\ w \in pending[base[d]]
                BY <3>2, <1>1, <1>4 DEF TypeOK
            <4>. QED
                BY <4>1 DEF PlainInv, Fates
        <3>. QED
            BY <3>1, <3>2
    <2>3. \A u \in Call : kind[u] = "raw" /\ outcome'[u] \in {"ok", "unsure"} /\ u \notin spoiled'
                            => written[u] \subseteq committed
        BY <1>1, <1>3 DEF PlainInv, Fates
    <2>. QED
        BY <2>1, <2>2, <2>3, <1>1, <1>3 DEF PlainInv, Fates
<1>9. FailedLeaveNothing'
    <2> SUFFICES ASSUME NEW d \in Call, outcome'[d] = "failed", kind[d] \in {"raw", "virtual"},
                        NEW w \in committed, w[1] = d
                 PROVE  FALSE
        BY <1>1, <1>3 DEF FailedLeaveNothing
    <2>1. d = c
        BY <1>1 DEF PlainInv, FailedLeaveNothing
    <2>. QED
        BY <2>1, <1>2, <1>5 DEF PlainInv, Fates
<1>. QED
    BY <1>1, <1>6, <1>8, <1>9 DEF PlainInv

(* The request's scope finds nothing to commit.                                *)
LEMMA PlainCloses ==
    ASSUME TypeOK, Nesting, PlainInv, CloseScope
    PROVE  PlainInv'
<1>1. listed = {} /\ current = 0
    BY DEF CloseScope, Nesting, PlainInv, Listed
<1>2. UNCHANGED <<listed, exits, outcome, kind, base, written, spoiled>>
    BY DEF CloseScope, frameVars
<1>3. {c \in listed : kind[c] = "raw"} = {}
    BY <1>1
<1>4. committed' = committed /\ open' = open /\ pending' = [c \in Call |-> pending[c]]
    BY <1>3 DEF CloseScope
<1>5. UNCHANGED pending
    BY <1>4 DEF TypeOK
<1>. QED
    BY <1>2, <1>4, <1>5, PlainFrame

--------------------------------------------------------------------------------
(* The invariant holds initially and is kept by every step.                    *)
LEMMA IInvInit == Init => IInv
<1> SUFFICES ASSUME Init
             PROVE  IInv
    OBVIOUS
<1>1. TypeOK
    <2>1. 0 \in 0 .. MaxCalls /\ 0 \in 0 .. MaxWrites
        OBVIOUS
    <2>2. /\ base \in [Call -> Call]
          /\ pending \in [Call -> SUBSET Write]
          /\ written \in [Call -> SUBSET Write]
        BY DEF Init
    <2>. QED
        BY <2>1, <2>2 DEF Init, TypeOK
<1>2. Active = {}
    BY DEF Init, Active
<1>3. Nesting
    BY <1>2 DEF Init, Nesting, Call
<1>4. Styled
    BY DEF Init, Styled
<1>5. PlainInv
    BY <1>2 DEF Init, PlainInv, Listed, Bases, Transactions, Belong, Fates, FailedLeaveNothing
<1>. QED
    BY <1>1, <1>3, <1>4, <1>5 DEF IInv

(* A request of plain methods keeps its part of the invariant.                 *)
LEMMA PlainStep ==
    TypeOK /\ Nesting /\ OnlyPlain /\ PlainInv /\ [Next]_vars => PlainInv'
<1> SUFFICES ASSUME TypeOK, Nesting, OnlyPlain, PlainInv, [Next]_vars
             PROVE  PlainInv'
    OBVIOUS
<1>1. CASE UNCHANGED vars
    BY <1>1, PlainFrame DEF vars, frameVars, dataVars
<1>2. ASSUME NEW p \in Propagation, OnEntryThrows(p)
      PROVE  PlainInv'
    BY <1>2, PlainFrame DEF OnEntryThrows, dataVars
<1>3. ASSUME NEW p \in Propagation, NEW s \in Styles, OnEntry(p, s)
      PROVE  PlainInv'
    BY <1>3, PlainEntry
<1>4. CASE BodyWrites
    BY <1>4, PlainWrite
<1>5. CASE Catch
    BY <1>5, PlainFrame DEF Catch, dataVars
<1>6. CASE CloseScope
    BY <1>6, PlainCloses
<1>7. ASSUME NEW c \in Call, Exit(c)
      PROVE  PlainInv'
    <2>1. CASE Return(c)
        BY <2>1, PlainCommits DEF Return, Dispose
    <2>2. CASE ReturnCommitThrows(c)
        BY <2>2, PlainRollsBack DEF ReturnCommitThrows, Dispose, Rollback
    <2>3. CASE Throw(c)
        BY <2>3, PlainRollsBack DEF Throw, Dispose
    <2>4. CASE TaskEnds(c) \/ ThrowWithoutTask(c)
        BY <2>4 DEF TaskEnds, ThrowWithoutTask, OnlyPlain
    <2>5. CASE Continuation(c) \/ ContinuationCommitThrows(c)
        BY <2>5 DEF Continuation, ContinuationCommitThrows, PlainInv, Listed
    <2>6. CASE ReturnAnswerLost(c)
        BY <2>6, PlainCommits DEF ReturnAnswerLost, Dispose
    <2>. QED
        BY <1>7, <2>1, <2>2, <2>3, <2>4, <2>5, <2>6 DEF Exit
<1>. QED
    BY <1>1, <1>2, <1>3, <1>4, <1>5, <1>6, <1>7 DEF Next, Body

(* The invariant is inductive.                                                 *)
LEMMA IInvStep == IInv /\ [Next]_vars => IInv'
BY TypeStep, NestingStep, StyledStep, PlainStep DEF IInv

(* So it holds in every state.                                                 *)
LEMMA Invariance == Spec => []IInv
BY IInvInit, IInvStep, PTL DEF Spec

--------------------------------------------------------------------------------
(* Every variable keeps its type, for plain and task methods alike.            *)
THEOREM TypeCorrect == Spec => []TypeOK
<1>1. IInv => TypeOK
    BY DEF IInv
<1>. QED
    BY <1>1, Invariance, PTL

(* A plain method that fails leaves none of its writes committed, unless it    *)
(* runs outside of transactions, whatever is nested in it, whatever it is      *)
(* nested in, and whoever catches its exception.                               *)
THEOREM FailedPlainMethodsLeaveNothing == Spec => []PlainFailedLeaveNothing
<1>1. IInv => PlainFailedLeaveNothing
    BY DEF IInv, PlainInv, PlainFailedLeaveNothing
<1>. QED
    BY <1>1, Invariance, PTL

(* The writes of a transaction of plain methods are committed all or none, but *)
(* for those that a joined method's failure has rolled back on the way.        *)
THEOREM TransactionsAreAtomic == Spec => []OneTransaction
<1>1. IInv => OneTransaction
    <2> SUFFICES ASSUME IInv, OnlyPlain, NEW u \in Call, kind[u] = "raw"
                 PROVE  /\ outcome[u] = "failed" => written[u] \cap committed = {}
                        /\ outcome[u] \in {"ok", "unsure"} /\ u \notin spoiled => written[u] \subseteq committed
        BY DEF OneTransaction
    <2>1. PlainInv
        BY DEF IInv
    <2>2. ASSUME NEW w \in written[u], w \in committed
          PROVE  outcome[u] \in {"ok", "unsure"}
        BY <2>1, <2>2 DEF PlainInv, Belong, Fates
    <2>3. outcome[u] \in {"ok", "unsure"} /\ u \notin spoiled => written[u] \subseteq committed
        BY <2>1 DEF PlainInv, Fates
    <2>. QED
        BY <2>2, <2>3
<1>. QED
    BY <1>1, Invariance, PTL

(* Between the plain methods that a request calls itself, and when it ends, no *)
(* transaction is open and the manager's list is empty.                        *)
THEOREM RequestsEndClean == Spec => []NothingLeftOpen
<1>1. IInv => NothingLeftOpen
    <2> SUFFICES ASSUME IInv, OnlyPlain, current = 0
                 PROVE  listed = {} /\ open = {}
        BY DEF NothingLeftOpen
    <2>1. Active = {}
        BY DEF IInv, Nesting
    <2>. QED
        BY <2>1 DEF IInv, TypeOK, PlainInv, Listed, Transactions
<1>. QED
    BY <1>1, Invariance, PTL

=============================================================================
