---------------------------- MODULE CapOutboxProofs ----------------------------
(* The outbox is a Transactional of its own kind: what is proved of that holds *)
(* of it, and no message leaves a transaction that has not been committed.     *)
EXTENDS CapOutbox, TransactionalProofs

USE TransactionalAssumption, TaskAssumption

--------------------------------------------------------------------------------
(* Each step of the outbox is one of the transactional aspect, or none of it.  *)
LEMMA OutboxStepIsStep == [OutboxNext]_allVars => [Next]_vars
<1> SUFFICES ASSUME [OutboxNext]_allVars
             PROVE  [Next]_vars
    OBVIOUS
<1>1. CASE UNCHANGED allVars
    BY <1>1 DEF allVars
<1>2. ASSUME NEW p \in Propagation, EnterThrows(p)
      PROVE  Next
    BY <1>2 DEF EnterThrows, Next
<1>3. ASSUME NEW p \in Propagation, NEW s \in Styles, NEW cap \in BOOLEAN, Enter(p, s, cap)
      PROVE  Next
    <2>1. OnEntry(p, s)
        BY <1>3 DEF Enter
    <2>. QED
        BY <2>1 DEF Next
<1>4. CASE Body /\ UNCHANGED outboxVars
    BY <1>4 DEF Next
<1>5. CASE PublishAtOnce \/ PublishInTransaction
    BY <1>5 DEF PublishAtOnce, PublishInTransaction
<1>6. ASSUME NEW c \in Call, PlainExit(c) \/ TaskExit(c) \/ ContinuationRuns(c) \/ RetrySend(c)
      PROVE  [Next]_vars
    <2>1. Exit(c) \/ UNCHANGED vars
        BY <1>6 DEF PlainExit, TaskExit, ContinuationRuns, RetrySend, Exit
    <2>. QED
        BY <2>1 DEF Next
<1>7. CASE DisposeScope
    BY <1>7 DEF DisposeScope, Next
<1>. QED
    BY <1>1, <1>2, <1>3, <1>4, <1>5, <1>6, <1>7 DEF OutboxNext

(* CAP adds to the transactional aspect and changes nothing of it, whatever is *)
(* published, flushed and thrown: a refinement whose mapping is the identity.  *)
THEOREM OutboxImplementsTransactional == OutboxSpec => Spec
<1>1. OutboxInit => Init
    BY DEF OutboxInit
<1>. QED
    BY <1>1, OutboxStepIsStep, PTL DEF OutboxSpec, Spec

(* With CAP, too, transactions of plain methods are committed all or none.     *)
THEOREM OutboxTransactionsAreAtomic == OutboxSpec => []OneTransaction
BY OutboxImplementsTransactional, TransactionsAreAtomic, PTL

--------------------------------------------------------------------------------
(* The inductive invariant.  The sets that the variables range over, with what *)
(* a step needs to know of before.                                             *)
Types ==
    /\ owners \subseteq Call
    /\ dbTran \in [Call -> 0 .. Over]
    /\ ambient \in {Null} \cup owners /\ before \in [Call -> {Null} \cup owners]
    /\ message \in [Call -> {"none", "pending", "stored", "sent", "gone"}]
    /\ row \in [Call -> 0 .. MaxCalls] /\ holder \in [Call -> {Null} \cup owners]
    /\ kept \subseteq Call

(* Owners are calls that have been made, and have the transaction they are in, *)
(* for as long as it lasts; none if they run outside of transactions.          *)
Owned ==
    /\ \A h \in owners : /\ h <= calls
                         /\ dbTran[h] \in {Null, Over, base[h]}
                         /\ kind[h] = "nothing" => dbTran[h] = Null
    /\ \A c \in Call : kind[c] # "virtual" => base[c] = c

(* Where a message is, its row and its holder.                                 *)
Placed == \A c \in Call :
    /\ message[c] = "none" => holder[c] = Null
    /\ message[c] = "pending" =>
         holder[c] \in owners /\ row[c] = dbTran[holder[c]] /\ row[c] \in Call
    /\ message[c] = "stored" => c \in kept

(* A message is lost before its holder's end only if a joined call fails.      *)
Lost == \A c \in Call :
    message[c] = "gone" /\ holder[c] \in owners /\ kind[holder[c]] = "raw" =>
        \/ holder[c] \in spoiled
        \/ outcome[holder[c]] # "running" /\ holder[c] \notin exits

OutboxInv == Types /\ Owned /\ Placed /\ Lost /\ SentWasCommitted

(* Neither absent nor finished transactions are calls.                         *)
LEMMA NotCalls == Null \notin Call /\ Over \notin Call /\ Null # Over
BY DEF Null, Over, Call

(* The transaction in which a message is pending is that of its holder.        *)
LEMMA PendingInBase ==
    ASSUME Owned, Placed, NEW c \in Call, message[c] = "pending"
    PROVE  /\ holder[c] \in owners
           /\ row[c] = base[holder[c]]
           /\ row[c] = dbTran[holder[c]]
           /\ row[c] \in Call
BY NotCalls DEF Owned, Placed

--------------------------------------------------------------------------------
(* What ends in _OnExit.                                                       *)

(* A commit of c sends only what is then committed, or was lost before.        *)
LEMMA AfterCommitKeeps ==
    ASSUME OutboxInv, NEW c \in Call, AfterCommit(c),
           UNCHANGED <<calls, kind, base, spoiled, owners, holder>>,
           outcome[c] = "running" \/ c \in exits,
           \A h \in Call : outcome[h] # "running" /\ h \notin exits =>
                               outcome'[h] # "running" /\ h \notin exits'
    PROVE  Owned' /\ Placed' /\ Lost' /\ SentWasCommitted'
<1> DEFINE B == IF kind[c] = "raw" THEN {c} ELSE {}
           D == IF kind[c] = "raw" THEN owners \cap {c} ELSE {}
<1>1. /\ message' = [d \in Call |->
               CASE d \in Flushed(c) -> "sent"
                 [] d \in Rows(B) \ Flushed(c) -> "stored"
                 [] OTHER -> message[d]]
      /\ kept' = kept \cup Rows(B)
      /\ dbTran' = [d \in Call |->
             IF d \in D THEN Null ELSE IF dbTran[d] \in B THEN Over ELSE dbTran[d]]
      /\ row' = [d \in Call |-> IF d \in Rows(B) THEN Null ELSE row[d]]
    BY DEF AfterCommit, TransEnd
<1>2. Types
    BY DEF OutboxInv
<1>3. Owned'
    BY <1>1, <1>2, NotCalls DEF OutboxInv, Owned, Types
<1> HIDE DEF D
<1>4. ASSUME NEW d \in Call
      PROVE  /\ message'[d] = "none" => message[d] = "none"
             /\ message'[d] = "pending" => message[d] = "pending" /\ d \notin Rows(B)
             /\ message'[d] = "stored" => message[d] = "stored" \/ d \in Rows(B)
             /\ message'[d] = "gone" => message[d] = "gone"
             /\ message'[d] = "sent" => message[d] = "sent" \/ d \in Flushed(c)
    BY <1>1
<1>5. ASSUME NEW d \in Flushed(c)
      PROVE  d \in Call /\ holder[d] = c /\ c \in owners /\ kind[c] = "raw"
    BY DEF Flushed
<1>6. ASSUME NEW d \in Flushed(c)
      PROVE  d \in kept' \/ holder[d] \in spoiled
    <2>1. CASE message[d] = "none"
        BY <1>5, <2>1, NotCalls DEF OutboxInv, Placed
    <2>2. CASE message[d] = "pending"
        <3>1. row[d] = base[c]
            BY <1>5, <2>2, PendingInBase DEF OutboxInv
        <3>2. row[d] = c
            BY <1>5, <3>1 DEF OutboxInv, Owned
        <3>. QED
            BY <1>1, <1>5, <2>2, <3>2 DEF Rows
    <2>3. CASE message[d] = "stored"
        BY <1>1, <1>5, <2>3 DEF OutboxInv, Placed
    <2>4. CASE message[d] = "sent"
        BY <1>1, <1>5, <2>4, NotCalls DEF OutboxInv, SentWasCommitted
    <2>5. CASE message[d] = "gone"
        BY <1>5, <2>5 DEF OutboxInv, Lost
    <2>. QED
        BY <1>2, <1>5, <2>1, <2>2, <2>3, <2>4, <2>5 DEF Types
<1>7. Placed'
    <2> SUFFICES ASSUME NEW d \in Call
                 PROVE  /\ message'[d] = "none" => holder'[d] = Null
                        /\ message'[d] = "pending" => /\ holder'[d] \in owners'
                                                      /\ row'[d] = dbTran'[holder'[d]]
                                                      /\ row'[d] \in Call
                        /\ message'[d] = "stored" => d \in kept'
        BY DEF Placed
    <2>1. message'[d] = "none" => holder'[d] = Null
        BY <1>4 DEF OutboxInv, Placed
    <2>2. message'[d] = "stored" => d \in kept'
        BY <1>1, <1>4 DEF OutboxInv, Placed
    <2>3. ASSUME message'[d] = "pending"
          PROVE  /\ holder'[d] \in owners'
                 /\ row'[d] = dbTran'[holder'[d]]
                 /\ row'[d] \in Call
        <3>1. /\ message[d] = "pending" /\ d \notin Rows(B) /\ d \notin Flushed(c)
            BY <1>1, <1>4, <2>3
        <3>2. /\ holder[d] \in owners
              /\ row[d] = base[holder[d]]
              /\ row[d] = dbTran[holder[d]]
              /\ row[d] \in Call
            BY <3>1, PendingInBase DEF OutboxInv
        <3>3. row[d] \notin B
            BY <3>1 DEF Rows
        <3>4. holder[d] \notin D
            <4> SUFFICES ASSUME holder[d] \in D
                         PROVE  FALSE
                OBVIOUS
            <4>1. kind[c] = "raw" /\ holder[d] = c /\ c \in owners
                BY DEF D
            <4>. QED
                BY <3>1, <4>1 DEF Flushed
        <3>5. row'[d] = row[d] /\ dbTran'[holder[d]] = dbTran[holder[d]]
            BY <1>1, <1>2, <3>1, <3>2, <3>3, <3>4 DEF Types
        <3>. QED
            BY <3>2, <3>5
    <2>. QED
        BY <2>1, <2>2, <2>3
<1>8. Lost'
    BY <1>2, <1>4 DEF OutboxInv, Lost, Types
<1>9. SentWasCommitted'
    BY <1>1, <1>4, <1>6 DEF OutboxInv, SentWasCommitted
<1>. QED
    BY <1>3, <1>7, <1>8, <1>9

(* A commit of c whose answer is lost sends nothing; its messages are stored.  *)
LEMMA AnswerLostKeeps ==
    ASSUME OutboxInv, NEW c \in Call, AfterAnswerLost(c), kind[c] = "raw",
           UNCHANGED <<calls, kind, base, spoiled, owners, holder>>,
           \A h \in Call : outcome[h] # "running" /\ h \notin exits =>
                               outcome'[h] # "running" /\ h \notin exits'
    PROVE  Owned' /\ Placed' /\ Lost' /\ SentWasCommitted'
<1>1. /\ message' = [d \in Call |-> IF d \in Rows({c}) THEN "stored" ELSE message[d]]
      /\ kept' = kept \cup Rows({c})
      /\ dbTran' = [d \in Call |->
             IF d \in owners \cap {c} THEN Null
             ELSE IF dbTran[d] \in {c} THEN Over ELSE dbTran[d]]
      /\ row' = [d \in Call |-> IF d \in Rows({c}) THEN Null ELSE row[d]]
    BY DEF AfterAnswerLost, TransEnd
<1>2. Types
    BY DEF OutboxInv
<1>3. Owned'
    BY <1>1, <1>2, NotCalls DEF OutboxInv, Owned, Types
<1>4. ASSUME NEW d \in Call, message'[d] = "pending"
      PROVE  /\ holder'[d] \in owners'
             /\ row'[d] = dbTran'[holder'[d]]
             /\ row'[d] \in Call
    <2>1. message[d] = "pending" /\ d \notin Rows({c})
        BY <1>1, <1>4
    <2>2. /\ holder[d] \in owners
          /\ row[d] = base[holder[d]]
          /\ row[d] = dbTran[holder[d]]
          /\ row[d] \in Call
        BY <2>1, PendingInBase DEF OutboxInv
    <2>3. row[d] # c
        BY <2>1 DEF Rows
    <2>4. holder[d] # c
        BY <2>2, <2>3 DEF OutboxInv, Owned
    <2>5. row'[d] = row[d] /\ dbTran'[holder[d]] = dbTran[holder[d]]
        BY <1>1, <1>2, <2>1, <2>2, <2>3, <2>4 DEF Types
    <2>. QED
        BY <2>2, <2>5
<1>5. Placed'
    <2>1. \A d \in Call : /\ message'[d] = "none" => holder'[d] = Null
                          /\ message'[d] = "stored" => d \in kept'
        BY <1>1 DEF OutboxInv, Placed
    <2>. QED
        BY <1>4, <2>1 DEF Placed
<1>6. Lost'
    BY <1>1, <1>2 DEF OutboxInv, Lost, Types
<1>7. SentWasCommitted'
    BY <1>1 DEF OutboxInv, SentWasCommitted
<1>. QED
    BY <1>3, <1>5, <1>6, <1>7

(* A rollback of c loses what is pending in its transaction: its own, or that  *)
(* of the call it joined, which it spoils.                                     *)
LEMMA AfterRollbackKeeps ==
    ASSUME TypeOK, OutboxInv, NEW c \in Call, AfterRollback(c),
           UNCHANGED <<calls, kind, base, owners, holder>>, spoiled \subseteq spoiled',
           kind[c] = "virtual" => base[c] \in spoiled',
           outcome'[c] # "running" /\ c \notin exits',
           \A h \in Call : outcome[h] # "running" /\ h \notin exits =>
                               outcome'[h] # "running" /\ h \notin exits'
    PROVE  Owned' /\ Placed' /\ Lost' /\ SentWasCommitted'
<1> DEFINE B == IF kind[c] = "nothing" THEN {} ELSE {base[c]}
           D == owners \cap {c}
<1>1. /\ message' = [d \in Call |-> IF d \in Rows(B) THEN "gone" ELSE message[d]]
      /\ kept' = kept
      /\ dbTran' = [d \in Call |->
             IF d \in D THEN Null ELSE IF dbTran[d] \in B THEN Over ELSE dbTran[d]]
      /\ row' = [d \in Call |-> IF d \in Rows(B) THEN Null ELSE row[d]]
    BY DEF AfterRollback, TransEnd
<1>2. Types
    BY DEF OutboxInv
<1>3. Owned'
    BY <1>1, <1>2, NotCalls DEF OutboxInv, Owned, Types, TypeOK
<1>4. Lost'
    <2> SUFFICES ASSUME NEW d \in Call, message'[d] = "gone", holder[d] \in owners,
                        kind[holder[d]] = "raw"
                 PROVE  \/ holder[d] \in spoiled'
                        \/ outcome'[holder[d]] # "running" /\ holder[d] \notin exits'
        BY DEF Lost
    <2>1. CASE message[d] = "gone"
        BY <1>2, <2>1 DEF OutboxInv, Lost, Types
    <2>2. CASE d \in Rows(B)
        <3>1. message[d] = "pending" /\ row[d] = base[c]
            BY <2>2 DEF Rows
        <3>2. base[holder[d]] = base[c]
            BY <3>1, PendingInBase DEF OutboxInv
        <3>3. holder[d] = base[c]
            BY <1>2, <3>2 DEF OutboxInv, Owned, Types
        <3>4. kind[c] # "virtual" => base[c] = c
            BY DEF OutboxInv, Owned
        <3>. QED
            BY <3>3, <3>4
    <2>. QED
        BY <1>1, <2>1, <2>2
<1> HIDE DEF B
<1>5. Placed'
    <2> SUFFICES ASSUME NEW d \in Call
                 PROVE  /\ message'[d] = "none" => holder'[d] = Null
                        /\ message'[d] = "pending" => /\ holder'[d] \in owners'
                                                      /\ row'[d] = dbTran'[holder'[d]]
                                                      /\ row'[d] \in Call
                        /\ message'[d] = "stored" => d \in kept'
        BY DEF Placed
    <2>1. message'[d] = "none" => holder'[d] = Null
        BY <1>1 DEF OutboxInv, Placed
    <2>2. message'[d] = "stored" => d \in kept'
        BY <1>1 DEF OutboxInv, Placed
    <2>3. ASSUME message'[d] = "pending"
          PROVE  /\ holder'[d] \in owners'
                 /\ row'[d] = dbTran'[holder'[d]]
                 /\ row'[d] \in Call
        <3>1. message[d] = "pending" /\ d \notin Rows(B)
            BY <1>1, <2>3
        <3>2. /\ holder[d] \in owners
              /\ row[d] = base[holder[d]]
              /\ row[d] = dbTran[holder[d]]
              /\ row[d] \in Call
            BY <3>1, PendingInBase DEF OutboxInv
        <3>3. row[d] \notin B
            BY <3>1 DEF Rows
        <3>4. holder[d] # c
            <4> SUFFICES ASSUME holder[d] = c
                         PROVE  FALSE
                OBVIOUS
            <4>1. kind[c] = "nothing"
                BY <3>2, <3>3 DEF B
            <4>. QED
                BY <3>2, <4>1, NotCalls DEF OutboxInv, Owned
        <3>5. row'[d] = row[d] /\ dbTran'[holder[d]] = dbTran[holder[d]]
            BY <1>1, <1>2, <3>1, <3>2, <3>3, <3>4 DEF Types
        <3>. QED
            BY <3>2, <3>5
    <2>. QED
        BY <2>1, <2>2, <2>3
<1>6. SentWasCommitted'
    BY <1>1 DEF OutboxInv, SentWasCommitted
<1>. QED
    BY <1>3, <1>4, <1>5, <1>6

(* The end of the scope commits what is left; messages there wait for CAP.     *)
LEMMA ScopeKeeps ==
    ASSUME TypeOK, OutboxInv, DisposeScope
    PROVE  OutboxInv'
<1> DEFINE left == {c \in listed : kind[c] = "raw"}
<1>1. /\ message' = [d \in Call |-> IF d \in Rows(left) THEN "stored" ELSE message[d]]
      /\ kept' = kept \cup Rows(left)
      /\ dbTran' = [d \in Call |-> IF dbTran[d] \in left THEN Over ELSE dbTran[d]]
      /\ row' = [d \in Call |-> IF d \in Rows(left) THEN Null ELSE row[d]]
      /\ UNCHANGED <<owners, ambient, before, holder>>
      /\ UNCHANGED <<calls, kind, base, outcome, spoiled, exits>>
    BY DEF DisposeScope, TransEnd, CloseScope, frameVars
<1>2. Types /\ Owned
    BY DEF OutboxInv
<1>3. left \subseteq Call
    BY DEF TypeOK
<1> HIDE DEF left
<1>4. Types'
    <2>1. Null \in 0 .. MaxCalls /\ Over \in 0 .. Over
        BY DEF Null, Over
    <2>2. Rows(left) \subseteq Call
        BY DEF Rows
    <2>. QED
        BY <1>1, <1>2, <2>1, <2>2 DEF Types
<1>5. Owned'
    BY <1>1, <1>2, <1>3, NotCalls DEF Owned, Types
<1>6. Placed'
    <2> SUFFICES ASSUME NEW d \in Call
                 PROVE  /\ message'[d] = "none" => holder'[d] = Null
                        /\ message'[d] = "pending" => /\ holder'[d] \in owners'
                                                      /\ row'[d] = dbTran'[holder'[d]]
                                                      /\ row'[d] \in Call
                        /\ message'[d] = "stored" => d \in kept'
        BY DEF Placed
    <2>1. message'[d] = "none" => holder'[d] = Null
        BY <1>1 DEF OutboxInv, Placed
    <2>2. message'[d] = "stored" => d \in kept'
        BY <1>1 DEF OutboxInv, Placed
    <2>3. ASSUME message'[d] = "pending"
          PROVE  /\ holder'[d] \in owners'
                 /\ row'[d] = dbTran'[holder'[d]]
                 /\ row'[d] \in Call
        <3>1. message[d] = "pending" /\ d \notin Rows(left)
            BY <1>1, <2>3
        <3>2. /\ holder[d] \in owners
              /\ row[d] = dbTran[holder[d]]
              /\ row[d] \in Call
            BY <3>1, PendingInBase DEF OutboxInv
        <3>3. row[d] \notin left
            BY <3>1 DEF Rows
        <3>. QED
            BY <1>1, <1>2, <3>1, <3>2, <3>3 DEF Types
    <2>. QED
        BY <2>1, <2>2, <2>3
<1>7. Lost' /\ SentWasCommitted'
    BY <1>1 DEF OutboxInv, Lost, SentWasCommitted
<1>. QED
    BY <1>4, <1>5, <1>6, <1>7 DEF OutboxInv

(* A new call owns nothing that was published before it.                       *)
LEMMA EnterKeeps ==
    ASSUME TypeOK, Nesting, TypeOK', OutboxInv,
           NEW p \in Propagation, NEW s \in Styles, NEW cap \in BOOLEAN, Enter(p, s, cap)
    PROVE  OutboxInv'
<1> DEFINE n == calls + 1
<1>1. /\ n \in Call /\ n > calls /\ calls' = n
      /\ kind' = [kind EXCEPT ![n] = KindOf(p)]
      /\ base' = [base EXCEPT ![n] = base'[n]]
      /\ ~Joins(p) => base'[n] = n
      /\ outcome' = [outcome EXCEPT ![n] = "running"]
      /\ UNCHANGED <<spoiled, exits>>
    <2>1. calls \in Nat /\ calls < MaxCalls /\ calls' = n
        BY DEF Enter, OnEntry, TypeOK
    <2>2. n \in Call /\ n > calls
        BY <2>1 DEF Call
    <2>3. base' = [base EXCEPT ![n] = IF Joins(p) THEN Newest(RawOpen) ELSE n]
        BY DEF Enter, OnEntry
    <2>4. /\ kind' = [kind EXCEPT ![n] = KindOf(p)]
          /\ outcome' = [outcome EXCEPT ![n] = "running"]
          /\ UNCHANGED <<spoiled, exits>>
        BY DEF Enter, OnEntry
    <2> HIDE DEF n
    <2>5. base' = [base EXCEPT ![n] = base'[n]] /\ (~Joins(p) => base'[n] = n)
        BY <2>2, <2>3 DEF TypeOK
    <2>. QED
        BY <2>1, <2>2, <2>4, <2>5
<1>2. /\ before' = [before EXCEPT ![n] = IF s = "plain" THEN ambient ELSE Null]
      /\ UNCHANGED <<message, row, holder, kept>>
    BY DEF Enter, messageVars
<1>3. /\ owners' \in {owners, owners \cup {n}}
      /\ ambient' = ambient \/ (ambient' = n /\ n \in owners')
      /\ \/ dbTran' = [dbTran EXCEPT ![n] = Null]
         \/ dbTran' = [dbTran EXCEPT ![n] = base'[n]] /\ KindOf(p) # "nothing"
    BY DEF Enter
<1>4. Types /\ Owned
    BY DEF OutboxInv
<1>5. n \notin owners
    <2>1. \A h \in owners : h <= calls /\ h \in Nat
        BY <1>4 DEF Owned, Types, Call
    <2>2. calls \in Nat
        BY DEF TypeOK
    <2>. QED
        BY <2>1, <2>2
<1>6. KindOf(p) # "virtual" => ~Joins(p)
    BY DEF KindOf
<1>7. \A h \in owners : h <= n
    BY <1>4 DEF Owned, Types, Call, TypeOK
<1>8. base'[n] \in Call /\ Call \subseteq 0 .. Over /\ Null \in 0 .. Over /\ n <= n
    BY <1>1 DEF TypeOK, Call, Over, Null
<1> HIDE DEF n
<1>9. Types'
    <2>1. owners' \subseteq Call /\ owners \subseteq owners'
        BY <1>1, <1>3, <1>4 DEF Types
    <2>2. dbTran' \in [Call -> 0 .. Over]
        BY <1>3, <1>4, <1>8 DEF Types
    <2>3. before' \in [Call -> {Null} \cup owners']
        BY <1>2, <1>4, <2>1 DEF Types
    <2>. QED
        BY <1>2, <1>3, <1>4, <2>1, <2>2, <2>3 DEF Types
<1>10. Owned'
    <2>1. ASSUME NEW h \in owners', h # n
          PROVE  /\ h <= calls'
                 /\ dbTran'[h] \in {Null, Over, base'[h]}
                 /\ kind'[h] = "nothing" => dbTran'[h] = Null
        <3>1. h \in owners /\ h \in Call
            BY <1>3, <1>4, <2>1 DEF Types
        <3>2. /\ dbTran[h] \in {Null, Over, base[h]}
              /\ kind[h] = "nothing" => dbTran[h] = Null
            BY <1>4, <3>1 DEF Owned
        <3>3. dbTran'[h] = dbTran[h]
            BY <1>3, <1>4, <2>1, <3>1 DEF Types
        <3>4. base'[h] = base[h] /\ kind'[h] = kind[h]
            BY <1>1, <2>1, <3>1 DEF TypeOK
        <3>. QED
            BY <1>1, <1>7, <3>1, <3>2, <3>3, <3>4
    <2>2. /\ n <= calls'
          /\ dbTran'[n] \in {Null, Over, base'[n]}
          /\ kind'[n] = "nothing" => dbTran'[n] = Null
        <3>1. kind'[n] = KindOf(p)
            BY <1>1 DEF TypeOK
        <3>2. dbTran'[n] = Null \/ (dbTran'[n] = base'[n] /\ KindOf(p) # "nothing")
            BY <1>1, <1>3, <1>4 DEF Types
        <3>. QED
            BY <1>1, <1>8, <3>1, <3>2
    <2>3. \A c \in Call : kind'[c] # "virtual" => base'[c] = c
        BY <1>1, <1>4, <1>6 DEF Owned, TypeOK
    <2>. QED
        BY <2>1, <2>2, <2>3 DEF Owned
<1>11. Placed'
    <2>1. \A h \in owners : h \in owners' /\ dbTran'[h] = dbTran[h]
        BY <1>3, <1>4, <1>5 DEF Types
    <2>. QED
        BY <1>2, <2>1 DEF OutboxInv, Placed
<1>12. Lost'
    <2> SUFFICES ASSUME NEW d \in Call, message[d] = "gone", holder[d] \in owners',
                        kind'[holder[d]] = "raw"
                 PROVE  \/ holder[d] \in spoiled
                        \/ outcome'[holder[d]] # "running" /\ holder[d] \notin exits
        BY <1>1, <1>2 DEF Lost
    <2>1. holder[d] \in owners /\ holder[d] \in Call /\ holder[d] # n
        BY <1>1, <1>3, <1>4, <1>5, NotCalls DEF Types
    <2>2. kind'[holder[d]] = kind[holder[d]] /\ outcome'[holder[d]] = outcome[holder[d]]
        BY <1>1, <2>1 DEF TypeOK
    <2>. QED
        BY <2>1, <2>2 DEF OutboxInv, Lost
<1>13. SentWasCommitted'
    BY <1>1, <1>2 DEF OutboxInv, SentWasCommitted
<1>. QED
    BY <1>9, <1>10, <1>11, <1>12, <1>13 DEF OutboxInv

(* An _OnExit keeps the types.                                                 *)
LEMMA ExitTypes ==
    ASSUME Types, NEW c \in Call, AfterCommit(c) \/ AfterAnswerLost(c) \/ AfterRollback(c),
           ambient' \in {ambient, before[c]}, BeforeGoes(c), UNCHANGED <<owners, holder>>
    PROVE  Types'
<1>1. Null \in 0 .. MaxCalls /\ Null \in 0 .. Over /\ Over \in 0 .. Over
    BY DEF Null, Over
<1>2. \A B : Rows(B) \subseteq Call
    BY DEF Rows
<1>3. CASE AfterCommit(c)
    BY <1>1, <1>2, <1>3 DEF Types, AfterCommit, TransEnd, BeforeGoes
<1>4. CASE AfterRollback(c)
    BY <1>1, <1>2, <1>4 DEF Types, AfterRollback, TransEnd, BeforeGoes
<1>5. CASE AfterAnswerLost(c)
    BY <1>1, <1>2, <1>5 DEF Types, AfterAnswerLost, TransEnd, BeforeGoes
<1>. QED
    BY <1>3, <1>4, <1>5

(* _OnExit of a plain method.                                                  *)
LEMMA PlainExitKeeps ==
    ASSUME TypeOK, Nesting, OutboxInv, NEW c \in Call, PlainExit(c)
    PROVE  OutboxInv'
<1>1. Types'
    BY ExitTypes DEF PlainExit, AmbientAfter, OutboxInv
<1>2. c = current /\ current # 0
    BY DEF PlainExit, Return, ReturnAnswerLost, ReturnCommitThrows, Throw, Running
<1>3. c \in Call /\ outcome[c] = "running" /\ c \notin exits
    BY <1>2 DEF Nesting, Active
<1>4. /\ \E o \in {"ok", "failed", "unsure"} : outcome' = [outcome EXCEPT ![c] = o]
      /\ UNCHANGED <<calls, kind, base, exits, owners, holder>>
    BY DEF PlainExit, Return, ReturnAnswerLost, ReturnCommitThrows, Throw, Ends
<1>5. /\ outcome'[c] # "running" /\ c \notin exits'
      /\ \A h \in Call : outcome[h] # "running" /\ h \notin exits =>
                             outcome'[h] # "running" /\ h \notin exits'
    BY <1>3, <1>4 DEF TypeOK
<1>6. CASE Return(c) /\ AfterCommit(c)
    <2>1. UNCHANGED spoiled
        BY <1>6 DEF Return
    <2>. QED
        BY <1>1, <1>3, <1>4, <1>5, <1>6, <2>1, AfterCommitKeeps DEF OutboxInv
<1>7. CASE (ReturnCommitThrows(c) \/ Throw(c)) /\ AfterRollback(c)
    <2>1. spoiled \subseteq spoiled' /\ (kind[c] = "virtual" => base[c] \in spoiled')
        BY <1>7 DEF ReturnCommitThrows, Throw, Rollback
    <2>. QED
        BY <1>1, <1>4, <1>5, <1>7, <2>1, AfterRollbackKeeps DEF OutboxInv
<1>8. CASE ReturnAnswerLost(c) /\ AfterAnswerLost(c)
    <2>1. kind[c] = "raw" /\ UNCHANGED spoiled
        BY <1>8 DEF ReturnAnswerLost
    <2>. QED
        BY <1>1, <1>4, <1>5, <1>8, <2>1, AnswerLostKeeps DEF OutboxInv
<1>. QED
    BY <1>6, <1>7, <1>8 DEF PlainExit

(* _OnExit of a task method.                                                   *)
LEMMA ContinuationKeeps ==
    ASSUME TypeOK, Nesting, OutboxInv, NEW c \in Call, ContinuationRuns(c)
    PROVE  OutboxInv'
<1>1. Types'
    BY ExitTypes DEF ContinuationRuns, OutboxInv
<1>2. c \in exits /\ exits' = exits \ {c}
    BY DEF ContinuationRuns, Continuation, ContinuationCommitThrows
<1>3. UNCHANGED <<calls, kind, base, outcome, spoiled, owners, holder>>
    BY DEF ContinuationRuns, Continuation, ContinuationCommitThrows, frameVars
<1>4. /\ outcome'[c] # "running" /\ c \notin exits'
      /\ \A h \in Call : outcome[h] # "running" /\ h \notin exits =>
                             outcome'[h] # "running" /\ h \notin exits'
    BY <1>2, <1>3 DEF Nesting
<1>5. CASE Continuation(c) /\ AfterCommit(c)
    BY <1>1, <1>2, <1>3, <1>4, <1>5, AfterCommitKeeps DEF OutboxInv
<1>6. CASE ContinuationCommitThrows(c) /\ AfterRollback(c)
    <2>1. kind[c] = "raw"
        BY <1>6 DEF ContinuationCommitThrows
    <2>. QED
        BY <1>1, <1>3, <1>4, <1>6, <2>1, AfterRollbackKeeps DEF OutboxInv
<1>7. CASE kind[c] = "raw" /\ AfterAnswerLost(c)
    BY <1>1, <1>3, <1>4, <1>7, AnswerLostKeeps DEF OutboxInv
<1>. QED
    BY <1>5, <1>6, <1>7 DEF ContinuationRuns

(* The steps of the transactional aspect that CAP does not see.                *)
LEMMA UnseenKeeps ==
    ASSUME TypeOK, Nesting, OutboxInv, UNCHANGED outboxVars,
           \/ Body
           \/ \E p \in Propagation : OnEntryThrows(p)
           \/ \E c \in Call : TaskEnds(c) \/ ThrowWithoutTask(c)
    PROVE  OutboxInv'
<1>1. UNCHANGED <<owners, dbTran, ambient, before, message, row, holder, kept>>
    BY DEF outboxVars, capVars, messageVars
<1>2. UNCHANGED <<calls, kind, base, spoiled>>
    BY DEF Body, BodyWrites, Catch, OnEntryThrows, TaskEnds, ThrowWithoutTask, Ends,
           frameVars, dataVars
<1>3. Types' /\ Owned' /\ Placed' /\ SentWasCommitted'
    BY <1>1, <1>2 DEF OutboxInv, Types, Owned, Placed, SentWasCommitted
<1>4. \A h \in Call : outcome[h] # "running" /\ h \notin exits /\ outcome[h] # "none" =>
                          outcome'[h] # "running" /\ h \notin exits'
    <2>1. CASE Body \/ \E p \in Propagation : OnEntryThrows(p)
        BY <2>1 DEF Body, BodyWrites, Catch, OnEntryThrows, frameVars
    <2>2. ASSUME NEW c \in Call, TaskEnds(c) \/ ThrowWithoutTask(c)
          PROVE  \A h \in Call : outcome[h] # "running" /\ h \notin exits =>
                                     outcome'[h] # "running" /\ h \notin exits'
        <3>1. c = current /\ current # 0
            BY <2>2 DEF TaskEnds, ThrowWithoutTask, Running
        <3>2. outcome[c] = "running"
            BY <3>1 DEF Nesting, Active
        <3>3. \E o \in {"ok", "failed"} : outcome' = [outcome EXCEPT ![c] = o]
            BY <2>2 DEF TaskEnds, ThrowWithoutTask, Ends
        <3>4. exits' \subseteq exits \cup {c}
            BY <2>2 DEF TaskEnds, ThrowWithoutTask
        <3>. QED
            BY <3>2, <3>3, <3>4 DEF TypeOK
    <2>. QED
        BY <2>1, <2>2
<1>5. \A h \in owners : h \in Call /\ outcome[h] # "none"
    BY DEF OutboxInv, Types, Owned, Nesting
<1>6. Lost'
    BY <1>1, <1>2, <1>4, <1>5 DEF OutboxInv, Lost
<1>. QED
    BY <1>3, <1>6 DEF OutboxInv

(* Publishing, and CAP's retry.                                                *)
LEMMA MessageKeeps ==
    ASSUME TypeOK, OutboxInv,
           PublishAtOnce \/ PublishInTransaction \/ \E c \in Call : RetrySend(c)
    PROVE  OutboxInv'
<1>1. UNCHANGED <<calls, kind, base, outcome, exits, spoiled,
                  owners, dbTran, ambient, before, kept>>
    BY DEF PublishAtOnce, PublishInTransaction, RetrySend, vars, frameVars, dataVars, capVars
<1>2. Types
    BY DEF OutboxInv
<1>3. Owned'
    BY <1>1 DEF OutboxInv, Owned
<1>4. CASE PublishAtOnce
    <2>1. /\ current \in Call /\ message[current] = "none"
          /\ message' = [message EXCEPT ![current] = "sent"]
          /\ UNCHANGED <<row, holder>>
        BY <1>4 DEF PublishAtOnce, CanPublish, Running, TypeOK, Call
    <2>2. holder[current] = Null
        BY <2>1 DEF OutboxInv, Placed
    <2>3. Types' /\ Placed' /\ Lost' /\ SentWasCommitted'
        BY <1>1, <1>2, <2>1, <2>2 DEF OutboxInv, Types, Placed, Lost, SentWasCommitted
    <2>. QED
        BY <1>3, <2>3 DEF OutboxInv
<1>5. CASE PublishInTransaction
    <2>1. /\ current \in Call
          /\ message' = [message EXCEPT ![current] = "pending"]
          /\ row' = [row EXCEPT ![current] = dbTran[ambient]]
          /\ holder' = [holder EXCEPT ![current] = ambient]
          /\ ambient # Null /\ dbTran[ambient] # Null /\ dbTran[ambient] # Over
        BY <1>5 DEF PublishInTransaction, CanPublish, Transacted, Running, TypeOK, Call
    <2>2. ambient \in owners /\ ambient \in Call
        BY <1>2, <2>1 DEF Types
    <2>3. dbTran[ambient] \in Call /\ dbTran[ambient] \in 0 .. MaxCalls
        <3>1. dbTran[ambient] = base[ambient]
            BY <2>1, <2>2 DEF OutboxInv, Owned
        <3>2. base[ambient] \in Call
            BY <2>2 DEF TypeOK
        <3>. QED
            BY <3>1, <3>2 DEF Call
    <2>4. Types'
        BY <1>1, <1>2, <2>1, <2>2, <2>3 DEF Types
    <2>5. Placed' /\ Lost' /\ SentWasCommitted'
        BY <1>1, <1>2, <2>1, <2>2, <2>3
           DEF OutboxInv, Types, Placed, Lost, SentWasCommitted
    <2>. QED
        BY <1>3, <2>4, <2>5 DEF OutboxInv
<1>6. ASSUME NEW c \in Call, RetrySend(c)
      PROVE  OutboxInv'
    <2>1. /\ message[c] = "stored"
          /\ message' = [message EXCEPT ![c] = "sent"]
          /\ UNCHANGED <<row, holder>>
        BY <1>6 DEF RetrySend
    <2>2. Types' /\ Placed' /\ Lost' /\ SentWasCommitted'
        BY <1>1, <1>2, <2>1 DEF OutboxInv, Types, Placed, Lost, SentWasCommitted
    <2>. QED
        BY <1>3, <2>2 DEF OutboxInv
<1>. QED
    BY <1>4, <1>5, <1>6

(* The invariant is inductive.                                                 *)
LEMMA OutboxInvStep ==
    IInv /\ TypeOK' /\ OutboxInv /\ [OutboxNext]_allVars => OutboxInv'
<1> SUFFICES ASSUME IInv, TypeOK', OutboxInv, [OutboxNext]_allVars
             PROVE  OutboxInv'
    OBVIOUS
<1>1. TypeOK /\ Nesting
    BY DEF IInv
<1>2. CASE UNCHANGED allVars
    BY <1>2 DEF allVars, vars, frameVars, dataVars, outboxVars, capVars, messageVars,
                OutboxInv, Types, Owned, Placed, Lost, SentWasCommitted
<1>3. ASSUME NEW p \in Propagation, EnterThrows(p)
      PROVE  OutboxInv'
    BY <1>1, <1>3, UnseenKeeps DEF EnterThrows
<1>4. ASSUME NEW p \in Propagation, NEW s \in Styles, NEW cap \in BOOLEAN, Enter(p, s, cap)
      PROVE  OutboxInv'
    BY <1>1, <1>4, EnterKeeps
<1>5. CASE Body /\ UNCHANGED outboxVars
    BY <1>1, <1>5, UnseenKeeps
<1>6. CASE PublishAtOnce \/ PublishInTransaction
    BY <1>1, <1>6, MessageKeeps
<1>7. ASSUME NEW c \in Call, PlainExit(c)
      PROVE  OutboxInv'
    BY <1>1, <1>7, PlainExitKeeps
<1>8. ASSUME NEW c \in Call, TaskExit(c)
      PROVE  OutboxInv'
    BY <1>1, <1>8, UnseenKeeps DEF TaskExit
<1>9. ASSUME NEW c \in Call, ContinuationRuns(c)
      PROVE  OutboxInv'
    BY <1>1, <1>9, ContinuationKeeps
<1>10. ASSUME NEW c \in Call, RetrySend(c)
       PROVE  OutboxInv'
    BY <1>1, <1>10, MessageKeeps
<1>11. CASE DisposeScope
    BY <1>1, <1>11, ScopeKeeps
<1>. QED
    BY <1>2, <1>3, <1>4, <1>5, <1>6, <1>7, <1>8, <1>9, <1>10, <1>11 DEF OutboxNext

(* So it holds in every state.                                                 *)
LEMMA OutboxInvariance == OutboxSpec => []OutboxInv
<1>1. OutboxInit => OutboxInv
    <2> SUFFICES ASSUME OutboxInit
                 PROVE  OutboxInv
        OBVIOUS
    <2>1. Null \in 0 .. MaxCalls /\ Null \in 0 .. Over
        BY DEF Null, Over
    <2>2. Types
        BY <2>1 DEF OutboxInit, Types
    <2>. QED
        BY <2>2 DEF OutboxInit, Init, OutboxInv, Owned, Placed, Lost, SentWasCommitted
<1>2. IInv => TypeOK
    BY DEF IInv
<1>. QED
    BY <1>1, <1>2, OutboxInvStep, OutboxImplementsTransactional, Invariance, PTL DEF OutboxSpec

--------------------------------------------------------------------------------
(* CAP's variables keep their types.                                           *)
THEOREM OutboxTypeCorrect == OutboxSpec => []OutboxTypeOK
<1>1. OutboxInv => OutboxTypeOK
    <2> SUFFICES ASSUME OutboxInv
                 PROVE  OutboxTypeOK
        OBVIOUS
    <2>1. Types
        BY DEF OutboxInv
    <2>2. {Null} \cup owners \subseteq 0 .. MaxCalls
        BY <2>1 DEF Types, Null, Call
    <2>3. before \in [Call -> 0 .. MaxCalls]
        BY <2>1, <2>2 DEF Types
    <2>. QED
        BY <2>1, <2>3 DEF Types, OutboxTypeOK
<1>. QED
    BY <1>1, OutboxInvariance, PTL

(* A message published in a transaction reaches nobody before that has been    *)
(* committed, for methods of both styles, in any nesting, with exceptions that *)
(* are caught or not: not by Flush, nor by CAP's own retries.  A joined call's *)
(* failure that its caller catches is the one exception.                       *)
THEOREM NothingIsSentUncommitted == OutboxSpec => []SentWasCommitted
<1>1. OutboxInv => SentWasCommitted
    BY DEF OutboxInv
<1>. QED
    BY <1>1, OutboxInvariance, PTL
--------------------------------------------------------------------------------
(* What more the owner's decision rests on, among plain methods.  An owner     *)
(* that has ended has no transaction a message could go into.                  *)
Detached == \A h \in owners : kind[h] = "raw" /\ outcome[h] # "running" => dbTran[h] \notin Call

(* A message has left by the hand of its owner, and not before its end; it may *)
(* be CAP's to send when the answer to the owner's commit was lost.            *)
Fits(d, h) ==
    /\ outcome[h] = "ok" => message[d] = "sent"
    /\ outcome[h] = "unsure" => message[d] \in {"stored", "sent"} \/ h \in spoiled
    /\ outcome[h] \notin {"ok", "unsure"} => message[d] \notin {"stored", "sent"}

Decided == \A d \in Call, h \in owners : holder[d] = h /\ kind[h] = "raw" => Fits(d, h)

DecisionInv == Detached /\ Decided

(* Nothing is pending in the transaction of an owner that has ended.           *)
LEMMA NotPending ==
    ASSUME OutboxInv, Detached, NEW d \in Call, holder[d] \in owners,
           kind[holder[d]] = "raw", outcome[holder[d]] # "running"
    PROVE  message[d] # "pending"
BY DEF OutboxInv, Placed, Detached

(* The _OnExit of a plain method that returns.                                 *)
LEMMA CommitDecides ==
    ASSUME TypeOK, OutboxInv, DecisionInv, NEW c \in Call, outcome[c] = "running",
           AfterCommit(c), outcome' = [outcome EXCEPT ![c] = "ok"],
           UNCHANGED <<kind, base, spoiled, owners, holder>>
    PROVE  DecisionInv'
<1> DEFINE B == IF kind[c] = "raw" THEN {c} ELSE {}
           D == IF kind[c] = "raw" THEN owners \cap {c} ELSE {}
<1>1. /\ message' = [d \in Call |->
               CASE d \in Flushed(c) -> "sent"
                 [] d \in Rows(B) \ Flushed(c) -> "stored"
                 [] OTHER -> message[d]]
      /\ dbTran' = [h \in Call |->
             IF h \in D THEN Null ELSE IF dbTran[h] \in B THEN Over ELSE dbTran[h]]
    BY DEF AfterCommit, TransEnd
<1>2. outcome'[c] = "ok" /\ \A h \in Call : h # c => outcome'[h] = outcome[h]
    BY DEF TypeOK
<1>3. owners \subseteq Call
    BY DEF OutboxInv, Types
<1>4. Detached'
    <2> SUFFICES ASSUME NEW h \in owners, kind[h] = "raw", outcome'[h] # "running"
                 PROVE  dbTran'[h] \notin Call
        BY DEF Detached
    <2>1. CASE h = c
        <3>1. dbTran[h] \in {Null, Over, h}
            BY <2>1 DEF OutboxInv, Owned
        <3>2. B = {c} /\ dbTran'[h] \in {Null, Over}
            BY <1>1, <1>3, <2>1, <3>1, NotCalls
        <3>. QED
            BY <3>2, NotCalls
    <2>2. CASE h # c
        BY <1>1, <1>2, <1>3, <2>2, NotCalls DEF DecisionInv, Detached
    <2>. QED
        BY <2>1, <2>2
<1>5. Decided'
    <2> SUFFICES ASSUME NEW d \in Call, holder[d] \in owners, kind[holder[d]] = "raw"
                 PROVE  Fits(d, holder[d])'
        BY DEF Decided
    <2>1. CASE holder[d] = c
        <3>1. d \in Flushed(c)
            BY <2>1 DEF Flushed
        <3>. QED
            BY <1>1, <1>2, <2>1, <3>1 DEF Fits
    <2>2. CASE holder[d] # c
        <3>1. d \notin Flushed(c)
            BY <2>2 DEF Flushed
        <3>2. d \notin Rows(B)
            <4> SUFFICES ASSUME d \in Rows(B)
                         PROVE  FALSE
                OBVIOUS
            <4>1. message[d] = "pending" /\ row[d] = c
                BY DEF Rows
            <4>2. row[d] = base[holder[d]]
                BY <4>1, PendingInBase DEF OutboxInv
            <4>3. base[holder[d]] = holder[d]
                BY <1>3 DEF OutboxInv, Owned
            <4>. QED
                BY <2>2, <4>1, <4>2, <4>3
        <3>3. message'[d] = message[d]
            BY <1>1, <3>1, <3>2
        <3>. QED
            BY <1>2, <1>3, <2>2, <3>3 DEF DecisionInv, Decided, Fits
    <2>. QED
        BY <2>1, <2>2
<1>. QED
    BY <1>4, <1>5 DEF DecisionInv

(* The _OnExit of one whose commit is done and throws.                         *)
LEMMA AnswerLostDecides ==
    ASSUME TypeOK, OutboxInv, DecisionInv, NEW c \in Call, outcome[c] = "running", exits = {},
           AfterAnswerLost(c), kind[c] = "raw", outcome' = [outcome EXCEPT ![c] = "unsure"],
           UNCHANGED <<kind, base, spoiled, owners, holder>>
    PROVE  DecisionInv'
<1>1. /\ message' = [d \in Call |-> IF d \in Rows({c}) THEN "stored" ELSE message[d]]
      /\ dbTran' = [h \in Call |->
             IF h \in owners \cap {c} THEN Null
             ELSE IF dbTran[h] \in {c} THEN Over ELSE dbTran[h]]
    BY DEF AfterAnswerLost, TransEnd
<1>2. outcome'[c] = "unsure" /\ \A h \in Call : h # c => outcome'[h] = outcome[h]
    BY DEF TypeOK
<1>3. owners \subseteq Call /\ Types
    BY DEF OutboxInv, Types
<1>4. Detached'
    BY <1>1, <1>2, <1>3, NotCalls DEF DecisionInv, Detached
<1>5. Decided'
    <2> SUFFICES ASSUME NEW d \in Call, holder[d] \in owners, kind[holder[d]] = "raw"
                 PROVE  Fits(d, holder[d])'
        BY DEF Decided
    <2>1. Fits(d, holder[d])
        BY DEF DecisionInv, Decided
    <2>2. message[d] = "pending" =>
              /\ row[d] = holder[d]
              /\ d \in Rows({c}) <=> holder[d] = c
        <3>1. base[holder[d]] = holder[d]
            BY <1>3 DEF OutboxInv, Owned
        <3>. QED
            BY <3>1, PendingInBase DEF OutboxInv, Rows
    <2>3. message[d] # "pending" => d \notin Rows({c})
        BY DEF Rows
    <2>4. CASE holder[d] = c
        <3>1. message[d] # "none"
            BY <1>3, <2>4, NotCalls DEF OutboxInv, Placed
        <3>2. message[d] = "gone" => c \in spoiled
            BY <2>4 DEF OutboxInv, Lost
        <3>3. message[d] \in {"pending", "stored", "sent"} \/ c \in spoiled
            BY <1>3, <3>1, <3>2 DEF Types
        <3>. QED
            BY <1>1, <1>2, <2>2, <2>3, <2>4, <3>3 DEF Fits
    <2>5. CASE holder[d] # c
        <3>1. message'[d] = message[d]
            BY <1>1, <2>2, <2>3, <2>5
        <3>2. outcome'[holder[d]] = outcome[holder[d]]
            BY <1>2, <1>3, <2>5
        <3>. QED
            BY <2>1, <3>1, <3>2 DEF Fits
    <2>. QED
        BY <2>4, <2>5
<1>. QED
    BY <1>4, <1>5 DEF DecisionInv

(* The _OnExit of one that throws, or whose commit does, not done.             *)
LEMMA RollbackDecides ==
    ASSUME TypeOK, OutboxInv, DecisionInv, NEW c \in Call, outcome[c] = "running",
           AfterRollback(c), outcome' = [outcome EXCEPT ![c] = "failed"],
           UNCHANGED <<kind, base, owners, holder>>, spoiled \subseteq spoiled'
    PROVE  DecisionInv'
<1> DEFINE B == IF kind[c] = "nothing" THEN {} ELSE {base[c]}
<1>1. /\ message' = [d \in Call |-> IF d \in Rows(B) THEN "gone" ELSE message[d]]
      /\ dbTran' = [h \in Call |->
             IF h \in owners \cap {c} THEN Null
             ELSE IF dbTran[h] \in B THEN Over ELSE dbTran[h]]
    BY DEF AfterRollback, TransEnd
<1>2. outcome'[c] = "failed" /\ \A h \in Call : h # c => outcome'[h] = outcome[h]
    BY DEF TypeOK
<1>3. owners \subseteq Call
    BY DEF OutboxInv, Types
<1>4. Detached'
    BY <1>1, <1>2, <1>3, NotCalls DEF DecisionInv, Detached
<1>5. Decided'
    <2> SUFFICES ASSUME NEW d \in Call, holder[d] \in owners, kind[holder[d]] = "raw"
                 PROVE  Fits(d, holder[d])'
        BY DEF Decided
    <2>1. Fits(d, holder[d])
        BY DEF DecisionInv, Decided
    <2>2. outcome[holder[d]] # "running" => d \notin Rows(B)
        BY NotPending DEF DecisionInv, Rows
    <2>3. message'[d] = message[d] \/ (message'[d] = "gone" /\ d \in Rows(B))
        BY <1>1
    <2>4. CASE holder[d] = c
        BY <1>2, <2>1, <2>3, <2>4 DEF Fits
    <2>5. CASE holder[d] # c
        <3>1. outcome'[holder[d]] = outcome[holder[d]]
            BY <1>2, <1>3, <2>5
        <3>. QED
            BY <2>1, <2>2, <2>3, <3>1 DEF Fits
    <2>. QED
        BY <2>4, <2>5
<1>. QED
    BY <1>4, <1>5 DEF DecisionInv

(* OnEntry: a new owner has no messages yet.                                   *)
LEMMA EnterDecides ==
    ASSUME TypeOK, Nesting, OutboxInv, DecisionInv,
           NEW p \in Propagation, NEW s \in Styles, NEW cap \in BOOLEAN, Enter(p, s, cap)
    PROVE  DecisionInv'
<1> DEFINE n == calls + 1
<1>1. /\ calls \in Nat /\ n \in Call
      /\ kind' = [kind EXCEPT ![n] = KindOf(p)]
      /\ outcome' = [outcome EXCEPT ![n] = "running"]
    BY DEF Enter, OnEntry, TypeOK, Call
<1>2. /\ UNCHANGED <<message, row, holder, spoiled>>
      /\ owners' = owners \/ owners' = owners \cup {n}
      /\ \E t : dbTran' = [dbTran EXCEPT ![n] = t]
    BY DEF Enter, OnEntry, messageVars
<1>3. owners \subseteq Call /\ Types
    BY DEF OutboxInv, Types
<1>4. \A h \in owners : h # n
    BY <1>1, <1>3 DEF OutboxInv, Owned, Call
<1> HIDE DEF n
<1>5. \A h \in owners' : h # n => /\ h \in owners
                                  /\ kind'[h] = kind[h] /\ outcome'[h] = outcome[h]
                                  /\ dbTran'[h] = dbTran[h]
    BY <1>1, <1>2, <1>3 DEF TypeOK, Types
<1>6. outcome'[n] = "running"
    BY <1>1, <1>2, <1>3 DEF TypeOK, Types
<1>7. \A d \in Call : holder[d] # n
    BY <1>1, <1>3, <1>4, NotCalls DEF Types
<1>8. Detached'
    BY <1>5, <1>6 DEF DecisionInv, Detached
<1>9. Decided'
    BY <1>2, <1>5, <1>7 DEF DecisionInv, Decided, Fits
<1>. QED
    BY <1>8, <1>9 DEF DecisionInv

(* Publishing, and CAP's retry.                                                *)
LEMMA MessageDecides ==
    ASSUME TypeOK, Nesting, OutboxInv, DecisionInv,
           PublishAtOnce \/ PublishInTransaction \/ \E c \in Call : RetrySend(c)
    PROVE  DecisionInv'
<1>1. UNCHANGED <<kind, outcome, spoiled, owners, dbTran>>
    BY DEF PublishAtOnce, PublishInTransaction, RetrySend, vars, frameVars, dataVars, capVars
<1>2. Detached'
    BY <1>1 DEF DecisionInv, Detached
<1>3. owners \subseteq Call /\ Null \notin owners
    BY NotCalls DEF OutboxInv, Types
<1>4. CASE PublishAtOnce
    <2>1. /\ message' = [message EXCEPT ![current] = "sent"]
          /\ current \in Call /\ holder' = holder /\ holder[current] = Null
        BY <1>4 DEF PublishAtOnce, CanPublish, Running, TypeOK, Call, OutboxInv, Placed
    <2>2. \A d \in Call : holder[d] \in owners => message'[d] = message[d]
        BY <1>3, <2>1 DEF OutboxInv, Types
    <2>. QED
        BY <1>1, <1>2, <2>1, <2>2 DEF DecisionInv, Decided, Fits
<1>5. CASE PublishInTransaction
    <2>1. /\ message' = [message EXCEPT ![current] = "pending"]
          /\ holder' = [holder EXCEPT ![current] = ambient]
          /\ current \in Call
          /\ ambient # Null /\ dbTran[ambient] # Null /\ dbTran[ambient] # Over
        BY <1>5 DEF PublishInTransaction, CanPublish, Transacted, Running, TypeOK, Call
    <2>2. ambient \in owners
        BY <2>1 DEF OutboxInv, Types
    <2>3. kind[ambient] = "raw" => outcome[ambient] = "running"
        <3>1. dbTran[ambient] = base[ambient] /\ base[ambient] \in Call
            BY <1>3, <2>1, <2>2 DEF OutboxInv, Owned, TypeOK
        <3>. QED
            BY <2>2, <3>1 DEF DecisionInv, Detached
    <2>4. /\ holder'[current] = ambient /\ message'[current] = "pending"
          /\ \A d \in Call : d # current => holder'[d] = holder[d] /\ message'[d] = message[d]
        BY <2>1 DEF OutboxInv, Types
    <2>5. Decided'
        <3> SUFFICES ASSUME NEW d \in Call, NEW h \in owners, holder'[d] = h, kind[h] = "raw"
                     PROVE  Fits(d, h)'
            BY <1>1 DEF Decided
        <3>1. CASE d = current
            BY <1>1, <2>3, <2>4, <3>1 DEF Fits
        <3>2. CASE d # current
            BY <1>1, <2>4, <3>2 DEF DecisionInv, Decided, Fits
        <3>. QED
            BY <3>1, <3>2
    <2>. QED
        BY <1>2, <2>5 DEF DecisionInv
<1>6. ASSUME NEW c \in Call, RetrySend(c)
      PROVE  DecisionInv'
    <2>1. /\ message[c] = "stored"
          /\ message' = [message EXCEPT ![c] = "sent"]
          /\ holder' = holder
        BY <1>6 DEF RetrySend
    <2>2. message'[c] = "sent" /\ \A d \in Call : d # c => message'[d] = message[d]
        BY <2>1 DEF OutboxInv, Types
    <2>3. \A h \in owners : holder[c] = h /\ kind[h] = "raw" => outcome[h] = "unsure"
        BY <2>1 DEF DecisionInv, Decided, Fits
    <2>4. Decided'
        <3> SUFFICES ASSUME NEW d \in Call, NEW h \in owners, holder[d] = h, kind[h] = "raw"
                     PROVE  Fits(d, h)'
            BY <1>1, <2>1 DEF Decided
        <3>1. CASE d = c
            BY <1>1, <2>2, <2>3, <3>1 DEF Fits
        <3>2. CASE d # c
            BY <1>1, <2>2, <3>2 DEF DecisionInv, Decided, Fits
        <3>. QED
            BY <3>1, <3>2
    <2>. QED
        BY <1>2, <2>4 DEF DecisionInv
<1>. QED
    BY <1>4, <1>5, <1>6

(* The disposed scope finds nothing to commit.                                 *)
LEMMA ScopeDecides ==
    ASSUME Nesting, Listed, OutboxInv, DecisionInv, DisposeScope
    PROVE  DecisionInv'
<1>1. listed = {}
    BY DEF DisposeScope, CloseScope, Nesting, Listed
<1>2. {c \in listed : kind[c] = "raw"} = {} /\ Rows({}) = {}
    BY <1>1 DEF Rows
<1>3. /\ message' = [d \in Call |-> message[d]] /\ dbTran' = [d \in Call |-> dbTran[d]]
      /\ UNCHANGED <<owners, holder, kind, outcome, spoiled>>
    BY <1>2 DEF DisposeScope, TransEnd, CloseScope, frameVars
<1>4. message' = message /\ dbTran' = dbTran
    BY <1>3 DEF OutboxInv, Types
<1>. QED
    BY <1>3, <1>4 DEF DecisionInv, Detached, Decided, Fits

(* Among plain methods each step keeps it.                                     *)
LEMMA DecisionStep ==
    IInv /\ OutboxInv /\ (OnlyPlain => DecisionInv) /\ [OutboxNext]_allVars
        => (OnlyPlain' => DecisionInv')
<1> SUFFICES ASSUME IInv, OutboxInv, OnlyPlain => DecisionInv, [OutboxNext]_allVars, OnlyPlain'
             PROVE  DecisionInv'
    OBVIOUS
<1>1. TypeOK /\ Nesting /\ OnlyPlain /\ DecisionInv /\ Listed
    BY OutboxStepIsStep, StyledStep DEF IInv, PlainInv
<1>2. ASSUME UNCHANGED <<outboxVars, kind, outcome, spoiled>>
      PROVE  DecisionInv'
    BY <1>1, <1>2 DEF outboxVars, capVars, messageVars, DecisionInv, Detached, Decided, Fits
<1>3. CASE UNCHANGED allVars
    BY <1>2, <1>3 DEF allVars, vars, frameVars, dataVars
<1>4. ASSUME NEW p \in Propagation, EnterThrows(p)
      PROVE  DecisionInv'
    BY <1>2, <1>4 DEF EnterThrows, OnEntryThrows, dataVars
<1>5. ASSUME NEW p \in Propagation, NEW s \in Styles, NEW cap \in BOOLEAN, Enter(p, s, cap)
      PROVE  DecisionInv'
    BY <1>1, <1>5, EnterDecides
<1>6. CASE Body /\ UNCHANGED outboxVars
    BY <1>2, <1>6 DEF Body, BodyWrites, Catch, frameVars, dataVars
<1>7. CASE PublishAtOnce \/ PublishInTransaction
    BY <1>1, <1>7, MessageDecides
<1>8. ASSUME NEW c \in Call, PlainExit(c)
      PROVE  DecisionInv'
    <2>1. c = current /\ current # 0
        BY <1>8 DEF PlainExit, Return, ReturnAnswerLost, ReturnCommitThrows, Throw, Running
    <2>2. outcome[c] = "running"
        BY <1>1, <2>1 DEF Nesting, Active
    <2>3. UNCHANGED <<kind, base, owners, holder>>
        BY <1>8 DEF PlainExit, Return, ReturnAnswerLost, ReturnCommitThrows, Throw, Ends
    <2>4. CASE Return(c) /\ AfterCommit(c)
        <3>1. outcome' = [outcome EXCEPT ![c] = "ok"] /\ UNCHANGED spoiled
            BY <2>4 DEF Return, Ends
        <3>. QED
            BY <1>1, <2>2, <2>3, <2>4, <3>1, CommitDecides
    <2>5. CASE (ReturnCommitThrows(c) \/ Throw(c)) /\ AfterRollback(c)
        <3>1. outcome' = [outcome EXCEPT ![c] = "failed"] /\ spoiled \subseteq spoiled'
            BY <2>5 DEF ReturnCommitThrows, Throw, Rollback, Ends
        <3>. QED
            BY <1>1, <2>2, <2>3, <2>5, <3>1, RollbackDecides
    <2>6. CASE ReturnAnswerLost(c) /\ AfterAnswerLost(c)
        <3>1. /\ outcome' = [outcome EXCEPT ![c] = "unsure"]
              /\ kind[c] = "raw"
              /\ UNCHANGED spoiled
            BY <2>6 DEF ReturnAnswerLost, Ends
        <3>. QED
            BY <1>1, <2>2, <2>3, <2>6, <3>1, AnswerLostDecides DEF Listed
    <2>. QED
        BY <1>8, <2>4, <2>5, <2>6 DEF PlainExit
<1>9. ASSUME NEW c \in Call, TaskExit(c)
      PROVE  FALSE
    BY <1>1, <1>9 DEF TaskExit, TaskEnds, ThrowWithoutTask, OnlyPlain
<1>10. ASSUME NEW c \in Call, ContinuationRuns(c)
       PROVE  FALSE
    BY <1>1, <1>10 DEF ContinuationRuns, Continuation, ContinuationCommitThrows, Listed
<1>11. ASSUME NEW c \in Call, RetrySend(c)
       PROVE  DecisionInv'
    BY <1>1, <1>11, MessageDecides
<1>12. CASE DisposeScope
    BY <1>1, <1>12, ScopeDecides
<1>. QED
    BY <1>3, <1>4, <1>5, <1>6, <1>7, <1>8, <1>9, <1>10, <1>11, <1>12 DEF OutboxNext

(* Among plain methods the one that made the CAP transaction decides for all   *)
(* the messages that went into it, those of the methods it called and of later *)
(* ones too: they are sent by its Flush or never, also when a callee's failure *)
(* was caught on the way, and CAP's retries find none of them.                 *)
THEOREM OwnersDecide == OutboxSpec => []OwnerDecides
<1>1. OutboxInit => (OnlyPlain => DecisionInv)
    BY DEF OutboxInit, DecisionInv, Detached, Decided, Fits
<1>2. OutboxInv /\ (OnlyPlain => DecisionInv) => OwnerDecides
    BY DEF OwnerDecides, DecisionInv, Decided, Fits
<1>. QED
    BY <1>1, <1>2, DecisionStep, OutboxInvariance, OutboxImplementsTransactional, Invariance, PTL
       DEF OutboxSpec
=============================================================================
