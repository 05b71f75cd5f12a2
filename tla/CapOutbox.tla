------------------------------- MODULE CapOutbox -------------------------------
(* The CAP part of TransactionalAttribute (UseCapTrans) on top of              *)
(* Transactional: which messages a request publishes leave it, and when.  CAP  *)
(* (external) stores a message in the transaction of the publisher's ambient   *)
(* CAP transaction and sends it when that is flushed; without one it stores    *)
(* and sends it at once.  What is stored and not sent its retry processor      *)
(* sends later.  A call publishes at most one message, known by the call.      *)
EXTENDS Transactional

CONSTANT TaskCalls    \* bound: calls of a request in which there is a task method

ASSUME TaskAssumption == TaskCalls \in Nat

VARIABLES
    owners,    \* calls with UseCapTrans that have made a CAP transaction
    dbTran,    \* DbTransaction of each owner's: whose transaction, Null or Over
    ambient,   \* the owner of ICapPublisher.Transaction.Value, or Null
    before,    \* ambient when each plain call that runs began
    message,   \* what has become of each call's message
    row,       \* the call in whose open transaction it is stored, or Null
    holder,    \* the owner in whose CAP transaction it waits, or Null
    kept       \* messages whose row has been committed (history)

capVars == <<owners, dbTran, ambient, before>>
messageVars == <<message, row, holder, kept>>
outboxVars == <<capVars, messageVars>>
allVars == <<vars, outboxVars>>

Null == 0
Over == MaxCalls + 1    \* a transaction that has been committed or rolled back

OutboxInit ==
    /\ Init
    /\ owners = {}
    /\ dbTran = [c \in Call |-> Null]
    /\ ambient = Null
    /\ before = [c \in Call |-> Null]
    /\ message = [c \in Call |-> "none"]
    /\ row = [c \in Call |-> Null] /\ holder = [c \in Call |-> Null]
    /\ kept = {}

--------------------------------------------------------------------------------
(* Faulty variant: the ambient transaction is set, made by this call or not.   *)
EnterTakesOver(p, s, cap) ==
    LET c == calls + 1
        makes == cap /\ ambient = Null
    IN  /\ OnEntry(p, s)
        /\ s = "task" \/ ~OnlyPlain => c <= TaskCalls
        /\ before' = [before EXCEPT ![c] = ambient]
        /\ owners' = IF makes THEN owners \cup {c} ELSE owners
        /\ ambient' = IF cap THEN c ELSE ambient
        /\ UNCHANGED <<dbTran, messageVars>>

(* OnEntry: after Begin, a call that uses CAP makes the ambient transaction    *)
(* unless there is one already, whatever has become of that.  Without one of   *)
(* its own (_capTransaction is null) UseCapTrans does nothing more.            *)
Enter(p, s, cap) ==
    LET c == calls + 1
        makes == cap /\ ambient = Null
    IN  /\ OnEntry(p, s)
        /\ s = "task" \/ ~OnlyPlain => c <= TaskCalls
        /\ before' = [before EXCEPT ![c] = IF s = "plain" THEN ambient ELSE Null]
        /\ owners' = IF makes THEN owners \cup {c} ELSE owners
        /\ ambient' = IF makes THEN c ELSE ambient
        /\ dbTran' = [dbTran EXCEPT ![c] =
               IF makes /\ KindOf(p) # "nothing" THEN base'[c] ELSE Null]
        /\ UNCHANGED messageVars

EnterThrows(p) == OnEntryThrows(p) /\ UNCHANGED outboxVars

(* PublishAsync.  With the DbTransaction of a finished unit of work it throws, *)
(* for want of a connection, and nothing changes: the body may end with that   *)
(* (Throw) or go on, as after any exception of its own.                        *)
Transacted == ambient # Null /\ dbTran[ambient] # Null
CanPublish == Running /\ ~raised /\ message[current] = "none"

PublishAtOnce ==
    /\ CanPublish
    /\ ~Transacted
    /\ message' = [message EXCEPT ![current] = "sent"]
    /\ UNCHANGED <<vars, capVars, row, holder, kept>>

PublishInTransaction ==
    /\ CanPublish
    /\ Transacted /\ dbTran[ambient] # Over
    /\ message' = [message EXCEPT ![current] = "pending"]
    /\ row' = [row EXCEPT ![current] = dbTran[ambient]]
    /\ holder' = [holder EXCEPT ![current] = ambient]
    /\ UNCHANGED <<vars, capVars, kept>>

--------------------------------------------------------------------------------
(* The messages stored in the transactions of the calls in B.                  *)
Rows(B) == {c \in Call : message[c] = "pending" /\ row[c] \in B}

(* The transactions of B end, and the CAP transactions of D are disposed.      *)
TransEnd(B, D) ==
    /\ dbTran' = [c \in Call |->
           IF c \in D THEN Null ELSE IF dbTran[c] \in B THEN Over ELSE dbTran[c]]
    /\ row' = [c \in Call |-> IF c \in Rows(B) THEN Null ELSE row[c]]

(* _OnExit after Commit.  The CAP transaction of a call whose unit of work is  *)
(* a joined one or none is neither flushed nor disposed.  Flush sends what it  *)
(* holds, and does not look at what has become of the rows.                    *)
Flushed(c) == IF kind[c] = "raw" /\ c \in owners
              THEN {d \in Call : holder[d] = c} ELSE {}

(* Faulty variant: nothing is flushed.                                         *)
AfterCommitNoFlush(c) ==
    LET B == IF kind[c] = "raw" THEN {c} ELSE {}
    IN  /\ message' = [d \in Call |-> IF d \in Rows(B) THEN "stored" ELSE message[d]]
        /\ kept' = kept \cup Rows(B)
        /\ TransEnd(B, IF kind[c] = "raw" THEN owners \cap {c} ELSE {})

AfterCommit(c) ==
    LET B == IF kind[c] = "raw" THEN {c} ELSE {}
    IN  /\ message' = [d \in Call |->
               CASE d \in Flushed(c) -> "sent"
                 [] d \in Rows(B) \ Flushed(c) -> "stored"
                 [] OTHER -> message[d]]
        /\ kept' = kept \cup Rows(B)
        /\ TransEnd(B, IF kind[c] = "raw" THEN owners \cap {c} ELSE {})

(* Faulty variant: what the CAP transaction holds is flushed all the same.     *)
AfterRollbackFlush(c) ==
    LET B == IF kind[c] = "nothing" THEN {} ELSE {base[c]}
    IN  /\ message' = [d \in Call |->
               CASE d \in Flushed(c) -> "sent"
                 [] d \in Rows(B) \ Flushed(c) -> "gone"
                 [] OTHER -> message[d]]
        /\ TransEnd(B, owners \cap {c})
        /\ UNCHANGED kept

(* _OnExit after a Commit that was done and threw: nothing is flushed, and the *)
(* CAP transaction is disposed.                                                *)
AfterAnswerLost(c) ==
    /\ message' = [d \in Call |-> IF d \in Rows({c}) THEN "stored" ELSE message[d]]
    /\ kept' = kept \cup Rows({c})
    /\ TransEnd({c}, owners \cap {c})

(* _OnExit after Rollback, or after a Commit that throws and was not done.     *)
AfterRollback(c) ==
    LET B == IF kind[c] = "nothing" THEN {} ELSE {base[c]}
    IN  /\ message' = [d \in Call |-> IF d \in Rows(B) THEN "gone" ELSE message[d]]
        /\ TransEnd(B, owners \cap {c})
        /\ UNCHANGED kept

(* The ambient transaction is never taken away.  It is an AsyncLocal: after a  *)
(* synchronous method it stays, after an async one it is what it was before.   *)
AmbientAfter(c) == ambient' \in {ambient, before[c]}

(* What was ambient before a call goes with it.                                *)
BeforeGoes(c) == before' = [before EXCEPT ![c] = Null]

PlainExit(c) ==
    /\ \/ Return(c) /\ AfterCommit(c)
       \/ ReturnAnswerLost(c) /\ AfterAnswerLost(c)
       \/ (ReturnCommitThrows(c) \/ Throw(c)) /\ AfterRollback(c)
    /\ AmbientAfter(c) /\ BeforeGoes(c)
    /\ UNCHANGED <<owners, holder>>

(* A task method's end; nothing of it reaches the attribute, or CAP.           *)
TaskExit(c) == (TaskEnds(c) \/ ThrowWithoutTask(c)) /\ UNCHANGED outboxVars

ContinuationRuns(c) ==
    /\ \/ Continuation(c) /\ AfterCommit(c)
       \/ Continuation(c) /\ kind[c] = "raw" /\ c \in open /\ AfterAnswerLost(c)
       \/ ContinuationCommitThrows(c) /\ AfterRollback(c)
    /\ BeforeGoes(c)
    /\ UNCHANGED <<owners, ambient, holder>>

(* The manager commits what is left in its list; CAP knows nothing of it.      *)
DisposeScope ==
    LET left == {c \in listed : kind[c] = "raw"}
    IN  /\ CloseScope
        /\ message' = [d \in Call |-> IF d \in Rows(left) THEN "stored" ELSE message[d]]
        /\ kept' = kept \cup Rows(left)
        /\ TransEnd(left, {})
        /\ UNCHANGED <<owners, ambient, before, holder>>

(* CAP's retry processor.                                                      *)
RetrySend(c) ==
    /\ message[c] = "stored"
    /\ message' = [message EXCEPT ![c] = "sent"]
    /\ UNCHANGED <<vars, capVars, row, holder, kept>>

OutboxNext ==
    \/ \E p \in Propagation :
        EnterThrows(p) \/ \E s \in Styles, cap \in BOOLEAN : Enter(p, s, cap)
    \/ Body /\ UNCHANGED outboxVars
    \/ PublishAtOnce \/ PublishInTransaction
    \/ \E c \in Call : PlainExit(c) \/ TaskExit(c) \/ ContinuationRuns(c) \/ RetrySend(c)
    \/ DisposeScope

OutboxSpec == OutboxInit /\ [][OutboxNext]_allVars

--------------------------------------------------------------------------------
OutboxTypeOK ==
    /\ owners \subseteq Call
    /\ dbTran \in [Call -> 0 .. Over]
    /\ ambient \in {Null} \cup owners /\ before \in [Call -> 0 .. MaxCalls]
    /\ message \in [Call -> {"none", "pending", "stored", "sent", "gone"}]
    /\ row \in [Call -> 0 .. MaxCalls] /\ holder \in [Call -> {Null} \cup owners]
    /\ kept \subseteq Call

(* A message that went into a transaction is sent only after that has been     *)
(* committed, whatever the calls around it do, save that a joined method's     *)
(* rollback in the middle loses the row and not what Flush sends.              *)
SentWasCommitted == \A c \in Call :
    message[c] = "sent" /\ holder[c] # Null => c \in kept \/ holder[c] \in spoiled

(* When the method that made the CAP transaction ends well in a transaction of *)
(* its own, each message that went into it has been sent, those of the methods *)
(* it called too, and when it fails none has.  When its commit was done and    *)
(* threw, they are sent sooner or later: those whose row a joined method's     *)
(* failure has not taken are stored.                                           *)
OwnerDecides == OnlyPlain => \A c \in Call, h \in owners :
    holder[c] = h /\ kind[h] = "raw" =>
        /\ outcome[h] = "ok" => message[c] = "sent"
        /\ outcome[h] = "failed" => message[c] \notin {"stored", "sent"}
        /\ outcome[h] = "unsure" => message[c] \in {"stored", "sent"} \/ h \in spoiled
=============================================================================
