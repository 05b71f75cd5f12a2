----------------------------- MODULE Transactional -----------------------------
(* TransactionalAttribute around the methods that one request calls, inside    *)
(* one another or one after another, over the request's UnitOfWorkManager and  *)
(* FreeSql's units of work (external).  Calls are numbered in the order in     *)
(* which they are made, which is the order of the manager's list of units of   *)
(* work; 0 is the request's own code.  What UseCapTrans adds, and no use in the*)
(* repository sets, is in CapOutbox.                                           *)
(*                                                                             *)
(* A "plain" method is synchronous, or async (its OnExit runs when it ends); a *)
(* "task" method returns a Task without being async.  Callers await it.        *)
EXTENDS Naturals

CONSTANTS
    Styles,       \* the kinds of methods, of "plain" and "task"
    MaxCalls,     \* bound on the calls of the request
    MaxWrites     \* bound on the writes of a call

ASSUME TransactionalAssumption ==
    /\ Styles \subseteq {"plain", "task"}
    /\ MaxCalls \in Nat
    /\ MaxWrites \in Nat

Call == 1 .. MaxCalls
Write == Call \X (1 .. MaxWrites)
Propagation == {"Required", "Supports", "Mandatory", "NotSupported", "Never", "Nested"}

VARIABLES
    calls,      \* how many calls have been made
    current,    \* the innermost call whose body runs
    raised,     \* has the body of current an exception to catch or to pass on
    parent,     \* who made each call
    style,      \* of each call
    kind,       \* of each call's unit of work: it begins a transaction ("raw"),
                \* joins one ("virtual") or has none ("nothing")
    base,       \* the call whose transaction each call is in
    outcome,    \* how each call ended: "unsure" if its commit was done and threw
    wrote,      \* how many writes each call has made
    listed,     \* calls whose unit of work is in the manager's list
    suspended,  \* those of them whose unit of work is IsNotSupported
    open,       \* raw units of work that have a transaction
    pending,    \* the writes in that transaction
    committed,  \* the writes that are committed
    exits,      \* task methods that have ended and whose _OnExit has not run
    closed,     \* has the request's scope been disposed
    written,    \* all writes ever made in each raw unit of work
    spoiled     \* raw units of work that a joined call has rolled back

frameVars == <<calls, current, raised, parent, style, kind, base, outcome>>
dataVars == <<wrote, listed, suspended, open, pending, committed, written, spoiled>>
vars == <<frameVars, dataVars, exits, closed>>

Init ==
    /\ calls = 0
    /\ current = 0
    /\ raised = FALSE
    /\ parent = [c \in Call |-> 0]
    /\ style = [c \in Call |-> "none"]
    /\ kind = [c \in Call |-> "none"]
    /\ base = [c \in Call |-> c]
    /\ outcome = [c \in Call |-> "none"]
    /\ wrote = [c \in Call |-> 0]
    /\ listed = {}
    /\ suspended = {}
    /\ open = {}
    /\ pending = [c \in Call |-> {}]
    /\ committed = {}
    /\ exits = {}
    /\ closed = FALSE
    /\ written = [c \in Call |-> {}]
    /\ spoiled = {}

--------------------------------------------------------------------------------
(* UnitOfWorkManager and the units of work.                                    *)
Newest(S) == CHOOSE c \in S : \A d \in S : d <= c

Suspending == listed # {} /\ Newest(listed) \in suspended
RawOpen == {c \in listed : kind[c] = "raw" /\ c \in open}
InTransaction == ~Suspending /\ RawOpen # {}

(* What Begin makes of a propagation, and what it refuses.                     *)
Joins(p) == p \in {"Required", "Supports", "Mandatory"} /\ InTransaction
BeginsRaw(p) == p = "Nested" \/ (p = "Required" /\ ~InTransaction)
Refuses(p) == \/ p = "Mandatory" /\ ~InTransaction
              \/ p = "Never" /\ InTransaction

KindOf(p) == IF Joins(p) THEN "virtual" ELSE IF BeginsRaw(p) THEN "raw" ELSE "nothing"

(* Faulty variant: a joined unit of work commits the transaction it joined.    *)
CommitJoined(c) ==
    /\ committed' = committed \cup pending[base[c]]
    /\ pending' = [pending EXCEPT ![base[c]] = {}]
    /\ open' = open \ {base[c]}

(* Commit of a unit of work: only that of the raw one does something.          *)
CommitUow(c) ==
    IF kind[c] = "raw"
    THEN /\ committed' = committed \cup pending[c]
         /\ pending' = [pending EXCEPT ![c] = {}]
         /\ open' = open \ {c}
    ELSE UNCHANGED <<committed, pending, open>>

(* The transaction of a call is lost.                                          *)
RollbackBase(c) ==
    /\ pending' = [pending EXCEPT ![base[c]] = {}]
    /\ open' = open \ {base[c]}
    /\ UNCHANGED committed

(* Faulty variant: rolling back a joined transaction is left to its owner.     *)
RollbackOwnOnly(c) ==
    /\ spoiled' = spoiled
    /\ IF kind[c] = "raw" THEN RollbackBase(c) ELSE UNCHANGED <<pending, open, committed>>

(* Rollback: a joined unit of work rolls back the transaction it joined.       *)
Rollback(c) ==
    /\ spoiled' = IF kind[c] = "virtual" THEN spoiled \cup {base[c]} ELSE spoiled
    /\ IF kind[c] = "nothing" THEN UNCHANGED <<pending, open, committed>> ELSE RollbackBase(c)

(* Faulty variant: a unit of work stays in the list.                           *)
DisposeForgets(c) == UNCHANGED <<listed, suspended>>

(* Faulty variant: the outer unit of work is put back, when there is none too. *)
DisposeRestoresOuter(c) ==
    /\ listed' = (listed \ {c}) \cup {parent[c]}
    /\ suspended' = suspended \ {c}

(* Dispose takes the unit of work off the manager's list.                      *)
Dispose(c) == listed' = listed \ {c} /\ suspended' = suspended \ {c}

--------------------------------------------------------------------------------
Running == ~closed /\ current # 0
Ends(c, o) ==
    /\ outcome' = [outcome EXCEPT ![c] = o]
    /\ current' = parent[c]
    /\ UNCHANGED <<calls, parent, style, kind, base, wrote, written, closed>>

(* OnEntry: Begin, and GetOrBeginTransaction.                                  *)
OnEntry(p, s) ==
    LET c == calls + 1
    IN  /\ ~closed
        /\ ~raised
        /\ calls < MaxCalls
        /\ ~Refuses(p)
        /\ calls' = c
        /\ current' = c
        /\ parent' = [parent EXCEPT ![c] = current]
        /\ style' = [style EXCEPT ![c] = s]
        /\ kind' = [kind EXCEPT ![c] = KindOf(p)]
        /\ base' = [base EXCEPT ![c] = IF Joins(p) THEN Newest(RawOpen) ELSE c]
        /\ outcome' = [outcome EXCEPT ![c] = "running"]
        /\ listed' = listed \cup {c}
        /\ suspended' = IF p = "NotSupported" \/ (p \in {"Supports", "Never"} /\ Suspending)
                        THEN suspended \cup {c} ELSE suspended
        /\ open' = IF BeginsRaw(p) THEN open \cup {c} ELSE open
        /\ UNCHANGED <<raised, wrote, pending, committed, written, spoiled, exits, closed>>

(* Begin throws: the method does not run, and neither does OnExit.             *)
OnEntryThrows(p) ==
    /\ ~closed
    /\ ~raised
    /\ Refuses(p)
    /\ raised' = TRUE
    /\ UNCHANGED <<calls, current, parent, style, kind, base, outcome,
                   dataVars, exits, closed>>

(* The body writes through a repository, which the manager has bound to the    *)
(* last unit of work of its list; that begins a transaction if it has none.    *)
Target == Newest(listed)
BodyWrites ==
    LET w == <<current, wrote[current] + 1>>
        u == base[Target]
    IN  /\ Running
        /\ ~raised
        /\ wrote[current] < MaxWrites
        /\ wrote' = [wrote EXCEPT ![current] = @ + 1]
        /\ IF kind[Target] = "nothing"
           THEN committed' = committed \cup {w} /\ UNCHANGED <<open, pending, written>>
           ELSE /\ open' = open \cup {u}
                /\ pending' = [pending EXCEPT ![u] = @ \cup {w}]
                /\ written' = [written EXCEPT ![u] = @ \cup {w}]
                /\ UNCHANGED committed
        /\ UNCHANGED <<frameVars, listed, suspended, spoiled, exits, closed>>

(* The body, or the request's code, catches the exception of a call it made.   *)
Catch ==
    /\ ~closed
    /\ raised
    /\ raised' = FALSE
    /\ UNCHANGED <<calls, current, parent, style, kind, base, outcome,
                   dataVars, exits, closed>>

(* OnExit of a plain method that returns: Commit, Dispose.                     *)
Return(c) ==
    /\ Running /\ current = c
    /\ style[c] = "plain"
    /\ ~raised
    /\ CommitUow(c)
    /\ Dispose(c)
    /\ Ends(c, "ok")
    /\ UNCHANGED <<raised, spoiled, exits>>

(* The same, and the commit of the transaction throws, not done.               *)
ReturnCommitThrows(c) ==
    /\ Running /\ current = c
    /\ style[c] = "plain"
    /\ ~raised
    /\ kind[c] = "raw"
    /\ RollbackBase(c)
    /\ Dispose(c)
    /\ raised' = TRUE
    /\ Ends(c, "failed")
    /\ UNCHANGED <<spoiled, exits>>

(* The same, and the commit throws although the database has done it: the      *)
(* answer is lost.                                                             *)
ReturnAnswerLost(c) ==
    /\ Running /\ current = c
    /\ style[c] = "plain"
    /\ ~raised
    /\ kind[c] = "raw" /\ c \in open
    /\ CommitUow(c)
    /\ Dispose(c)
    /\ raised' = TRUE
    /\ Ends(c, "unsure")
    /\ UNCHANGED <<spoiled, exits>>

(* OnExit of a plain method that throws, or lets an exception pass: Rollback,  *)
(* Dispose.                                                                    *)
Throw(c) ==
    /\ Running /\ current = c
    /\ style[c] = "plain"
    /\ Rollback(c)
    /\ Dispose(c)
    /\ raised' = TRUE
    /\ Ends(c, "failed")
    /\ UNCHANGED exits

(* The task of a task method ends, or faults.  OnExit has added a continuation *)
(* to it; the caller goes on without waiting for that.                         *)
TaskEnds(c) ==
    /\ Running /\ current = c
    /\ style[c] = "task"
    /\ raised' \in {TRUE, raised}
    /\ exits' = exits \cup {c}
    /\ Ends(c, IF raised' THEN "failed" ELSE "ok")
    /\ UNCHANGED <<listed, suspended, open, pending, committed, spoiled>>

(* The continuation runs _OnExit: context.Exception is null, whatever became   *)
(* of the task, so it is Commit and Dispose.  Nobody sees whether the answer   *)
(* to a commit is lost.                                                        *)
Continuation(c) ==
    /\ c \in exits
    /\ exits' = exits \ {c}
    /\ CommitUow(c)
    /\ Dispose(c)
    /\ UNCHANGED <<frameVars, wrote, written, spoiled, closed>>

(* The same, and the commit throws, not done.                                  *)
ContinuationCommitThrows(c) ==
    /\ c \in exits
    /\ kind[c] = "raw"
    /\ c \in open
    /\ exits' = exits \ {c}
    /\ RollbackBase(c)
    /\ Dispose(c)
    /\ UNCHANGED <<frameVars, wrote, written, spoiled, closed>>

(* A task method throws before it returns a task: OnExit fails on its null     *)
(* ReturnValue, and the unit of work is left as it is.                         *)
ThrowWithoutTask(c) ==
    /\ Running /\ current = c
    /\ style[c] = "task"
    /\ raised' = TRUE
    /\ Ends(c, "failed")
    /\ UNCHANGED <<listed, suspended, open, pending, committed, spoiled, exits>>

(* The request's scope is disposed, and with it the manager, which commits the *)
(* raw units of work that are still in its list.                               *)
CloseScope ==
    LET left == {c \in listed : kind[c] = "raw"}
    IN  /\ ~closed
        /\ current = 0
        /\ closed' = TRUE
        /\ committed' = committed \cup UNION {pending[c] : c \in left}
        /\ pending' = [c \in Call |-> IF c \in left THEN {} ELSE pending[c]]
        /\ open' = open \ left
        /\ UNCHANGED <<frameVars, wrote, listed, suspended, written, spoiled, exits>>

Body == BodyWrites \/ Catch
Exit(c) == \/ Return(c)
           \/ ReturnCommitThrows(c) \/ ReturnAnswerLost(c)
           \/ Throw(c)
           \/ TaskEnds(c)
           \/ ThrowWithoutTask(c)
           \/ Continuation(c)
           \/ ContinuationCommitThrows(c)

Next ==
    \/ \E p \in Propagation : OnEntryThrows(p) \/ \E s \in Styles : OnEntry(p, s)
    \/ Body
    \/ \E c \in Call : Exit(c)
    \/ CloseScope

Spec == Init /\ [][Next]_vars

--------------------------------------------------------------------------------
(* The variables keep their types.                                             *)
TypeOK ==
    /\ calls \in 0 .. MaxCalls
    /\ current \in 0 .. MaxCalls
    /\ raised \in BOOLEAN
    /\ parent \in [Call -> 0 .. MaxCalls]
    /\ style \in [Call -> {"none", "plain", "task"}]
    /\ kind \in [Call -> {"none", "raw", "virtual", "nothing"}]
    /\ base \in [Call -> Call]
    /\ outcome \in [Call -> {"none", "running", "ok", "failed", "unsure"}]
    /\ wrote \in [Call -> 0 .. MaxWrites]
    /\ listed \in SUBSET Call /\ suspended \in SUBSET listed
    /\ open \in SUBSET Call
    /\ pending \in [Call -> SUBSET Write]
    /\ committed \in SUBSET Write
    /\ exits \in SUBSET Call
    /\ closed \in BOOLEAN
    /\ written \in [Call -> SUBSET Write]
    /\ spoiled \in SUBSET Call

OnlyPlain == \A c \in Call : style[c] # "task"

(* A method that fails leaves nothing behind, whatever its callers and callees *)
(* do with exceptions, unless it runs outside of transactions, or is one whose *)
(* commit was done and threw.                                                  *)
FailedLeaveNothing ==
    \A c \in Call : outcome[c] = "failed" /\ kind[c] \in {"raw", "virtual"} =>
        \A w \in committed : w[1] # c
PlainFailedLeaveNothing == OnlyPlain => FailedLeaveNothing

(* The writes of a transaction, of the method that began it and of those that  *)
(* joined it, are all committed when it ends well and none when it fails; all, *)
(* too, when its commit was done and threw.  A joined method's failure that a  *)
(* caller catches spoils the first, since the transaction has been rolled back *)
(* in the middle.                                                              *)
OneTransaction ==
    OnlyPlain => \A u \in Call : kind[u] = "raw" =>
        /\ outcome[u] = "failed" => written[u] \cap committed = {}
        /\ outcome[u] \in {"ok", "unsure"} /\ u \notin spoiled => written[u] \subseteq committed

(* When no method runs, no transaction is open and no unit of work is left     *)
(* that a later method of the request could join.                              *)
NothingLeftOpen == OnlyPlain /\ current = 0 => listed = {} /\ open = {}
=============================================================================
