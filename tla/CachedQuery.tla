------------------------------ MODULE CachedQuery ------------------------------
(* What a caller of a cached query is promised, whatever the locks, time-outs, *)
(* exceptions and concurrent commands.  Its one answer is the row as this very *)
(* call loaded it or, if it loaded none, an entry that it found; only rows     *)
(* that a call loaded are entries, and each is stored once.  There is one gap: *)
(* an entry that goes after it was found leaves the call with nothing.         *)
EXTENDS Naturals

CONSTANTS Call, FirstRow, Nothing, NoEntry

VARIABLES row, entry, found, loaded, stored, answer

vars == <<row, entry, found, loaded, stored, answer>>

Init ==
    /\ row = FirstRow
    /\ entry = NoEntry
    /\ found = {}
    /\ loaded = [c \in Call |-> NoEntry]
    /\ stored = {}
    /\ answer = [c \in Call |-> NoEntry]

Fresh(c) == c \notin found /\ loaded[c] = NoEntry /\ answer[c] = NoEntry

Change == row' = row + 1 /\ UNCHANGED <<entry, found, loaded, stored, answer>>

Forget == entry' = NoEntry /\ UNCHANGED <<row, found, loaded, stored, answer>>

Find(c) ==
    /\ Fresh(c)
    /\ entry # NoEntry
    /\ found' = found \cup {c}
    /\ UNCHANGED <<row, entry, loaded, stored, answer>>

AnswerFound(c) ==
    /\ c \in found
    /\ found' = found \ {c}
    /\ answer' = [answer EXCEPT ![c] = IF entry = NoEntry THEN Nothing ELSE entry]
    /\ UNCHANGED <<row, entry, loaded, stored>>

Fail(c) ==
    /\ c \in found
    /\ found' = found \ {c}
    /\ UNCHANGED <<row, entry, loaded, stored, answer>>

Load(c) ==
    /\ Fresh(c)
    /\ loaded' = [loaded EXCEPT ![c] = row]
    /\ UNCHANGED <<row, entry, found, stored, answer>>

Store(c) ==
    /\ loaded[c] # NoEntry
    /\ c \notin stored
    /\ stored' = stored \cup {c}
    /\ entry' = loaded[c]
    /\ UNCHANGED <<row, found, loaded, answer>>

AnswerLoaded(c) ==
    /\ loaded[c] # NoEntry
    /\ answer[c] = NoEntry
    /\ answer' = [answer EXCEPT ![c] = loaded[c]]
    /\ UNCHANGED <<row, entry, found, loaded, stored>>

Serve(c) ==
    Find(c) \/ AnswerFound(c) \/ Fail(c) \/ Load(c) \/ Store(c) \/ AnswerLoaded(c)

Next == Change \/ Forget \/ \E c \in Call : Serve(c)

Spec == Init /\ [][Next]_vars
================================================================================
