--------------------------- MODULE DefaultHistory ---------------------------
(***************************************************************************)
(* DefaultHistory as an object: any order of calls of its three methods    *)
(* (lapel_history.h), with the value the last call handed back.  It is     *)
(* shown to implement HistoryLog, which knows nothing of the ring.         *)
(***************************************************************************)
EXTENDS HistoryRing

CONSTANT MaxIndex   \* bound on the index a caller passes

ASSUME IndexAssumption == MaxIndex \in Nat

VARIABLES hist, out

vars == <<hist, out>>

NoLine == [ok |-> FALSE, line |-> Blank]

TypeOK ==
    /\ hist \in HistType
    /\ out \in [ok : BOOLEAN, line : Lines \cup {Garbage}]

Init ==
    /\ hist = HistEmpty
    /\ out = NoLine

Get(i) ==
    /\ out' = IF HistHas(hist, i) THEN [ok |-> TRUE, line |-> HistGet(hist, i)] ELSE NoLine
    /\ UNCHANGED hist

Set(i, line) ==
    /\ hist' = HistSet(hist, i, line)
    /\ out' = NoLine

Push ==
    /\ hist' = HistPush(hist)
    /\ out' = NoLine

Next ==
    \/ \E i \in 0 .. MaxIndex : Get(i)
    \/ \E i \in 0 .. MaxIndex, line \in Lines : Set(i, line)
    \/ Push

Spec == Init /\ [][Next]_vars

-----------------------------------------------------------------------------
(* The ring read from the draft backwards. *)
Entries == [k \in 1 .. hist.size |-> HistGet(hist, k - 1)]

Log == INSTANCE HistoryLog WITH entries <- Entries

\* Every sequence of calls, the ones that overwrite the oldest record and the
\* ones after append_count has wrapped included, behaves as the log does.
ImplementsLog == Log!Spec

\* A caller is never handed a record that nobody wrote or that has no end.
NeverGarbage == out.line # Garbage

\* No two lines of the history share a record: setting one leaves the others.
EntriesApart ==
    \A i, j \in 0 .. hist.size - 1 : RecordOf(hist, i) = RecordOf(hist, j) => i = j
=============================================================================
