----------------------------- MODULE HistoryLog -----------------------------
(***************************************************************************)
(* What a History promises (src/include/lapel_history.h and its use by the *)
(* shell): a list of lines, newest first.  The first one is the draft; the *)
(* others were pushed.  At most MaxRecords lines are remembered and the    *)
(* oldest is forgotten first.                                              *)
(***************************************************************************)
EXTENDS Naturals, Sequences

CONSTANTS Lines, Blank, MaxRecords, MaxIndex

VARIABLES entries, out

vars == <<entries, out>>

NoLine == [ok |-> FALSE, line |-> Blank]

Init ==
    /\ entries = << >>
    /\ out = NoLine

\* Reading the draft of an empty log gives the empty line.
Get(i) ==
    /\ out' = CASE i < Len(entries) -> [ok |-> TRUE, line |-> entries[i + 1]]
                [] i = 0 /\ entries = << >> -> [ok |-> TRUE, line |-> Blank]
                [] OTHER -> NoLine
    /\ UNCHANGED entries

\* Writing the draft of an empty log starts it; other lines must exist.
Set(i, line) ==
    /\ entries' = IF i < Len(entries) THEN [entries EXCEPT ![i + 1] = line]
                  ELSE IF entries = << >> /\ i = 0 /\ MaxRecords > 0 THEN <<line>>
                  ELSE entries
    /\ out' = NoLine

\* A draft worth remembering is followed by a new one; otherwise it is emptied.
Remembered == entries[1] # Blank /\ (Len(entries) = 1 \/ entries[2] # entries[1])

Newest(seq) == SubSeq(seq, 1, IF Len(seq) < MaxRecords THEN Len(seq) ELSE MaxRecords)

Push ==
    /\ entries' = IF entries = << >> THEN entries
                  ELSE IF Remembered THEN Newest(<<Blank>> \o entries)
                  ELSE <<Blank>> \o Tail(entries)
    /\ out' = NoLine

Next ==
    \/ \E i \in 0 .. MaxIndex : Get(i)
    \/ \E i \in 0 .. MaxIndex, line \in Lines : Set(i, line)
    \/ Push

Spec == Init /\ [][Next]_vars
=============================================================================
