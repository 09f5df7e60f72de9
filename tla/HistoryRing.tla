---------------------------- MODULE HistoryRing ----------------------------
(***************************************************************************)
(* The storage of DefaultHistory (src/src/lapel_default_history.cpp): a    *)
(* heap array of max_records records addressed by a free-running           *)
(* append_count.  Index 0 names the record being written (the draft),      *)
(* index 1 the line pushed last, and so on.  The methods are operators on  *)
(* a record hist, so that LapelShell can call them within its own steps    *)
(* and DefaultHistory can make a state machine of them.                    *)
(*                                                                         *)
(* A line is a value; the bytes of a record are not modelled.  The array   *)
(* comes from `new char[]` and is not cleared: a record nobody has written *)
(* holds Garbage, and so does one whose text runs into the next record.    *)
(***************************************************************************)
EXTENDS Integers

CONSTANTS Lines,      \* lines that can be stored
          Blank,      \* the empty line
          Garbage,    \* what an uninitialised record holds
          MaxRecords, \* max_records
          SizeMod,    \* 2^w, where size_t has w bits
          Unterminated \* the lines that fill a record up to its last byte,
                       \* if that byte, which nobody writes, is not zero

ASSUME HistoryAssumption ==
    /\ Blank \in Lines
    /\ Garbage \notin Lines
    /\ Unterminated \subseteq Lines \ {Blank}
    /\ MaxRecords \in Nat
    /\ SizeMod \in Nat \ {0, 1}
    /\ MaxRecords < SizeMod

SlotIndex == 0 .. MaxRecords - 1

HistType ==
    [size : 0 .. MaxRecords, append_count : 0 .. SizeMod - 1,
     slots : [SlotIndex -> Lines \cup {Garbage}]]

HistEmpty ==
    [size |-> 0, append_count |-> 0, slots |-> [s \in SlotIndex |-> Garbage]]

\* get_buffer: unsigned counters, the array index is the remainder.
Slot(n) == n % MaxRecords

\* append_count - index, in size_t.
Minus(a, i) == IF i <= a THEN a - i ELSE (a + SizeMod) - i

RecordOf(hist, i) == Slot(Minus(hist.append_count, i))

\* (mutant) An index one too far is accepted.
HoldsOneMore(hist, i) == i <= hist.size
Holds(hist, i) == i < hist.size

\* get(index, ...) returns true.
HistHas(hist, i) == Holds(hist, i) \/ i = 0

\* What get(index, ...) copies out.
HistGet(hist, i) == IF Holds(hist, i) THEN hist.slots[RecordOf(hist, i)] ELSE Blank

\* strncpy of max_line - 1 bytes: no terminator follows a line of that length.
Recorded(line) == IF line \in Unterminated THEN Garbage ELSE line

HistSet(hist, i, line) ==
    LET size == IF hist.size = 0 /\ i = 0 /\ MaxRecords > 0 THEN 1 ELSE hist.size
    IN  [size |-> size,
         append_count |-> hist.append_count,
         slots |-> IF i < size
                   THEN [hist.slots EXCEPT ![RecordOf(hist, i)] = Recorded(line)]
                   ELSE hist.slots]

\* (mutant) A repeated line is kept.
KeepsRepeated(hist) == HistGet(hist, 0) # Blank
\* push keeps the draft unless it is empty or repeats the line before it.
KeepsDraft(hist) ==
    /\ hist.size = 1 \/ HistGet(hist, 1) # HistGet(hist, 0)
    /\ HistGet(hist, 0) # Blank

\* (mutant) The ring grows past its records.
GrownPast(hist) == hist.size + 1
Grown(hist) == IF hist.size < MaxRecords THEN hist.size + 1 ELSE hist.size

\* (mutant) The new draft is not emptied.
DraftLeft(slots, s) == slots
DraftEmptied(slots, s) == [slots EXCEPT ![s] = Blank]

HistPush(hist) ==
    LET keep  == KeepsDraft(hist)
        count == IF keep THEN (hist.append_count + 1) % SizeMod ELSE hist.append_count
    IN  IF hist.size = 0 THEN hist
        ELSE [size |-> IF keep THEN Grown(hist) ELSE hist.size,
              append_count |-> count,
              slots |-> DraftEmptied(hist.slots, Slot(count))]
=============================================================================
