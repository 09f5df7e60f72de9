------------------------ MODULE DefaultHistoryProofs ------------------------
(***************************************************************************)
(* The ring implements the log for every number of records and every width *)
(* of size_t, as long as the records fit 2^w a whole number of times.      *)
(***************************************************************************)
EXTENDS DefaultHistory, HistoryProofs, SequenceTheorems

Inv ==
    /\ hist \in HistType
    /\ Written(hist)
    /\ out \in [ok : BOOLEAN, line : Lines]

-----------------------------------------------------------------------------
(* The invariant. *)

LEMMA InitInv == Init => Inv
BY EmptyIsWritten, HistoryAssumption DEF Init, Inv, NoLine

\* An index nobody holds is not written.
LEMMA SetNothing ==
    ASSUME hist \in HistType, NEW i \in Nat, NEW line \in Lines,
           ~(i < hist.size), i # 0
    PROVE  HistSet(hist, i, line) = hist
BY DEF HistSet, HistType

LEMMA StepInv ==
    ASSUME Unterminated = {}, Inv, [Next]_vars
    PROVE  Inv'
<1>1. NoLine \in [ok : BOOLEAN, line : Lines]
  BY HistoryAssumption DEF NoLine
<1>2. ASSUME NEW i \in 0 .. MaxIndex, Get(i) PROVE Inv'
  <2>1. HistGet(hist, i) \in Lines /\ hist' = hist
    BY <1>2, GetReadsLine, IndexAssumption DEF Inv, Get
  <2>2. out' \in [ok : BOOLEAN, line : Lines]
    BY <1>1, <1>2, <2>1 DEF Get
  <2> QED BY <2>1, <2>2 DEF Inv, Written, RecordOf
<1>3. ASSUME NEW i \in 0 .. MaxIndex, NEW line \in Lines, Set(i, line) PROVE Inv'
  <2>1. hist' = HistSet(hist, i, line) /\ out' = NoLine /\ i \in Nat
    BY <1>3, IndexAssumption DEF Set
  <2>2. CASE i < hist.size \/ i = 0
    <3>1. hist' \in HistType /\ Written(hist')
      BY <2>1, <2>2, SetKeeps DEF Inv
    <3> QED BY <1>1, <2>1, <3>1 DEF Inv
  <2>3. CASE ~(i < hist.size) /\ i # 0
    <3>1. hist' = hist
      BY <2>1, <2>3, SetNothing DEF Inv
    <3> QED BY <1>1, <2>1, <3>1 DEF Inv
  <2> QED BY <2>2, <2>3
<1>4. CASE Push
  <2>1. hist' \in HistType /\ Written(hist')
    BY <1>4, PushKeeps DEF Inv, Push
  <2> QED BY <1>1, <1>4, <2>1 DEF Inv, Push
<1>5. CASE UNCHANGED vars
  BY <1>5 DEF Inv, vars
<1> QED BY <1>2, <1>3, <1>4, <1>5 DEF Next

LEMMA InvTyped == Inv => TypeOK
BY DEF Inv, TypeOK

\* The ring never grows past its records and what it hands out is a line or
\* nothing.
THEOREM TypeCorrect ==
    ASSUME Unterminated = {}
    PROVE  Spec => []TypeOK
<1> QED BY InitInv, StepInv, InvTyped, PTL DEF Spec

\* If no line fills a record, get() never hands over a record that nobody has
\* written.
THEOREM NothingUnwritten ==
    ASSUME Unterminated = {}
    PROVE  Spec => []NeverGarbage
<1>1. Inv => NeverGarbage
  BY HistoryAssumption DEF Inv, NeverGarbage
<1> QED BY <1>1, InitInv, StepInv, PTL DEF Spec

\* If the records fit 2^w a whole number of times, no two lines of the history
\* share a record, also after append_count has wrapped.
THEOREM LinesApart ==
    ASSUME Unterminated = {}, Whole
    PROVE  Spec => []EntriesApart
<1>1. Inv => EntriesApart
  <2> SUFFICES ASSUME Inv,
                      NEW i \in 0 .. hist.size - 1, NEW j \in 0 .. hist.size - 1,
                      RecordOf(hist, i) = RecordOf(hist, j)
               PROVE  i = j
    BY DEF EntriesApart
  <2>1. hist \in HistType /\ hist.size \in 0 .. MaxRecords
    BY DEF Inv, HistType
  <2>2. i \in 0 .. MaxRecords - 1 /\ j \in 0 .. MaxRecords - 1
    BY <2>1, HistoryAssumption
  <2> QED BY <2>1, <2>2, RecordsApart
<1> QED BY <1>1, InitInv, StepInv, PTL DEF Spec

-----------------------------------------------------------------------------
(* The refinement: the entries of a ring, and what a call does to them. *)

EntriesIn(h) == [k \in 1 .. h.size |-> HistGet(h, k - 1)]

LEMMA EntriesTyped ==
    ASSUME NEW h \in HistType, Written(h)
    PROVE  /\ h.size \in Nat /\ h.size <= MaxRecords /\ MaxRecords \in Nat
           /\ h.append_count \in 0 .. SizeMod - 1
           /\ h.slots \in [SlotIndex -> Lines \cup {Garbage}]
           /\ EntriesIn(h) \in Seq(Lines)
           /\ Len(EntriesIn(h)) = h.size
           /\ \A k \in 1 .. h.size : EntriesIn(h)[k] = h.slots[RecordOf(h, k - 1)]
<1>1. /\ h.size \in Nat /\ h.size <= MaxRecords /\ MaxRecords \in Nat
      /\ h.append_count \in 0 .. SizeMod - 1
      /\ h.slots \in [SlotIndex -> Lines \cup {Garbage}]
  BY HistoryAssumption DEF HistType
<1>2. ASSUME NEW k \in 1 .. h.size
      PROVE  HistGet(h, k - 1) \in Lines /\ HistGet(h, k - 1) = h.slots[RecordOf(h, k - 1)]
  <2>1. k - 1 \in Nat /\ k - 1 < h.size
    BY <1>1
  <2> QED BY <2>1, GetReadsLine DEF HistGet, Holds
<1>3. EntriesIn(h) \in [1 .. h.size -> Lines]
  BY <1>2 DEF EntriesIn
<1> QED BY <1>1, <1>2, <1>3 DEF EntriesIn

\* get() reads the entry that the log has at that place.
LEMMA GetIsLog ==
    ASSUME Inv, NEW i \in 0 .. MaxIndex, Get(i)
    PROVE  Log!Get(i)
<1>1. /\ Entries = EntriesIn(hist) /\ Entries' = Entries
      /\ i \in Nat
  BY IndexAssumption DEF Entries, EntriesIn, Get
<1>2. /\ hist.size \in Nat /\ Len(Entries) = hist.size /\ Entries \in Seq(Lines)
  BY <1>1, EntriesTyped DEF Inv
<1>3. CASE i < hist.size
  <2>1. Entries[i + 1] = HistGet(hist, i)
    BY <1>1, <1>2, <1>3 DEF Entries
  <2>2. out' = [ok |-> TRUE, line |-> HistGet(hist, i)]
    BY <1>3 DEF Get, HistHas, Holds
  <2> QED BY <1>1, <1>2, <1>3, <2>1, <2>2 DEF Log!Get
<1>4. CASE ~(i < hist.size) /\ i = 0
  <2>1. Entries = << >>
    BY <1>2, <1>4
  <2>2. out' = [ok |-> TRUE, line |-> Blank]
    BY <1>4 DEF Get, HistHas, Holds, HistGet
  <2> QED BY <1>1, <1>2, <1>4, <2>1, <2>2 DEF Log!Get
<1>5. CASE ~(i < hist.size) /\ i # 0
  <2>1. out' = NoLine
    BY <1>5 DEF Get, HistHas, Holds
  <2> QED BY <1>1, <1>2, <1>5, <2>1 DEF Log!Get, Log!NoLine, NoLine
<1> QED BY <1>3, <1>4, <1>5

\* set() writes one entry and no other.
LEMMA SetEntry ==
    ASSUME Unterminated = {}, Whole, NEW h \in HistType, Written(h),
           NEW i \in Nat, i < h.size, NEW line \in Lines
    PROVE  EntriesIn(HistSet(h, i, line)) = [EntriesIn(h) EXCEPT ![i + 1] = line]
<1> DEFINE g == HistSet(h, i, line)
           E == EntriesIn(h)
           F == EntriesIn(g)
<1>1. /\ h.size \in Nat /\ h.size <= MaxRecords /\ MaxRecords \in Nat
      /\ h.slots \in [SlotIndex -> Lines \cup {Garbage}]
      /\ E \in Seq(Lines) /\ Len(E) = h.size
      /\ \A k \in 1 .. h.size : E[k] = h.slots[RecordOf(h, k - 1)]
  BY EntriesTyped
<1>2. g \in HistType /\ Written(g)
  BY SetKeeps
<1>3. /\ g.size = h.size
      /\ g.slots = [h.slots EXCEPT ![RecordOf(h, i)] = line]
      /\ g.append_count = h.append_count
  BY <1>1 DEF HistSet, Recorded
<1>4. /\ F \in Seq(Lines) /\ Len(F) = h.size
      /\ \A k \in 1 .. h.size : F[k] = g.slots[RecordOf(g, k - 1)]
  BY <1>2, <1>3, EntriesTyped
<1> HIDE DEF g, E, F
<1>5. ASSUME NEW k \in 1 .. h.size
      PROVE  F[k] = [E EXCEPT ![i + 1] = line][k]
  <2>1. k - 1 \in 0 .. h.size - 1 /\ i \in 0 .. h.size - 1
    BY <1>1
  <2>2. RecordOf(g, k - 1) = RecordOf(h, k - 1)
    BY <1>3 DEF RecordOf
  <2>3. RecordOf(h, k - 1) \in SlotIndex /\ RecordOf(h, i) \in SlotIndex
    <3>1. k - 1 \in 0 .. SizeMod - 1 /\ i \in 0 .. SizeMod - 1 /\ MaxRecords > 0
      BY <1>1, <2>1, HistoryAssumption
    <3> QED BY <3>1, RecordInArray
  <2>4. CASE k = i + 1
    BY <1>1, <1>3, <1>4, <2>2, <2>3, <2>4
  <2>5. CASE k # i + 1
    <3>1. RecordOf(h, k - 1) # RecordOf(h, i)
      BY <2>1, <2>5, HeldApart
    <3>2. F[k] = h.slots[RecordOf(h, k - 1)]
      BY <1>1, <1>3, <1>4, <2>2, <2>3, <3>1
    <3> QED BY <1>1, <2>5, <3>2
  <2> QED BY <2>4, <2>5
<1>6. [E EXCEPT ![i + 1] = line] \in Seq(Lines) /\ Len([E EXCEPT ![i + 1] = line]) = h.size
  BY <1>1
<1>7. F = [E EXCEPT ![i + 1] = line]
  BY <1>4, <1>5, <1>6, SeqEqual
<1> QED BY <1>7 DEF g, E, F

LEMMA SetFirst ==
    ASSUME Unterminated = {}, NEW h \in HistType, Written(h), h.size = 0, MaxRecords > 0,
           NEW line \in Lines
    PROVE  EntriesIn(HistSet(h, 0, line)) = <<line>>
<1> DEFINE g == HistSet(h, 0, line)
           F == EntriesIn(g)
<1>1. g \in HistType /\ Written(g)
  BY SetKeeps
<1>2. RecordOf(h, 0) \in SlotIndex
  BY RecordInArray, HistoryAssumption
<1>3. /\ g.size = 1
      /\ g.slots = [h.slots EXCEPT ![RecordOf(h, 0)] = line]
      /\ RecordOf(g, 0) = RecordOf(h, 0)
  BY DEF HistSet, Recorded, RecordOf
<1> HIDE DEF g, F
<1>4. F \in Seq(Lines) /\ Len(F) = 1 /\ F[1] = g.slots[RecordOf(g, 0)]
  <2>1. F \in Seq(Lines) /\ Len(F) = g.size
        /\ \A k \in 1 .. g.size : F[k] = g.slots[RecordOf(g, k - 1)]
    BY <1>1, EntriesTyped DEF F
  <2> QED BY <1>3, <2>1
<1>5. F[1] = line
  BY <1>2, <1>3, <1>4, EntriesTyped
<1>6. F = <<line>>
  BY <1>4, <1>5, SeqEqual
<1> QED BY <1>6 DEF g, F

LEMMA SetIsLog ==
    ASSUME Unterminated = {}, Whole, Inv,
           NEW i \in 0 .. MaxIndex, NEW line \in Lines, Set(i, line)
    PROVE  Log!Set(i, line)
<1>1. /\ Entries = EntriesIn(hist) /\ Entries' = EntriesIn(hist')
      /\ hist' = HistSet(hist, i, line)
      /\ i \in Nat
      /\ out' = Log!NoLine
  BY IndexAssumption DEF Entries, EntriesIn, Set, NoLine, Log!NoLine
<1>2. /\ hist \in HistType /\ Written(hist) /\ MaxRecords \in Nat
      /\ hist.size \in Nat /\ Len(Entries) = hist.size /\ Entries \in Seq(Lines)
  BY <1>1, EntriesTyped DEF Inv
<1>3. CASE i < hist.size
  <2>1. Entries' = [Entries EXCEPT ![i + 1] = line]
    BY <1>1, <1>2, <1>3, SetEntry
  <2> QED BY <1>1, <1>2, <1>3, <2>1 DEF Log!Set
<1>4. CASE ~(i < hist.size) /\ i = 0 /\ MaxRecords > 0
  <2>1. Entries = << >> /\ hist.size = 0
    BY <1>2, <1>4
  <2>2. Entries' = <<line>>
    BY <1>1, <1>2, <1>4, <2>1, SetFirst
  <2> QED BY <1>1, <1>2, <1>4, <2>1, <2>2 DEF Log!Set
<1>5. CASE ~(i < hist.size) /\ ~(i = 0 /\ MaxRecords > 0)
  <2>1. hist' = hist
    BY <1>1, <1>2, <1>5 DEF HistSet, HistType
  <2>2. Entries' = Entries
    BY <1>1, <2>1
  <2> QED BY <1>1, <1>2, <1>5, <2>2 DEF Log!Set
<1> QED BY <1>3, <1>4, <1>5

\* push() puts an empty entry in front, of the ones there are or of all but the
\* draft: they are read from the records that are not the new draft's.
LEMMA PushedEntries ==
    ASSUME Whole, NEW h \in HistType, Written(h), h.size # 0
    PROVE  LET F == EntriesIn(HistPush(h))
               E == EntriesIn(h)
           IN  /\ F \in Seq(Lines) /\ Len(F) \in Nat \ {0} /\ F[1] = Blank
               /\ KeepsDraft(h) =>
                     /\ Len(F) = IF h.size < MaxRecords THEN h.size + 1 ELSE MaxRecords
                     /\ \A k \in 2 .. Len(F) : F[k] = E[k - 1]
               /\ ~KeepsDraft(h) =>
                     /\ Len(F) = h.size
                     /\ \A k \in 2 .. Len(F) : F[k] = E[k]
<1> DEFINE g == HistPush(h)
           F == EntriesIn(g)
           E == EntriesIn(h)
           keep == KeepsDraft(h)
           count == IF keep THEN (h.append_count + 1) % SizeMod ELSE h.append_count
<1>1. /\ h.size \in Nat \ {0} /\ h.size <= MaxRecords /\ MaxRecords \in Nat
      /\ h.append_count \in 0 .. SizeMod - 1
      /\ h.slots \in [SlotIndex -> Lines \cup {Garbage}]
      /\ Len(E) = h.size
      /\ \A k \in 1 .. h.size : E[k] = h.slots[RecordOf(h, k - 1)]
  BY EntriesTyped
<1>2. g \in HistType /\ Written(g)
  BY PushKeeps
<1>3. /\ g.size = IF keep THEN Grown(h) ELSE h.size
      /\ g.append_count = count
      /\ g.slots = [h.slots EXCEPT ![Slot(count)] = Blank]
  BY <1>1 DEF HistPush, DraftEmptied
<1>4. /\ g.size \in Nat \ {0} /\ g.size <= MaxRecords
      /\ g.size = IF keep THEN IF h.size < MaxRecords THEN h.size + 1 ELSE MaxRecords
                  ELSE h.size
  BY <1>1, <1>3 DEF Grown
<1>5. /\ F \in Seq(Lines) /\ Len(F) = g.size
      /\ \A k \in 1 .. g.size : F[k] = g.slots[RecordOf(g, k - 1)]
  BY <1>2, EntriesTyped
<1>6. RecordOf(g, 0) = Slot(count)
  <2>1. count \in 0 .. SizeMod - 1
    BY <1>2, <1>3 DEF HistType
  <2> QED BY <1>3, <2>1, HistoryAssumption DEF RecordOf, Minus
<1> HIDE DEF g, F, E, keep, count
<1>7. ASSUME NEW k \in 1 .. g.size
      PROVE  /\ k - 1 \in 0 .. g.size - 1 /\ k - 1 \in 0 .. MaxRecords - 1
             /\ RecordOf(g, k - 1) \in SlotIndex
  <2>1. k - 1 \in 0 .. SizeMod - 1 /\ MaxRecords > 0 /\ k - 1 \in 0 .. MaxRecords - 1
    BY <1>1, <1>4, HistoryAssumption
  <2> QED BY <1>2, <1>4, <2>1, RecordInArray
<1>8. F[1] = Blank
  <2>1. 1 \in 1 .. g.size /\ 1 - 1 = 0
    BY <1>4
  <2> QED BY <1>1, <1>3, <1>5, <1>6, <1>7, <2>1
<1>9. ASSUME NEW k \in 2 .. g.size
      PROVE  F[k] = h.slots[RecordOf(g, k - 1)]
  <2>1. k \in 1 .. g.size /\ 0 \in 0 .. g.size - 1 /\ k - 1 # 0
    BY <1>4
  <2>2. RecordOf(g, k - 1) # RecordOf(g, 0)
    BY <1>2, <1>7, <2>1, HeldApart
  <2> QED BY <1>1, <1>3, <1>5, <1>6, <1>7, <2>1, <2>2
<1>10. ASSUME keep, NEW k \in 2 .. g.size
       PROVE  F[k] = E[k - 1]
  <2>1. k - 2 \in 0 .. MaxRecords - 1 /\ k - 1 \in 1 .. h.size /\ (k - 1) - 1 = k - 2
        /\ (k - 2) + 1 = k - 1
    BY <1>1, <1>4, <1>10
  <2>2. Minus(count, k - 1) = Minus(h.append_count, k - 2)
    BY <1>1, <1>10, <2>1, MinusNext DEF count
  <2>3. RecordOf(g, k - 1) = RecordOf(h, k - 2)
    BY <1>3, <2>2 DEF RecordOf
  <2> QED BY <1>1, <1>9, <2>1, <2>3
<1>11. ASSUME ~keep, NEW k \in 2 .. g.size
       PROVE  F[k] = E[k]
  <2>1. RecordOf(g, k - 1) = RecordOf(h, k - 1) /\ k \in 1 .. h.size
    BY <1>1, <1>3, <1>4, <1>11 DEF RecordOf, count
  <2> QED BY <1>1, <1>9, <2>1
<1> QED BY <1>4, <1>5, <1>8, <1>10, <1>11 DEF g, F, E, keep

\* The draft is kept when the log says so.
LEMMA KeepsIsRemembered ==
    ASSUME Inv, hist.size # 0
    PROVE  KeepsDraft(hist) <=> Log!Remembered
<1>1. /\ Entries = EntriesIn(hist) /\ hist.size \in Nat \ {0} /\ Len(Entries) = hist.size
  BY EntriesTyped DEF Inv, Entries, EntriesIn
<1>2. Entries[1] = HistGet(hist, 0)
  BY <1>1 DEF Entries
<1>3. hist.size # 1 => Entries[2] = HistGet(hist, 1)
  BY <1>1 DEF Entries
<1> QED BY <1>1, <1>2, <1>3 DEF KeepsDraft, Log!Remembered

LEMMA InFront ==
    ASSUME NEW x \in Lines, NEW E \in Seq(Lines)
    PROVE  /\ <<x>> \o E \in Seq(Lines)
           /\ Len(<<x>> \o E) = Len(E) + 1
           /\ (<<x>> \o E)[1] = x
           /\ \A k \in 2 .. Len(E) + 1 : (<<x>> \o E)[k] = E[k - 1]
<1>1. <<x>> \in Seq(Lines) /\ Len(<<x>>) = 1 /\ <<x>>[1] = x /\ Len(E) \in Nat
  OBVIOUS
<1> QED BY <1>1, ConcatProperties

LEMMA PushIsLog ==
    ASSUME Unterminated = {}, Whole, Inv, Push
    PROVE  Log!Push
<1> DEFINE E == Entries
           F == Entries'
<1>1. /\ E = EntriesIn(hist) /\ F = EntriesIn(HistPush(hist))
      /\ out' = Log!NoLine /\ hist' = HistPush(hist)
  BY DEF Entries, EntriesIn, Push, NoLine, Log!NoLine
<1>2. /\ hist \in HistType /\ Written(hist) /\ MaxRecords \in Nat /\ hist.size <= MaxRecords
      /\ hist.size \in Nat /\ Len(E) = hist.size /\ E \in Seq(Lines) /\ Blank \in Lines
  BY <1>1, EntriesTyped, HistoryAssumption DEF Inv
<1>3. CASE hist.size = 0
  <2>1. E = << >> /\ F = E
    BY <1>1, <1>2, <1>3 DEF HistPush
  <2> QED BY <1>1, <2>1 DEF Log!Push
<1>4. CASE hist.size # 0
  <2>1. E # << >>
    BY <1>2, <1>4
  <2>2. /\ F \in Seq(Lines) /\ Len(F) \in Nat \ {0} /\ F[1] = Blank
        /\ KeepsDraft(hist) =>
              /\ Len(F) = IF hist.size < MaxRecords THEN hist.size + 1 ELSE MaxRecords
              /\ \A k \in 2 .. Len(F) : F[k] = E[k - 1]
        /\ ~KeepsDraft(hist) =>
              /\ Len(F) = hist.size
              /\ \A k \in 2 .. Len(F) : F[k] = E[k]
    BY <1>1, <1>2, <1>4, PushedEntries
  <2> HIDE DEF E, F
  <2>3. CASE KeepsDraft(hist)
    <3> DEFINE W == <<Blank>> \o E
               N == Log!Newest(W)
               n == Len(F)
    <3>1. /\ W \in Seq(Lines) /\ Len(W) = hist.size + 1 /\ W[1] = Blank
          /\ \A k \in 2 .. hist.size + 1 : W[k] = E[k - 1]
      BY <1>2, InFront
    <3> HIDE DEF W
    <3>2. n \in Nat \ {0} /\ n <= Len(W) /\ N = SubSeq(W, 1, n)
      BY <1>2, <2>2, <2>3, <3>1 DEF Log!Newest
    <3> HIDE DEF N, n
    <3>3. \A k \in 1 .. n : W[k] \in Lines
      BY <3>1, <3>2
    <3>4. N \in Seq(Lines) /\ Len(N) = n /\ \A k \in 1 .. n : N[k] = W[k]
      BY <3>2, <3>3, SubSeqProperties
    <3>5. \A k \in 1 .. n : F[k] = N[k]
      BY <1>2, <2>2, <2>3, <3>1, <3>2, <3>4 DEF n
    <3>6. F = N
      BY <2>2, <3>4, <3>5, SeqEqual DEF n
    <3>7. Log!Remembered
      BY <1>4, <2>3, KeepsIsRemembered
    <3> QED BY <1>1, <2>1, <3>6, <3>7 DEF Log!Push, N, W, E, F
  <2>4. CASE ~KeepsDraft(hist)
    <3> DEFINE T == Tail(E)
               W == <<Blank>> \o T
    <3>1. /\ T \in Seq(Lines) /\ Len(T) = hist.size - 1
          /\ \A k \in 1 .. hist.size - 1 : T[k] = E[k + 1]
      BY <1>2, <2>1, HeadTailProperties
    <3> HIDE DEF T
    <3>2. /\ W \in Seq(Lines) /\ Len(W) = hist.size /\ W[1] = Blank
          /\ \A k \in 2 .. hist.size : W[k] = T[k - 1]
      BY <1>2, <3>1, InFront
    <3> HIDE DEF W
    <3>3. ASSUME NEW k \in 1 .. Len(F) PROVE F[k] = W[k]
      <4>1. CASE k = 1
        BY <2>2, <3>2, <4>1
      <4>2. CASE k # 1
        <5>1. k \in 2 .. hist.size /\ k - 1 \in 1 .. hist.size - 1 /\ (k - 1) + 1 = k
          BY <1>2, <2>2, <2>4, <4>2
        <5> QED BY <2>2, <2>4, <3>1, <3>2, <5>1
      <4> QED BY <4>1, <4>2
    <3>4. F = W
      BY <2>2, <2>4, <3>2, <3>3, SeqEqual
    <3>5. ~Log!Remembered
      BY <1>4, <2>4, KeepsIsRemembered
    <3> QED BY <1>1, <2>1, <3>4, <3>5 DEF Log!Push, W, T, E, F
  <2> QED BY <2>3, <2>4
<1> QED BY <1>3, <1>4

LEMMA StepIsLog ==
    ASSUME Unterminated = {}, Whole, Inv, [Next]_vars
    PROVE  [Log!Next]_(Log!vars)
<1>1. CASE \E i \in 0 .. MaxIndex : Get(i)
  BY <1>1, GetIsLog DEF Log!Next
<1>2. CASE \E i \in 0 .. MaxIndex, line \in Lines : Set(i, line)
  BY <1>2, SetIsLog DEF Log!Next
<1>3. CASE Push
  BY <1>3, PushIsLog DEF Log!Next
<1>4. CASE UNCHANGED vars
  BY <1>4 DEF vars, Log!vars, Entries
<1> QED BY <1>1, <1>2, <1>3, <1>4 DEF Next

\* If the records fit 2^w a whole number of times and no line fills one, the
\* ring behaves as a bounded list of lines whatever is called and however often.
THEOREM Implements ==
    ASSUME Unterminated = {}, Whole
    PROVE  Spec => ImplementsLog
<1>1. Init => Log!Init
  <2> SUFFICES ASSUME Init PROVE Log!Init
    OBVIOUS
  <2>1. hist.size = 0 /\ out = Log!NoLine
    BY DEF Init, HistEmpty, NoLine, Log!NoLine
  <2>2. Entries \in Seq(Lines) /\ Len(Entries) = 0
    BY <2>1, InitInv, EntriesTyped DEF Inv, Entries, EntriesIn
  <2> QED BY <2>1, <2>2 DEF Log!Init
<1>2. Inv /\ [Next]_vars => [Log!Next]_(Log!vars)
  BY StepIsLog
<1> QED BY <1>1, <1>2, InitInv, StepInv, PTL DEF Spec, ImplementsLog, Log!Spec
=============================================================================
