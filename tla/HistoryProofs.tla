---------------------------- MODULE HistoryProofs ----------------------------
(***************************************************************************)
(* Facts about the operators of HistoryRing, for every number of records   *)
(* and every width of size_t.                                              *)
(***************************************************************************)
EXTENDS HistoryRing, TLAPS

\* Every line the history says it has was written.
Written(h) == \A i \in 0 .. h.size - 1 : h.slots[RecordOf(h, i)] \in Lines

\* The index of a record is inside the array.
LEMMA SlotInArray ==
    ASSUME NEW n \in Nat, MaxRecords > 0
    PROVE  Slot(n) \in SlotIndex
BY HistoryAssumption DEF Slot, SlotIndex

\* append_count - index stays in size_t.
LEMMA MinusInRange ==
    ASSUME NEW a \in 0 .. SizeMod - 1, NEW i \in 0 .. SizeMod - 1
    PROVE  Minus(a, i) \in 0 .. SizeMod - 1
BY HistoryAssumption DEF Minus

\* Pushing moves every line one index up, the wrap of append_count included.
LEMMA MinusNext ==
    ASSUME NEW a \in 0 .. SizeMod - 1, NEW i \in 0 .. MaxRecords - 1
    PROVE  /\ (a + 1) % SizeMod \in 0 .. SizeMod - 1
           /\ Minus((a + 1) % SizeMod, i + 1) = Minus(a, i)
<1>1. CASE a + 1 = SizeMod
  <2>1. (a + 1) % SizeMod = 0
    BY <1>1, HistoryAssumption
  <2> QED BY <1>1, <2>1, HistoryAssumption DEF Minus
<1>2. CASE a + 1 < SizeMod
  <2>1. (a + 1) % SizeMod = a + 1
    BY <1>2, HistoryAssumption
  <2> QED BY <1>2, <2>1, HistoryAssumption DEF Minus
<1> QED BY <1>1, <1>2, HistoryAssumption

\* The record of an index that a history holds is inside the array.
LEMMA RecordInArray ==
    ASSUME NEW h \in HistType, NEW i \in 0 .. SizeMod - 1, MaxRecords > 0
    PROVE  RecordOf(h, i) \in SlotIndex
BY HistoryAssumption, MinusInRange, SlotInArray DEF RecordOf, HistType

\* Setting a line keeps the history well formed and its lines written.
LEMMA SetKeeps ==
    ASSUME NEW h \in HistType, Written(h), Unterminated = {},
           NEW i \in Nat, NEW line \in Lines,
           i < h.size \/ i = 0
    PROVE  /\ HistSet(h, i, line) \in HistType
           /\ Written(HistSet(h, i, line))
           /\ h.size <= HistSet(h, i, line).size
           /\ HistSet(h, i, line).append_count = h.append_count
<1> DEFINE size == IF h.size = 0 /\ i = 0 /\ MaxRecords > 0 THEN 1 ELSE h.size
           g == HistSet(h, i, line)
<1>1. /\ size \in 0 .. MaxRecords
      /\ h.size <= size
      /\ h.slots \in [SlotIndex -> Lines \cup {Garbage}]
      /\ h.append_count \in 0 .. SizeMod - 1
      /\ Recorded(line) = line
  BY HistoryAssumption DEF HistType, Recorded
<1>2. CASE i < size
  <2>1. i \in 0 .. SizeMod - 1 /\ MaxRecords > 0
    BY <1>1, <1>2, HistoryAssumption
  <2>2. RecordOf(h, i) \in SlotIndex
    BY <2>1, RecordInArray
  <2>3. /\ g.size = size
        /\ g.append_count = h.append_count
        /\ g.slots = [h.slots EXCEPT ![RecordOf(h, i)] = line]
        /\ g = [size |-> g.size, append_count |-> g.append_count, slots |-> g.slots]
    BY <1>1, <1>2 DEF HistSet, HistType
  <2>4. g \in HistType
    BY <1>1, <2>2, <2>3 DEF HistType
  <2>5. ASSUME NEW k \in 0 .. size - 1
        PROVE  g.slots[RecordOf(g, k)] \in Lines
    <3>1. RecordOf(g, k) = RecordOf(h, k)
      BY <2>3 DEF RecordOf
    <3>2. k \in 0 .. SizeMod - 1
      BY <1>1, HistoryAssumption
    <3>3. RecordOf(h, k) \in SlotIndex
      BY <2>1, <3>2, RecordInArray
    <3>4. CASE RecordOf(h, k) = RecordOf(h, i)
      BY <1>1, <2>2, <2>3, <3>1, <3>4
    <3>5. CASE RecordOf(h, k) # RecordOf(h, i)
      <4>1. k \in 0 .. h.size - 1
        BY <1>1, <1>2, <3>5 DEF HistType
      <4> QED BY <1>1, <2>3, <3>1, <3>3, <3>5, <4>1 DEF Written
    <3> QED BY <3>4, <3>5
  <2> QED BY <1>1, <2>3, <2>4, <2>5 DEF Written
<1>3. CASE ~(i < size)
  <2>1. size = h.size
    BY <1>1, <1>3 DEF HistType
  <2>2. g = h
    BY <1>3, <2>1 DEF HistSet, HistType
  <2> QED BY <2>2, <1>1 DEF HistType
<1> QED BY <1>2, <1>3

\* So does pushing the draft.
LEMMA PushKeeps ==
    ASSUME NEW h \in HistType, Written(h)
    PROVE  /\ HistPush(h) \in HistType
           /\ Written(HistPush(h))
<1> DEFINE keep == KeepsDraft(h)
           count == IF keep THEN (h.append_count + 1) % SizeMod ELSE h.append_count
           size == IF keep THEN Grown(h) ELSE h.size
           g == HistPush(h)
<1>1. CASE h.size = 0
  BY <1>1 DEF HistPush
<1>2. CASE h.size # 0
  <2>1. /\ h.size \in 1 .. MaxRecords
        /\ h.append_count \in 0 .. SizeMod - 1
        /\ h.slots \in [SlotIndex -> Lines \cup {Garbage}]
        /\ MaxRecords > 0
    BY <1>2, HistoryAssumption DEF HistType
  <2>2. count \in 0 .. SizeMod - 1
    <3>1. (h.append_count + 1) % SizeMod \in 0 .. SizeMod - 1
      BY <2>1, MinusNext, HistoryAssumption
    <3> QED BY <2>1, <3>1
  <2>3. Slot(count) \in SlotIndex
    BY <2>1, <2>2, SlotInArray
  <2>4. size \in 1 .. MaxRecords /\ size <= h.size + 1 /\ (~keep => size = h.size)
    BY <2>1, HistoryAssumption DEF Grown
  <2>5. g = [size |-> size, append_count |-> count,
             slots |-> [h.slots EXCEPT ![Slot(count)] = Blank]]
    BY <1>2 DEF HistPush, DraftEmptied
  <2> HIDE DEF g, size, count
  <2>6. g \in HistType
    BY <2>1, <2>2, <2>3, <2>4, <2>5, HistoryAssumption DEF HistType
  <2>7. ASSUME NEW k \in 0 .. size - 1
        PROVE  g.slots[RecordOf(g, k)] \in Lines
    <3>1. RecordOf(g, k) = Slot(Minus(count, k)) /\ RecordOf(g, k) \in SlotIndex
      <4>1. k \in 0 .. SizeMod - 1
        BY <2>4, HistoryAssumption
      <4> QED BY <2>1, <2>5, <2>6, <4>1, RecordInArray DEF RecordOf
    <3>2. CASE RecordOf(g, k) = Slot(count)
      BY <2>1, <2>3, <2>5, <3>2, HistoryAssumption
    <3>3. CASE RecordOf(g, k) # Slot(count)
      <4>1. k # 0
        BY <2>2, <3>1, <3>3, HistoryAssumption DEF Minus
      <4>2. g.slots[RecordOf(g, k)] = h.slots[RecordOf(g, k)]
        BY <2>1, <2>5, <3>1, <3>3
      <4>3. CASE keep
        <5>1. k - 1 \in 0 .. MaxRecords - 1 /\ k - 1 \in 0 .. h.size - 1
          BY <2>1, <2>4, <4>1, HistoryAssumption
        <5>2. Minus(count, (k - 1) + 1) = Minus(h.append_count, k - 1)
          BY <2>1, <4>3, <5>1, MinusNext DEF count
        <5>3. RecordOf(g, k) = RecordOf(h, k - 1)
          BY <3>1, <5>1, <5>2 DEF RecordOf
        <5> QED BY <4>2, <5>1, <5>3 DEF Written
      <4>4. CASE ~keep
        <5>1. RecordOf(g, k) = RecordOf(h, k) /\ k \in 0 .. h.size - 1
          BY <2>4, <3>1, <4>4 DEF RecordOf, count
        <5> QED BY <4>2, <5>1 DEF Written
      <4> QED BY <4>3, <4>4
    <3> QED BY <3>2, <3>3
  <2>8. g.size = size
    BY <2>5
  <2> QED BY <2>6, <2>7, <2>8 DEF Written, g
<1> QED BY <1>1, <1>2

\* What can be read is a line.
LEMMA GetReadsLine ==
    ASSUME NEW h \in HistType, Written(h), NEW i \in Nat
    PROVE  HistGet(h, i) \in Lines
BY HistoryAssumption DEF HistGet, Holds, Written, HistType

\* A new history is well formed.
LEMMA EmptyIsWritten == HistEmpty \in HistType /\ Written(HistEmpty)
BY HistoryAssumption DEF HistEmpty, HistType, Written

-----------------------------------------------------------------------------
(* No two indices name the same record. *)

\* 2^w is a multiple of max_records: slots do not jump when append_count wraps.
Whole == \E q \in Nat : SizeMod = q * MaxRecords

LEMMA Quotient ==
    ASSUME NEW x \in Nat, NEW m \in Nat \ {0}
    PROVE  x \div m \in Nat /\ x = m * (x \div m) + (x % m)
OBVIOUS

\* A multiple of m nearer to zero than m is zero.
LEMMA SmallMultiple ==
    ASSUME NEW m \in Nat \ {0}, NEW p \in Int, -m < m * p, m * p < m
    PROVE  p = 0
<1>1. CASE p >= 1
  <2>1. m * p = m * (p - 1) + m /\ m * (p - 1) >= 0
    BY <1>1
  <2> QED BY <2>1
<1>2. CASE p <= -1
  <2>1. m * p = m * (p + 1) - m /\ m * (p + 1) <= 0
    BY <1>2
  <2> QED BY <2>1
<1> QED BY <1>1, <1>2

LEMMA RecordsApart ==
    ASSUME Whole, NEW h \in HistType,
           NEW i \in 0 .. MaxRecords - 1, NEW j \in 0 .. MaxRecords - 1,
           RecordOf(h, i) = RecordOf(h, j)
    PROVE  i = j
<1> DEFINE m == MaxRecords
           a == h.append_count
           x == Minus(a, i)
           y == Minus(a, j)
<1>1. m \in Nat \ {0} /\ a \in 0 .. SizeMod - 1 /\ SizeMod \in Nat
  BY HistoryAssumption DEF HistType
<1>2. PICK q \in Nat : SizeMod = q * m
  BY DEF Whole
<1>3. x \in Nat /\ y \in Nat
  <2>1. i \in 0 .. SizeMod - 1 /\ j \in 0 .. SizeMod - 1
    BY HistoryAssumption
  <2>2. x \in 0 .. SizeMod - 1 /\ y \in 0 .. SizeMod - 1
    BY <1>1, <2>1, MinusInRange
  <2> QED BY <1>1, <2>2
<1>4. x % m = y % m
  BY DEF RecordOf, Slot
<1>5. PICK d \in Int : x - y = m * d
  <2>1. /\ x \div m \in Nat /\ x = m * (x \div m) + (x % m)
        /\ y \div m \in Nat /\ y = m * (y \div m) + (y % m)
    BY <1>1, <1>3, Quotient
  <2>2. x - y = m * ((x \div m) - (y \div m))
    BY <1>1, <1>3, <1>4, <2>1
  <2> QED BY <2>1, <2>2
<1>6. x - y = j - i \/ x - y = (j - i) + q * m \/ x - y = (j - i) - q * m
  BY <1>1, <1>2 DEF Minus
<1>7. \E p \in Int : j - i = m * p
  <2>1. CASE x - y = j - i
    BY <1>5, <2>1
  <2>2. CASE x - y = (j - i) + q * m
    <3>1. j - i = m * (d - q)
      BY <1>1, <1>2, <1>5, <2>2
    <3> QED BY <1>2, <1>5, <3>1
  <2>3. CASE x - y = (j - i) - q * m
    <3>1. j - i = m * (d + q)
      BY <1>1, <1>2, <1>5, <2>3
    <3> QED BY <1>2, <1>5, <3>1
  <2> QED BY <1>6, <2>1, <2>2, <2>3
<1>8. PICK p \in Int : j - i = m * p
  BY <1>7
<1>9. -m < m * p /\ m * p < m
  BY <1>1, <1>8
<1>10. p = 0
  BY <1>1, <1>9, SmallMultiple
<1> QED BY <1>1, <1>8, <1>10

\* The indices that a history holds name different records.
LEMMA HeldApart ==
    ASSUME Whole, NEW h \in HistType, NEW i \in 0 .. h.size - 1, NEW j \in 0 .. h.size - 1,
           RecordOf(h, i) = RecordOf(h, j)
    PROVE  i = j
<1>1. h.size \in 0 .. MaxRecords /\ MaxRecords \in Nat
  BY HistoryAssumption DEF HistType
<1>2. i \in 0 .. MaxRecords - 1 /\ j \in 0 .. MaxRecords - 1
  BY <1>1
<1> QED BY <1>2, RecordsApart
===============================================================================
