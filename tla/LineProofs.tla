----------------------------- MODULE LineProofs -----------------------------
(***************************************************************************)
(* The line, the screen and the editor the line implements, for every size *)
(* of line, every prompt and every width of terminal.                      *)
(***************************************************************************)
EXTENDS Line, SequenceTheorems, WellFoundedInduction, TLAPS

\* A text of e characters in the buffer b, with the cursor at c: it has no hole,
\* and the last byte of the buffer is a terminator.
Text(b, e, c) ==
    /\ b \in [Index -> Chars \cup {Nul}]
    /\ e \in Index
    /\ c \in 0 .. e
    /\ b[MaxSize] = Nul
    /\ \A i \in 0 .. e - 1 : b[i] # Nul

Values == Chars \cup {Nul, "*"} \cup Modes

\* Cells, of a buffer that need not be the one there is now.
CellsOf(b, e, m) == [k \in 1 .. PromptSize[m] + e |->
    IF k <= PromptSize[m] THEN m
    ELSE IF Masked(m) THEN "*"
    ELSE b[k - PromptSize[m] - 1]]

\* The shell's state and the mode of the line.
ModeInv ==
    /\ mode \in Modes
    /\ shell \in States
    /\ shell \in {"PASSWORD", "FAIL"} => mode = "PASSWORD"
    /\ shell \in {"LINE", "YIELD"} => mode = "SESSION"
    /\ shell = "YIELD" => end = 0 /\ cursor = 0

\* The cells before the displayed cursor are there, and a password is masked.
Shows(d, cells, m) ==
    /\ d \in Index
    /\ cells \in Seq(Values)
    /\ PromptSize[m] + d <= Len(cells)
    /\ Len(cells) <= PromptSize[m] + MaxSize
    /\ m = "PASSWORD" => \A k \in 1 .. Len(cells) : cells[k] \in {"PASSWORD", "*"}

\* What is drawn is the line as it is, unless it has been cleared and not drawn.
DrawnInv ==
    /\ Shows(display_cursor, drawn, mode)
    /\ unshown \in BOOLEAN
    /\ ~unshown => display_cursor = cursor /\ drawn = Cells
    /\ begins \in Int /\ begins <= 0
    /\ row \in Int

Inv ==
    /\ Text(buffer, end, cursor)
    /\ ModeInv
    /\ DrawnInv
    /\ tab \in BOOLEAN
    /\ Len(entered) \in 0 .. MaxSize

-----------------------------------------------------------------------------
(* Rows, cells and terminators. *)

LEMMA Rows ==
    ASSUME NEW m \in Modes, NEW x \in Nat
    PROVE  /\ RowOf(m, x) \in Nat
           /\ RowOf(m, x) * Cols <= PromptSize[m] + x
           /\ \A y \in Nat : x <= y => RowOf(m, x) <= RowOf(m, y)
<1>1. PromptSize[m] + x \in Nat /\ Cols \in Nat \ {0}
  BY LineAssumption
<1>2. ASSUME NEW z \in Nat
      PROVE  z \div Cols \in Nat /\ (z \div Cols) * Cols <= z
  BY <1>1, <1>2
<1>3. ASSUME NEW z \in Nat, NEW w \in Nat, z <= w PROVE z \div Cols <= w \div Cols
  BY <1>1, <1>3
<1>4. ASSUME NEW y \in Nat, x <= y PROVE RowOf(m, x) <= RowOf(m, y)
  <2>1. PromptSize[m] + y \in Nat /\ PromptSize[m] + x <= PromptSize[m] + y
    BY <1>4, LineAssumption
  <2> QED BY <1>1, <1>3, <2>1 DEF RowOf
<1> QED BY <1>1, <1>2, <1>4 DEF RowOf

LEMMA CellsTyped ==
    ASSUME NEW b, NEW e, NEW c, Text(b, e, c), NEW m \in Modes
    PROVE  /\ CellsOf(b, e, m) \in Seq(Values)
           /\ Len(CellsOf(b, e, m)) = PromptSize[m] + e
           /\ PromptSize[m] \in Nat /\ e \in Nat /\ c \in Nat /\ c <= e
<1>1. PromptSize[m] \in Nat /\ e \in Nat /\ c \in Nat /\ c <= e /\ MaxSize \in Nat /\ e <= MaxSize
  BY LineAssumption DEF Text, Index
<1>2. ASSUME NEW k \in 1 .. PromptSize[m] + e PROVE CellsOf(b, e, m)[k] \in Values
  <2>1. CASE k <= PromptSize[m] \/ Masked(m)
    BY <2>1 DEF CellsOf, Values
  <2>2. CASE ~(k <= PromptSize[m] \/ Masked(m))
    <3>1. k - PromptSize[m] - 1 \in Index
      BY <1>1, <2>2 DEF Index
    <3> QED BY <2>2, <3>1 DEF CellsOf, Values, Text
  <2> QED BY <2>1, <2>2
<1>3. CellsOf(b, e, m) \in [1 .. PromptSize[m] + e -> Values]
  BY <1>2 DEF CellsOf
<1> QED BY <1>1, <1>3

LEMMA Piece ==
    ASSUME NEW S, NEW a \in Seq(S), NEW lo \in Nat, NEW hi \in Nat, lo <= hi, hi <= Len(a)
    PROVE  /\ SubSeq(a, lo + 1, hi) \in Seq(S)
           /\ Len(SubSeq(a, lo + 1, hi)) = hi - lo
           /\ \A i \in 1 .. hi - lo : SubSeq(a, lo + 1, hi)[i] = a[lo + i]
<1>1. Len(a) \in Nat
  OBVIOUS
<1>2. \A i \in lo + 1 .. hi : a[i] \in S
  BY <1>1
<1>3. /\ SubSeq(a, lo + 1, hi) \in Seq(S)
      /\ Len(SubSeq(a, lo + 1, hi)) = IF lo + 1 <= hi THEN hi - (lo + 1) + 1 ELSE 0
      /\ \A i \in 1 .. hi - (lo + 1) + 1 : SubSeq(a, lo + 1, hi)[i] = a[(lo + 1) + i - 1]
  BY <1>2, SubSeqProperties
<1> QED BY <1>3

\* The first elements of a sequence.
LEMMA FirstPiece ==
    ASSUME NEW S, NEW a \in Seq(S), NEW k \in Nat, k <= Len(a)
    PROVE  SubSeq(a, 1, k) \in Seq(S) /\ Len(SubSeq(a, 1, k)) = k
           /\ \A i \in 1 .. k : SubSeq(a, 1, k)[i] = a[i]
<1>1. Len(a) \in Nat /\ 0 \in Nat /\ 0 <= k
  OBVIOUS
<1>2. 0 + 1 = 1 /\ k - 0 = k /\ \A i \in 1 .. k : 0 + i = i
  OBVIOUS
<1> QED BY <1>1, <1>2, Piece

\* The last n elements of a sequence.
LEMMA LastPiece ==
    ASSUME NEW S, NEW a \in Seq(S), NEW j \in Nat, NEW n \in Nat, Len(a) = j + n
    PROVE  SubSeq(a, j + 1, Len(a)) \in Seq(S) /\ Len(SubSeq(a, j + 1, Len(a))) = n
           /\ \A i \in 1 .. n : SubSeq(a, j + 1, Len(a))[i] = a[j + i]
<1>1. j + n \in Nat /\ j <= j + n /\ j + n <= Len(a) /\ (j + n) - j = n
  OBVIOUS
<1>2. /\ SubSeq(a, j + 1, j + n) \in Seq(S)
      /\ Len(SubSeq(a, j + 1, j + n)) = (j + n) - j
      /\ \A i \in 1 .. (j + n) - j : SubSeq(a, j + 1, j + n)[i] = a[j + i]
  BY <1>1, Piece
<1> QED BY <1>1, <1>2

\* The first k elements of one sequence and the others of another.
Cut(a, b, k) == SubSeq(a, 1, k) \o SubSeq(b, k + 1, Len(b))

LEMMA CutIs ==
    ASSUME NEW S, NEW a \in Seq(S), NEW b \in Seq(S), NEW k \in Nat,
           k <= Len(a), k <= Len(b)
    PROVE  /\ Cut(a, b, k) \in Seq(S) /\ Len(Cut(a, b, k)) = Len(b)
           /\ \A i \in 1 .. Len(b) : Cut(a, b, k)[i] = IF i <= k THEN a[i] ELSE b[i]
<1> DEFINE p == SubSeq(a, 1, k)
           q == SubSeq(b, k + 1, Len(b))
<1>0. PICK n \in Nat : Len(b) = k + n
  <2>1. Len(b) \in Nat /\ Len(b) - k \in Nat /\ Len(b) = k + (Len(b) - k)
    OBVIOUS
  <2> QED BY <2>1
<1>1. p \in Seq(S) /\ Len(p) = k /\ \A i \in 1 .. k : p[i] = a[i]
  BY FirstPiece
<1> HIDE DEF p
<1>2. q \in Seq(S) /\ Len(q) = n /\ \A i \in 1 .. n : q[i] = b[k + i]
  BY <1>0, LastPiece
<1> HIDE DEF p, q
<1>3. /\ p \o q \in Seq(S) /\ Len(p \o q) = k + n
      /\ \A i \in 1 .. k + n : (p \o q)[i] = IF i <= k THEN p[i] ELSE q[i - k]
  <2>1. p \in Seq(S) /\ Len(p) = k /\ q \in Seq(S) /\ Len(q) = n
    BY <1>1, <1>2
  <2> QED BY <2>1, ConcatProperties
<1>4. ASSUME NEW i \in 1 .. Len(b) PROVE (p \o q)[i] = IF i <= k THEN a[i] ELSE b[i]
  <2>1. CASE i <= k
    <3>1. i \in 1 .. k /\ i \in 1 .. k + n
      BY <1>0, <2>1
    <3> QED BY <1>1, <1>3, <2>1, <3>1
  <2>2. CASE ~(i <= k)
    <3>1. i - k \in 1 .. n /\ k + (i - k) = i /\ i \in 1 .. k + n
      BY <1>0, <2>2
    <3> QED BY <1>2, <1>3, <2>2, <3>1
  <2> QED BY <2>1, <2>2
<1>5. /\ p \o q \in Seq(S) /\ Len(p \o q) = Len(b)
      /\ \A i \in 1 .. Len(b) : (p \o q)[i] = IF i <= k THEN a[i] ELSE b[i]
  BY <1>0, <1>3, <1>4
<1> QED BY <1>5 DEF p, q, Cut

\* Replacing a sequence from some point on.
LEMMA Recut ==
    ASSUME NEW S, NEW a \in Seq(S), NEW b \in Seq(S), NEW k \in Nat,
           k <= Len(a), k <= Len(b), \A i \in 1 .. k : a[i] = b[i]
    PROVE  Cut(a, b, k) = b
<1>1. /\ Cut(a, b, k) \in Seq(S) /\ Len(Cut(a, b, k)) = Len(b)
      /\ \A i \in 1 .. Len(b) : Cut(a, b, k)[i] = IF i <= k THEN a[i] ELSE b[i]
  BY CutIs
<1>2. \A i \in 1 .. Len(b) : Cut(a, b, k)[i] = b[i]
  BY <1>1
<1> QED BY <1>1, <1>2, SeqEqual

LEMMA Smallest ==
    ASSUME NEW S, S \subseteq Nat, S # {}
    PROVE  Min(S) \in S /\ \A y \in S : Min(S) <= y
<1>1. PICK x \in S : \A y \in S : ~(<<y, x>> \in OpToRel(<, Nat))
  BY NatLessThanWellFounded, WFMin
<1>2. \A y \in S : ~(y < x)
  BY <1>1 DEF OpToRel
<1>3. \E z \in S : \A y \in S : z <= y
  BY <1>2
<1> QED BY <1>3 DEF Min

LEMMA SmallestIs ==
    ASSUME NEW S, S \subseteq Nat, NEW e \in S, \A y \in S : e <= y
    PROVE  Min(S) = e
<1>1. Min(S) \in S /\ \A y \in S : Min(S) <= y
  BY Smallest
<1>2. Min(S) <= e /\ e <= Min(S) /\ Min(S) \in Nat /\ e \in Nat
  BY <1>1
<1> QED BY <1>2

\* What Enter reads fits in the shell's buffer.
LEMMA ReadFits == Inv => Len(ReadBuffer) \in 0 .. MaxSize
<1> SUFFICES ASSUME Inv PROVE Len(ReadBuffer) \in 0 .. MaxSize
  OBVIOUS
<1>1. MaxSize \in Stops /\ Stops \subseteq Nat /\ MaxSize \in Nat
  BY LineAssumption DEF Inv, Text, Stops, Index
<1>2. Min(Stops) \in Nat /\ Min(Stops) <= MaxSize /\ Stops # {}
  BY <1>1, Smallest
<1>3. Len(ReadBuffer) = Min(Stops)
  BY <1>2 DEF ReadBuffer
<1> QED BY <1>1, <1>2, <1>3

-----------------------------------------------------------------------------
(* Drawing. *)

\* The cells of a line show it.
LEMMA CellsShow ==
    ASSUME NEW b, NEW e, NEW c, Text(b, e, c), NEW m \in Modes
    PROVE  Shows(c, CellsOf(b, e, m), m)
<1>1. /\ CellsOf(b, e, m) \in Seq(Values)
      /\ Len(CellsOf(b, e, m)) = PromptSize[m] + e
      /\ PromptSize[m] \in Nat /\ e \in Nat /\ c \in Nat /\ c <= e
  BY CellsTyped
<1>2. e <= MaxSize /\ MaxSize \in Nat /\ c \in Index
  BY <1>1, LineAssumption DEF Text, Index
<1>3. ASSUME m = "PASSWORD", NEW k \in 1 .. PromptSize[m] + e
      PROVE  CellsOf(b, e, m)[k] \in {"PASSWORD", "*"}
  BY <1>3 DEF CellsOf, Masked
<1> QED BY <1>1, <1>2, <1>3 DEF Shows

\* A redraw of all of the line puts it on the screen.
LEMMA RedrawShows ==
    ASSUME Text(buffer', end', cursor'), mode' \in Modes,
           NEW up, NEW at, NEW cells, Redraw(up, 0, at, cells)
    PROVE  /\ drawn' = Cells' /\ display_cursor' = cursor'
           /\ Shows(display_cursor', drawn', mode')
           /\ row' = at - up + RowOf(mode', cursor')
           /\ RowOf(mode', cursor') \in Nat
<1>1. /\ CellsOf(buffer', end', mode') \in Seq(Values)
      /\ Len(CellsOf(buffer', end', mode')) = PromptSize[mode'] + end'
      /\ PromptSize[mode'] \in Nat /\ end' \in Nat /\ cursor' \in Nat
  BY CellsTyped
<1>2. Cells' = CellsOf(buffer', end', mode')
  BY DEF Cells, CellsOf
<1>3. RowOf(mode', cursor') \in Nat
  BY <1>1, Rows
<1>4. 0 * Cols = 0 /\ 0 + 1 = 1
  BY LineAssumption
<1>5. drawn' = SubSeq(cells, 1, 0) \o SubSeq(Cells', 1, PromptSize[mode'] + end')
  BY <1>4 DEF Redraw
<1>6. SubSeq(cells, 1, 0) = << >> /\ << >> = SubSeq(Cells', 1, 0)
  BY SubSeqEmpty
<1>7. SubSeq(Cells', 1, 0) \o SubSeq(Cells', 0 + 1, Len(Cells')) = Cells'
  BY <1>1, <1>2, Recut DEF Cut
<1>8. drawn' = Cells'
  BY <1>1, <1>2, <1>5, <1>6, <1>7
<1>9. row' = at - up + (RowOf(mode', cursor') - 0) /\ display_cursor' = cursor'
  BY DEF Redraw, CursorRow
<1>10. row' = at - up + RowOf(mode', cursor')
  BY <1>3, <1>9
<1> QED BY <1>2, <1>3, <1>8, <1>9, <1>10, CellsShow

\* The row of the displayed cursor.
LEMMA DisplayRowTyped ==
    ASSUME DrawnInv, mode' \in Modes
    PROVE  DisplayRow \in Nat
<1>1. display_cursor \in Nat
  BY LineAssumption DEF DrawnInv, Shows, Index
<1> QED BY <1>1, Rows DEF DisplayRow

\* A full refresh, in place or below the shell's output, puts the line on the screen.
LEMMA FullShows ==
    ASSUME DrawnInv, Text(buffer', end', cursor'), mode' \in Modes,
           FullRefresh \/ RefreshBelow \/ RefreshOnCleared
    PROVE  DrawnInv' /\ ~unshown'
<1>1. DisplayRow \in Nat
  BY DisplayRowTyped
<1>2. CASE FullRefresh
  <2>1. /\ drawn' = Cells' /\ display_cursor' = cursor'
        /\ Shows(display_cursor', drawn', mode')
        /\ row' = row - DisplayRow + RowOf(mode', cursor') /\ RowOf(mode', cursor') \in Nat
        /\ begins' = begins /\ unshown' = FALSE
    BY <1>2, RedrawShows DEF FullRefresh
  <2>2. row \in Int
    BY DEF DrawnInv
  <2>3. row' \in Int
    BY <1>1, <2>1, <2>2
  <2> QED BY <2>1, <2>3 DEF DrawnInv
<1>3. ASSUME NEW up \in Nat, DrawnAnew(up) PROVE DrawnInv' /\ ~unshown'
  <2>1. PICK at, cells : at = 0 /\ cells = << >>
    OBVIOUS
  <2>2. Redraw(up, 0, at, cells) /\ begins' = -up /\ unshown' = FALSE
    BY <1>3, <2>1 DEF DrawnAnew
  <2>3. /\ drawn' = Cells' /\ display_cursor' = cursor'
        /\ Shows(display_cursor', drawn', mode')
        /\ row' = at - up + RowOf(mode', cursor') /\ RowOf(mode', cursor') \in Nat
    BY <2>2, RedrawShows
  <2>4. row' \in Int /\ begins' \in Int /\ begins' <= 0
    BY <2>1, <2>2, <2>3
  <2> QED BY <2>2, <2>3, <2>4 DEF DrawnInv
<1>4. \A up \in 0 .. DisplayRow : up \in Nat
  BY <1>1
<1> QED BY <1>1, <1>2, <1>3, <1>4 DEF RefreshBelow, RefreshOnCleared

\* Two lines that agree before a position agree in the cells up to it.
LEMMA CellsRecut ==
    ASSUME NEW b, NEW e, NEW c, Text(b, e, c),
           NEW b2, NEW e2, NEW c2, Text(b2, e2, c2),
           NEW m \in Modes,
           NEW q \in Nat, q <= c, q <= c2, \A i \in Index : i < q => b[i] = b2[i],
           NEW k \in Nat, k <= PromptSize[m] + q
    PROVE  Cut(CellsOf(b, e, m), CellsOf(b2, e2, m), k) = CellsOf(b2, e2, m)
<1>1. /\ CellsOf(b, e, m) \in Seq(Values) /\ Len(CellsOf(b, e, m)) = PromptSize[m] + e
      /\ PromptSize[m] \in Nat /\ e \in Nat /\ c \in Nat /\ c <= e
  BY CellsTyped
<1>2. /\ CellsOf(b2, e2, m) \in Seq(Values) /\ Len(CellsOf(b2, e2, m)) = PromptSize[m] + e2
      /\ e2 \in Nat /\ c2 \in Nat /\ c2 <= e2
  BY CellsTyped
<1>3. /\ q <= e /\ q <= e2 /\ e \in Nat /\ e2 \in Nat /\ PromptSize[m] \in Nat
      /\ k <= PromptSize[m] + q
  BY <1>1, <1>2
<1>4. k <= PromptSize[m] + e /\ k <= PromptSize[m] + e2
  BY <1>3
<1>5. e <= MaxSize /\ MaxSize \in Nat
  BY LineAssumption DEF Text, Index
<1>6. ASSUME NEW i \in 1 .. k PROVE CellsOf(b, e, m)[i] = CellsOf(b2, e2, m)[i]
  <2>1. i \in 1 .. PromptSize[m] + e /\ i \in 1 .. PromptSize[m] + e2 /\ i <= PromptSize[m] + q
    BY <1>3, <1>4
  <2>2. CASE i <= PromptSize[m] \/ Masked(m)
    BY <2>1, <2>2 DEF CellsOf
  <2>3. CASE ~(i <= PromptSize[m] \/ Masked(m))
    <3>1. i - PromptSize[m] - 1 \in 0 .. MaxSize /\ i - PromptSize[m] - 1 < q
      BY <1>3, <1>5, <2>1, <2>3
    <3>2. b[i - PromptSize[m] - 1] = b2[i - PromptSize[m] - 1]
      BY <3>1 DEF Index
    <3> QED BY <2>1, <2>3, <3>2 DEF CellsOf
  <2> QED BY <2>2, <2>3
<1>7. k <= Len(CellsOf(b, e, m)) /\ k <= Len(CellsOf(b2, e2, m))
  BY <1>1, <1>2, <1>4
<1> QED BY <1>1, <1>2, <1>6, <1>7, Recut

\* The row a redraw from the cursor starts at is that of the cursor or that of the
\* displayed one, whichever is nearer to the beginning.
LEMMA FirstRowIs ==
    ASSUME NEW m \in Modes, NEW t \in Nat, NEW d \in Nat
    PROVE  \E q \in Nat : /\ q <= t /\ q <= d /\ (q = t \/ q = d)
                          /\ FirstRow(RowOf(m, t), RowOf(m, d)) = RowOf(m, q)
                          /\ RowOf(m, q) * Cols \in Nat
                          /\ RowOf(m, q) * Cols <= PromptSize[m] + q
<1>1. PICK q \in Nat : q <= t /\ q <= d /\ (q = t \/ q = d)
  <2>1. CASE t <= d
    BY <2>1
  <2>2. CASE d <= t
    BY <2>2
  <2> QED BY <2>1, <2>2
<1>2. /\ RowOf(m, q) \in Nat /\ RowOf(m, q) * Cols <= PromptSize[m] + q
      /\ RowOf(m, q) <= RowOf(m, t) /\ RowOf(m, q) <= RowOf(m, d)
      /\ RowOf(m, t) \in Nat /\ RowOf(m, d) \in Nat
  BY <1>1, Rows
<1>3. FirstRow(RowOf(m, t), RowOf(m, d)) = RowOf(m, q)
  BY <1>1, <1>2 DEF FirstRow
<1>4. RowOf(m, q) * Cols \in Nat
  BY <1>2, LineAssumption
<1> QED BY <1>1, <1>2, <1>3, <1>4

\* A refresh from the cursor keeps the cells of the rows before, and is enough
\* when the line was shown and what is before the cursor, where it is and where it
\* was, has not changed.
LEMMA PartShows ==
    ASSUME Inv, Text(buffer', end', cursor'), mode' = mode, RefreshFromCursor,
           \A i \in Index : i < cursor /\ i < cursor' => buffer'[i] = buffer[i]
    PROVE  DrawnInv'
<1>1. /\ cursor \in Nat /\ cursor' \in Nat /\ mode \in Modes
      /\ Text(buffer, end, cursor)
  BY CellsTyped DEF Inv, ModeInv
<1>2. /\ display_cursor \in Nat /\ display_cursor <= MaxSize /\ MaxSize \in Nat
      /\ drawn \in Seq(Values) /\ Len(drawn) \in Nat
      /\ PromptSize[mode] + display_cursor <= Len(drawn)
      /\ PromptSize[mode] \in Nat
  BY <1>1, LineAssumption DEF Inv, DrawnInv, Shows, Index
<1>3. PICK q \in Nat : /\ q <= cursor' /\ q <= display_cursor
                       /\ FirstRow(RowOf(mode, cursor'), RowOf(mode, display_cursor)) = RowOf(mode, q)
                       /\ RowOf(mode, q) * Cols \in Nat
                       /\ RowOf(mode, q) * Cols <= PromptSize[mode] + q
  BY <1>1, <1>2, FirstRowIs
<1>4. PICK k \in Nat : k = RowOf(mode, q) * Cols
  BY <1>3
<1>0. PICK cells : cells = CellsOf(buffer', end', mode)
  OBVIOUS
<1>5. /\ cells \in Seq(Values) /\ Len(cells) = PromptSize[mode] + end'
      /\ end' \in Nat /\ cursor' <= end'
      /\ Cells' = cells
      /\ Shows(cursor', cells, mode)
  <2>1. cells \in Seq(Values) /\ Len(cells) = PromptSize[mode] + end' /\ end' \in Nat /\ cursor' <= end'
    BY <1>0, <1>1, CellsTyped
  <2>2. Shows(cursor', cells, mode)
    BY <1>0, <1>1, CellsShow
  <2>3. Cells' = cells
    BY <1>0 DEF Cells, CellsOf
  <2> QED BY <2>1, <2>2, <2>3
<1>6. k <= PromptSize[mode] + q /\ k <= Len(drawn) /\ k <= Len(cells)
  <2>1. k <= PromptSize[mode] + q
    BY <1>3, <1>4
  <2>2. /\ PromptSize[mode] + q <= PromptSize[mode] + display_cursor
        /\ PromptSize[mode] + q <= PromptSize[mode] + end'
    BY <1>1, <1>2, <1>3, <1>5
  <2>3. k <= PromptSize[mode] + display_cursor /\ k <= PromptSize[mode] + end'
    BY <1>2, <1>5, <2>1, <2>2
  <2> QED BY <1>2, <1>5, <2>1, <2>3
<1>7. /\ drawn' = Cut(drawn, cells, k)
      /\ row' = row - RowsUp(RowOf(mode, cursor'), RowOf(mode, display_cursor))
                + (RowOf(mode, cursor') - RowOf(mode, q))
      /\ display_cursor' = cursor' /\ begins' = begins /\ unshown' = unshown
  BY <1>3, <1>4, <1>5 DEF RefreshFromCursor, Redraw, CursorRow, DisplayRow, Cut
<1>8. Shows(display_cursor', drawn', mode')
  <2>1. /\ drawn' \in Seq(Values) /\ Len(drawn') = Len(cells)
        /\ \A i \in 1 .. Len(cells) : drawn'[i] = IF i <= k THEN drawn[i] ELSE cells[i]
    BY <1>2, <1>5, <1>6, <1>7, CutIs
  <2>2. ASSUME mode = "PASSWORD", NEW i \in 1 .. Len(drawn')
        PROVE  drawn'[i] \in {"PASSWORD", "*"}
    <3>1. i \in 1 .. Len(cells) /\ (i <= k => i \in 1 .. Len(drawn))
      BY <1>2, <1>5, <1>6, <2>1, <2>2
    <3>2. cells[i] \in {"PASSWORD", "*"}
      BY <1>5, <2>2, <3>1 DEF Shows
    <3>3. i <= k => drawn[i] \in {"PASSWORD", "*"}
      BY <2>2, <3>1 DEF Inv, DrawnInv, Shows
    <3> QED BY <2>1, <3>1, <3>2, <3>3
  <2> QED BY <1>5, <1>7, <2>1, <2>2 DEF Shows
<1>9. row' \in Int
  <2>1. RowOf(mode, q) \in Nat /\ RowOf(mode, cursor') \in Nat /\ row \in Int
    BY <1>1, Rows DEF Inv, DrawnInv
  <2> QED BY <1>7, <2>1 DEF RowsUp
<1>10. ASSUME ~unshown' PROVE drawn' = Cells'
  <2>1. display_cursor = cursor /\ drawn = CellsOf(buffer, end, mode)
    BY <1>7, <1>10 DEF Inv, DrawnInv, Cells, CellsOf
  <2>2. q <= cursor /\ \A i \in Index : i < q => buffer[i] = buffer'[i]
    BY <1>1, <1>3, <2>1, LineAssumption DEF Index
  <2>3. Cut(CellsOf(buffer, end, mode), cells, k) = cells
    BY <1>0, <1>1, <1>3, <1>6, <2>2, CellsRecut
  <2> QED BY <1>5, <1>7, <2>1, <2>3
<1> QED BY <1>7, <1>8, <1>9, <1>10 DEF Inv, DrawnInv

-----------------------------------------------------------------------------
(* What the keys and the shell do to the text. *)

LEMMA Sizes ==
    ASSUME Inv
    PROVE  /\ MaxSize \in Nat /\ end \in Nat /\ end <= MaxSize
           /\ cursor \in Nat /\ cursor <= end
           /\ buffer \in [Index -> Chars \cup {Nul}] /\ buffer[MaxSize] = Nul
           /\ \A i \in 0 .. end - 1 : buffer[i] # Nul
BY LineAssumption DEF Inv, Text, Index

\* The bytes of the buffer when a character has been put in.
LEMMA InsertBytes ==
    ASSUME Inv, NEW c, end # MaxSize,
           buffer' = Terminated(Opened(buffer, c), end + 1)
    PROVE  \A i \in Index : buffer'[i] = IF i = end + 1 THEN Nul
                                         ELSE IF i = cursor THEN c
                                         ELSE IF i \in cursor + 1 .. end THEN buffer[i - 1]
                                         ELSE buffer[i]
<1>1. end + 1 \in Index
  BY Sizes DEF Index
<1> QED BY <1>1 DEF Terminated, Opened

LEMMA InsertText ==
    ASSUME Inv, NEW c \in Chars, end # MaxSize,
           buffer' = Terminated(Opened(buffer, c), end + 1),
           end' = end + 1, cursor' = cursor + 1
    PROVE  /\ Text(buffer', end', cursor')
           /\ \A i \in Index : i < cursor /\ i < cursor' => buffer'[i] = buffer[i]
<1>0. end < MaxSize /\ Index = 0 .. MaxSize
  BY Sizes DEF Index
<1>1. Opened(buffer, c) \in [Index -> Chars \cup {Nul}]
  <2>1. ASSUME NEW i \in Index, i \in cursor + 1 .. end PROVE i - 1 \in Index
    BY <1>0, <2>1, Sizes
  <2> QED BY <2>1, Sizes DEF Opened
<1>2. ASSUME NEW i \in Index
      PROVE  buffer'[i] = IF i = end + 1 THEN Nul
                          ELSE IF i = cursor THEN c
                          ELSE IF i \in cursor + 1 .. end THEN buffer[i - 1] ELSE buffer[i]
  BY InsertBytes
<1>3. buffer' \in [Index -> Chars \cup {Nul}]
  BY <1>1 DEF Terminated
<1>4. buffer'[MaxSize] = Nul
  BY <1>0, <1>2, Sizes
<1>5. ASSUME NEW i \in 0 .. end' - 1 PROVE buffer'[i] # Nul
  <2>1. i \in Index /\ i # end + 1
    BY <1>0, Sizes
  <2>2. CASE i = cursor
    BY <1>2, <2>1, <2>2, LineAssumption
  <2>3. CASE i \in cursor + 1 .. end
    <3>1. i - 1 \in 0 .. end - 1 /\ i # cursor
      BY <2>3, Sizes
    <3> QED BY <1>2, <2>1, <2>3, <3>1, Sizes
  <2>4. CASE i # cursor /\ i \notin cursor + 1 .. end
    <3>1. i \in 0 .. end - 1
      BY <2>4, Sizes
    <3> QED BY <1>2, <2>1, <2>4, <3>1, Sizes
  <2> QED BY <2>2, <2>3, <2>4
<1>6. end' \in Index /\ cursor' \in 0 .. end'
  BY <1>0, Sizes
<1>7. ASSUME NEW i \in Index, i < cursor PROVE buffer'[i] = buffer[i]
  <2>1. i # end + 1 /\ i # cursor /\ i \notin cursor + 1 .. end
    BY <1>0, <1>7, Sizes
  <2> QED BY <1>2, <2>1
<1> QED BY <1>3, <1>4, <1>5, <1>6, <1>7 DEF Text

\* The bytes of the buffer when one has been taken out.
LEMMA BackspaceBytes ==
    ASSUME Inv, buffer' = Terminated(Closed(buffer), end - 1)
    PROVE  \A i \in Index : buffer'[i] = IF i = end - 1 THEN Nul
                                         ELSE IF i \in cursor - 1 .. end - 2 THEN buffer[i + 1]
                                         ELSE buffer[i]
BY DEF Terminated, Closed

LEMMA BackspaceText ==
    ASSUME Inv, cursor > 0,
           buffer' = Terminated(Closed(buffer), end - 1),
           end' = end - 1, cursor' = cursor - 1
    PROVE  /\ Text(buffer', end', cursor')
           /\ \A i \in Index : i < cursor /\ i < cursor' => buffer'[i] = buffer[i]
<1>0. Index = 0 .. MaxSize /\ end - 1 \in Index
  BY Sizes DEF Index
<1>1. Closed(buffer) \in [Index -> Chars \cup {Nul}]
  <2>1. ASSUME NEW i \in Index, i \in cursor - 1 .. end - 2 PROVE i + 1 \in Index
    BY <1>0, <2>1, Sizes
  <2> QED BY <2>1, Sizes DEF Closed
<1>2. ASSUME NEW i \in Index
      PROVE  buffer'[i] = IF i = end - 1 THEN Nul
                          ELSE IF i \in cursor - 1 .. end - 2 THEN buffer[i + 1] ELSE buffer[i]
  BY BackspaceBytes
<1>3. buffer' \in [Index -> Chars \cup {Nul}]
  BY <1>1 DEF Terminated
<1>4. buffer'[MaxSize] = Nul
  <2>1. MaxSize \in Index /\ MaxSize \notin cursor - 1 .. end - 2
    BY <1>0, Sizes
  <2> QED BY <1>2, <2>1, Sizes
<1>5. ASSUME NEW i \in 0 .. end' - 1 PROVE buffer'[i] # Nul
  <2>1. i \in Index /\ i # end - 1 /\ i \in 0 .. end - 1
    BY <1>0, Sizes
  <2>2. CASE i \in cursor - 1 .. end - 2
    <3>1. i + 1 \in 0 .. end - 1
      BY <2>2, <2>1, Sizes
    <3> QED BY <1>2, <2>1, <2>2, <3>1, Sizes
  <2>3. CASE i \notin cursor - 1 .. end - 2
    BY <1>2, <2>1, <2>3, Sizes
  <2> QED BY <2>2, <2>3
<1>6. end' \in Index /\ cursor' \in 0 .. end'
  BY <1>0, Sizes
<1>7. ASSUME NEW i \in Index, i < cursor' PROVE buffer'[i] = buffer[i]
  <2>1. i # end - 1 /\ i \notin cursor - 1 .. end - 2
    BY <1>0, <1>7, Sizes
  <2> QED BY <1>2, <2>1
<1> QED BY <1>3, <1>4, <1>5, <1>6, <1>7 DEF Text

LEMMA ClearText ==
    ASSUME Inv, Clear
    PROVE  Text(buffer', end', cursor')
<1>1. buffer' = [i \in Index |-> Nul] /\ end' = 0 /\ cursor' = 0
  BY DEF Clear
<1>2. MaxSize \in Index /\ 0 \in Index
  BY Sizes DEF Index
<1> QED BY <1>1, <1>2 DEF Text

LEMMA WrittenText ==
    ASSUME NEW b \in [Index -> Chars \cup {Nul}], b[MaxSize] = Nul,
           NEW line \in Recalled, NEW n, n = Fitting(line),
           NEW b2, b2 = [i \in Index |-> IF i < n THEN line[i + 1]
                                         ELSE IF i = MaxSize /\ n # MaxSize THEN b[i] ELSE Nul]
    PROVE  Text(b2, n, n)
<1>1. line \in Seq(Chars)
  BY LineAssumption
<1>2. Len(line) \in Nat /\ \A i \in 1 .. Len(line) : line[i] \in Chars
  BY <1>1
<1>3. n \in Nat /\ n <= MaxSize /\ n <= Len(line) /\ MaxSize \in Nat
  BY <1>2, LineAssumption DEF Fitting
<1>4. ASSUME NEW i \in Index, i < n PROVE line[i + 1] \in Chars
  <2>1. i + 1 \in 1 .. Len(line)
    BY <1>2, <1>3, <1>4 DEF Index
  <2> QED BY <1>2, <2>1
<1>5. b2 \in [Index -> Chars \cup {Nul}]
  BY <1>4
<1>6. b2[MaxSize] = Nul
  <2>1. MaxSize \in Index /\ ~(MaxSize < n)
    BY <1>3 DEF Index
  <2> QED BY <2>1
<1>7. ASSUME NEW i \in 0 .. n - 1 PROVE b2[i] # Nul
  <2>1. i \in Index /\ i < n
    BY <1>3 DEF Index
  <2>2. line[i + 1] \in Chars
    BY <1>4, <2>1
  <2> QED BY <2>1, <2>2, LineAssumption
<1>8. n \in Index
  BY <1>3 DEF Index
<1>9. n \in 0 .. n
  BY <1>3
<1> QED BY <1>5, <1>6, <1>7, <1>8, <1>9 DEF Text

LEMMA WriteText ==
    ASSUME Inv, NEW line \in Recalled, Write(line)
    PROVE  Text(buffer', end', cursor')
<1>1. /\ end' = Fitting(line) /\ cursor' = end'
      /\ buffer' = [i \in Index |-> IF i < end' THEN line[i + 1]
                                    ELSE IF i = MaxSize /\ end' # MaxSize THEN buffer[i] ELSE Nul]
  BY DEF Write
<1> QED BY <1>1, Sizes, WrittenText

-----------------------------------------------------------------------------
(* The invariant. *)

LEMMA InitInv == Init => Inv
<1> SUFFICES ASSUME Init PROVE Inv
  OBVIOUS
<1>1. buffer = [i \in Index |-> Nul] /\ end = 0 /\ cursor = 0 /\ MaxSize \in Nat
  BY LineAssumption DEF Init
<1>2. Text(buffer, end, cursor)
  BY <1>1 DEF Text, Index
<1>3. PromptSize["USERNAME"] \in Nat /\ "USERNAME" \in Modes /\ mode = "USERNAME"
  BY LineAssumption DEF Modes, Init
<1>4. drawn = Cells
  BY <1>1, <1>3 DEF Init, Cells
<1>5. row \in Int
  <2>1. RowOf("USERNAME", 0) \in Nat
    BY <1>3, Rows
  <2>2. PromptSize["USERNAME"] + 0 = PromptSize["USERNAME"]
    BY <1>3
  <2> QED BY <2>1, <2>2 DEF Init, RowOf
<1>6. Len(entered) \in 0 .. MaxSize
  <2>1. entered = << >> /\ Len(<< >>) = 0
    BY DEF Init
  <2> QED BY <1>1, <2>1
<1>7. Shows(display_cursor, drawn, mode)
  <2>1. Cells = CellsOf(buffer, end, mode) /\ display_cursor = cursor
    BY DEF Cells, CellsOf, Init
  <2> QED BY <1>2, <1>3, <1>4, <2>1, CellsShow
<1>8. ModeInv
  BY <1>1, <1>3 DEF Init, ModeInv, States
<1>9. DrawnInv
  <2>1. display_cursor = cursor /\ unshown = FALSE /\ begins = 0
    BY DEF Init
  <2>2. begins \in Int /\ begins <= 0
    BY DEF Init
  <2>3. unshown \in BOOLEAN
    BY DEF Init
  <2> QED BY <1>4, <1>5, <1>7, <2>1, <2>2, <2>3 DEF DrawnInv
<1>10. tab \in BOOLEAN
  BY DEF Init
<1> QED BY <1>2, <1>6, <1>8, <1>9, <1>10 DEF Inv

LEMMA ModeKept ==
    ASSUME Inv, UNCHANGED <<shell, mode>>,
           shell # "YIELD" \/ UNCHANGED textVars \/ Clear
    PROVE  ModeInv'
BY DEF Inv, ModeInv, textVars, Clear

\* The keys that change the line and draw it from the cursor on.
LEMMA KeyKeeps ==
    ASSUME Inv, Edits, RefreshFromCursor, Text(buffer', end', cursor'),
           \A i \in Index : i < cursor /\ i < cursor' => buffer'[i] = buffer[i]
    PROVE  Inv'
<1>1. UNCHANGED <<shell, mode, entered>> /\ tab' = FALSE /\ shell # "YIELD"
  BY DEF Edits, Reads
<1>2. DrawnInv'
  BY <1>1, PartShows
<1>3. ModeInv'
  BY <1>1, ModeKept
<1> QED BY <1>1, <1>2, <1>3 DEF Inv

\* The uses that draw all of the line.
LEMMA UseKeeps ==
    ASSUME Inv, FullRefresh \/ RefreshBelow \/ RefreshOnCleared,
           Text(buffer', end', cursor'), ModeInv', tab' \in BOOLEAN,
           entered' = entered \/ entered' = ReadBuffer
    PROVE  Inv'
<1>1. DrawnInv'
  BY FullShows DEF Inv, ModeInv
<1>2. Len(entered') \in 0 .. MaxSize
  BY ReadFits DEF Inv
<1> QED BY <1>1, <1>2 DEF Inv

LEMMA KeptText ==
    ASSUME Inv, UNCHANGED textVars
    PROVE  Text(buffer', end', cursor')
BY DEF textVars, Inv, Text

LEMMA KeptInv ==
    ASSUME Inv, UNCHANGED <<shell, textVars, screenVars, mode, entered>>, tab' \in BOOLEAN
    PROVE  Inv'
<1>1. Text(buffer', end', cursor') /\ ModeInv'
  BY KeptText, ModeKept
<1>2. DrawnInv'
  BY DEF Inv, DrawnInv, textVars, screenVars, Shows, Cells
<1> QED BY <1>1, <1>2 DEF Inv

\* A line that is cleared and not drawn.
LEMMA UnshownKeeps ==
    ASSUME Inv, Clear, mode' = mode, ModeInv', tab' = FALSE, entered' = ReadBuffer,
           UNCHANGED <<display_cursor, begins, row, drawn>>,
           unshown' \in BOOLEAN, ~unshown' => ~unshown /\ end = 0
    PROVE  Inv'
<1>1. Text(buffer', end', cursor') /\ Len(entered') \in 0 .. MaxSize
  BY ClearText, ReadFits
<1>2. Shows(display_cursor', drawn', mode')
  BY DEF Inv, DrawnInv, Shows
<1>3. ASSUME ~unshown' PROVE display_cursor' = cursor' /\ drawn' = Cells'
  <2>1. end = 0 /\ cursor = 0 /\ end' = 0 /\ cursor' = 0 /\ ~unshown
    BY <1>3, Sizes DEF Clear
  <2>2. Cells' = Cells
    <3>1. PromptSize[mode] \in Nat
      BY LineAssumption DEF Inv, ModeInv
    <3> QED BY <2>1, <3>1 DEF Cells
  <2> QED BY <2>1, <2>2 DEF Inv, DrawnInv
<1>4. DrawnInv'
  BY <1>2, <1>3 DEF Inv, DrawnInv
<1> QED BY <1>1, <1>4 DEF Inv

LEMMA MoveKeeps ==
    ASSUME Inv, NEW p \in 0 .. end, MoveTo(p)
    PROVE  Inv'
<1>1. buffer' = buffer /\ end' = end /\ cursor' = p /\ Edits /\ RefreshFromCursor
  BY DEF MoveTo
<1>2. Text(buffer', end', cursor')
  BY <1>1 DEF Inv, Text
<1> QED BY <1>1, <1>2, KeyKeeps

LEMMA KeysKeep == Inv /\ Keys => Inv'
<1> SUFFICES ASSUME Inv, Keys PROVE Inv'
  OBVIOUS
<1>1. ASSUME NEW c \in Chars, Insert(c) PROVE Inv'
  <2>1. CASE Allowed(mode, c) /\ end # MaxSize
    BY <1>1, <2>1, InsertText, KeyKeeps DEF Insert
  <2>2. CASE ~(Allowed(mode, c) /\ end # MaxSize)
    BY <1>1, <2>2, KeptInv DEF Insert, Edits, Reads
  <2> QED BY <2>1, <2>2
<1>2. CASE Backspace
  <2>1. CASE cursor > 0
    BY <1>2, <2>1, BackspaceText, KeyKeeps DEF Backspace
  <2>2. CASE ~(cursor > 0)
    BY <1>2, <2>2, KeptInv DEF Backspace, Edits, Reads
  <2> QED BY <2>1, <2>2
<1>3. CASE Home \/ End \/ Back \/ Forward
  <2>1. PICK p \in 0 .. end : MoveTo(p)
    BY <1>3, Sizes DEF Home, End, Back, Forward
  <2> QED BY <2>1, MoveKeeps
<1>4. CASE DeleteFromCursor
  <2>1. buffer' = buffer /\ end' = cursor /\ cursor' = cursor /\ Edits /\ RefreshFromCursor
    BY <1>4 DEF DeleteFromCursor
  <2>2. Text(buffer', end', cursor')
    BY <2>1, Sizes DEF Text, Index
  <2> QED BY <2>1, <2>2, KeyKeeps
<1>5. CASE DeleteLine
  <2>1. buffer' = buffer /\ end' = 0 /\ cursor' = 0 /\ Edits /\ RefreshFromCursor
    BY <1>5 DEF DeleteLine
  <2>2. Text(buffer', end', cursor')
    BY <2>1, Sizes DEF Text, Index
  <2> QED BY <2>1, <2>2, KeyKeeps
<1>6. CASE OtherSymbol
  BY <1>6, KeptInv DEF OtherSymbol, Edits, Reads
<1>7. CASE Tab
  <2>1. UNCHANGED textVars /\ tab' = TRUE /\ UNCHANGED <<shell, mode, entered>>
    BY <1>7 DEF Tab, Reads
  <2>2. CASE FullRefresh
    BY <2>1, <2>2, ModeKept, KeptText, UseKeeps
  <2>3. CASE UNCHANGED screenVars
    BY <2>1, <2>3, KeptInv
  <2> QED BY <1>7, <2>2, <2>3 DEF Tab
<1> QED BY <1>1, <1>2, <1>3, <1>4, <1>5, <1>6, <1>7 DEF Keys

\* The uses that end with the line drawn anew, or in place.
Draws ==
    \/ FoundMany \/ EnterName \/ EnterAccepted \/ EnterRefused \/ LeaveFail
    \/ EnterLine \/ Resume \/ ClearLine \/ oob_login \/ oob_logout \/ Refresh

LEMMA DrawsDraw == Draws => FullRefresh \/ RefreshBelow \/ RefreshOnCleared
BY DEF Draws, FoundMany, EnterName, EnterAccepted, EnterRefused, LeaveFail, EnterLine, Resume,
       Ends, ClearLine, oob_login, oob_logout, Refresh

LEMMA DrawsModes ==
    ASSUME Inv, Draws
    PROVE  ModeInv'
<1>1. CASE FoundMany \/ ClearLine \/ Refresh
  BY <1>1, ModeKept DEF FoundMany, ClearLine, Refresh
<1>2. CASE EnterName \/ EnterAccepted \/ EnterRefused \/ LeaveFail
  BY <1>2 DEF EnterName, EnterAccepted, EnterRefused, LeaveFail, Execs, Inv, ModeInv, Modes, States
<1>3. CASE EnterLine \/ Resume \/ oob_login \/ oob_logout
  BY <1>3 DEF EnterLine, Resume, Ends, oob_login, oob_logout, Inv, ModeInv, Modes, States
<1> QED BY <1>1, <1>2, <1>3 DEF Draws

LEMMA DrawsKeep == Inv /\ Draws => Inv'
<1> SUFFICES ASSUME Inv, Draws PROVE Inv'
  OBVIOUS
<1>1. UNCHANGED textVars \/ Clear
  BY DEF Draws, FoundMany, EnterName, EnterAccepted, EnterRefused, LeaveFail, EnterLine, Resume,
         ClearLine, oob_login, oob_logout, Refresh
<1>2. tab' = tab \/ tab' = FALSE
  BY DEF Draws, FoundMany, EnterName, EnterAccepted, EnterRefused, LeaveFail, EnterLine, Resume,
         ClearLine, oob_login, oob_logout, Refresh, Execs
<1>3. entered' = entered \/ entered' = ReadBuffer
  BY DEF Draws, FoundMany, EnterName, EnterAccepted, EnterRefused, LeaveFail, EnterLine, Resume,
         ClearLine, oob_login, oob_logout, Refresh, Execs
<1>4. Text(buffer', end', cursor') /\ tab' \in BOOLEAN
  BY <1>1, <1>2, KeptText, ClearText DEF Inv
<1> QED BY <1>3, <1>4, DrawsDraw, DrawsModes, UseKeeps

LEMMA UsesKeep == Inv /\ Uses => Inv'
<1> SUFFICES ASSUME Inv, Uses PROVE Inv'
  OBVIOUS
<1>1. CASE EnterNoName
  <2>1. /\ shell = "USERNAME" /\ tab' = FALSE /\ entered' = ReadBuffer /\ Clear
        /\ UNCHANGED <<shell, mode, display_cursor, begins, row, drawn>>
        /\ unshown' = (unshown \/ end # 0)
    BY <1>1 DEF EnterNoName, Execs
  <2>2. unshown' \in BOOLEAN /\ (~unshown' => ~unshown /\ end = 0)
    BY <2>1 DEF Inv, DrawnInv
  <2> QED BY <2>1, <2>2, ModeKept, UnshownKeeps
<1>2. CASE EnterYields
  <2>1. /\ shell = "LINE" /\ tab' = FALSE /\ entered' = ReadBuffer /\ Clear
        /\ UNCHANGED <<mode, display_cursor, begins, row, drawn>>
        /\ shell' = "YIELD" /\ unshown' = TRUE
    BY <1>2 DEF EnterYields, Execs
  <2>2. ModeInv'
    BY <2>1 DEF Inv, ModeInv, Clear, States
  <2> QED BY <2>1, <2>2, UnshownKeeps
<1>3. ASSUME NEW line \in Recalled, Write(line) PROVE Inv'
  <2>1. /\ FullRefresh /\ UNCHANGED <<shell, mode, entered>> /\ tab' \in BOOLEAN
        /\ shell = "LINE"
    BY <1>3 DEF Write
  <2> QED BY <1>3, <2>1, ModeKept, WriteText, UseKeeps
<1> QED BY <1>1, <1>2, <1>3, DrawsKeep DEF Uses, Draws

LEMMA StepInv == Inv /\ [Next]_vars => Inv'
<1>1. ASSUME Inv, UNCHANGED vars PROVE Inv'
  BY <1>1, KeptInv DEF vars, Inv
<1> QED BY <1>1, KeysKeep, UsesKeep DEF Next

\* The variables keep their types: cursor and end stay inside the buffer, and
\* what Enter reads fits in it.
THEOREM TypeCorrect == Spec => []TypeOK
<1>1. Inv => TypeOK
  BY DEF Inv, ModeInv, DrawnInv, Shows, Text, TypeOK
<1> QED BY InitInv, StepInv, <1>1, PTL DEF Spec

\* No key and no use of the line leaves a terminator inside the text.
THEOREM TextHasNoHole == Spec => []NoHole
<1>1. Inv => NoHole
  BY DEF Inv, Text, NoHole
<1> QED BY InitInv, StepInv, <1>1, PTL DEF Spec

\* On a password's line, wherever the shell is, the terminal shows none of it, on
\* any width.
THEOREM PasswordIsHidden == Spec => []PasswordHidden
<1>1. Inv => PasswordHidden
  BY DEF Inv, ModeInv, DrawnInv, Shows, PasswordHidden
<1> QED BY InitInv, StepInv, <1>1, PTL DEF Spec

-----------------------------------------------------------------------------
(* The row of the terminal's cursor.                                        *)

\* No prompt and line together are longer than two rows.
TwoRows == \A m \in Modes : PromptSize[m] + MaxSize < 2 * Cols

LEMMA RowIsZeroOrOne ==
    ASSUME TwoRows, NEW m \in Modes, NEW x \in Index
    PROVE  RowOf(m, x) \in {0, 1}
<1>1. /\ PromptSize[m] + x \in Nat /\ PromptSize[m] + x < 2 * Cols
      /\ Cols \in Nat \ {0}
  BY LineAssumption DEF TwoRows, Index
<1>2. ASSUME NEW z \in Nat, NEW w \in Nat \ {0}, z < 2 * w PROVE z \div w \in {0, 1}
  BY <1>2
<1> QED BY <1>1, <1>2 DEF RowOf

\* The terminal's cursor is on the row of the displayed cursor.
RowInv == row = begins + RowOf(mode, display_cursor)

\* A refresh of all of the line draws it from the row it was drawn from, when the
\* terminal's cursor was where the displayed one is, or from another one.
LEMMA RowAfterAll ==
    ASSUME Inv, Inv',
           \/ RowInv /\ mode' = mode /\ FullRefresh
           \/ RefreshBelow \/ RefreshOnCleared
    PROVE  RowInv'
<1>1. /\ DisplayRow \in Nat /\ display_cursor' = cursor'
      /\ Text(buffer', end', cursor') /\ mode' \in Modes
      /\ begins \in Int
  BY DisplayRowTyped, FullShows DEF Inv, ModeInv, DrawnInv
<1>2. CASE RowInv /\ mode' = mode /\ FullRefresh
  <2>1. /\ row' = row - DisplayRow + RowOf(mode', cursor') /\ RowOf(mode', cursor') \in Nat
        /\ begins' = begins
    BY <1>1, <1>2, RedrawShows DEF FullRefresh
  <2>2. row = begins + DisplayRow
    BY <1>2 DEF RowInv, DisplayRow
  <2>3. row' = begins' + RowOf(mode', cursor')
    BY <1>1, <2>1, <2>2
  <2> QED BY <1>1, <2>3 DEF RowInv
<1>3. ASSUME NEW up \in Nat, DrawnAnew(up) PROVE RowInv'
  <2>1. PICK at, cells : at = 0 /\ cells = << >>
    OBVIOUS
  <2>2. Redraw(up, 0, at, cells) /\ begins' = -up
    BY <1>3, <2>1 DEF DrawnAnew
  <2>3. row' = at - up + RowOf(mode', cursor') /\ RowOf(mode', cursor') \in Nat
    BY <1>1, <2>2, RedrawShows
  <2>4. row' = begins' + RowOf(mode', cursor')
    BY <2>1, <2>2, <2>3
  <2> QED BY <1>1, <2>4 DEF RowInv
<1>4. \A up \in 0 .. DisplayRow : up \in Nat
  BY <1>1
<1> QED BY <1>1, <1>2, <1>3, <1>4 DEF RefreshBelow, RefreshOnCleared

\* On two rows, moving up by one row is moving up to the row of the cursor.
LEMMA RowAfterPart ==
    ASSUME Inv, Inv', TwoRows, RowInv, mode' = mode, RefreshFromCursor
    PROVE  RowInv'
<1> DEFINE t == RowOf(mode', cursor')
           d == RowOf(mode', display_cursor)
<1>1. t \in {0, 1} /\ d \in {0, 1} /\ begins \in Int /\ row = begins + d
  <2>1. mode' \in Modes /\ display_cursor \in Index /\ cursor' \in Index /\ begins \in Int
    <3>1. Text(buffer', end', cursor') /\ end' \in 0 .. MaxSize /\ MaxSize \in Nat
      BY LineAssumption DEF Inv, Text, Index
    <3>2. cursor' \in Nat /\ cursor' <= end'
      BY <3>1, CellsTyped DEF Inv, ModeInv
    <3> QED BY <3>1, <3>2 DEF Inv, ModeInv, DrawnInv, Shows, Index
  <2> QED BY <2>1, RowIsZeroOrOne DEF RowInv
<1>2. row' = row - RowsUp(t, d) + (t - FirstRow(t, d)) /\ begins' = begins /\ display_cursor' = cursor'
  BY DEF RefreshFromCursor, Redraw, CursorRow, DisplayRow
<1> HIDE DEF t, d
<1>3. row' = begins' + t
  BY <1>1, <1>2 DEF RowsUp, FirstRow
<1> QED BY <1>2, <1>3 DEF t, RowInv

LEMMA StepRow ==
    ASSUME Inv, Inv', TwoRows, RowInv, [Next]_vars
    PROVE  RowInv'
<1>1. CASE UNCHANGED <<row, begins, mode, display_cursor>>
  BY <1>1 DEF RowInv
<1>2. CASE mode' = mode /\ (FullRefresh \/ RefreshFromCursor)
  BY <1>2, RowAfterAll, RowAfterPart
<1>3. CASE RefreshBelow \/ RefreshOnCleared
  BY <1>3, RowAfterAll
<1>4. CASE Keys
  <2>1. mode' = mode
    BY <1>4 DEF Keys, Insert, Backspace, Home, End, Back, Forward, MoveTo,
                DeleteFromCursor, DeleteLine, OtherSymbol, Tab, Edits, Reads
  <2>2. FullRefresh \/ RefreshFromCursor \/ UNCHANGED <<row, begins, display_cursor>>
    BY <1>4 DEF Keys, Insert, Backspace, Home, End, Back, Forward, MoveTo,
                DeleteFromCursor, DeleteLine, OtherSymbol, Tab, screenVars
  <2> QED BY <2>1, <2>2, <1>1, <1>2
<1>5. CASE Uses
  <2>1. CASE EnterNoName \/ EnterYields
    BY <1>1, <2>1 DEF EnterNoName, EnterYields
  <2>2. CASE FoundMany \/ EnterName \/ EnterAccepted \/ EnterRefused \/ LeaveFail
    BY <1>3, <2>2 DEF FoundMany, EnterName, EnterAccepted, EnterRefused, LeaveFail
  <2>3. CASE EnterLine \/ Resume \/ oob_login \/ oob_logout
    BY <1>3, <2>3 DEF EnterLine, Resume, Ends, oob_login, oob_logout
  <2>4. CASE ClearLine \/ Refresh \/ \E line \in Recalled : Write(line)
    BY <1>2, <1>3, <2>4 DEF ClearLine, Refresh, Write
  <2> QED BY <1>5, <2>1, <2>2, <2>3, <2>4 DEF Uses
<1>6. CASE UNCHANGED vars
  BY <1>6, <1>1 DEF vars, screenVars
<1> QED BY <1>4, <1>5, <1>6 DEF Next

\* On a line of at most two rows the terminal shows the line from the row it was
\* drawn from and has its cursor on the row of the line's, whatever is typed and
\* whatever the shell does with the line, but for a clear that draws nothing.
THEOREM ScreenIsRight ==
    ASSUME TwoRows
    PROVE  Spec => []ScreenShowsLine
<1> DEFINE ScreenInv == Inv /\ RowInv
<1>1. Init => ScreenInv
  <2>1. ASSUME Init PROVE RowInv
    <3>1. PromptSize["USERNAME"] \in Nat
      BY LineAssumption DEF Modes
    <3>2. RowOf("USERNAME", 0) = PromptSize["USERNAME"] \div Cols
      BY <3>1 DEF RowOf
    <3>3. RowOf("USERNAME", 0) \in Nat
      BY Rows DEF Modes
    <3> QED BY <2>1, <3>2, <3>3 DEF Init, RowInv
  <2> QED BY <2>1, InitInv
<1>2. ScreenInv /\ [Next]_vars => ScreenInv'
  BY StepInv, StepRow
<1>3. ScreenInv => ScreenShowsLine
  BY DEF ScreenShowsLine, Inv, DrawnInv, RowInv
<1> HIDE DEF ScreenInv
<1> QED BY <1>1, <1>2, <1>3, PTL DEF Spec

-----------------------------------------------------------------------------
(* What Enter reads, when ^K and ^U are not typed. *)

\* The byte at the end of the text is a terminator.
Ended == buffer[end] = Nul

LEMMA WrittenEnded ==
    ASSUME NEW b, NEW line, NEW n \in Index,
           NEW b2, b2 = [i \in Index |-> IF i < n THEN line[i + 1]
                                         ELSE IF i = MaxSize /\ n # MaxSize THEN b[i] ELSE Nul]
    PROVE  b2[n] = Nul
BY LineAssumption DEF Index

LEMMA StepEnded ==
    ASSUME Inv, Inv', ~Kills, Ended, [Next]_vars
    PROVE  Ended'
<1>0. end \in Index /\ end' \in Index
  BY DEF Inv, Text
<1>1. CASE UNCHANGED <<buffer, end>>
  BY <1>1 DEF Ended
<1>2. CASE Clear
  BY <1>0, <1>2 DEF Clear, Ended
<1>3. ASSUME NEW c \in Chars, Insert(c) PROVE Ended'
  <2>1. CASE Allowed(mode, c) /\ end # MaxSize
    <3>1. buffer' = [Opened(buffer, c) EXCEPT ![end'] = Nul] /\ DOMAIN Opened(buffer, c) = Index
      BY <1>3, <2>1 DEF Insert, Terminated, Opened
    <3> QED BY <1>0, <3>1 DEF Ended
  <2>2. CASE ~(Allowed(mode, c) /\ end # MaxSize)
    BY <1>1, <1>3, <2>2 DEF Insert, textVars
  <2> QED BY <2>1, <2>2
<1>4. CASE Backspace
  <2>1. CASE cursor > 0
    <3>1. buffer' = [Closed(buffer) EXCEPT ![end'] = Nul] /\ DOMAIN Closed(buffer) = Index
      BY <1>4, <2>1 DEF Backspace, Terminated, Closed
    <3> QED BY <1>0, <3>1 DEF Ended
  <2>2. CASE ~(cursor > 0)
    BY <1>1, <1>4, <2>2 DEF Backspace, textVars
  <2> QED BY <2>1, <2>2
<1>5. CASE \/ Home \/ End \/ Back \/ Forward \/ DeleteFromCursor \/ DeleteLine
           \/ OtherSymbol \/ Tab
  BY <1>1, <1>5 DEF Home, End, Back, Forward, MoveTo, DeleteFromCursor, DeleteLine,
                    OtherSymbol, Tab, textVars
<1>6. ASSUME NEW line \in Recalled, Write(line) PROVE Ended'
  BY <1>0, <1>6, WrittenEnded DEF Write, Ended
<1>7. CASE FoundMany \/ EnterRefused \/ Resume \/ oob_logout \/ Refresh
  BY <1>1, <1>7 DEF FoundMany, EnterRefused, Resume, oob_logout, Refresh, textVars
<1>8. CASE \/ EnterName \/ EnterNoName \/ EnterAccepted \/ LeaveFail
           \/ EnterLine \/ EnterYields \/ ClearLine \/ oob_login
  BY <1>2, <1>8 DEF EnterName, EnterNoName, EnterAccepted, LeaveFail,
                    EnterLine, EnterYields, ClearLine, oob_login
<1>9. CASE UNCHANGED vars
  BY <1>1, <1>9 DEF vars, textVars
<1> QED BY <1>3, <1>4, <1>5, <1>6, <1>7, <1>8, <1>9 DEF Next, Keys, Uses

LEMMA InitEnded == Init => Ended
BY LineAssumption DEF Init, Ended, Index

LEMMA EndedIsShown ==
    ASSUME Inv, Ended
    PROVE  ReadIsShown
<1>1. Stops \subseteq Nat /\ end \in Stops /\ end \in Nat
  BY Sizes DEF Inv, Text, Ended, Stops, Index
<1>2. \A i \in Stops : end <= i
  BY <1>1 DEF Inv, Text, Stops
<1>3. Min(Stops) = end
  BY <1>1, <1>2, SmallestIs
<1> QED BY <1>1, <1>3 DEF ReadBuffer, ReadIsShown

\* Without ^K and ^U, Enter hands the shell the text that is shown, and no more.
THEOREM EnterReadsWhatIsShown ==
    ASSUME ~Kills
    PROVE  Spec => []ReadIsShown
<1> DEFINE EndInv == Inv /\ Ended
<1>1. Init => EndInv
  BY InitInv, InitEnded
<1>2. EndInv /\ [Next]_vars => EndInv'
  BY StepInv, StepEnded
<1>3. EndInv => ReadIsShown
  BY EndedIsShown
<1> HIDE DEF EndInv
<1> QED BY <1>1, <1>2, <1>3, PTL DEF Spec

-----------------------------------------------------------------------------
(* The buffer as a text. *)

TextOf(b, e) == [i \in 1 .. e |-> b[i - 1]]

LEMMA TextTyped ==
    ASSUME NEW b, NEW e, NEW c, Text(b, e, c)
    PROVE  /\ TextOf(b, e) \in Seq(Chars \cup {Nul}) /\ Len(TextOf(b, e)) = e
           /\ e \in Nat /\ c \in Nat /\ c <= e /\ e <= MaxSize
<1>1. e \in Nat /\ c \in Nat /\ c <= e /\ e <= MaxSize /\ MaxSize \in Nat
  BY LineAssumption DEF Text, Index
<1>2. ASSUME NEW i \in 1 .. e PROVE b[i - 1] \in Chars \cup {Nul}
  <2>1. i - 1 \in Index
    BY <1>1 DEF Index
  <2> QED BY <2>1 DEF Text
<1>3. TextOf(b, e) \in [1 .. e -> Chars \cup {Nul}]
  BY <1>2 DEF TextOf
<1> QED BY <1>1, <1>3

LEMMA JoinIs ==
    ASSUME NEW S, NEW p \in Seq(S), NEW q \in Seq(S), NEW b \in Seq(S),
           Len(b) = Len(p) + Len(q),
           \A i \in 1 .. Len(p) : b[i] = p[i],
           \A i \in 1 .. Len(q) : b[Len(p) + i] = q[i]
    PROVE  b = p \o q
<1>0. Len(p) \in Nat /\ Len(q) \in Nat
  OBVIOUS
<1>1. /\ p \o q \in Seq(S)
      /\ Len(p \o q) = Len(p) + Len(q)
      /\ \A i \in 1 .. Len(p) + Len(q) : (p \o q)[i] = IF i <= Len(p) THEN p[i] ELSE q[i - Len(p)]
  BY ConcatProperties
<1>2. ASSUME NEW i \in 1 .. Len(b) PROVE b[i] = (p \o q)[i]
  <2>1. (p \o q)[i] = IF i <= Len(p) THEN p[i] ELSE q[i - Len(p)]
    BY <1>1
  <2>2. CASE i <= Len(p)
    BY <2>1, <2>2
  <2>3. CASE ~(i <= Len(p))
    <3>1. i - Len(p) \in 1 .. Len(q) /\ Len(p) + (i - Len(p)) = i
      BY <1>0, <2>3
    <3> QED BY <2>1, <2>3, <3>1
  <2> QED BY <2>2, <2>3
<1>3. Len(b) = Len(p \o q)
  BY <1>1
<1> QED BY <1>1, <1>2, <1>3, SeqEqual

\* A piece of a sequence taken out.
LEMMA TakenOut ==
    ASSUME NEW S, NEW a \in Seq(S), NEW k \in Nat, NEW j \in Nat, k <= j,
           NEW n \in Nat, Len(a) = j + n,
           NEW b \in Seq(S), Len(b) = k + n,
           \A i \in 1 .. k + n : b[i] = IF i <= k THEN a[i] ELSE a[i - k + j]
    PROVE  b = SubSeq(a, 1, k) \o SubSeq(a, j + 1, Len(a))
<1> DEFINE p == SubSeq(a, 1, k)
           q == SubSeq(a, j + 1, Len(a))
<1>1. k <= Len(a)
  OBVIOUS
<1>2. p \in Seq(S) /\ Len(p) = k /\ \A i \in 1 .. k : p[i] = a[i]
  BY <1>1, FirstPiece
<1>3. q \in Seq(S) /\ Len(q) = n /\ \A i \in 1 .. n : q[i] = a[j + i]
  BY LastPiece
<1> HIDE DEF p, q
<1>4. ASSUME NEW i \in 1 .. k PROVE b[i] = p[i]
  BY <1>2
<1>5. ASSUME NEW i \in 1 .. n PROVE b[k + i] = q[i]
  <2>1. k + i \in 1 .. k + n /\ ~(k + i <= k) /\ (k + i) - k + j = j + i
    OBVIOUS
  <2> QED BY <1>3, <2>1
<1>6. b = p \o q
  <2>1. Len(b) = Len(p) + Len(q)
    BY <1>2, <1>3
  <2>2. \A i \in 1 .. Len(p) : b[i] = p[i]
    BY <1>2, <1>4
  <2>3. \A i \in 1 .. Len(q) : b[Len(p) + i] = q[i]
    BY <1>2, <1>3, <1>5
  <2> QED BY <1>2, <1>3, <2>1, <2>2, <2>3, JoinIs
<1> QED BY <1>6 DEF p, q

\* An element put in.
LEMMA PutIn ==
    ASSUME NEW S, NEW a \in Seq(S), NEW k \in Nat, NEW n \in Nat, Len(a) = k + n,
           NEW x \in S,
           NEW b \in Seq(S), Len(b) = k + 1 + n,
           \A i \in 1 .. k + 1 + n :
               b[i] = IF i <= k THEN a[i] ELSE IF i = k + 1 THEN x ELSE a[i - 1]
    PROVE  b = SubSeq(a, 1, k) \o <<x>> \o SubSeq(a, k + 1, Len(a))
<1> DEFINE p == SubSeq(a, 1, k)
           q == SubSeq(a, k + 1, Len(a))
           r == p \o <<x>>
<1>1. k <= Len(a)
  OBVIOUS
<1>2. p \in Seq(S) /\ Len(p) = k /\ \A i \in 1 .. k : p[i] = a[i]
  BY <1>1, FirstPiece
<1>3. q \in Seq(S) /\ Len(q) = n /\ \A i \in 1 .. n : q[i] = a[k + i]
  BY LastPiece
<1> HIDE DEF p, q
<1>4. /\ r \in Seq(S) /\ Len(r) = k + 1
      /\ \A i \in 1 .. k : r[i] = p[i]
      /\ r[k + 1] = x
  <2>1. Append(p, x) = p \o <<x>>
    BY <1>2, AppendIsConcat
  <2>2. /\ Append(p, x) \in Seq(S) /\ Len(Append(p, x)) = Len(p) + 1
        /\ \A i \in 1 .. Len(p) : Append(p, x)[i] = p[i]
        /\ Append(p, x)[Len(p) + 1] = x
    BY <1>2, AppendProperties
  <2> QED BY <1>2, <2>1, <2>2
<1> HIDE DEF r
<1>5. ASSUME NEW i \in 1 .. k + 1 PROVE b[i] = r[i]
  <2>1. i \in 1 .. k + 1 + n
    OBVIOUS
  <2>2. CASE i <= k
    BY <1>2, <1>4, <2>1, <2>2
  <2>3. CASE i = k + 1
    BY <1>4, <2>1, <2>3
  <2> QED BY <2>2, <2>3
<1>6. ASSUME NEW i \in 1 .. n PROVE b[(k + 1) + i] = q[i]
  <2>1. /\ (k + 1) + i \in 1 .. k + 1 + n /\ ~((k + 1) + i <= k) /\ (k + 1) + i # k + 1
        /\ ((k + 1) + i) - 1 = k + i
    OBVIOUS
  <2> QED BY <1>3, <2>1
<1>7. b = r \o q
  <2>1. Len(b) = Len(r) + Len(q)
    BY <1>3, <1>4
  <2>2. \A i \in 1 .. Len(r) : b[i] = r[i]
    BY <1>4, <1>5
  <2>3. \A i \in 1 .. Len(q) : b[Len(r) + i] = q[i]
    BY <1>3, <1>4, <1>6
  <2> QED BY <1>3, <1>4, <2>1, <2>2, <2>3, JoinIs
<1> QED BY <1>7 DEF p, q, r

-----------------------------------------------------------------------------
(* The line is the editor a user has in mind, when ^K and ^U are not typed.   *)

LEMMA NoText == \A b : TextOf(b, 0) = << >>
<1>1. ASSUME NEW b PROVE TextOf(b, 0) = << >>
  <2>1. TextOf(b, 0) \in [1 .. 0 -> {}]
    BY DEF TextOf
  <2>2. TextOf(b, 0) \in Seq({}) /\ Len(TextOf(b, 0)) = 0
    BY <2>1
  <2> QED BY <2>2, EmptySeq
<1> QED BY <1>1

\* The variables of the editor, as the line has them.
LEMMA EditorVars ==
    ASSUME TextOf(buffer', end') = TextOf(buffer, end), UNCHANGED <<cursor, mode, entered>>
    PROVE  UNCHANGED Editor!vars
BY DEF Editor!vars, TextOf

LEMMA InsertEdits ==
    ASSUME Inv, Inv', NEW c \in Chars, Insert(c)
    PROVE  Editor!Insert(c) \/ UNCHANGED Editor!vars
<1>1. CASE ~(Allowed(mode, c) /\ end # MaxSize)
  BY <1>1, EditorVars DEF Insert, Edits, Reads, textVars
<1>2. CASE Allowed(mode, c) /\ end # MaxSize
  <2> DEFINE V == Chars \cup {Nul}
             a == TextOf(buffer, end)
             b == TextOf(buffer', end')
  <2>1. /\ a \in Seq(V) /\ Len(a) = end
        /\ b \in Seq(V) /\ Len(b) = end'
        /\ cursor \in Nat /\ cursor <= end /\ end <= MaxSize /\ end \in Nat /\ MaxSize \in Nat
    BY TextTyped, LineAssumption DEF Inv
  <2>2. /\ buffer' = Terminated(Opened(buffer, c), end + 1)
        /\ end' = end + 1 /\ cursor' = cursor + 1 /\ UNCHANGED <<mode, entered>>
    BY <1>2 DEF Insert, Edits, Reads
  <2>3. ASSUME NEW i \in 1 .. end + 1
        PROVE  b[i] = IF i <= cursor THEN a[i] ELSE IF i = cursor + 1 THEN c ELSE a[i - 1]
    <3>1. i - 1 \in Index /\ i - 1 # end + 1 /\ i \in 1 .. end'
      BY <2>1, <2>2 DEF Index
    <3>2. b[i] = buffer'[i - 1]
      BY <3>1 DEF TextOf
    <3>3. buffer'[i - 1] = IF i - 1 = cursor THEN c
                           ELSE IF i - 1 \in cursor + 1 .. end THEN buffer[(i - 1) - 1]
                           ELSE buffer[i - 1]
      BY <1>2, <2>2, <3>1, InsertBytes
    <3>4. CASE i <= cursor
      <4>1. i \in 1 .. end /\ i - 1 # cursor /\ i - 1 \notin cursor + 1 .. end
        BY <2>1, <3>4
      <4> QED BY <3>2, <3>3, <3>4, <4>1 DEF TextOf
    <3>5. CASE i = cursor + 1
      <4>1. i - 1 = cursor /\ ~(i <= cursor)
        BY <2>1, <3>5
      <4> QED BY <3>2, <3>3, <3>5, <4>1
    <3>6. CASE i > cursor + 1
      <4>1. /\ i - 1 \in 1 .. end /\ i - 1 # cursor /\ i - 1 \in cursor + 1 .. end
            /\ ~(i <= cursor) /\ i # cursor + 1
        BY <2>1, <3>6
      <4>2. a[i - 1] = buffer[(i - 1) - 1]
        BY <4>1 DEF TextOf
      <4> QED BY <3>2, <3>3, <4>1, <4>2
    <3>7. i <= cursor \/ i = cursor + 1 \/ i > cursor + 1
      BY <2>1
    <3> QED BY <3>4, <3>5, <3>6, <3>7
  <2>4. Len(b) = Len(a) + 1 /\ cursor <= Len(a) /\ c \in V /\ Len(b) = end + 1
    BY <2>1, <2>2
  <2> HIDE DEF a, b, V
  <2>5. b = SubSeq(a, 1, cursor) \o <<c>> \o SubSeq(a, cursor + 1, Len(a))
    <3>1. PICK k \in Nat : k = cursor
      BY <2>1
    <3>2. PICK n \in Nat : n = end - k
      BY <2>1, <3>1
    <3>3. Len(a) = k + n /\ Len(b) = k + 1 + n /\ c \in V /\ a \in Seq(V) /\ b \in Seq(V)
      BY <2>1, <2>4, <3>1, <3>2
    <3>4. \A i \in 1 .. k + 1 + n :
              b[i] = IF i <= k THEN a[i] ELSE IF i = k + 1 THEN c ELSE a[i - 1]
      <4>1. k + 1 + n = end + 1
        BY <2>1, <3>1, <3>2
      <4> QED BY <2>3, <3>1, <4>1
    <3>5. b = SubSeq(a, 1, k) \o <<c>> \o SubSeq(a, k + 1, Len(a))
      BY <3>3, <3>4, PutIn
    <3> QED BY <3>1, <3>5
  <2>6. Len(a) < MaxSize
    BY <1>2, <2>1
  <2> QED BY <1>2, <2>2, <2>5, <2>6 DEF Editor!Insert, TextOf, a, b
<1> QED BY <1>1, <1>2

LEMMA BackspaceEdits ==
    ASSUME Inv, Inv', Backspace
    PROVE  Editor!Backspace \/ UNCHANGED Editor!vars
<1>1. CASE ~(cursor > 0)
  BY <1>1, EditorVars DEF Backspace, Edits, Reads, textVars
<1>2. CASE cursor > 0
  <2> DEFINE V == Chars \cup {Nul}
             a == TextOf(buffer, end)
             b == TextOf(buffer', end')
  <2>1. /\ a \in Seq(V) /\ Len(a) = end
        /\ b \in Seq(V) /\ Len(b) = end'
        /\ cursor \in Nat /\ cursor <= end /\ end <= MaxSize /\ end \in Nat /\ MaxSize \in Nat
    BY TextTyped, LineAssumption DEF Inv
  <2>2. /\ buffer' = Terminated(Closed(buffer), end - 1)
        /\ end' = end - 1 /\ cursor' = cursor - 1 /\ UNCHANGED <<mode, entered>>
    BY <1>2 DEF Backspace, Edits, Reads
  <2>3. ASSUME NEW i \in 1 .. end - 1
        PROVE  b[i] = IF i <= cursor - 1 THEN a[i] ELSE a[i - (cursor - 1) + cursor]
    <3>1. /\ i - 1 \in Index /\ i - 1 # end - 1 /\ i \in 1 .. end' /\ i \in 1 .. end
          /\ i - (cursor - 1) + cursor = i + 1 /\ i + 1 \in 1 .. end
          /\ (i + 1) - 1 = (i - 1) + 1
      BY <2>1, <2>2 DEF Index
    <3>2. b[i] = buffer'[i - 1]
      BY <3>1 DEF TextOf
    <3>3. buffer'[i - 1] = IF i - 1 \in cursor - 1 .. end - 2 THEN buffer[(i - 1) + 1]
                           ELSE buffer[i - 1]
      BY <2>2, <3>1, BackspaceBytes
    <3>4. CASE i <= cursor - 1
      <4>1. i - 1 \notin cursor - 1 .. end - 2
        BY <2>1, <3>4
      <4>2. a[i] = buffer[i - 1]
        BY <3>1 DEF TextOf
      <4> QED BY <3>2, <3>3, <3>4, <4>1, <4>2
    <3>5. CASE ~(i <= cursor - 1)
      <4>1. i - 1 \in cursor - 1 .. end - 2
        BY <2>1, <3>5
      <4>2. a[i + 1] = buffer[(i + 1) - 1]
        BY <3>1 DEF TextOf
      <4> QED BY <3>1, <3>2, <3>3, <3>5, <4>1, <4>2
    <3> QED BY <3>4, <3>5
  <2>4. /\ cursor - 1 \in Nat /\ cursor - 1 <= cursor /\ cursor <= Len(a)
        /\ Len(b) = (cursor - 1) + (Len(a) - cursor) /\ Len(b) = end - 1
    BY <1>2, <2>1, <2>2
  <2> HIDE DEF a, b, V
  <2>5. b = SubSeq(a, 1, cursor - 1) \o SubSeq(a, cursor + 1, Len(a))
    <3>1. PICK k \in Nat : k = cursor - 1
      BY <2>4
    <3>2. PICK n \in Nat : n = end - cursor
      BY <2>1
    <3>3. /\ k <= cursor /\ Len(a) = cursor + n /\ Len(b) = k + n
          /\ a \in Seq(V) /\ b \in Seq(V)
      BY <2>1, <2>4, <3>1, <3>2
    <3>4. \A i \in 1 .. k + n : b[i] = IF i <= k THEN a[i] ELSE a[i - k + cursor]
      BY <2>1, <2>3, <3>1, <3>2
    <3>5. PICK j \in Nat : j = cursor
      BY <2>1
    <3>6. b = SubSeq(a, 1, k) \o SubSeq(a, j + 1, Len(a))
      BY <3>3, <3>4, <3>5, TakenOut, SMTT(30)
    <3> QED BY <3>1, <3>5, <3>6
  <2> QED BY <1>2, <2>2, <2>5 DEF Editor!Backspace, TextOf, a, b
<1> QED BY <1>1, <1>2

LEMMA MoveEdits ==
    ASSUME Inv, Home \/ End \/ Back \/ Forward
    PROVE  \E p \in 0 .. MaxSize : Editor!MoveTo(p)
<1>1. /\ end \in Nat /\ end <= MaxSize /\ MaxSize \in Nat /\ cursor \in Nat /\ cursor <= end
      /\ Len(TextOf(buffer, end)) = end
  BY Sizes, TextTyped DEF Inv
<1>2. PICK p : MoveTo(p) /\ p \in {0, cursor - 1, cursor + 1, end} /\ p \in 0 .. end
  BY <1>1 DEF Home, End, Back, Forward
<1>3. p \in {0, cursor - 1, cursor + 1, Len(TextOf(buffer, end))} \cap 0 .. Len(TextOf(buffer, end))
  BY <1>1, <1>2
<1>4. cursor' = p /\ UNCHANGED <<buffer, end, mode, entered>>
  BY <1>2 DEF MoveTo, Edits, Reads
<1>5. Editor!MoveTo(p)
  BY <1>3, <1>4 DEF Editor!MoveTo, TextOf
<1> QED BY <1>1, <1>2, <1>5

LEMMA WrittenIsLine ==
    ASSUME NEW line \in Recalled, NEW n, n = Fitting(line),
           NEW b2, \A i \in 0 .. MaxSize : i < n => b2[i] = line[i + 1]
    PROVE  TextOf(b2, n) = SubSeq(line, 1, n)
<1>1. line \in Seq(Chars) /\ Len(line) \in Nat /\ MaxSize \in Nat
  BY LineAssumption
<1>2. n \in Nat /\ n <= Len(line) /\ n <= MaxSize
  BY <1>1 DEF Fitting
<1>3. /\ SubSeq(line, 1, n) \in Seq(Chars) /\ Len(SubSeq(line, 1, n)) = n
      /\ \A i \in 1 .. n : SubSeq(line, 1, n)[i] = line[i]
  BY <1>1, <1>2, FirstPiece
<1>4. ASSUME NEW i \in 1 .. n PROVE b2[i - 1] = line[i] /\ line[i] \in Chars
  <2>1. i - 1 \in 0 .. MaxSize /\ i - 1 < n /\ (i - 1) + 1 = i /\ i \in 1 .. Len(line)
    BY <1>1, <1>2
  <2> QED BY <1>1, <2>1
<1>5. TextOf(b2, n) \in Seq(Chars) /\ Len(TextOf(b2, n)) = n
  <2>1. TextOf(b2, n) \in [1 .. n -> Chars]
    BY <1>4 DEF TextOf
  <2> QED BY <1>2, <2>1
<1>6. \A i \in 1 .. n : TextOf(b2, n)[i] = SubSeq(line, 1, n)[i]
  BY <1>3, <1>4 DEF TextOf
<1> QED BY <1>3, <1>5, <1>6, SeqEqual

LEMMA WriteEdits ==
    ASSUME Inv, Inv', NEW line \in Recalled, Write(line)
    PROVE  Editor!Replace(line)
<1>1. /\ end' = Fitting(line) /\ cursor' = end' /\ UNCHANGED <<mode, entered>>
      /\ buffer' = [i \in Index |-> IF i < end' THEN line[i + 1]
                                    ELSE IF i = MaxSize /\ end' # MaxSize THEN buffer[i] ELSE Nul]
  BY DEF Write
<1>2. \A i \in 0 .. MaxSize : i < end' => buffer'[i] = line[i + 1]
  BY <1>1 DEF Index
<1>3. TextOf(buffer', end') = SubSeq(line, 1, end')
  BY <1>1, <1>2, WrittenIsLine
<1>4. end' = IF Len(line) < MaxSize THEN Len(line) ELSE MaxSize
  <2>1. Len(line) \in Nat /\ MaxSize \in Nat
    BY LineAssumption
  <2> QED BY <1>1, <2>1 DEF Fitting
<1>5. Len(TextOf(buffer', end')) = end'
  BY TextTyped DEF Inv
<1> QED BY <1>1, <1>3, <1>4, <1>5 DEF Editor!Replace, TextOf

\* Uses that begin an empty line.
LEMMA ClearEdits ==
    ASSUME Clear
    PROVE  TextOf(buffer', end') = << >> /\ cursor' = 0
BY NoText DEF Clear

LEMMA StepEdits ==
    ASSUME Inv, Inv', ~Kills, ReadIsShown, [Next]_vars
    PROVE  [Editor!Next]_(Editor!vars)
<1>1. ASSUME UNCHANGED <<textVars, mode, entered>> PROVE UNCHANGED Editor!vars
  BY <1>1, EditorVars DEF textVars
<1>2. ASSUME NEW c \in Chars, Insert(c) PROVE [Editor!Next]_(Editor!vars)
  BY <1>2, InsertEdits DEF Editor!Next
<1>3. CASE Backspace
  BY <1>3, BackspaceEdits DEF Editor!Next
<1>4. CASE Home \/ End \/ Back \/ Forward
  BY <1>4, MoveEdits DEF Editor!Next
<1>5. CASE DeleteFromCursor \/ DeleteLine
  BY <1>5 DEF DeleteFromCursor, DeleteLine
<1>6. CASE OtherSymbol \/ Tab \/ FoundMany \/ oob_logout \/ Refresh
  BY <1>1, <1>6 DEF OtherSymbol, Edits, Reads, Tab, FoundMany, oob_logout, Refresh
<1>7. ASSUME entered' = ReadBuffer, Clear, mode' \in Modes PROVE Editor!Next
  <2>1. entered' = TextOf(buffer, end)
    BY <1>7 DEF ReadIsShown, TextOf
  <2>2. PICK m \in Modes : m = mode'
    BY <1>7
  <2>3. Editor!Enter(m)
    BY <1>7, <2>1, <2>2, ClearEdits DEF Editor!Enter, TextOf
  <2> QED BY <2>3 DEF Editor!Next
<1>8. CASE EnterName \/ EnterNoName \/ EnterAccepted \/ EnterLine \/ EnterYields
  BY <1>7, <1>8 DEF EnterName, EnterNoName, EnterAccepted, EnterLine, EnterYields, Execs,
                    Inv, ModeInv
<1>9. ASSUME TextOf(buffer', end') = << >>, cursor' = 0, mode' \in Modes, UNCHANGED entered
      PROVE  Editor!Next
  <2>1. PICK m \in Modes : m = mode'
    BY <1>9
  <2>2. Editor!NewLine(m)
    BY <1>9, <2>1 DEF Editor!NewLine, TextOf
  <2> QED BY <2>2 DEF Editor!Next
<1>10. CASE LeaveFail \/ ClearLine \/ oob_login
  BY <1>9, <1>10, ClearEdits DEF LeaveFail, ClearLine, oob_login, Inv, ModeInv
<1>11. CASE Resume
  <2>1. end' = 0 /\ cursor' = 0 /\ UNCHANGED entered
    BY <1>11 DEF Resume, textVars, Inv, ModeInv
  <2> QED BY <1>9, <2>1, NoText DEF Inv, ModeInv
<1>12. CASE EnterRefused
  <2>1. entered' = TextOf(buffer, end) /\ UNCHANGED <<textVars, mode>>
    BY <1>12 DEF EnterRefused, Execs, ReadIsShown, TextOf
  <2>2. Editor!Read
    BY <2>1 DEF Editor!Read, TextOf, textVars
  <2> QED BY <2>2 DEF Editor!Next
<1>13. ASSUME NEW line \in Recalled, Write(line) PROVE [Editor!Next]_(Editor!vars)
  BY <1>13, WriteEdits DEF Editor!Next
<1>14. CASE UNCHANGED vars
  BY <1>1, <1>14 DEF vars
<1> QED BY <1>2, <1>3, <1>4, <1>5, <1>6, <1>8, <1>10, <1>11, <1>12, <1>13, <1>14
        DEF Next, Keys, Uses

\* Without ^K and ^U, the buffer of bytes, terminators and two positions does
\* what a text with a position in it does, whatever its size and the screen's.
THEOREM Implements ==
    ASSUME ~Kills
    PROVE  Spec => ImplementsEditor
<1> DEFINE EndInv == Inv /\ Ended
<1>1. Init => Editor!Init
  <2>1. ASSUME Init PROVE TextOf(buffer, end) = << >> /\ end = 0
    BY <2>1, NoText DEF Init
  <2> QED BY <2>1 DEF Init, Editor!Init, TextOf
<1>2. Init => EndInv
  BY InitInv, InitEnded
<1>3. EndInv /\ [Next]_vars => EndInv'
  BY StepInv, StepEnded
<1>4. EndInv /\ EndInv' /\ [Next]_vars => [Editor!Next]_(Editor!vars)
  BY EndedIsShown, StepEdits
<1> HIDE DEF EndInv
<1> QED BY <1>1, <1>2, <1>3, <1>4, PTL DEF Spec, ImplementsEditor, Editor!Spec
=============================================================================
