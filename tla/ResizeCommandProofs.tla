------------------------- MODULE ResizeCommandProofs -------------------------
(***************************************************************************)
(* What becomes of a line on its way to the resize command, for every      *)
(* line, every length of argv and every set of marks: the words are cut    *)
(* out in place without writing over what has not been read and are the    *)
(* words the line spells, every option is taken from the word it is        *)
(* written in or from the one that follows, and the size is what the       *)
(* options say.                                                            *)
(***************************************************************************)
EXTENDS ResizeCommand, SequenceTheorems, WellFoundedInduction, TLAPS

\* What the tokenizer's variables are at any moment.  Writing is behind
\* reading, except that the terminator of the last word is written when there
\* is nothing to read any more; a word that is quoted or escaped has begun.
TokenizerInv ==
    /\ T!TypeOK
    /\ T!InputIsAhead
    /\ \/ out_offset <= in_offset
       \/ in_offset = T!end /\ out_offset = T!end + 1 /\ arg = NoArg /\ T!Plain
    /\ ~T!Plain => arg # NoArg
    /\ ~done => Len(argv) < MaxArgv

LEMMA Constants ==
    /\ Nul \notin Chars
    /\ Space \in Chars /\ Escape \in Chars /\ Marks \subseteq Chars
    /\ NoMark \notin Marks
    /\ MaxArgv \in Nat \ {0}
    /\ Lines \subseteq Seq(Chars)
    /\ NoArg \notin Nat
BY ResizeCommandAssumption DEF T!TokenizerAssumption

LEMMA EndIsNat ==
    ASSUME NEW l \in Seq(Chars)
    PROVE  Len(l) \in Nat /\ \A i \in 1 .. Len(l) : l[i] \in Chars
OBVIOUS

LEMMA InitInv == Init => TokenizerInv
<1> SUFFICES ASSUME Init PROVE TokenizerInv
  OBVIOUS
<1>1. line \in Seq(Chars) /\ T!end \in Nat
  BY Constants, EndIsNat DEF Init, T!Init, T!end
<1>2. buffer = [i \in 0 .. T!end |-> T!Given(i)]
  BY DEF Init, T!Init
<1>3. \A i \in 0 .. T!end : T!Given(i) \in Chars \cup {Nul}
  BY <1>1, EndIsNat DEF T!Given, T!end
<1>4. /\ in_offset = 0 /\ out_offset = 0 /\ arg = NoArg /\ quote = NoMark
      /\ escape = FALSE /\ argv = << >> /\ done = FALSE
  BY DEF Init, T!Init
<1>5. buffer \in [0 .. T!end -> Chars \cup {Nul}]
  BY <1>2, <1>3
<1>6. argv \in Seq(0 .. T!end) /\ Len(argv) = 0
  BY <1>4
<1> QED BY <1>1, <1>2, <1>4, <1>5, <1>6, Constants
      DEF TokenizerInv, T!TypeOK, T!InputIsAhead, T!Plain

\* A turn that reads a character moves on behind which there is room.
LEMMA ReadsMoves ==
    ASSUME TokenizerInv, NEW c \in Chars, T!Reads(c)
    PROVE  /\ in_offset < T!end /\ in_offset' = in_offset + 1
           /\ out_offset <= in_offset
           /\ ~done /\ line' = line /\ T!end' = T!end
<1>1. in_offset \in 0 .. T!end /\ T!end \in Nat
  BY EndIsNat DEF TokenizerInv, T!TypeOK, T!end
<1>2. in_offset # T!end
  BY <1>1, Constants DEF T!Reads, T!CharAt
<1> QED BY <1>1, <1>2 DEF T!Reads, TokenizerInv, T!end

\* Only the end of the line reads as zero.
LEMMA ReadsNul ==
    ASSUME TokenizerInv, T!Reads(Nul)
    PROVE  /\ in_offset = T!end /\ in_offset' = in_offset
           /\ ~done /\ line' = line /\ T!end' = T!end
<1>1. in_offset \in 0 .. T!end /\ T!end \in Nat /\ line \in Seq(Chars) /\ T!end = Len(line)
  BY EndIsNat DEF TokenizerInv, T!TypeOK, T!end
<1>2. ASSUME in_offset < T!end PROVE FALSE
  <2>1. buffer[in_offset] = line[in_offset + 1]
    BY <1>1, <1>2 DEF TokenizerInv, T!InputIsAhead, T!Reads, T!Given
  <2>2. line[in_offset + 1] \in Chars
    BY <1>1, <1>2, EndIsNat
  <2> QED BY <1>2, <2>1, <2>2, Constants DEF T!Reads, T!CharAt
<1> QED BY <1>1, <1>2 DEF T!Reads, T!end

\* Writing behind a character that was just read.
LEMMA PutsBehind ==
    ASSUME TokenizerInv, NEW c \in Chars, T!Reads(c),
           \/ \E p \in Chars \cup {Nul} : T!Puts(p)
           \/ T!PutsNothing
    PROVE  /\ line' \in Seq(Chars)
           /\ buffer' \in [0 .. T!end -> Chars \cup {Nul}]
           /\ in_offset' \in 0 .. T!end
           /\ out_offset' \in 0 .. T!end + 1
           /\ out_offset' <= in_offset'
           /\ T!InputIsAhead'
           /\ out_offset \in 0 .. T!end
<1>1. /\ in_offset < T!end /\ in_offset' = in_offset + 1 /\ out_offset <= in_offset
      /\ ~done /\ line' = line /\ T!end' = T!end
  BY ReadsMoves
<1>2. /\ in_offset \in 0 .. T!end /\ T!end \in Nat /\ line \in Seq(Chars)
      /\ out_offset \in Nat /\ buffer \in [0 .. T!end -> Chars \cup {Nul}]
      /\ \A i \in in_offset .. T!end : buffer[i] = T!Given(i)
  BY <1>1, EndIsNat DEF TokenizerInv, T!TypeOK, T!InputIsAhead, T!end
<1>3. \A i : T!Given(i)' = T!Given(i)
  BY <1>1 DEF T!Given
<1>4. CASE T!PutsNothing
  <2>1. buffer' = buffer /\ out_offset' = out_offset
    BY <1>4 DEF T!PutsNothing
  <2>2. \A i \in in_offset' .. T!end : buffer'[i] = T!Given(i)
    BY <1>1, <1>2, <2>1
  <2> QED BY <1>1, <1>2, <1>3, <2>1, <2>2 DEF T!InputIsAhead
<1>5. ASSUME NEW p \in Chars \cup {Nul}, T!Puts(p)
      PROVE  /\ buffer' \in [0 .. T!end -> Chars \cup {Nul}]
             /\ out_offset' = out_offset + 1
             /\ T!InputIsAhead'
  <2>1. buffer' = [buffer EXCEPT ![out_offset] = p] /\ out_offset' = out_offset + 1
    BY <1>5 DEF T!Puts
  <2>2. \A i \in in_offset' .. T!end : buffer'[i] = T!Given(i)
    BY <1>1, <1>2, <2>1
  <2> QED BY <1>1, <1>2, <1>3, <2>1, <2>2 DEF T!InputIsAhead
<1> QED BY <1>1, <1>2, <1>4, <1>5

\* The turns that read a character inside a word or between two.
LEMMA ReadKeeps ==
    ASSUME TokenizerInv, NEW c \in Chars, T!Reads(c),
           \/ \E p \in Chars \cup {Nul} : T!Puts(p)
           \/ T!PutsNothing,
           T!Continues,
           arg' = arg \/ T!PushArg,
           quote' \in Marks \cup {NoMark}, escape' \in BOOLEAN,
           ~T!Plain' => arg' # NoArg
    PROVE  TokenizerInv'
<1>1. /\ line' \in Seq(Chars)
      /\ buffer' \in [0 .. T!end -> Chars \cup {Nul}]
      /\ in_offset' \in 0 .. T!end
      /\ out_offset' \in 0 .. T!end + 1
      /\ out_offset' <= in_offset'
      /\ T!InputIsAhead'
      /\ out_offset \in 0 .. T!end
  BY PutsBehind
<1>2. T!end' = T!end /\ ~done
  BY ReadsMoves
<1>3. arg' \in 0 .. T!end \cup {NoArg}
  BY <1>1 DEF T!PushArg, TokenizerInv, T!TypeOK
<1>4. argv' = argv /\ done' = done
  BY DEF T!Continues
<1>5. /\ argv' \in Seq(0 .. T!end) /\ Len(argv') <= MaxArgv /\ done' \in BOOLEAN
      /\ ~done' => Len(argv') < MaxArgv
  BY <1>4 DEF TokenizerInv, T!TypeOK
<1>6. T!TypeOK'
  BY <1>1, <1>2, <1>3, <1>5 DEF T!TypeOK
<1> QED BY <1>1, <1>5, <1>6 DEF TokenizerInv

\* A word that begins somewhere in the buffer goes into argv.
LEMMA HandedOver ==
    ASSUME TokenizerInv, ~done, arg # NoArg, T!HandsOver
    PROVE  /\ argv' \in Seq(0 .. T!end) /\ Len(argv') <= MaxArgv /\ done' \in BOOLEAN
           /\ ~done' => Len(argv') < MaxArgv
           /\ arg' = NoArg
<1>1. argv \in Seq(0 .. T!end) /\ arg \in 0 .. T!end /\ Len(argv) < MaxArgv
  BY DEF TokenizerInv, T!TypeOK
<1>2. argv' \in Seq(0 .. T!end) /\ Len(argv') = Len(argv) + 1
  BY <1>1 DEF T!HandsOver
<1>3. Len(argv) \in Nat
  BY <1>1
<1>4. done' = (Len(argv') = MaxArgv) /\ arg' = NoArg
  BY DEF T!HandsOver, T!IsFull
<1>5. Len(argv') <= MaxArgv
  BY <1>1, <1>2, <1>3, Constants
<1>6. done' \in BOOLEAN
  BY <1>4
<1>7. ~done' => Len(argv') < MaxArgv
  <2> SUFFICES ASSUME ~done' PROVE Len(argv') < MaxArgv
    OBVIOUS
  <2>1. Len(argv') # MaxArgv
    BY <1>4
  <2> QED BY <1>2, <1>3, <1>5, <2>1, Constants
<1> QED BY <1>2, <1>4, <1>5, <1>6, <1>7

\* The turns that read the end of a word inside the line.
LEMMA HandOverKeeps ==
    ASSUME TokenizerInv, NEW c \in Chars, T!Reads(c), T!Puts(Nul), T!HandsOver,
           arg # NoArg, quote' = NoMark, escape' = FALSE
    PROVE  TokenizerInv'
<1>1. /\ line' \in Seq(Chars)
      /\ buffer' \in [0 .. T!end -> Chars \cup {Nul}]
      /\ in_offset' \in 0 .. T!end
      /\ out_offset' \in 0 .. T!end + 1
      /\ out_offset' <= in_offset'
      /\ T!InputIsAhead'
  BY PutsBehind
<1>2. T!end' = T!end /\ ~done
  BY ReadsMoves
<1>3. /\ argv' \in Seq(0 .. T!end) /\ Len(argv') <= MaxArgv /\ done' \in BOOLEAN
      /\ ~done' => Len(argv') < MaxArgv
      /\ arg' = NoArg
  BY <1>2, HandedOver
<1>4. T!TypeOK'
  BY <1>1, <1>2, <1>3 DEF T!TypeOK
<1> QED BY <1>1, <1>3, <1>4 DEF TokenizerInv, T!Plain

\* The end of the line, perhaps with a last word before it.
LEMMA EndKeeps == TokenizerInv /\ T!ReadEnd => TokenizerInv'
<1> SUFFICES ASSUME TokenizerInv, T!ReadEnd PROVE TokenizerInv'
  OBVIOUS
<1>1. /\ in_offset = T!end /\ in_offset' = in_offset
      /\ ~done /\ line' = line /\ T!end' = T!end
  BY ReadsNul DEF T!ReadEnd
<1>2. quote' = quote /\ escape' = escape /\ (T!Plain' <=> T!Plain)
  BY DEF T!ReadEnd, T!Plain
<1>3. /\ T!end \in Nat /\ line \in Seq(Chars) /\ out_offset \in 0 .. T!end + 1
      /\ buffer \in [0 .. T!end -> Chars \cup {Nul}]
      /\ buffer[T!end] = Nul
  <2>1. buffer[T!end] = T!Given(T!end)
    BY <1>1, EndIsNat DEF TokenizerInv, T!TypeOK, T!InputIsAhead, T!end
  <2> QED BY <2>1, EndIsNat DEF TokenizerInv, T!TypeOK, T!Given, T!end
<1>4. CASE T!Plain /\ arg # NoArg
  <2>1. T!Puts(Nul) /\ T!HandsOver
    BY <1>4 DEF T!ReadEnd
  <2>2. /\ argv' \in Seq(0 .. T!end) /\ Len(argv') <= MaxArgv /\ done' \in BOOLEAN
        /\ ~done' => Len(argv') < MaxArgv
        /\ arg' = NoArg
    BY <1>1, <1>4, <2>1, HandedOver
  <2>3. out_offset <= T!end
    BY <1>1, <1>4 DEF TokenizerInv
  <2>4. /\ buffer' \in [0 .. T!end -> Chars \cup {Nul}] /\ buffer'[T!end] = Nul
        /\ out_offset' \in 0 .. T!end + 1
        /\ out_offset' <= T!end \/ out_offset' = T!end + 1
    BY <1>3, <2>1, <2>3 DEF T!Puts
  <2>5. T!InputIsAhead'
    BY <1>1, <1>3, <2>4 DEF T!InputIsAhead, T!Given
  <2>6. T!TypeOK'
    BY <1>1, <1>2, <1>3, <2>2, <2>4 DEF T!TypeOK, TokenizerInv
  <2> QED BY <1>1, <1>2, <1>4, <2>2, <2>4, <2>5, <2>6 DEF TokenizerInv
<1>5. CASE ~(T!Plain /\ arg # NoArg)
  <2>1. /\ done' = TRUE /\ argv' = argv /\ buffer' = buffer /\ out_offset' = out_offset
        /\ arg' = IF T!Plain THEN NoArg ELSE arg
    BY <1>5 DEF T!ReadEnd, T!PutsNothing
  <2>2. T!InputIsAhead'
    BY <2>1 DEF T!InputIsAhead
  <2>3. T!TypeOK'
    BY <1>1, <1>2, <1>3, <2>1 DEF T!TypeOK, TokenizerInv
  <2> QED BY <1>1, <1>2, <2>1, <2>2, <2>3 DEF TokenizerInv
<1> QED BY <1>4, <1>5

LEMMA TokenizerKeeps == TokenizerInv /\ T!Next => TokenizerInv'
<1> SUFFICES ASSUME TokenizerInv, T!Next PROVE TokenizerInv'
  OBVIOUS
<1>0. /\ quote \in Marks \cup {NoMark} /\ escape \in BOOLEAN
      /\ ~T!Plain => arg # NoArg
      /\ out_offset \in Nat
  BY DEF TokenizerInv, T!TypeOK
<1>1. CASE T!ReadEnd
  BY <1>1, EndKeeps
<1>2. CASE T!ReadEscaped
  <2>1. PICK c \in Chars : T!Reads(c) /\ T!Puts(c)
    BY <1>2 DEF T!ReadEscaped
  <2>2. T!Continues /\ arg' = arg /\ quote' = quote /\ escape' = FALSE /\ arg # NoArg
    BY <1>0, <1>2 DEF T!ReadEscaped, T!Plain
  <2> QED BY <1>0, <2>1, <2>2, ReadKeeps
<1>3. CASE T!ReadQuoted
  <2>1. PICK c \in Chars : T!Reads(c) /\ T!Puts(c)
    BY <1>3 DEF T!ReadQuoted
  <2>2. T!Continues /\ arg' = arg /\ quote' = quote /\ escape' = escape /\ arg # NoArg
    BY <1>0, <1>3 DEF T!ReadQuoted, T!Plain
  <2> QED BY <1>0, <2>1, <2>2, ReadKeeps
<1>4. CASE T!CloseQuote
  <2>1. quote \in Chars /\ T!Reads(quote) /\ quote' = NoMark /\ escape' = FALSE /\ arg # NoArg
    BY <1>0, <1>4, Constants DEF T!CloseQuote, T!Plain
  <2>2. CASE T!Puts(Nul) /\ T!HandsOver
    BY <2>1, <2>2, HandOverKeeps
  <2>3. CASE T!PutsNothing /\ T!Continues /\ arg' = arg
    BY <2>1, <2>3, ReadKeeps
  <2> QED BY <1>4, <2>2, <2>3 DEF T!CloseQuote
<1>5. CASE T!ReadEscape
  <2>1. /\ Escape \in Chars /\ T!Reads(Escape) /\ T!PutsNothing /\ T!Continues
        /\ T!PushArg /\ quote' = quote /\ escape' = TRUE
    BY <1>5, Constants DEF T!ReadEscape
  <2>2. arg' # NoArg
    BY <1>0, <2>1, Constants DEF T!PushArg
  <2> QED BY <1>0, <2>1, <2>2, ReadKeeps
<1>6. CASE T!ReadSpace
  <2>1. Space \in Chars /\ T!Reads(Space) /\ quote' = NoMark /\ escape' = FALSE
    BY <1>6, Constants DEF T!ReadSpace, T!Plain
  <2>2. CASE arg # NoArg
    BY <1>6, <2>1, <2>2, HandOverKeeps DEF T!ReadSpace
  <2>3. CASE arg = NoArg
    <3>1. T!PutsNothing /\ T!Continues /\ arg' = arg
      BY <1>6, <2>3 DEF T!ReadSpace
    <3>2. T!Plain'
      BY <2>1 DEF T!Plain
    <3> QED BY <2>1, <3>1, <3>2, ReadKeeps
  <2> QED BY <2>2, <2>3
<1>7. CASE T!OpenQuote
  <2>1. PICK m \in Marks : T!Reads(m) /\ quote' = m /\ T!PutsNothing
    BY <1>7 DEF T!OpenQuote
  <2>2. m \in Chars /\ T!PushArg /\ T!Continues /\ escape' = escape
    BY <1>7, Constants DEF T!OpenQuote
  <2>3. arg' # NoArg
    BY <1>0, <2>2, Constants DEF T!PushArg
  <2> QED BY <1>0, <2>1, <2>2, <2>3, ReadKeeps
<1>8. CASE T!ReadPlain
  <2>1. PICK c \in Chars : T!Reads(c) /\ T!Puts(c)
    BY <1>8 DEF T!ReadPlain
  <2>2. T!PushArg /\ T!Continues /\ quote' = quote /\ escape' = escape
    BY <1>8 DEF T!ReadPlain
  <2>3. arg' # NoArg
    BY <1>0, <2>2, Constants DEF T!PushArg
  <2> QED BY <1>0, <2>1, <2>2, <2>3, ReadKeeps
<1> QED BY <1>1, <1>2, <1>3, <1>4, <1>5, <1>6, <1>7, <1>8 DEF T!Next

LEMMA StepInv == TokenizerInv /\ [Next]_vars => TokenizerInv'
<1> SUFFICES ASSUME TokenizerInv, [Next]_vars PROVE TokenizerInv'
  OBVIOUS
<1>1. CASE T!Next
  BY <1>1, TokenizerKeeps
<1>2. CASE UNCHANGED tokenizerVars
  BY <1>2 DEF tokenizerVars, TokenizerInv, T!TypeOK, T!InputIsAhead, T!Plain, T!Given, T!end
<1> QED BY <1>1, <1>2
      DEF Next, Tokenize, NoCommand, TakeOption, Decide, CallsNext, vars, tokenizerVars

\* Writing a word never overtakes reading the line: it is cut into words as it
\* was given, whatever it is and however many words argv takes.
THEOREM InputAhead == Spec => []InputIsAhead
<1>1. TokenizerInv => InputIsAhead
  BY DEF TokenizerInv, InputIsAhead
<1> QED BY InitInv, StepInv, <1>1, PTL DEF Spec

\* Every offset stays within the buffer, and argv within its array.
THEOREM OffsetsInside == Spec => []T!TypeOK
<1>1. TokenizerInv => T!TypeOK
  BY DEF TokenizerInv
<1> QED BY InitInv, StepInv, <1>1, PTL DEF Spec

-----------------------------------------------------------------------------
(* The parser.  It is idle until the words are there, and while it takes   *)
(* options from them they stay as they are.  That an argument has a length *)
(* at all is because the zero at the end of the buffer is never replaced.  *)

GroupInv ==
    /\ TokenizerInv
    /\ buffer[T!end] = Nul
    /\ index \in Nat /\ offset \in Nat
    /\ state # "IDLE" => done
    /\ P!GroupHasLetters

\* A set of numbers that is not empty has a least one.
LEMMA LeastNumber ==
    ASSUME NEW S \in SUBSET Nat, S # {}
    PROVE  \E m \in S : \A k \in S : ~(k < m)
<1>1. PICK m \in S : \A k \in S : <<k, m>> \notin OpToRel(<, Nat)
  BY WFMin, NatLessThanWellFounded
<1> QED BY <1>1, Zenon DEF OpToRel

\* What holds at 0 and is handed on from place to place holds up to the end.
LEMMA ClimbsTo ==
    ASSUME NEW n \in Nat, NEW S, 0 \in S,
           \A i \in 1 .. n : i - 1 \in S => i \in S
    PROVE  \A i \in 0 .. n : i \in S
<1> DEFINE Bad == {i \in 0 .. n : i \notin S}
<1> SUFFICES ASSUME Bad # {} PROVE FALSE
  OBVIOUS
<1>1. Bad \in SUBSET Nat
  OBVIOUS
<1>2. PICK m \in Bad : \A j \in Bad : ~(j < m)
  <2> HIDE DEF Bad
  <2> QED BY <1>1, LeastNumber
<1>3. m \in 1 .. n /\ m - 1 \in 0 .. n /\ m - 1 < m /\ m \notin S
  BY <1>2
<1>4. m - 1 \in S
  BY <1>2, <1>3
<1> QED BY <1>3, <1>4

\* A function that goes up one step at a time, and that there is one.
Follows(f, n, V, start, step) ==
    /\ f \in [0 .. n -> V]
    /\ f[0] = start
    /\ \A i \in 1 .. n : f[i] = step[i][f[i - 1]]

LEMMA Iterates ==
    ASSUME NEW n \in Nat, NEW V, NEW start \in V, NEW step \in [1 .. n -> [V -> V]]
    PROVE  \E f : Follows(f, n, V, start, step)
<1> DEFINE Solves(m, f) == Follows(f, m, V, start, step)
           S == {m \in 0 .. n : \E f : Solves(m, f)}
<1>1. 0 \in S
  <2> DEFINE f0 == [i \in 0 .. 0 |-> start]
  <2>1. Solves(0, f0) /\ 0 \in 0 .. n
    BY DEF Follows
  <2> HIDE DEF Solves, f0
  <2> QED BY <2>1
<1>2. ASSUME NEW m \in 1 .. n, m - 1 \in S
      PROVE  m \in S
  <2>1. PICK f : Solves(m - 1, f)
    BY <1>2
  <2> DEFINE g == [i \in 0 .. m |-> IF i = m THEN step[m][f[m - 1]] ELSE f[i]]
  <2>2. f[m - 1] \in V /\ step[m][f[m - 1]] \in V
    BY <2>1 DEF Follows
  <2>3. g \in [0 .. m -> V] /\ g[0] = start
    BY <2>1, <2>2 DEF Follows
  <2>4. ASSUME NEW i \in 1 .. m PROVE g[i] = step[i][g[i - 1]]
    <3>1. i - 1 \in 0 .. m - 1 /\ i - 1 # m /\ i \in 0 .. m
      OBVIOUS
    <3>2. g[i - 1] = f[i - 1]
      BY <3>1
    <3>3. CASE i = m
      BY <3>2, <3>3
    <3>4. CASE i # m
      <4>1. i \in 1 .. m - 1 /\ g[i] = f[i]
        BY <3>1, <3>4
      <4> QED BY <2>1, <3>2, <4>1 DEF Follows
    <3> QED BY <3>3, <3>4
  <2> HIDE DEF g
  <2>5. Solves(m, g) /\ m \in 0 .. n
    BY <2>3, <2>4 DEF Follows
  <2> HIDE DEF Solves
  <2> QED BY <2>5
<1>3. n \in S
  <2> HIDE DEF S
  <2>1. n \in 0 .. n
    OBVIOUS
  <2> QED BY <1>1, <1>2, <2>1, ClimbsTo
<1> QED BY <1>3

LEMMA ElementsBelong ==
    ASSUME NEW S, NEW s \in Seq(S)
    PROVE  \A i \in 1 .. Len(s) : s[i] \in S
OBVIOUS

Texts == Seq(Chars)

\* A string of the buffer that begins inside it is a text.
LEMMA StringIsText ==
    ASSUME TokenizerInv, buffer[T!end] = Nul, NEW start \in 0 .. T!end
    PROVE  T!StringAt(start) \in Texts
<1> DEFINE S == {k \in start .. T!end : buffer[k] = Nul}
<1>1. T!end \in Nat /\ buffer \in [0 .. T!end -> Chars \cup {Nul}]
  BY EndIsNat DEF TokenizerInv, T!TypeOK, T!end
<1>2. S \in SUBSET Nat /\ S # {}
  BY <1>1
<1>3. PICK m \in S : \A k \in S : ~(k < m)
  <2> HIDE DEF S
  <2> QED BY <1>2, LeastNumber
<1>4. m \in start .. T!end /\ buffer[m] = Nul /\ \A j \in start .. m - 1 : buffer[j] # Nul
  BY <1>1, <1>3
<1> DEFINE Ends(k) == buffer[k] = Nul /\ \A j \in start .. k - 1 : buffer[j] # Nul
           t == CHOOSE k \in start .. T!end : Ends(k)
<1>5. t \in start .. T!end /\ Ends(t)
  BY <1>4
<1>6. T!StringAt(start) = [i \in 1 .. t - start |-> buffer[start + i - 1]]
  BY DEF T!StringAt
<1> HIDE DEF t
<1>7. t - start \in Nat
  BY <1>1, <1>5
<1>8. \A i \in 1 .. t - start : buffer[start + i - 1] \in Chars
  <2> TAKE i \in 1 .. t - start
  <2>1. start + i - 1 \in start .. t - 1 /\ start + i - 1 \in 0 .. T!end
    BY <1>1, <1>5
  <2> QED BY <1>1, <1>5, <2>1
<1> QED BY <1>6, <1>7, <1>8 DEF Texts

LEMMA ArgsAre ==
    ASSUME TokenizerInv, buffer[T!end] = Nul
    PROVE  /\ Args \in Seq(Texts) /\ P!argc \in Nat
           /\ \A i \in 1 .. P!argc : Args[i] \in Texts /\ Len(Args[i]) \in Nat
<1>1. argv \in Seq(0 .. T!end) /\ Len(argv) \in Nat
  BY DEF TokenizerInv, T!TypeOK
<1>2. \A i \in 1 .. Len(argv) : T!StringAt(argv[i]) \in Texts
  <2>1. \A i \in 1 .. Len(argv) : argv[i] \in 0 .. T!end
    BY <1>1, ElementsBelong
  <2> QED BY <2>1, StringIsText
<1>3. Words = [i \in 1 .. Len(argv) |-> T!StringAt(argv[i])]
  BY DEF Words, T!Strings
<1>4. Words \in Seq(Texts) /\ Len(Words) = Len(argv)
  BY <1>1, <1>2, <1>3
<1>5. \A i \in 2 .. Len(Words) : Words[i] \in Texts
  BY <1>4, ElementsBelong
<1>6. Args \in Seq(Texts)
  BY <1>1, <1>4, <1>5, SubSeqProperties DEF Args
<1>7. \A s \in Texts : Len(s) \in Nat
  BY DEF Texts
<1>8. P!argc \in Nat /\ \A i \in 1 .. P!argc : Args[i] \in Texts
  BY <1>6, ElementsBelong DEF P!argc
<1> QED BY <1>6, <1>7, <1>8

LEMMA ArgumentLength ==
    ASSUME GroupInv, index < P!argc
    PROVE  Len(P!Token) \in Nat
<1>1. index + 1 \in 1 .. P!argc
  BY ArgsAre DEF GroupInv
<1> QED BY <1>1, ArgsAre DEF GroupInv, P!Token

\* The zero at the end is only ever replaced by a zero.
LEMMA EndStaysZero ==
    ASSUME TokenizerInv, buffer[T!end] = Nul, T!Next
    PROVE  buffer'[T!end'] = Nul
<1>1. /\ T!end \in Nat /\ buffer \in [0 .. T!end -> Chars \cup {Nul}]
      /\ out_offset \in Nat /\ in_offset \in 0 .. T!end
  BY EndIsNat DEF TokenizerInv, T!TypeOK, T!end
<1>2. T!end' = T!end
  BY DEF T!Next, T!ReadEnd, T!ReadEscaped, T!ReadQuoted, T!CloseQuote, T!ReadEscape,
     T!ReadSpace, T!OpenQuote, T!ReadPlain, T!Reads, T!end
<1>3. ASSUME T!Puts(Nul)
      PROVE  buffer'[T!end] = Nul
  BY <1>1, <1>3 DEF T!Puts
<1>4. ASSUME NEW c \in Chars, T!Reads(c), T!Puts(c)
      PROVE  buffer'[T!end] = Nul
  <2>1. out_offset < T!end
    BY <1>1, <1>4, ReadsMoves
  <2> QED BY <1>1, <1>4, <2>1 DEF T!Puts
<1>5. ASSUME T!PutsNothing
      PROVE  buffer'[T!end] = Nul
  BY <1>5 DEF T!PutsNothing
<1> QED BY <1>2, <1>3, <1>4, <1>5
        DEF T!Next, T!ReadEnd, T!ReadEscaped, T!ReadQuoted, T!CloseQuote, T!ReadEscape,
            T!ReadSpace, T!OpenQuote, T!ReadPlain

\* A call of next() leaves the parser inside a group only before a letter of it.
LEMMA CallKeeps ==
    ASSUME GroupInv, done, P!Call, UNCHANGED tokenizerVars
    PROVE  /\ index' \in Nat /\ offset' \in Nat
           /\ P!GroupHasLetters'
<1>1. /\ index \in Nat /\ offset \in Nat
      /\ P!Place \in Nat
      /\ P!IsOption(P!Token) => Len(P!Token) > 1
  BY DEF GroupInv, P!Place, P!IsOption
<1>2. Args' = Args /\ P!argc' = P!argc
  BY DEF P!Call, P!argc
<1>3. CASE P!NextEnds
  BY <1>1, <1>3 DEF P!NextEnds, P!GroupHasLetters
<1>4. CASE P!NextUnknown
  <2>1. index' = index /\ state' = state
    BY <1>4 DEF P!NextUnknown
  <2>2. CASE state = "CHAIN"
    <3>1. offset' = offset
      BY <1>4, <2>2 DEF P!NextUnknown, P!AtLong, P!Place
    <3> QED BY <1>1, <1>2, <2>1, <3>1 DEF GroupInv, P!GroupHasLetters, P!Token
  <2>3. CASE state # "CHAIN"
    BY <1>1, <1>4, <2>1, <2>3 DEF P!NextUnknown, P!GroupHasLetters
  <2> QED BY <2>2, <2>3
<1>5. CASE P!NextFlag
  <2>1. index < P!argc
    BY <1>5 DEF P!NextFlag, P!InGroup, P!AtOption, GroupInv, P!GroupHasLetters
  <2>2. Len(P!Token) \in Nat
    BY <2>1, ArgumentLength
  <2>3. offset' = P!Place + 1
    BY <1>5 DEF P!NextFlag
  <2>4. CASE P!MoreLetters(P!Place)
    <3>1. state' = "CHAIN" /\ index' = index
      BY <1>5, <2>4 DEF P!NextFlag
    <3>2. P!Token' = P!Token
      BY <1>2, <3>1 DEF P!Token
    <3>3. offset' + 2 <= Len(P!Token)
      BY <1>1, <2>2, <2>3, <2>4 DEF P!MoreLetters
    <3> QED BY <1>1, <1>2, <2>1, <2>3, <3>1, <3>2, <3>3 DEF P!GroupHasLetters
  <2>5. CASE ~P!MoreLetters(P!Place)
    BY <1>1, <1>5, <2>3, <2>5 DEF P!NextFlag, P!GroupHasLetters
  <2> QED BY <2>4, <2>5
<1>6. CASE P!NextWithArg
  BY <1>1, <1>6 DEF P!NextWithArg, P!ArgumentOf, P!TakesFollowing, P!GroupHasLetters
<1>7. CASE P!NextLong
  BY <1>1, <1>7 DEF P!NextLong, P!ArgumentOf, P!TakesFollowing, P!GroupHasLetters, P!AtLong
<1> QED BY <1>3, <1>4, <1>5, <1>6, <1>7 DEF P!Call

LEMMA StepGroup == GroupInv /\ [Next]_vars => GroupInv'
<1> SUFFICES ASSUME GroupInv, [Next]_vars PROVE GroupInv'
  OBVIOUS
<1>1. TokenizerInv'
  BY StepInv DEF GroupInv
<1>2. CASE Tokenize
  <2>1. ~done
    BY <1>2 DEF Tokenize, T!Next, T!ReadEnd, T!ReadEscaped, T!ReadQuoted, T!CloseQuote,
       T!ReadEscape, T!ReadSpace, T!OpenQuote, T!ReadPlain, T!Reads
  <2>2. state = "IDLE" /\ UNCHANGED parserVars
    BY <1>2, <2>1 DEF GroupInv, Tokenize
  <2>3. buffer'[T!end'] = Nul
    BY <1>2, EndStaysZero DEF GroupInv, Tokenize
  <2> QED BY <1>1, <2>2, <2>3 DEF GroupInv, parserVars, P!GroupHasLetters
<1>3. CASE TakeOption \/ Decide
  <2>1. done /\ P!Call /\ UNCHANGED tokenizerVars
    BY <1>3 DEF TakeOption, Decide, CallsNext
  <2>2. done' /\ buffer'[T!end'] = Nul
    BY <2>1 DEF tokenizerVars, GroupInv, T!end
  <2> QED BY <1>1, <2>1, <2>2, CallKeeps DEF GroupInv
<1>4. CASE UNCHANGED <<tokenizerVars, parserVars>>
  <2>1. UNCHANGED <<index, offset, state, done, buffer, line, argv>>
    BY <1>4 DEF tokenizerVars, parserVars
  <2>2. Args' = Args
    BY <2>1 DEF Args, Words, T!Strings, T!StringAt, T!end
  <2> QED BY <1>1, <2>1, <2>2 DEF GroupInv, P!GroupHasLetters, P!argc, P!Token, T!end
<1> QED BY <1>2, <1>3, <1>4 DEF Next, NoCommand, vars, tokenizerVars, parserVars

\* The assertion of GetOpt::next holds: a group of short options that has not
\* been read to its end has a letter left, for every line and every table.
THEOREM GroupCorrect == Spec => []GroupHasLetters
<1>1. Init => GroupInv
  <2> SUFFICES ASSUME Init PROVE GroupInv
    OBVIOUS
  <2>1. T!end \in Nat /\ buffer = [i \in 0 .. T!end |-> T!Given(i)]
    BY Constants, EndIsNat DEF Init, T!Init, T!end
  <2>2. buffer[T!end] = Nul
    BY <2>1 DEF T!Given
  <2> QED BY <2>2, InitInv DEF Init, P!Init, GroupInv, P!GroupHasLetters
<1>2. GroupInv => GroupHasLetters
  BY DEF GroupInv, GroupHasLetters
<1> QED BY <1>1, StepGroup, <1>2, PTL DEF Spec

-----------------------------------------------------------------------------
(* What options mean: the options the table has, the letters of a group,   *)
(* and that every list of arguments has exactly one meaning.               *)

TheOptions == {Table[i] : i \in 1 .. Len(Table)}
Outcomes == [option : TheOptions \cup {NoOption}, arg : Texts \cup {NoArg},
           result : {"OK", "MISSING", "UNKNOWN", "END"}]
SomeOutcomes == Seq(Outcomes) \ {<< >>}

LEMMA TableIs ==
    /\ Len(Table) \in Nat
    /\ NoOption \notin TheOptions
    /\ \A o \in TheOptions :
          /\ o.arg \in {"NONE", "OPTIONAL", "REQUIRED"}
          /\ o.c \in {"r", "c"} => o.arg = "REQUIRED"
<1> DEFINE Opt == [s : Seq(Chars), c : Chars, arg : {"NONE", "OPTIONAL", "REQUIRED"}]
<1>1. Table \in Seq(Opt)
  BY ResizeCommandAssumption
<1>2. Len(Table) \in Nat /\ \A i \in 1 .. Len(Table) : Table[i] \in Opt
  <2> HIDE DEF Opt
  <2> QED BY <1>1, ElementsBelong
<1> QED BY <1>2, ResizeCommandAssumption DEF TheOptions, P!GetOptAssumption

\* The first of some places of the table is one of them.
LEMMA FirstIs ==
    ASSUME NEW S \in SUBSET (1 .. Len(Table))
    PROVE  P!First(S) \in TheOptions \cup {NoOption}
<1>1. CASE S = {}
  BY <1>1 DEF P!First
<1>2. CASE S # {}
  <2>1. S \in SUBSET Nat
    BY TableIs
  <2>2. PICK m \in S : \A k \in S : ~(k < m)
    BY <1>2, <2>1, LeastNumber
  <2>3. \A k \in S : m <= k
    BY <2>1, <2>2
  <2> DEFINE i == CHOOSE i \in S : \A j \in S : i <= j
  <2>4. i \in S
    BY <2>3
  <2> HIDE DEF i
  <2>5. Table[i] \in TheOptions
    BY <2>4 DEF TheOptions
  <2> QED BY <1>2, <2>5 DEF P!First, i
<1> QED BY <1>1, <1>2

LEMMA LookupIs ==
    /\ \A letter : P!Short(letter) \in TheOptions \cup {NoOption}
    /\ \A name : P!Long(name) \in TheOptions \cup {NoOption}
<1>1. ASSUME NEW letter PROVE P!Short(letter) \in TheOptions \cup {NoOption}
  <2> DEFINE S == {i \in 1 .. Len(Table) : Table[i].c = letter}
  <2>1. S \in SUBSET (1 .. Len(Table))
    OBVIOUS
  <2> HIDE DEF S
  <2>2. P!First(S) \in TheOptions \cup {NoOption}
    BY <2>1, FirstIs
  <2> QED BY <2>2 DEF P!Short, S
<1>2. ASSUME NEW name PROVE P!Long(name) \in TheOptions \cup {NoOption}
  <2> DEFINE S == {i \in 1 .. Len(Table) : Table[i].s = name}
  <2>1. S \in SUBSET (1 .. Len(Table))
    OBVIOUS
  <2> HIDE DEF S
  <2>2. P!First(S) \in TheOptions \cup {NoOption}
    BY <2>1, FirstIs
  <2> QED BY <2>2 DEF P!Long, S
<1> QED BY <1>1, <1>2

\* Where a group stops.
LEMMA StopIs ==
    ASSUME NEW token \in Texts, NEW at \in Nat
    PROVE  /\ P!Stops(token, at) = {} => P!Stop(token, at) = Len(token) + 1
           /\ P!Stops(token, at) # {} =>
                 /\ P!Stop(token, at) \in at .. Len(token)
                 /\ ~P!IsFlag(P!Short(token[P!Stop(token, at)]))
           /\ \A k \in at .. Len(token) :
                 k < P!Stop(token, at) => P!IsFlag(P!Short(token[k]))
<1>0. Len(token) \in Nat
  BY DEF Texts
<1> DEFINE S == P!Stops(token, at)
<1>1. S \in SUBSET Nat /\ S \in SUBSET (at .. Len(token))
  BY <1>0 DEF P!Stops
<1>2. CASE S = {}
  <2>1. P!Stop(token, at) = Len(token) + 1
    BY <1>2 DEF P!Stop
  <2>2. \A k \in at .. Len(token) : P!IsFlag(P!Short(token[k]))
    BY <1>2 DEF P!Stops
  <2> QED BY <1>2, <2>1, <2>2
<1>3. CASE S # {}
  <2> DEFINE i == CHOOSE k \in S : \A j \in S : k <= j
  <2>1. P!Stop(token, at) = i
    BY <1>3 DEF P!Stop
  <2>2. i \in S /\ \A j \in S : i <= j
    <3> HIDE DEF S
    <3>1. PICK m \in S : \A k \in S : ~(k < m)
      BY <1>1, <1>3, LeastNumber
    <3>2. \A k \in S : m <= k
      BY <1>1, <3>1
    <3> QED BY <3>1, <3>2
  <2> HIDE DEF i
  <2>3. i \in at .. Len(token) /\ ~P!IsFlag(P!Short(token[i]))
    BY <2>2 DEF P!Stops
  <2>4. ASSUME NEW k \in at .. Len(token), k < i
        PROVE  P!IsFlag(P!Short(token[k]))
    <3>1. k \notin S
      BY <1>0, <2>2, <2>3, <2>4
    <3> QED BY <2>4, <3>1 DEF P!Stops
  <2> QED BY <1>3, <2>1, <2>3, <2>4
<1> QED BY <1>2, <1>3

LEMMA OutcomeIs ==
    ASSUME NEW o \in TheOptions, NEW a \in Texts \cup {NoArg}
    PROVE  P!Outcome(o, a) \in Outcomes
BY DEF Outcomes, P!Outcome

\* The letters of a group before it stops are flags.
LEMMA FlagsAre ==
    ASSUME NEW token \in Texts, NEW at \in Nat, at <= Len(token) + 1
    PROVE  /\ P!Flags(token, at) \in Seq(Outcomes)
           /\ Len(P!Flags(token, at)) = P!Stop(token, at) - at
           /\ P!Stop(token, at) - at \in Nat
<1>1. Len(token) \in Nat
  BY DEF Texts
<1> DEFINE n == P!Stop(token, at) - at
           e(k) == P!Outcome(P!Short(token[at + k - 1]), NoArg)
<1>2. /\ n \in Nat
      /\ \A k \in 1 .. n : at + k - 1 \in at .. Len(token) /\ at + k - 1 < P!Stop(token, at)
  BY <1>1, StopIs
<1>3. \A k \in 1 .. n : P!IsFlag(P!Short(token[at + k - 1]))
  BY <1>2, StopIs
<1>4. \A k \in 1 .. n : e(k) \in Outcomes
  <2> SUFFICES ASSUME NEW k \in 1 .. n PROVE e(k) \in Outcomes
    OBVIOUS
  <2>1. P!Short(token[at + k - 1]) \in TheOptions
    BY <1>3, LookupIs DEF P!IsFlag
  <2> QED BY <2>1, OutcomeIs
<1>5. P!Flags(token, at) = [k \in 1 .. n |-> e(k)]
  BY DEF P!Flags
<1> HIDE DEF n, e
<1>6. [k \in 1 .. n |-> e(k)] \in Seq(Outcomes) /\ Len([k \in 1 .. n |-> e(k)]) = n
  BY <1>2, <1>4
<1> QED BY <1>2, <1>5, <1>6 DEF n

LEMMA TextFrom ==
    ASSUME NEW token \in Texts, NEW k \in Nat \ {0}
    PROVE  P!From(token, k) \in Texts
<1>1. Len(token) \in Nat /\ \A i \in k .. Len(token) : token[i] \in Chars
  BY ElementsBelong DEF Texts
<1> QED BY <1>1, SubSeqProperties DEF Texts, P!From

\* The name of a long option ends in its token.
LEMMA NameEndIs ==
    ASSUME NEW token \in Texts
    PROVE  P!NameEnd(token) \in Nat /\ P!NameEnd(token) <= Len(token)
<1> DEFINE S == P!Assigned(token)
<1>1. Len(token) \in Nat /\ S \in SUBSET Nat /\ S \in SUBSET (1 .. Len(token))
  BY DEF Texts, P!Assigned
<1>2. CASE S = {}
  BY <1>1, <1>2 DEF P!NameEnd
<1>3. CASE S # {}
  <2> DEFINE i == CHOOSE k \in S : \A j \in S : k <= j
  <2>1. i \in S
    <3> HIDE DEF S
    <3>1. PICK m \in S : \A k \in S : ~(k < m)
      BY <1>1, <1>3, LeastNumber
    <3>2. \A k \in S : m <= k
      BY <1>1, <3>1
    <3> QED BY <3>1, <3>2
  <2>2. P!NameEnd(token) = i - 1
    BY <1>3 DEF P!NameEnd
  <2> HIDE DEF i, S
  <2> QED BY <1>1, <2>1, <2>2
<1> QED BY <1>2, <1>3

LEMMA Longer ==
    ASSUME NEW o \in Outcomes, NEW s \in Seq(Outcomes)
    PROVE  <<o>> \o s \in SomeOutcomes
<1>1. <<o>> \in Seq(Outcomes) /\ Len(<<o>>) = 1
  OBVIOUS
<1>2. /\ <<o>> \o s \in Seq(Outcomes) /\ Len(<<o>> \o s) = 1 + Len(s)
      /\ Len(s) \in Nat
  BY <1>1, ConcatProperties, LenProperties
<1> QED BY <1>2 DEF SomeOutcomes

LEMMA LongerStill ==
    ASSUME NEW f \in Seq(Outcomes), NEW s \in SomeOutcomes
    PROVE  f \o s \in SomeOutcomes
BY ConcatProperties, ConcatEqualIffEmpty DEF SomeOutcomes

\* What one argument means is at least one outcome, if what follows it is.
LEMMA MeaningAtIs ==
    ASSUME NEW args \in Seq(Texts), NEW i \in 1 .. Len(args), NEW at \in Nat,
           P!IsOption(args[i]) /\ ~P!IsLong(args[i]) => at <= Len(args[i]) + 1,
           NEW rest \in SomeOutcomes, NEW afterNext \in SomeOutcomes
    PROVE  P!MeaningAt(args, i, at, rest, afterNext) \in SomeOutcomes
<1> DEFINE token == args[i]
           stop == P!Stop(token, at)
           taking(o, k) ==
             IF k <= Len(token) THEN <<P!Outcome(o, P!From(token, k))>> \o rest
             ELSE IF i < Len(args) THEN <<P!Outcome(o, args[i + 1])>> \o afterNext
             ELSE <<P!Outcome(o, NoArg)>> \o rest
           name == SubSeq(token, 3, P!NameEnd(token))
<1>1. i < Len(args) => args[i + 1] \in Texts
  BY ElementsBelong
<1>2. token \in Texts /\ Len(token) \in Nat
  BY ElementsBelong DEF Texts
<1>3. ASSUME NEW o \in TheOptions, NEW a \in Texts \cup {NoArg}, NEW s \in SomeOutcomes
      PROVE  <<P!Outcome(o, a)>> \o s \in SomeOutcomes
  BY OutcomeIs, Longer DEF SomeOutcomes
<1>4. ASSUME NEW o \in TheOptions, NEW k \in Nat \ {0}
      PROVE  taking(o, k) \in SomeOutcomes
  <2>1. CASE k <= Len(token)
    BY <1>2, <1>3, <2>1, TextFrom
  <2>2. CASE ~(k <= Len(token)) /\ i < Len(args)
    BY <1>1, <1>3, <2>2
  <2>3. CASE ~(k <= Len(token)) /\ ~(i < Len(args))
    BY <1>3, <2>3
  <2> QED BY <2>1, <2>2, <2>3
<1>5. P!Unknown \in Outcomes /\ P!End \in Outcomes
  BY DEF P!Unknown, P!End, Outcomes
<1>6. <<P!End>> \in SomeOutcomes /\ <<P!Unknown>> \in SomeOutcomes
  BY <1>5 DEF SomeOutcomes
<1>7. P!NameEnd(token) \in Nat
  BY <1>2, NameEndIs
<1>8. P!MeaningAt(args, i, at, rest, afterNext) =
      IF ~P!IsOption(token) THEN <<P!End>>
      ELSE IF P!IsLong(token)
      THEN IF P!Long(name) = NoOption THEN <<P!Unknown>>
           ELSE IF P!TakesArg(P!Long(name))
           THEN IF P!Assigned(token) = {} THEN taking(P!Long(name), Len(token) + 1)
                ELSE <<P!Outcome(P!Long(name), P!From(token, P!NameEnd(token) + 2))>> \o rest
           ELSE <<P!Outcome(P!Long(name), NoArg)>> \o rest
      ELSE IF P!Stops(token, at) = {} THEN P!Flags(token, at) \o rest
      ELSE IF P!Short(token[stop]) = NoOption THEN P!Flags(token, at) \o <<P!Unknown>>
      ELSE P!Flags(token, at) \o taking(P!Short(token[stop]), stop + 1)
  BY DEF P!MeaningAt
<1> HIDE DEF token, stop, taking, name
<1>9. CASE ~P!IsOption(token)
  BY <1>6, <1>8, <1>9
<1>10. CASE P!IsOption(token) /\ P!IsLong(token)
  <2>1. P!Long(name) # NoOption => P!Long(name) \in TheOptions
    BY LookupIs
  <2>2. Len(token) + 1 \in Nat \ {0} /\ P!NameEnd(token) + 2 \in Nat \ {0}
    BY <1>2, <1>7
  <2>3. P!From(token, P!NameEnd(token) + 2) \in Texts
    BY <1>2, <2>2, TextFrom
  <2> QED BY <1>3, <1>4, <1>6, <1>8, <1>10, <2>1, <2>2, <2>3
<1>11. CASE P!IsOption(token) /\ ~P!IsLong(token)
  <2>1. at <= Len(token) + 1
    BY <1>11 DEF token
  <2>2. P!Flags(token, at) \in Seq(Outcomes)
    BY <1>2, <2>1, FlagsAre
  <2>3. P!Stops(token, at) # {} => stop + 1 \in Nat \ {0}
    BY <1>2, StopIs DEF stop
  <2>4. P!Short(token[stop]) # NoOption => P!Short(token[stop]) \in TheOptions
    BY LookupIs
  <2> QED BY <1>4, <1>6, <1>8, <1>11, <2>2, <2>3, <2>4, LongerStill
<1> QED BY <1>9, <1>10, <1>11

\* The equations of Meanings have a solution: it is built from the last
\* argument to the first.
LEMMA MeaningsExist ==
    ASSUME NEW args \in Seq(Texts)
    PROVE  LET n == Len(args) IN
           \A i \in 1 .. n + 2 :
              P!Meanings(args)[i] =
                 IF i > n THEN <<P!End>>
                 ELSE P!MeaningAt(args, i, 2, P!Meanings(args)[i + 1], P!Meanings(args)[i + 2])
<1> DEFINE n == Len(args)
           Part(i, r, a) == IF i > n THEN <<P!End>> ELSE P!MeaningAt(args, i, 2, r, a)
           Solves(m, g) == \A i \in 1 .. n + 2 :
                              i + m > n + 2 => g[i] = Part(i, g[i + 1], g[i + 2])
           Bad == {m \in 0 .. n + 2 : ~ \E g : Solves(m, g)}
<1>1. n \in Nat
  BY DEF Texts
<1>2. \A i, r, a, r2, a2 : i > n => Part(i, r, a) = Part(i, r2, a2)
  OBVIOUS
<1>3. P!Meanings(args) =
        CHOOSE f : f = [i \in 1 .. n + 2 |-> Part(i, f[i + 1], f[i + 2])]
  BY DEF P!Meanings
<1> HIDE DEF n, Part
<1>4. 0 \notin Bad
  <2>1. Solves(0, 0)
    BY <1>1
  <2> QED BY <2>1
<1>5. ASSUME NEW m \in 0 .. n + 1, NEW g, Solves(m, g)
      PROVE  \E h : Solves(m + 1, h)
  <2> DEFINE k == n + 2 - m
             h == [i \in 1 .. n + 2 |-> IF i = k THEN Part(k, g[k + 1], g[k + 2]) ELSE g[i]]
  <2>1. k \in 1 .. n + 2
    BY <1>1
  <2>2. ASSUME NEW i \in 1 .. n + 2, i + (m + 1) > n + 2
        PROVE  h[i] = Part(i, h[i + 1], h[i + 2])
    <3>1. CASE i = k
      <4>1. h[i] = Part(k, g[k + 1], g[k + 2])
        BY <2>1, <3>1
      <4>2. CASE k > n
        BY <1>2, <2>1, <3>1, <4>1, <4>2
      <4>3. CASE ~(k > n)
        <5>1. h[k + 1] = g[k + 1] /\ h[k + 2] = g[k + 2]
          BY <1>1, <2>1, <4>3
        <5> QED BY <3>1, <4>1, <5>1
      <4> QED BY <4>2, <4>3
    <3>2. CASE i # k
      <4>1. i + m > n + 2 /\ i > k
        BY <1>1, <2>1, <2>2, <3>2
      <4>2. h[i] = g[i] /\ g[i] = Part(i, g[i + 1], g[i + 2])
        BY <1>5, <3>2, <4>1
      <4>3. CASE i > n
        BY <1>2, <4>2, <4>3
      <4>4. CASE ~(i > n)
        <5>1. h[i + 1] = g[i + 1] /\ h[i + 2] = g[i + 2]
          BY <1>1, <2>1, <4>1, <4>4
        <5> QED BY <4>2, <5>1
      <4> QED BY <4>3, <4>4
    <3> QED BY <3>1, <3>2
  <2>3. Solves(m + 1, h)
    BY <2>2
  <2> QED BY <2>3
<1>6. Bad = {}
  <2> SUFFICES ASSUME Bad # {} PROVE FALSE
    OBVIOUS
  <2>1. Bad \in SUBSET Nat /\ Bad \in SUBSET (0 .. n + 2)
    BY <1>1
  <2>2. PICK m \in Bad : \A k \in Bad : ~(k < m)
    <3> HIDE DEF Bad
    <3> QED BY <2>1, LeastNumber
  <2>3. m \in 1 .. n + 2 /\ m - 1 \in 0 .. n + 1 /\ m - 1 < m
    BY <1>1, <1>4, <2>1, <2>2
  <2>4. m - 1 \notin Bad
    BY <2>2, <2>3
  <2>5. PICK g : Solves(m - 1, g)
    BY <1>1, <2>3, <2>4
  <2>6. \E h : Solves((m - 1) + 1, h)
    BY <1>5, <2>3, <2>5
  <2>7. (m - 1) + 1 = m
    BY <2>3
  <2> QED BY <2>2, <2>6, <2>7
<1>7. PICK g : Solves(n + 2, g)
  BY <1>1, <1>6
<1>8. \A i \in 1 .. n + 2 : g[i] = Part(i, g[i + 1], g[i + 2])
  BY <1>1, <1>7
<1> DEFINE f == [i \in 1 .. n + 2 |-> g[i]]
<1>9. f = [i \in 1 .. n + 2 |-> Part(i, f[i + 1], f[i + 2])]
  <2> SUFFICES ASSUME NEW i \in 1 .. n + 2
               PROVE  g[i] = Part(i, f[i + 1], f[i + 2])
    OBVIOUS
  <2>1. CASE i > n
    BY <1>2, <1>8, <2>1
  <2>2. CASE ~(i > n)
    <3>1. f[i + 1] = g[i + 1] /\ f[i + 2] = g[i + 2]
      BY <1>1, <2>2
    <3> QED BY <1>8, <3>1
  <2> QED BY <2>1, <2>2
<1>10. \E ff : ff = [i \in 1 .. n + 2 |-> Part(i, ff[i + 1], ff[i + 2])]
  <2> HIDE DEF f
  <2> QED BY <1>9
<1> DEFINE M == P!Meanings(args)
<1>11. M = [i \in 1 .. n + 2 |-> Part(i, M[i + 1], M[i + 2])]
  BY <1>3, <1>10
<1>12. \A i \in 1 .. n + 2 : M[i] = Part(i, M[i + 1], M[i + 2])
  <2> HIDE DEF M
  <2> QED BY <1>11
<1> QED BY <1>12 DEF Part, n

\* Every list of arguments has a meaning, from each of its arguments on.
LEMMA MeaningsAre ==
    ASSUME NEW args \in Seq(Texts), NEW i \in 1 .. Len(args) + 2
    PROVE  P!Meanings(args)[i] \in SomeOutcomes
<1> DEFINE n == Len(args)
           M == P!Meanings(args)
           Bad == {m \in 0 .. n + 1 : M[n + 2 - m] \notin SomeOutcomes}
<1>1. n \in Nat
  BY DEF Texts
<1>2. \A j \in 1 .. n + 2 :
         M[j] = IF j > n THEN <<P!End>> ELSE P!MeaningAt(args, j, 2, M[j + 1], M[j + 2])
  BY MeaningsExist
<1>3. <<P!End>> \in SomeOutcomes
  BY DEF P!End, Outcomes, SomeOutcomes
<1>4. \A j \in 1 .. n : P!IsOption(args[j]) => 2 <= Len(args[j]) + 1
  BY ElementsBelong DEF P!IsOption, Texts
<1> HIDE DEF M
<1>5. Bad = {}
  <2> SUFFICES ASSUME Bad # {} PROVE FALSE
    OBVIOUS
  <2>1. Bad \in SUBSET Nat /\ Bad \in SUBSET (0 .. n + 1)
    BY <1>1
  <2>2. PICK m \in Bad : \A k \in Bad : ~(k < m)
    <3> HIDE DEF Bad
    <3> QED BY <2>1, LeastNumber
  <2> DEFINE j == n + 2 - m
  <2>3. m \in 0 .. n + 1 /\ j \in 1 .. n + 2
    BY <1>1, <2>1
  <2>4. CASE j > n
    BY <1>2, <1>3, <2>2, <2>3, <2>4
  <2>5. CASE ~(j > n)
    <3>1. m - 1 \in 0 .. n + 1 /\ m - 2 \in 0 .. n + 1 /\ m - 1 < m /\ m - 2 < m
          /\ j + 1 = n + 2 - (m - 1) /\ j + 2 = n + 2 - (m - 2) /\ j \in 1 .. n
      BY <1>1, <2>3, <2>5
    <3>2. M[j + 1] \in SomeOutcomes /\ M[j + 2] \in SomeOutcomes
      BY <2>2, <3>1
    <3>3. M[j] = P!MeaningAt(args, j, 2, M[j + 1], M[j + 2])
      BY <1>2, <2>3, <2>5
    <3>4. M[j] \in SomeOutcomes
      BY <1>4, <3>1, <3>2, <3>3, MeaningAtIs
    <3> QED BY <2>2, <3>4
  <2> QED BY <2>4, <2>5
<1>6. M[i] \in SomeOutcomes
  <2>1. n + 2 - i \in 0 .. n + 1 /\ n + 2 - (n + 2 - i) = i
    BY <1>1
  <2> QED BY <1>5, <2>1
<1> QED BY <1>6 DEF M

\* What the options mean from one argument on is told by that argument and
\* the two after it.
LEMMA MeaningUnfolds ==
    ASSUME NEW args \in Seq(Texts), NEW i \in 1 .. Len(args), NEW at \in Nat
    PROVE  /\ P!Meaning(args, i, at) =
                P!MeaningAt(args, i, at, P!Meaning(args, i + 1, 2), P!Meaning(args, i + 2, 2))
           /\ P!Meaning(args, i + 1, 2) \in SomeOutcomes
           /\ P!Meaning(args, i + 2, 2) \in SomeOutcomes
<1>1. Len(args) \in Nat
  BY DEF Texts
<1>2. \A j \in 1 .. Len(args) + 2 : P!Meaning(args, j, 2) = P!Meanings(args)[j]
  BY MeaningsExist DEF P!Meaning
<1>3. P!Meaning(args, i, at) =
        P!MeaningAt(args, i, at, P!Meanings(args)[i + 1], P!Meanings(args)[i + 2])
  BY <1>1 DEF P!Meaning
<1>4. i + 1 \in 1 .. Len(args) + 2 /\ i + 2 \in 1 .. Len(args) + 2
  BY <1>1
<1> QED BY <1>2, <1>3, <1>4, MeaningsAre

LEMMA MeaningIs ==
    ASSUME NEW args \in Seq(Texts), NEW i \in Nat \ {0}, NEW at \in Nat,
           i <= Len(args) =>
              (P!IsOption(args[i]) /\ ~P!IsLong(args[i]) => at <= Len(args[i]) + 1)
    PROVE  P!Meaning(args, i, at) \in SomeOutcomes
<1>1. Len(args) \in Nat
  BY DEF Texts
<1>2. CASE i <= Len(args)
  BY <1>1, <1>2, MeaningUnfolds, MeaningAtIs
<1>3. CASE ~(i <= Len(args))
  BY <1>1, <1>3 DEF P!Meaning, P!End, Outcomes, SomeOutcomes
<1> QED BY <1>2, <1>3

\* The first of several outcomes, and the others.
LEMMA HeadAndTail ==
    ASSUME NEW o \in Outcomes, NEW s \in SomeOutcomes
    PROVE  /\ Head(<<o>> \o s) = o
           /\ Tail(<<o>> \o s) = s
           /\ Len(<<o>> \o s) # 1
<1>1. <<o>> \in Seq(Outcomes) /\ Len(<<o>>) = 1 /\ s \in Seq(Outcomes)
      /\ Len(s) \in Nat \ {0} /\ <<o>>[1] = o
  BY EmptySeq DEF SomeOutcomes
<1> DEFINE all == <<o>> \o s
<1>2. /\ all \in Seq(Outcomes) /\ Len(all) = 1 + Len(s)
      /\ \A i \in 1 .. 1 + Len(s) : all[i] = IF i <= 1 THEN <<o>>[i] ELSE s[i - 1]
  BY <1>1, ConcatProperties
<1> HIDE DEF all
<1>3. all # << >>
  BY <1>1, <1>2
<1>4. /\ Tail(all) \in Seq(Outcomes) /\ Len(Tail(all)) = Len(all) - 1
      /\ \A i \in 1 .. Len(Tail(all)) : Tail(all)[i] = all[i + 1]
  BY <1>2, <1>3, HeadTailProperties
<1>5. Len(Tail(all)) = Len(s)
  BY <1>1, <1>2, <1>4
<1>6. \A i \in 1 .. Len(s) : Tail(all)[i] = s[i]
  <2> TAKE i \in 1 .. Len(s)
  <2>1. i + 1 \in 1 .. 1 + Len(s) /\ ~(i + 1 <= 1) /\ (i + 1) - 1 = i
    BY <1>1
  <2> QED BY <1>2, <1>4, <1>5, <2>1
<1>7. Tail(all) = s
  BY <1>1, <1>4, <1>5, <1>6, SeqEqual
<1>8. Head(all) = o /\ Len(all) # 1
  BY <1>1, <1>2
<1> QED BY <1>7, <1>8 DEF all

-----------------------------------------------------------------------------
(* Each call of next() takes the next option of that meaning.              *)

\* Between two calls: a group that is being read is a group of letters, and
\* no argument is looked at before the words are there.
ParserInv ==
    /\ GroupInv
    /\ P!TypeOK
    /\ current_arg \in Texts \cup {NoArg}
    /\ ~done => index = 0 /\ state = "IDLE"
    /\ state = "CHAIN" => P!IsOption(P!Token) /\ ~P!IsLong(P!Token)

At == IF state = "CHAIN" THEN offset + 2 ELSE 2

LEMMA TokenIs ==
    ASSUME ParserInv, index < P!argc
    PROVE  /\ P!Token \in Texts /\ Len(P!Token) \in Nat
           /\ index + 1 \in 1 .. Len(Args) /\ Args \in Seq(Texts)
           /\ P!argc = Len(Args) /\ Len(Args) \in Nat /\ index \in Nat
           /\ P!Token = Args[index + 1]
<1>1. /\ Args \in Seq(Texts) /\ P!argc \in Nat /\ index \in Nat
      /\ \A i \in 1 .. P!argc : Args[i] \in Texts /\ Len(Args[i]) \in Nat
  BY ArgsAre DEF ParserInv, GroupInv
<1>2. P!argc = Len(Args) /\ P!Token = Args[index + 1]
  BY DEF P!argc, P!Token
<1>3. index + 1 \in 1 .. P!argc
  BY <1>1
<1> QED BY <1>1, <1>2, <1>3

LEMMA UnreadIs ==
    ASSUME ParserInv, state # "FINISHED", index < P!argc
    PROVE  /\ P!Unread = P!MeaningAt(Args, index + 1, At, P!Meaning(Args, index + 2, 2),
                                     P!Meaning(Args, index + 3, 2))
           /\ P!Meaning(Args, index + 2, 2) \in SomeOutcomes
           /\ P!Meaning(Args, index + 3, 2) \in SomeOutcomes
           /\ At \in Nat
           /\ P!IsOption(P!Token) => At <= Len(P!Token)
<1>1. /\ index + 1 \in 1 .. Len(Args) /\ Args \in Seq(Texts) /\ index \in Nat
      /\ Len(P!Token) \in Nat
  BY TokenIs
<1>2. At \in Nat /\ (state = "CHAIN" => At <= Len(P!Token))
  BY DEF At, ParserInv, GroupInv, P!GroupHasLetters
<1>3. P!Unread = P!Meaning(Args, index + 1, At)
  BY DEF P!Unread, At
<1>4. (index + 1) + 1 = index + 2 /\ (index + 1) + 2 = index + 3
  BY <1>1
<1>5. P!IsOption(P!Token) => 2 <= Len(P!Token)
  BY <1>1 DEF P!IsOption
<1> QED BY <1>1, <1>2, <1>3, <1>4, <1>5, MeaningUnfolds DEF At

LEMMA HeardOutcome ==
    ASSUME state' # "FINISHED", current_opt' \in TheOptions
    PROVE  P!Heard' = P!Outcome(current_opt', current_arg')
<1>1. current_opt' # NoOption
  BY TableIs
<1> QED BY <1>1 DEF P!Heard, P!Result, P!Outcome

\* What a call does: it takes the next outcome, and only the end of the
\* options and one that nobody knows are found again.
WellTaken ==
    /\ P!TypeOK'
    /\ P!Result' = "OK" => Len(P!Unread) # 1
    /\ current_arg' \in Texts \cup {NoArg}
    /\ (state = "CHAIN" => P!IsOption(P!Token) /\ ~P!IsLong(P!Token))'
    /\ P!TakesNext

LEMMA EndsTakes ==
    ASSUME ParserInv, UNCHANGED Args, P!NextEnds
    PROVE  WellTaken
<1>1. /\ state' = "FINISHED" /\ current_arg' = NoArg /\ current_opt' = NoOption
      /\ offset' = offset /\ index' = IF state = "IDLE" /\ P!AtEndMark THEN index + 1 ELSE index
  BY DEF P!NextEnds, P!Found
<1>2. index \in 0 .. P!argc /\ P!argc \in Nat /\ P!argc' = P!argc
  BY ArgsAre DEF ParserInv, GroupInv, P!TypeOK, P!argc
<1>3. index' \in 0 .. P!argc
  BY <1>1, <1>2 DEF P!AtEndMark
<1>4. P!Heard' = P!End
  BY <1>1 DEF P!Heard, P!Result, P!End
<1>5. P!Unread = <<P!End>>
  <2>1. CASE state = "FINISHED"
    BY <2>1 DEF P!Unread
  <2>2. CASE state # "FINISHED" /\ index < P!argc
    <3>1. ~P!IsOption(Args[index + 1])
      BY <2>2 DEF P!NextEnds, P!AtOption, P!Token
    <3> QED BY <2>2, <3>1, UnreadIs DEF P!MeaningAt
  <2>3. CASE state # "FINISHED" /\ ~(index < P!argc)
    <3>1. state = "IDLE"
      BY <2>3 DEF P!NextEnds
    <3> QED BY <1>2, <2>3, <3>1 DEF P!Unread, P!Meaning, P!argc
  <2> QED BY <2>1, <2>2, <2>3
<1>6. P!Unread' = <<P!End>>
  BY <1>1 DEF P!Unread
<1>7. P!TakesNext
  BY <1>4, <1>5, <1>6 DEF P!TakesNext
<1>8. P!Result' # "OK"
  BY <1>1 DEF P!Result
<1> QED BY <1>1, <1>2, <1>3, <1>7, <1>8 DEF WellTaken, P!TypeOK, ParserInv

\* An option that takes an argument, or not, and the arguments after it.
LEMMA OneTaken ==
    ASSUME ParserInv, UNCHANGED Args,
           NEW o \in TheOptions, NEW a \in Texts \cup {NoArg}, NEW s \in SomeOutcomes,
           P!Unread = <<P!Outcome(o, a)>> \o s,
           current_opt' = o, current_arg' = a,
           state' \in {"IDLE", "CHAIN"}, P!Unread' = s
    PROVE  P!TakesNext /\ Len(P!Unread) # 1
<1>1. P!Heard' = P!Outcome(o, a)
  BY HeardOutcome
<1>2. P!Outcome(o, a) \in Outcomes
  BY OutcomeIs
<1>3. Head(P!Unread) = P!Outcome(o, a) /\ Tail(P!Unread) = s /\ Len(P!Unread) # 1
  BY <1>2, HeadAndTail
<1> QED BY <1>1, <1>3 DEF P!TakesNext

LEMMA UnknownTakes ==
    ASSUME ParserInv, UNCHANGED Args, P!NextUnknown
    PROVE  WellTaken
<1>1. /\ current_arg' = NoArg /\ current_opt' = NoOption /\ index' = index /\ state' = state
  BY DEF P!NextUnknown, P!Found
<1>2. state \in {"IDLE", "CHAIN"} /\ index < P!argc /\ P!IsOption(P!Token)
  BY DEF P!NextUnknown, P!InGroup, P!AtLong, P!AtOption, ParserInv, GroupInv, P!GroupHasLetters
<1>3. /\ P!Token \in Texts /\ Len(P!Token) \in Nat /\ index + 1 \in 1 .. Len(Args)
      /\ P!argc = Len(Args) /\ index \in Nat /\ P!Token = Args[index + 1]
  BY <1>2, TokenIs
<1>4. /\ P!Unread = P!MeaningAt(Args, index + 1, At, P!Meaning(Args, index + 2, 2),
                                P!Meaning(Args, index + 3, 2))
      /\ At \in Nat /\ At <= Len(P!Token)
  BY <1>2, UnreadIs
<1>5. offset' \in Nat /\ (state = "CHAIN" => offset' = offset)
  BY <1>2 DEF P!NextUnknown, P!AtLong, P!Place, ParserInv, GroupInv
<1>6. P!Token' = P!Token /\ P!argc' = P!argc
  BY <1>1 DEF P!Token, P!argc
<1>7. P!Unread' = P!Unread
  BY <1>1, <1>5 DEF P!Unread
<1>8. P!Heard' = P!Unknown
  BY <1>1, <1>2 DEF P!Heard, P!Result, P!Unknown
<1>9. P!Unread = <<P!Unknown>>
  <2>1. CASE P!InGroup
    <3>1. P!Place + 2 = At /\ ~P!IsLong(P!Token)
      BY <1>2, <2>1 DEF P!Place, At, P!InGroup, P!AtOption, ParserInv
    <3>2. P!Short(P!Token[At]) = NoOption
      BY <2>1, <3>1 DEF P!NextUnknown, P!Letter, P!InGroup, P!AtLong, ParserInv
    <3>3. ~P!IsFlag(P!Short(P!Token[At]))
      BY <3>2 DEF P!IsFlag
    <3>4. At \in P!Stops(P!Token, At)
      BY <1>3, <1>4, <3>3 DEF P!Stops
    <3>5. P!Stop(P!Token, At) = At
      <4>1. P!Stop(P!Token, At) \in At .. Len(P!Token)
        BY <1>3, <1>4, <3>4, StopIs
      <4>2. ~(At < P!Stop(P!Token, At))
        BY <1>3, <1>4, <3>3, <4>1, StopIs
      <4> QED BY <1>3, <1>4, <4>1, <4>2
    <3>6. P!Flags(P!Token, At) \in Seq(Outcomes) /\ Len(P!Flags(P!Token, At)) = 0
      BY <1>3, <1>4, <3>5, FlagsAre
    <3>7. P!Flags(P!Token, At) = << >>
      BY <3>6, EmptySeq
    <3>8. P!Unread = << >> \o <<P!Unknown>>
      BY <1>2, <1>3, <1>4, <3>1, <3>2, <3>4, <3>5, <3>7 DEF P!MeaningAt
    <3> QED BY <3>8
  <2>2. CASE P!AtLong
    <3>1. P!IsLong(P!Token) /\ P!Long(SubSeq(P!Token, 3, P!NameEnd(P!Token))) = NoOption
      BY <2>2 DEF P!NextUnknown, P!AtLong, P!InGroup
    <3> QED BY <1>2, <1>3, <1>4, <3>1 DEF P!MeaningAt
  <2> QED BY <2>1, <2>2 DEF P!NextUnknown
<1>10. Len(<<P!Unknown>>) = 1 /\ Head(<<P!Unknown>>) = P!Unknown
  OBVIOUS
<1>11. P!TakesNext
  BY <1>7, <1>8, <1>9, <1>10 DEF P!TakesNext
<1>12. P!TypeOK'
  BY <1>1, <1>2, <1>5, <1>6 DEF P!TypeOK, ParserInv
<1>13. P!Result' # "OK"
  BY <1>1 DEF P!Result
<1> QED BY <1>1, <1>6, <1>11, <1>12, <1>13 DEF WellTaken, ParserInv

\* Inside a group the next letter is where the meaning goes on.
LEMMA InGroupIs ==
    ASSUME ParserInv, P!InGroup
    PROVE  /\ state \in {"IDLE", "CHAIN"} /\ index < P!argc
           /\ P!IsOption(P!Token) /\ ~P!IsLong(P!Token)
           /\ P!Place \in Nat /\ P!Place + 2 = At /\ At <= Len(P!Token)
           /\ P!Letter = P!Token[At]
<1>1. state \in {"IDLE", "CHAIN"} /\ index < P!argc /\ P!IsOption(P!Token) /\ ~P!IsLong(P!Token)
  BY DEF P!InGroup, P!AtOption, ParserInv, GroupInv, P!GroupHasLetters
<1>2. P!Place \in Nat /\ P!Place + 2 = At
  BY <1>1 DEF P!Place, At, ParserInv, GroupInv
<1> QED BY <1>1, <1>2, UnreadIs DEF P!Letter

LEMMA FlagTakes ==
    ASSUME ParserInv, UNCHANGED Args, P!NextFlag
    PROVE  WellTaken
<1>1. /\ state \in {"IDLE", "CHAIN"} /\ index < P!argc
      /\ P!IsOption(P!Token) /\ ~P!IsLong(P!Token)
      /\ P!Place \in Nat /\ P!Place + 2 = At /\ At <= Len(P!Token)
      /\ P!Letter = P!Token[At]
  BY InGroupIs DEF P!NextFlag
<1>2. /\ P!Token \in Texts /\ Len(P!Token) \in Nat /\ index + 1 \in 1 .. Len(Args)
      /\ P!argc = Len(Args) /\ index \in Nat /\ P!Token = Args[index + 1]
      /\ Args \in Seq(Texts) /\ Len(Args) \in Nat
  BY <1>1, TokenIs
<1> DEFINE rest == P!Meaning(Args, index + 2, 2)
           afterNext == P!Meaning(Args, index + 3, 2)
           o == P!Short(P!Letter)
           token == P!Token
<1>3. /\ P!Unread = P!MeaningAt(Args, index + 1, At, rest, afterNext)
      /\ rest \in SomeOutcomes /\ afterNext \in SomeOutcomes
      /\ At \in Nat /\ At >= 2
  BY <1>1, UnreadIs
<1>4. /\ o \in TheOptions /\ P!IsFlag(o)
      /\ current_opt' = o /\ current_arg' = NoArg /\ offset' = P!Place + 1
  BY LookupIs DEF P!NextFlag, P!Found, P!IsFlag
<1>5. P!argc' = P!argc
  BY DEF P!argc
<1>6. P!Outcome(o, NoArg) \in Outcomes
  BY <1>4, OutcomeIs
\* The letters from here on are this one and the letters behind it.
<1>7. P!Stops(token, At) = P!Stops(token, At + 1)
  BY <1>1, <1>2, <1>3, <1>4 DEF P!Stops
<1>8. P!Stop(token, At) = P!Stop(token, At + 1)
  BY <1>7 DEF P!Stop
<1>9. P!Flags(token, At) = <<P!Outcome(o, NoArg)>> \o P!Flags(token, At + 1)
  <2> DEFINE f == P!Flags(token, At)
             g == P!Flags(token, At + 1)
             stop == P!Stop(token, At)
             e == P!Outcome(o, NoArg)
  <2>1. /\ f \in Seq(Outcomes) /\ Len(f) = stop - At /\ stop - At \in Nat
        /\ g \in Seq(Outcomes) /\ Len(g) = stop - (At + 1) /\ stop - (At + 1) \in Nat
    BY <1>1, <1>2, <1>3, <1>8, FlagsAre
  <2>2. /\ \A k \in 1 .. stop - At : f[k] = P!Outcome(P!Short(token[At + k - 1]), NoArg)
        /\ \A k \in 1 .. stop - (At + 1) :
              g[k] = P!Outcome(P!Short(token[(At + 1) + k - 1]), NoArg)
    BY <1>8 DEF P!Flags
  <2>3. <<e>> \in Seq(Outcomes) /\ Len(<<e>>) = 1 /\ <<e>>[1] = e
    BY <1>6
  <2>4. stop \in Int
    BY <1>1, <1>2, <1>3, StopIs
  <2>5. f[1] = e
    BY <1>1, <1>3, <2>1, <2>2, <2>4
  <2> HIDE DEF f, g, stop, e
  <2> DEFINE h == <<e>> \o g
  <2>6. /\ h \in Seq(Outcomes) /\ Len(h) = 1 + Len(g)
        /\ \A i \in 1 .. 1 + Len(g) : h[i] = IF i <= 1 THEN <<e>>[i] ELSE g[i - 1]
    BY <2>1, <2>3, ConcatProperties
  <2> HIDE DEF h
  <2>7. Len(h) = Len(f)
    BY <1>3, <2>1, <2>4, <2>6
  <2>8. \A i \in 1 .. Len(f) : f[i] = h[i]
    <3> TAKE i \in 1 .. Len(f)
    <3>1. CASE i = 1
      BY <2>1, <2>3, <2>5, <2>6, <3>1
    <3>2. CASE i # 1
      <4>1. /\ i \in 1 .. stop - At /\ i - 1 \in 1 .. stop - (At + 1)
            /\ i \in 1 .. 1 + Len(g) /\ ~(i <= 1)
            /\ At + i - 1 = (At + 1) + (i - 1) - 1
        BY <1>3, <2>1, <2>4, <3>2
      <4>2. f[i] = P!Outcome(P!Short(token[At + i - 1]), NoArg)
        BY <2>2, <4>1
      <4>3. g[i - 1] = P!Outcome(P!Short(token[(At + 1) + (i - 1) - 1]), NoArg)
        BY <2>2, <4>1
      <4> QED BY <2>6, <4>1, <4>2, <4>3
    <3> QED BY <3>1, <3>2
  <2>9. f = h
    BY <2>1, <2>6, <2>7, <2>8, SeqEqual
  <2> QED BY <2>9 DEF f, g, h, e
<1> DEFINE behind == P!MeaningAt(Args, index + 1, At + 1, rest, afterNext)
<1>10. P!Unread = <<P!Outcome(o, NoArg)>> \o behind /\ behind \in SomeOutcomes
  <2> DEFINE taking(p, k) ==
               IF k <= Len(token) THEN <<P!Outcome(p, P!From(token, k))>> \o rest
               ELSE IF index + 1 < Len(Args)
               THEN <<P!Outcome(p, Args[(index + 1) + 1])>> \o afterNext
               ELSE <<P!Outcome(p, NoArg)>> \o rest
             stop == P!Stop(token, At + 1)
             tail == IF P!Stops(token, At + 1) = {} THEN rest
                     ELSE IF P!Short(token[stop]) = NoOption THEN <<P!Unknown>>
                     ELSE taking(P!Short(token[stop]), stop + 1)
             e == P!Outcome(o, NoArg)
  <2>1. P!Unread = P!Flags(token, At) \o tail /\ behind = P!Flags(token, At + 1) \o tail
    BY <1>1, <1>2, <1>3, <1>7, <1>8 DEF P!MeaningAt
  <2>2. tail \in Seq(Outcomes)
    <3>1. P!Unknown \in Outcomes
      BY DEF P!Unknown, Outcomes
    <3>2. ASSUME NEW p \in TheOptions, NEW a \in Texts \cup {NoArg}, NEW s \in SomeOutcomes
          PROVE  <<P!Outcome(p, a)>> \o s \in Seq(Outcomes)
      BY <3>2, OutcomeIs, Longer DEF SomeOutcomes
    <3>3. P!Stops(token, At + 1) # {} =>
            /\ stop + 1 \in Nat \ {0}
            /\ P!Short(token[stop]) # NoOption => P!Short(token[stop]) \in TheOptions
      <4>1. At + 1 \in Nat
        BY <1>3
      <4>2. P!Stops(token, At + 1) # {} => stop \in At + 1 .. Len(token)
        BY <1>2, <4>1, StopIs
      <4>3. P!Short(token[stop]) # NoOption => P!Short(token[stop]) \in TheOptions
        BY LookupIs
      <4> HIDE DEF stop, token
      <4> QED BY <1>3, <4>2, <4>3
    <3>4. index + 1 < Len(Args) => Args[(index + 1) + 1] \in Texts
      BY <1>2, ElementsBelong
    <3>5. ASSUME NEW p \in TheOptions, NEW k \in Nat \ {0}
          PROVE  taking(p, k) \in Seq(Outcomes)
      BY <1>2, <1>3, <3>2, <3>4, TextFrom
    <3>6. <<P!Unknown>> \in Seq(Outcomes) /\ rest \in Seq(Outcomes)
      BY <1>3, <3>1 DEF SomeOutcomes
    <3> HIDE DEF taking, stop
    <3> QED BY <3>3, <3>5, <3>6
  <2>3. behind \in SomeOutcomes
    <3>1. At + 1 \in Nat /\ At + 1 <= Len(token) + 1
      BY <1>1, <1>2, <1>3
    <3> QED BY <1>2, <1>3, <3>1, MeaningAtIs
  <2>4. <<e>> \in Seq(Outcomes) /\ P!Flags(token, At + 1) \in Seq(Outcomes)
    <3>1. At + 1 \in Nat /\ At + 1 <= Len(token) + 1
      BY <1>1, <1>2, <1>3
    <3> QED BY <1>2, <1>6, <3>1, FlagsAre
  <2> HIDE DEF tail, e, behind, token
  <2>5. (<<e>> \o P!Flags(token, At + 1)) \o tail = <<e>> \o (P!Flags(token, At + 1) \o tail)
    BY <2>2, <2>4, ConcatAssociative
  <2> QED BY <1>9, <2>1, <2>3, <2>5 DEF e
<1>11. CASE P!MoreLetters(P!Place)
  <2>1. state' = "CHAIN" /\ index' = index
    BY <1>11 DEF P!NextFlag
  <2>2. P!Token' = P!Token
    BY <2>1 DEF P!Token
  <2>3. P!Unread' = behind
    <3>1. P!Unread' = P!Meaning(Args, index + 1, offset' + 2)
      BY <2>1 DEF P!Unread
    <3>2. offset' + 2 = At + 1 /\ (index + 1) + 1 = index + 2 /\ (index + 1) + 2 = index + 3
      BY <1>1, <1>2, <1>4
    <3> QED BY <1>2, <1>3, <3>1, <3>2, MeaningUnfolds
  <2>4. P!TakesNext /\ Len(P!Unread) # 1
    BY <1>4, <1>10, <2>1, <2>3, OneTaken
  <2>5. P!TypeOK'
    BY <1>1, <1>2, <1>4, <1>5, <2>1 DEF P!TypeOK, TheOptions
  <2> QED BY <1>1, <1>4, <2>1, <2>2, <2>4, <2>5 DEF WellTaken
<1>12. CASE ~P!MoreLetters(P!Place)
  <2>1. state' = "IDLE" /\ index' = index + 1
    BY <1>12 DEF P!NextFlag
  <2>2. At = Len(token)
    BY <1>1, <1>2, <1>3, <1>12 DEF P!MoreLetters
  <2>3. P!Stops(token, At + 1) = {}
    BY <1>2, <2>2 DEF P!Stops
  <2>4. P!Flags(token, At + 1) = << >>
    <3>1. P!Flags(token, At + 1) \in Seq(Outcomes) /\ Len(P!Flags(token, At + 1)) = 0
      <4>1. At + 1 \in Nat /\ At + 1 <= Len(token) + 1
        BY <1>2, <1>3, <2>2
      <4>2. P!Stop(token, At + 1) = At + 1
        BY <1>2, <2>2, <2>3, <4>1, StopIs
      <4>3. /\ P!Flags(token, At + 1) \in Seq(Outcomes)
            /\ Len(P!Flags(token, At + 1)) = P!Stop(token, At + 1) - (At + 1)
        BY <1>2, <4>1, FlagsAre
      <4> QED BY <4>1, <4>2, <4>3
    <3> QED BY <3>1, EmptySeq
  <2>5. behind = rest
    <3>1. behind = << >> \o rest
      BY <1>1, <1>2, <2>3, <2>4 DEF P!MeaningAt
    <3> QED BY <1>3, <3>1, ConcatEmptySeq DEF SomeOutcomes
  <2>6. P!Unread' = rest
    <3>1. P!Unread' = P!Meaning(Args, (index + 1) + 1, 2)
      BY <2>1 DEF P!Unread
    <3> QED BY <1>2, <3>1
  <2>7. P!TakesNext /\ Len(P!Unread) # 1
    BY <1>3, <1>4, <1>10, <2>1, <2>5, <2>6, OneTaken
  <2>8. P!TypeOK'
    BY <1>1, <1>2, <1>4, <1>5, <2>1 DEF P!TypeOK, TheOptions
  <2> QED BY <1>4, <2>1, <2>7, <2>8 DEF WellTaken
<1> QED BY <1>11, <1>12

\* The argument of an option: what the code takes is what the option means.
LEMMA ArgumentTaken ==
    ASSUME ParserInv, UNCHANGED Args, index < P!argc,
           NEW o \in TheOptions, NEW k \in Nat \ {0}, NEW hasRest \in BOOLEAN,
           P!ArgumentOf(k, hasRest), current_opt' = o, state' = "IDLE",
           P!Unread =
             IF hasRest
             THEN <<P!Outcome(o, P!From(P!Token, k))>> \o P!Meaning(Args, index + 2, 2)
             ELSE IF index + 1 < Len(Args)
             THEN <<P!Outcome(o, Args[index + 2])>> \o P!Meaning(Args, index + 3, 2)
             ELSE <<P!Outcome(o, NoArg)>> \o P!Meaning(Args, index + 2, 2)
    PROVE  /\ P!TakesNext /\ Len(P!Unread) # 1
           /\ index' \in 0 .. P!argc' /\ current_arg' \in Texts \cup {NoArg}
<1>1. /\ P!Token \in Texts /\ index + 1 \in 1 .. Len(Args) /\ Args \in Seq(Texts)
      /\ P!argc = Len(Args) /\ Len(Args) \in Nat /\ index \in Nat
  BY TokenIs
<1>2. P!argc' = P!argc
  BY DEF P!argc
<1> DEFINE rest == P!Meaning(Args, index + 2, 2)
           afterNext == P!Meaning(Args, index + 3, 2)
<1>3. rest \in SomeOutcomes /\ afterNext \in SomeOutcomes
  <2>1. (index + 1) + 1 = index + 2 /\ (index + 1) + 2 = index + 3 /\ 2 \in Nat
    BY <1>1
  <2> QED BY <1>1, <2>1, MeaningUnfolds
<1>4. P!Unread' = P!Meaning(Args, index' + 1, 2)
  BY DEF P!Unread
<1>5. CASE hasRest
  <2>1. current_arg' = P!From(P!Token, k) /\ index' = index + 1
    BY <1>5 DEF P!ArgumentOf
  <2>2. P!From(P!Token, k) \in Texts
    BY <1>1, TextFrom
  <2>3. P!Unread' = rest
    BY <1>1, <1>4, <2>1
  <2>4. P!Unread = <<P!Outcome(o, P!From(P!Token, k))>> \o rest
    BY <1>5
  <2>5. P!TakesNext /\ Len(P!Unread) # 1
    BY <1>3, <2>1, <2>2, <2>3, <2>4, OneTaken
  <2> QED BY <1>1, <1>2, <2>1, <2>2, <2>5
<1>6. CASE ~hasRest /\ index + 1 < Len(Args)
  <2>1. current_arg' = Args[index + 2] /\ index' = index + 2
    BY <1>1, <1>6 DEF P!ArgumentOf, P!IsLastArg, P!TakesFollowing
  <2>2. Args[index + 2] \in Texts
    BY <1>1, <1>6, ElementsBelong
  <2>3. P!Unread' = afterNext
    BY <1>1, <1>4, <2>1
  <2>4. P!Unread = <<P!Outcome(o, Args[index + 2])>> \o afterNext
    BY <1>6
  <2>5. P!TakesNext /\ Len(P!Unread) # 1
    BY <1>3, <2>1, <2>2, <2>3, <2>4, OneTaken
  <2> QED BY <1>1, <1>2, <1>6, <2>1, <2>2, <2>5
<1>7. CASE ~hasRest /\ ~(index + 1 < Len(Args))
  <2>1. current_arg' = NoArg /\ index' = index + 1
    BY <1>1, <1>7 DEF P!ArgumentOf, P!IsLastArg
  <2>2. P!Unread' = rest
    BY <1>1, <1>4, <2>1
  <2>3. P!Unread = <<P!Outcome(o, NoArg)>> \o rest
    BY <1>7
  <2>4. P!TakesNext /\ Len(P!Unread) # 1
    BY <1>3, <2>1, <2>2, <2>3, OneTaken
  <2> QED BY <1>1, <1>2, <2>1, <2>4
<1> QED BY <1>5, <1>6, <1>7

LEMMA WithArgTakes ==
    ASSUME ParserInv, UNCHANGED Args, P!NextWithArg
    PROVE  WellTaken
<1>1. /\ state \in {"IDLE", "CHAIN"} /\ index < P!argc
      /\ P!IsOption(P!Token) /\ ~P!IsLong(P!Token)
      /\ P!Place \in Nat /\ P!Place + 2 = At /\ At <= Len(P!Token)
      /\ P!Letter = P!Token[At]
  BY InGroupIs DEF P!NextWithArg
<1>2. /\ P!Token \in Texts /\ Len(P!Token) \in Nat /\ index + 1 \in 1 .. Len(Args)
      /\ P!argc = Len(Args) /\ index \in Nat /\ P!Token = Args[index + 1]
      /\ Args \in Seq(Texts) /\ Len(Args) \in Nat
  BY <1>1, TokenIs
<1> DEFINE rest == P!Meaning(Args, index + 2, 2)
           afterNext == P!Meaning(Args, index + 3, 2)
           o == P!Short(P!Letter)
           token == P!Token
<1>3. /\ P!Unread = P!MeaningAt(Args, index + 1, At, rest, afterNext)
      /\ rest \in SomeOutcomes /\ afterNext \in SomeOutcomes
      /\ At \in Nat /\ At >= 2
  BY <1>1, UnreadIs
<1>4. /\ o \in TheOptions /\ P!TakesArg(o) /\ ~P!IsFlag(o) /\ o # NoOption
      /\ current_opt' = o /\ offset' = P!Place /\ state' = "IDLE"
      /\ P!ArgumentOf(P!Place + 3, P!Place + 2 < Len(token))
  BY LookupIs DEF P!NextWithArg, P!Found, P!TakesArg, P!IsFlag
<1>5. P!Stop(token, At) = At /\ P!Stops(token, At) # {}
  <2>1. At \in P!Stops(token, At)
    BY <1>1, <1>2, <1>3, <1>4 DEF P!Stops
  <2>2. P!Stop(token, At) \in At .. Len(token)
    BY <1>2, <1>3, <2>1, StopIs
  <2>3. ~(At < P!Stop(token, At))
    <3>1. At \in At .. Len(token)
      BY <1>1, <1>2, <1>3
    <3> QED BY <1>1, <1>2, <1>3, <1>4, <3>1, StopIs
  <2> QED BY <1>2, <1>3, <2>1, <2>2, <2>3
<1>6. P!Flags(token, At) = << >>
  <2>1. At <= Len(token) + 1
    BY <1>1, <1>2, <1>3
  <2>2. P!Flags(token, At) \in Seq(Outcomes) /\ Len(P!Flags(token, At)) = 0
    BY <1>2, <1>3, <1>5, <2>1, FlagsAre
  <2> QED BY <2>2, EmptySeq
<1> DEFINE hasRest == P!Place + 2 < Len(token)
           meant == IF hasRest
                    THEN <<P!Outcome(o, P!From(token, P!Place + 3))>> \o rest
                    ELSE IF index + 1 < Len(Args)
                    THEN <<P!Outcome(o, Args[index + 2])>> \o afterNext
                    ELSE <<P!Outcome(o, NoArg)>> \o rest
<1>7. P!Unread = meant
  <2>1. At + 1 = P!Place + 3 /\ (index + 1) + 1 = index + 2 /\ (At + 1 <= Len(token) <=> hasRest)
    BY <1>1, <1>2, <1>3
  <2> DEFINE taken == IF At + 1 <= Len(token)
                      THEN <<P!Outcome(o, P!From(token, At + 1))>> \o rest
                      ELSE IF index + 1 < Len(Args)
                      THEN <<P!Outcome(o, Args[(index + 1) + 1])>> \o afterNext
                      ELSE <<P!Outcome(o, NoArg)>> \o rest
  <2>2. P!Unread = << >> \o taken
    BY <1>1, <1>2, <1>3, <1>4, <1>5, <1>6 DEF P!MeaningAt
  <2>3. taken = meant
    BY <2>1
  <2>4. \A a \in Texts \cup {NoArg}, s \in SomeOutcomes : <<P!Outcome(o, a)>> \o s \in Seq(Outcomes)
    BY <1>4, OutcomeIs, Longer DEF SomeOutcomes
  <2>5. meant \in Seq(Outcomes)
    <3>1. P!From(token, P!Place + 3) \in Texts
      <4>1. P!Place + 3 \in Nat \ {0}
        BY <1>1
      <4> QED BY <1>2, <4>1, TextFrom
    <3>2. index + 1 < Len(Args) => Args[index + 2] \in Texts
      BY <1>2, ElementsBelong
    <3> HIDE DEF rest, afterNext, o, token, hasRest
    <3> QED BY <1>3, <2>4, <3>1, <3>2
  <2> HIDE DEF taken, meant
  <2> QED BY <2>2, <2>3, <2>5, ConcatEmptySeq
<1>8. /\ P!TakesNext /\ Len(P!Unread) # 1
      /\ index' \in 0 .. P!argc' /\ current_arg' \in Texts \cup {NoArg}
  <2>1. P!Place + 3 \in Nat \ {0} /\ hasRest \in BOOLEAN
    BY <1>1
  <2> QED BY <1>1, <1>4, <1>7, <2>1, ArgumentTaken
<1> QED BY <1>1, <1>4, <1>8 DEF WellTaken, P!TypeOK, TheOptions

LEMMA LongTakes ==
    ASSUME ParserInv, UNCHANGED Args, P!NextLong
    PROVE  WellTaken
<1>1. state = "IDLE" /\ index < P!argc /\ P!IsOption(P!Token) /\ P!IsLong(P!Token)
  BY DEF P!NextLong, P!AtLong, P!AtOption
<1>2. /\ P!Token \in Texts /\ Len(P!Token) \in Nat /\ index + 1 \in 1 .. Len(Args)
      /\ P!argc = Len(Args) /\ index \in Nat /\ P!Token = Args[index + 1]
      /\ Args \in Seq(Texts) /\ Len(Args) \in Nat
  BY <1>1, TokenIs
<1> DEFINE rest == P!Meaning(Args, index + 2, 2)
           afterNext == P!Meaning(Args, index + 3, 2)
           token == P!Token
           k == P!NameEnd(token) + 2
           o == P!Long(SubSeq(token, 3, P!NameEnd(token)))
<1>3. /\ P!Unread = P!MeaningAt(Args, index + 1, At, rest, afterNext)
      /\ rest \in SomeOutcomes /\ afterNext \in SomeOutcomes
  BY <1>1, UnreadIs
<1>4. /\ o \in TheOptions /\ o # NoOption
      /\ current_opt' = o /\ offset' = offset /\ state' = "IDLE"
  BY <1>1, LookupIs DEF P!NextLong, P!Found
<1>5. k \in Nat \ {0}
  BY <1>2, NameEndIs
<1>6. (index + 1) + 1 = index + 2 /\ ~(Len(token) + 1 <= Len(token))
  BY <1>2
<1>7. offset \in Nat
  BY DEF ParserInv, GroupInv
<1>8. CASE P!TakesArg(o)
  <2> DEFINE hasRest == P!Assigned(token) # {}
  <2>1. P!ArgumentOf(k, hasRest)
    BY <1>4, <1>8 DEF P!NextLong
  <2>2. P!Unread = IF hasRest
                   THEN <<P!Outcome(o, P!From(token, k))>> \o rest
                   ELSE IF index + 1 < Len(Args)
                   THEN <<P!Outcome(o, Args[index + 2])>> \o afterNext
                   ELSE <<P!Outcome(o, NoArg)>> \o rest
    BY <1>1, <1>2, <1>3, <1>4, <1>6, <1>8 DEF P!MeaningAt
  <2>3. hasRest \in BOOLEAN
    OBVIOUS
  <2>4. /\ P!TakesNext /\ Len(P!Unread) # 1
        /\ index' \in 0 .. P!argc' /\ current_arg' \in Texts \cup {NoArg}
    BY <1>1, <1>4, <1>5, <2>1, <2>2, <2>3, ArgumentTaken
  <2> QED BY <1>4, <1>7, <2>4 DEF WellTaken, P!TypeOK, TheOptions
<1>9. CASE ~P!TakesArg(o)
  <2>1. current_arg' = NoArg /\ index' = index + 1
    BY <1>4, <1>9 DEF P!NextLong
  <2>2. P!Unread = <<P!Outcome(o, NoArg)>> \o rest
    BY <1>1, <1>2, <1>3, <1>4, <1>9 DEF P!MeaningAt
  <2>3. P!Unread' = rest
    BY <1>4, <1>6, <2>1 DEF P!Unread
  <2>4. P!TakesNext /\ Len(P!Unread) # 1
    BY <1>3, <1>4, <2>1, <2>2, <2>3, OneTaken
  <2>5. P!argc' = P!argc
    BY DEF P!argc
  <2> QED BY <1>2, <1>4, <1>7, <2>1, <2>4, <2>5 DEF WellTaken, P!TypeOK, TheOptions
<1> QED BY <1>8, <1>9

LEMMA CallTakes ==
    ASSUME ParserInv, done, P!Call, UNCHANGED tokenizerVars
    PROVE  ParserInv' /\ WellTaken
<1>1. UNCHANGED Args /\ GroupInv
  BY DEF P!Call, ParserInv
<1>2. WellTaken
  BY <1>1, EndsTakes, UnknownTakes, FlagTakes, WithArgTakes, LongTakes DEF P!Call
<1>3. GroupInv'
  <2>1. index' \in Nat /\ offset' \in Nat /\ P!GroupHasLetters'
    BY <1>1, CallKeeps
  <2>2. TokenizerInv'
    BY <1>1 DEF GroupInv, TokenizerInv, T!TypeOK, T!InputIsAhead, T!Plain, T!Given,
       T!end, tokenizerVars
  <2>3. done' /\ buffer'[T!end'] = Nul
    BY <1>1 DEF tokenizerVars, GroupInv, T!end
  <2> QED BY <2>1, <2>2, <2>3 DEF GroupInv
<1>4. done'
  BY DEF tokenizerVars
<1> QED BY <1>2, <1>3, <1>4 DEF ParserInv, WellTaken

LEMMA ArgcIsNat ==
    ASSUME NEW w, Len(w) \in Nat
    PROVE  Len(SubSeq(w, 2, Len(w))) \in Nat
<1>1. \A i \in 2 .. Len(w) : w[i] \in {w[j] : j \in 2 .. Len(w)}
  OBVIOUS
<1> QED BY <1>1, SubSeqProperties

\* While the words are cut out the parser has not begun.
LEMMA CutKeeps ==
    ASSUME ParserInv, Tokenize
    PROVE  ParserInv'
<1>1. ~done
  BY DEF Tokenize, T!Next, T!ReadEnd, T!ReadEscaped, T!ReadQuoted, T!CloseQuote,
     T!ReadEscape, T!ReadSpace, T!OpenQuote, T!ReadPlain, T!Reads
<1>2. GroupInv'
  BY StepGroup DEF ParserInv, Next
<1>3. UNCHANGED parserVars
  BY DEF Tokenize
<1>4. index = 0 /\ state = "IDLE"
  BY <1>1 DEF ParserInv
<1>5. P!argc' \in Nat
  <2>1. Len(argv') \in Nat
    BY <1>2 DEF GroupInv, TokenizerInv, T!TypeOK
  <2>2. Words' = [i \in 1 .. Len(argv') |-> T!StringAt(argv[i])']
    BY DEF Words, T!Strings
  <2>3. Len(Words') \in Nat
    BY <2>1, <2>2
  <2>4. P!argc' = Len(SubSeq(Words', 2, Len(Words')))
    BY DEF P!argc, Args
  <2> QED BY <2>3, <2>4, ArgcIsNat
<1>6. P!TypeOK'
  BY <1>3, <1>4, <1>5 DEF ParserInv, P!TypeOK, parserVars
<1> QED BY <1>2, <1>3, <1>4, <1>6 DEF ParserInv, parserVars

LEMMA StepParser == ParserInv /\ [Next]_vars => ParserInv'
<1> SUFFICES ASSUME ParserInv, [Next]_vars PROVE ParserInv'
  OBVIOUS
<1>1. CASE Tokenize
  BY <1>1, CutKeeps
<1>2. CASE TakeOption \/ Decide
  BY <1>2, CallTakes DEF TakeOption, Decide, CallsNext
<1>3. CASE UNCHANGED <<tokenizerVars, parserVars>>
  <2>1. GroupInv'
    BY StepGroup DEF ParserInv
  <2>2. UNCHANGED <<index, offset, current_arg, current_opt, state, done, buffer, line, argv>>
    BY <1>3 DEF tokenizerVars, parserVars
  <2>3. Args' = Args
    BY <2>2 DEF Args, Words, T!Strings, T!StringAt, T!end
  <2> QED BY <2>1, <2>2, <2>3 DEF ParserInv, P!TypeOK, P!Token, P!argc
<1> QED BY <1>1, <1>2, <1>3 DEF Next, NoCommand, vars, tokenizerVars, parserVars

LEMMA InitParser == Init => ParserInv
<1> SUFFICES ASSUME Init PROVE ParserInv
  OBVIOUS
<1>1. T!end \in Nat /\ buffer = [i \in 0 .. T!end |-> T!Given(i)]
  BY Constants, EndIsNat DEF Init, T!Init, T!end
<1>2. buffer[T!end] = Nul
  BY <1>1 DEF T!Given
<1>3. GroupInv
  BY <1>2, InitInv DEF Init, P!Init, GroupInv, P!GroupHasLetters
<1>4. P!argc \in Nat
  BY <1>2, InitInv, ArgsAre
<1> QED BY <1>3, <1>4 DEF ParserInv, P!TypeOK, Init, P!Init, T!Init

\* Each call of next() hands over the next of the options that the line's
\* arguments mean as a whole, with the argument that belongs to it, and takes no
\* more than that, for every line, every table and every number of arguments.
THEOREM NextIsTaken == Spec => TakesNext
<1>1. ParserInv /\ [Next]_vars => [done /\ argv # << >> => P!TakesNext]_vars
  <2> SUFFICES ASSUME ParserInv, Next, done, argv # << >> PROVE P!TakesNext
    BY DEF vars
  <2>1. ~Tokenize
    BY DEF Tokenize, T!Next, T!ReadEnd, T!ReadEscaped, T!ReadQuoted, T!CloseQuote,
       T!ReadEscape, T!ReadSpace, T!OpenQuote, T!ReadPlain, T!Reads
  <2> QED BY <2>1, CallTakes DEF Next, NoCommand, TakeOption, Decide, CallsNext, WellTaken
<1> QED BY <1>1, InitParser, StepParser, PTL DEF Spec, TakesNext

-----------------------------------------------------------------------------
(* The number an argument stands for.                                      *)

LEMMA LeadingIs ==
    ASSUME NEW s \in Texts
    PROVE  Leading(s) \in 0 .. Len(s) /\ \A i \in 1 .. Leading(s) : s[i] \in Digits
<1> DEFINE S == {n \in 0 .. Len(s) : n < Len(s) => s[n + 1] \notin Digits}
           Ends(n) == /\ \A i \in 1 .. n : s[i] \in Digits
                      /\ n < Len(s) => s[n + 1] \notin Digits
<1>1. Len(s) \in Nat
  BY DEF Texts
<1>2. S \in SUBSET Nat /\ S # {}
  <2>1. Len(s) \in S
    BY <1>1
  <2> QED BY <1>1, <2>1
<1>3. PICK m \in S : \A k \in S : ~(k < m)
  <2> HIDE DEF S
  <2> QED BY <1>2, LeastNumber
<1>4. m \in 0 .. Len(s) /\ Ends(m)
  <2>1. ASSUME NEW i \in 1 .. m PROVE s[i] \in Digits
    <3>1. i - 1 \in 0 .. Len(s) /\ i - 1 < m /\ i - 1 < Len(s) /\ (i - 1) + 1 = i
      BY <1>1, <1>3
    <3>2. i - 1 \notin S
      BY <1>3, <3>1
    <3> QED BY <3>1, <3>2
  <2> QED BY <1>3, <2>1
<1>5. Leading(s) = CHOOSE n \in 0 .. Len(s) : Ends(n)
  BY DEF Leading
<1> HIDE DEF Ends
<1>6. Leading(s) \in 0 .. Len(s) /\ Ends(Leading(s))
  BY <1>4, <1>5
<1> QED BY <1>6 DEF Ends

LEMMA Wraps ==
    ASSUME NEW v \in Nat, NEW d \in 0 .. 9
    PROVE  (v * 10 + d) % UintMod \in 0 .. UintMod - 1
<1>1. UintMod \in Nat \ {0} /\ v * 10 + d \in Nat
  BY UnsignedAssumption
<1> QED BY <1>1

\* Whatever the argument, its digits are read into a number of w bits.
LEMMA ValueIs ==
    ASSUME NEW s \in Texts
    PROVE  Value(s) \in 0 .. UintMod - 1
<1> DEFINE k == Leading(s)
           V == 0 .. UintMod - 1
           Sum(v, i) == (v * 10 + DigitOf[s[i]]) % UintMod
           From(f) == [n \in 0 .. k |-> IF n = 0 THEN 0 ELSE Sum(f[n - 1], n)]
           u == CHOOSE f : f = From(f)
           step == [i \in 1 .. k |-> [v \in V |-> Sum(v, i)]]
<1>1. k \in Nat /\ 0 \in V /\ V \subseteq Nat
  BY LeadingIs, UnsignedAssumption DEF Texts
<1>2. \A i \in 1 .. k, v \in V : Sum(v, i) \in V
  <2>1. \A i \in 1 .. k : DigitOf[s[i]] \in 0 .. 9
    BY LeadingIs, UnsignedAssumption
  <2> QED BY <1>1, <2>1, Wraps
<1>3. Value(s) = u[k]
  BY DEF Value
<1> HIDE DEF k, V, Sum
<1>4. step \in [1 .. k -> [V -> V]]
  BY <1>2
<1>5. PICK f : Follows(f, k, V, 0, step)
  <2> HIDE DEF step
  <2> QED BY <1>1, <1>4, Iterates
<1>6. f = From(f)
  <2>1. f \in [0 .. k -> V] /\ f[0] = 0
    BY <1>5 DEF Follows
  <2>2. \A n \in 1 .. k : f[n - 1] \in V
    BY <1>1, <2>1
  <2>3. \A n \in 1 .. k : f[n] = Sum(f[n - 1], n)
    BY <1>5, <2>2 DEF Follows
  <2> QED BY <1>1, <2>1, <2>3
<1>7. u = From(u)
  <2> HIDE DEF From
  <2> QED BY <1>6
<1> HIDE DEF u
<1>8. u[0] = 0 /\ \A n \in 1 .. k : u[n] = Sum(u[n - 1], n)
  BY <1>1, <1>7
<1> DEFINE Kept == {n \in 0 .. k : u[n] \in V}
<1>9. \A n \in 0 .. k : n \in Kept
  <2>1. 0 \in Kept
    BY <1>1, <1>8
  <2>2. ASSUME NEW n \in 1 .. k, n - 1 \in Kept PROVE n \in Kept
    <3>1. u[n - 1] \in V /\ n \in 0 .. k
      BY <1>1, <2>2
    <3>2. u[n] \in V
      BY <1>2, <1>8, <3>1
    <3> QED BY <3>1, <3>2
  <2> HIDE DEF Kept
  <2> QED BY <1>1, <2>1, <2>2, ClimbsTo
<1>10. k \in 0 .. k
  BY <1>1
<1> QED BY <1>3, <1>9, <1>10 DEF V


\* The sizes are the defaults or numbers of w bits.
ResizeTyped ==
    /\ ParserInv
    /\ rows \in 0 .. UintMod - 1 \cup {DefaultRows}
    /\ cols \in 0 .. UintMod - 1 \cup {DefaultCols}
    /\ manual \in BOOLEAN /\ help \in BOOLEAN
    /\ outcome \in {"NONE", "NO_COMMAND", "MISSING", "UNKNOWN", "HELP", "MANUAL", "QUERY"}

\* An option that sets a size comes with an argument.
LEMMA SizeHasArgument ==
    ASSUME P!TypeOK', current_arg' \in Texts \cup {NoArg}, P!Result' = "OK",
           current_opt'.c \in {"r", "c"}
    PROVE  current_arg' \in Texts
<1>1. current_opt' # NoOption
  BY DEF P!Result
<1>2. current_opt' \in TheOptions
  BY <1>1 DEF P!TypeOK, TheOptions
<1>3. \A o \in TheOptions : o.c \in {"r", "c"} => o.arg = "REQUIRED"
  BY TableIs
<1>4. current_opt'.arg = "REQUIRED"
  BY <1>2, <1>3, Zenon
<1> QED BY <1>4 DEF P!Result

LEMMA StepTyped == ResizeTyped /\ [Next]_vars => ResizeTyped'
<1> SUFFICES ASSUME ResizeTyped, [Next]_vars PROVE ResizeTyped'
  OBVIOUS
<1>1. ParserInv'
  BY StepParser DEF ResizeTyped
<1>2. CASE TakeOption
  <2>1. P!TypeOK' /\ current_arg' \in Texts \cup {NoArg} /\ P!Result' = "OK"
    BY <1>1, <1>2 DEF ParserInv, TakeOption
  <2>2. current_opt'.c \in {"r", "c"} => Value(current_arg') \in 0 .. UintMod - 1
    BY <2>1, SizeHasArgument, ValueIs
  <2>3. rows' \in 0 .. UintMod - 1 \cup {DefaultRows}
    BY <1>2, <2>2 DEF TakeOption, Takes, ResizeTyped
  <2>4. cols' \in 0 .. UintMod - 1 \cup {DefaultCols}
    BY <1>2, <2>2 DEF TakeOption, Takes, ResizeTyped
  <2>5. manual' \in BOOLEAN /\ help' \in BOOLEAN /\ outcome' = outcome
    BY <1>2 DEF TakeOption, ResizeTyped
  <2> QED BY <1>1, <2>3, <2>4, <2>5 DEF ResizeTyped
<1>3. CASE Decide
  <2>1. outcome' \in {"MISSING", "UNKNOWN", "HELP", "MANUAL", "QUERY"}
    BY <1>3 DEF Decide
  <2> QED BY <1>1, <1>3, <2>1 DEF ResizeTyped, Decide
<1>4. CASE NoCommand
  BY <1>1, <1>4 DEF ResizeTyped, NoCommand
<1>5. CASE UNCHANGED ownVars
  BY <1>1, <1>5 DEF ResizeTyped, ownVars
<1> QED BY <1>2, <1>3, <1>4, <1>5 DEF Next, Tokenize, vars

\* The tokenizer, the parser and the command keep their types: no index goes
\* past argc, and each size is a default or a number of w bits.
THEOREM ResizeTypeCorrect == Spec => []TypeOK
<1>1. Init => ResizeTyped
  BY InitParser DEF Init, ResizeTyped
<1>2. ResizeTyped => TypeOK
  BY DEF ResizeTyped, ParserInv, GroupInv, TokenizerInv, TypeOK
<1> QED BY <1>1, <1>2, StepTyped, PTL DEF Spec

-----------------------------------------------------------------------------
(* What the command does is what the line as a whole says.                 *)

GivenIn(j, c) == {k \in 1 .. j : Told[k].option.c = c}
SizeAfter(j, c, default) ==
    IF GivenIn(j, c) = {} THEN default ELSE Value(Told[Latest(GivenIn(j, c))].arg)

\* After j turns of the loop: what is still unread is the rest of what the
\* line says, and the variables are what the first j outcomes make of them.
After(j) ==
    /\ j \in 0 .. Len(Told) - 1
    /\ P!Unread = SubSeq(Told, j + 1, Len(Told))
    /\ \A k \in 1 .. j : Told[k].result = "OK"
    /\ \A k \in 1 .. j - 1 : Told[k].option.c # "h"
    /\ help <=> j > 0 /\ Told[j].option.c = "h"
    /\ manual <=> GivenIn(j, "r") \cup GivenIn(j, "c") # {}
    /\ rows = SizeAfter(j, "r", DefaultRows)
    /\ cols = SizeAfter(j, "c", DefaultCols)

\* Before the first.
AtStart ==
    /\ index = 0 /\ state = "IDLE"
    /\ rows = DefaultRows /\ cols = DefaultCols
    /\ help = FALSE /\ manual = FALSE

ToldInv ==
    /\ ParserInv
    /\ ~done => AtStart /\ outcome = "NONE"
    /\ outcome = "NONE" => AtStart \/ \E j \in Nat : After(j)
    /\ DoesAsTold

LEMMA ToldIs ==
    ASSUME ParserInv
    PROVE  Told \in Seq(Outcomes) /\ Len(Told) \in Nat \ {0}
<1>1. Args \in Seq(Texts)
  BY ArgsAre DEF ParserInv, GroupInv
<1>2. 1 <= Len(Args) => (P!IsOption(Args[1]) => 2 <= Len(Args[1]) + 1)
  BY <1>1, ElementsBelong DEF P!IsOption, Texts
<1>3. Told \in SomeOutcomes
  BY <1>1, <1>2, MeaningIs DEF Told
<1> QED BY <1>3, EmptySeq DEF SomeOutcomes

\* Before the first turn.
LEMMA AfterNone ==
    ASSUME ParserInv, AtStart
    PROVE  After(0)
<1>0. /\ index = 0 /\ state = "IDLE" /\ rows = DefaultRows /\ cols = DefaultCols
      /\ help = FALSE /\ manual = FALSE
  BY DEF AtStart
<1>1. Told \in Seq(Outcomes) /\ Len(Told) \in Nat \ {0}
  BY ToldIs
<1>2. P!Unread = Told
  BY <1>0 DEF P!Unread, Told
<1>3. Told = SubSeq(Told, 1, Len(Told))
  BY <1>1, SubSeqFull
<1>4. \A c : GivenIn(0, c) = {}
  BY DEF GivenIn
<1>5. 0 \in 0 .. Len(Told) - 1 /\ 0 + 1 = 1 /\ 1 .. 0 = {} /\ 1 .. 0 - 1 = {}
  BY <1>1
<1>6. rows = SizeAfter(0, "r", DefaultRows) /\ cols = SizeAfter(0, "c", DefaultCols)
  BY <1>0, <1>4 DEF SizeAfter
<1>7. manual <=> GivenIn(0, "r") \cup GivenIn(0, "c") # {}
  BY <1>0, <1>4
<1> QED BY <1>0, <1>2, <1>3, <1>5, <1>6, <1>7 DEF After

\* One more outcome is the last of its kind.
LEMMA OneMoreGiven ==
    ASSUME NEW j \in Nat, NEW c
    PROVE  /\ Told[j + 1].option.c = c =>
                /\ GivenIn(j + 1, c) = GivenIn(j, c) \cup {j + 1}
                /\ Latest(GivenIn(j + 1, c)) = j + 1
           /\ Told[j + 1].option.c # c => GivenIn(j + 1, c) = GivenIn(j, c)
<1>1. 1 .. j + 1 = (1 .. j) \cup {j + 1}
  OBVIOUS
<1>2. GivenIn(j + 1, c) = GivenIn(j, c) \cup (IF Told[j + 1].option.c = c THEN {j + 1} ELSE {})
  BY <1>1 DEF GivenIn
<1>3. ASSUME Told[j + 1].option.c = c
      PROVE  Latest(GivenIn(j + 1, c)) = j + 1
  <2> DEFINE S == GivenIn(j + 1, c)
  <2>1. j + 1 \in S /\ S \in SUBSET (1 .. j + 1)
    BY <1>3 DEF GivenIn
  <2> HIDE DEF S
  <2>2. \A i \in S : i <= j + 1
    BY <2>1
  <2>3. Latest(S) \in S /\ \A i \in S : i <= Latest(S)
    BY <2>1, <2>2 DEF Latest
  <2>4. Latest(S) \in 1 .. j + 1 /\ j + 1 <= Latest(S)
    BY <2>1, <2>3
  <2>5. Latest(S) = j + 1
    BY <2>4
  <2> QED BY <2>5 DEF S
<1> QED BY <1>2, <1>3

\* A turn of the loop hears the next outcome.
LEMMA TurnHears ==
    ASSUME ParserInv, done, argv # << >>, P!Call, UNCHANGED tokenizerVars,
           NEW j \in Nat, After(j)
    PROVE  /\ UNCHANGED Told
           /\ j + 1 \in 1 .. Len(Told)
           /\ current_opt' = Told[j + 1].option /\ current_arg' = Told[j + 1].arg
           /\ P!Result' = Told[j + 1].result
           /\ P!Result' = "OK" =>
                 /\ j + 1 < Len(Told)
                 /\ P!Unread' = SubSeq(Told, j + 2, Len(Told))
<1>1. P!TakesNext /\ (P!Result' = "OK" => Len(P!Unread) # 1) /\ UNCHANGED Told
  BY CallTakes DEF WellTaken, P!Call, Told
<1>2. Told \in Seq(Outcomes) /\ Len(Told) \in Nat \ {0}
  BY ToldIs
<1>3. j + 1 \in 1 .. Len(Told) /\ P!Unread = SubSeq(Told, j + 1, Len(Told))
  BY <1>2 DEF After
<1>4. Head(P!Unread) = Told[j + 1] /\ Tail(P!Unread) = SubSeq(Told, (j + 1) + 1, Len(Told))
  <2>1. Len(Told) \in (j + 1) .. Len(Told)
    BY <1>2, <1>3
  <2> QED BY <1>2, <1>3, <2>1, HeadTailOfSubSeq
<1>5. P!Heard' = Told[j + 1]
  BY <1>1, <1>4 DEF P!TakesNext
<1>6. /\ current_opt' = Told[j + 1].option /\ current_arg' = Told[j + 1].arg
      /\ P!Result' = Told[j + 1].result
  BY <1>5 DEF P!Heard
<1>7. ASSUME P!Result' = "OK"
      PROVE  j + 1 < Len(Told) /\ P!Unread' = SubSeq(Told, j + 2, Len(Told))
  <2>1. P!Unread' = SubSeq(Told, (j + 1) + 1, Len(Told)) /\ Len(P!Unread) # 1
    BY <1>1, <1>4, <1>7 DEF P!TakesNext
  <2>2. ASSUME j + 1 = Len(Told) PROVE FALSE
    <3>1. \A i \in j + 1 .. Len(Told) : Told[i] \in Outcomes
      BY <1>2, <1>3, ElementsBelong
    <3>2. Len(SubSeq(Told, j + 1, Len(Told))) = 1
      BY <1>2, <2>2, <3>1, SubSeqProperties
    <3> QED BY <1>3, <2>1, <3>2
  <2>3. (j + 1) + 1 = j + 2
    OBVIOUS
  <2> QED BY <1>2, <1>3, <2>1, <2>2, <2>3
<1> QED BY <1>1, <1>3, <1>6, <1>7

LEMMA TakeGoesOn ==
    ASSUME ParserInv, TakeOption, NEW j \in Nat, After(j)
    PROVE  After(j + 1)'
<1>1. /\ done /\ argv # << >> /\ P!Call /\ UNCHANGED tokenizerVars
      /\ P!Result' = "OK" /\ ~help
      /\ rows' = IF current_opt'.c = "r" THEN Value(current_arg') ELSE rows
      /\ cols' = IF current_opt'.c = "c" THEN Value(current_arg') ELSE cols
      /\ manual' = (manual \/ current_opt'.c \in {"r", "c"})
      /\ help' = (current_opt'.c = "h")
  BY DEF TakeOption, CallsNext, Takes
<1>2. /\ UNCHANGED Told /\ j + 1 \in 1 .. Len(Told)
      /\ current_opt' = Told[j + 1].option /\ current_arg' = Told[j + 1].arg
      /\ Told[j + 1].result = "OK" /\ j + 1 < Len(Told)
      /\ P!Unread' = SubSeq(Told, j + 2, Len(Told))
  BY <1>1, TurnHears
<1>3. Len(Told) \in Nat
  BY ToldIs
<1> DEFINE c == Told[j + 1].option.c
<1>4. /\ \A d : GivenIn(j + 1, d)' = GivenIn(j + 1, d)
      /\ \A d, default : SizeAfter(j + 1, d, default)' = SizeAfter(j + 1, d, default)
  BY <1>2 DEF GivenIn, SizeAfter
<1>5. ASSUME NEW d, NEW default
      PROVE  SizeAfter(j + 1, d, default) =
               IF c = d THEN Value(Told[j + 1].arg) ELSE SizeAfter(j, d, default)
  <2>1. CASE c = d
    BY <2>1, OneMoreGiven DEF SizeAfter
  <2>2. CASE c # d
    BY <2>2, OneMoreGiven DEF SizeAfter
  <2> QED BY <2>1, <2>2
<1>6. /\ rows = SizeAfter(j, "r", DefaultRows) /\ cols = SizeAfter(j, "c", DefaultCols)
      /\ manual <=> GivenIn(j, "r") \cup GivenIn(j, "c") # {}
      /\ \A k \in 1 .. j : Told[k].result = "OK"
      /\ \A k \in 1 .. j - 1 : Told[k].option.c # "h"
      /\ help <=> j > 0 /\ Told[j].option.c = "h"
  BY DEF After
<1>7. current_opt'.c = c
  BY <1>2
<1>8. rows' = SizeAfter(j + 1, "r", DefaultRows)' /\ cols' = SizeAfter(j + 1, "c", DefaultCols)'
  BY <1>1, <1>2, <1>4, <1>5, <1>6, <1>7
<1>9. manual' <=> (GivenIn(j + 1, "r") \cup GivenIn(j + 1, "c") # {})'
  <2>1. \A d : GivenIn(j + 1, d) # {} <=> c = d \/ GivenIn(j, d) # {}
    BY OneMoreGiven
  <2>2. manual' <=> manual \/ c = "r" \/ c = "c"
    BY <1>1, <1>7
  <2> QED BY <1>4, <1>6, <2>1, <2>2
<1>10. \A k \in 1 .. j + 1 : Told'[k].result = "OK"
  <2>1. \A k \in 1 .. j + 1 : k \in 1 .. j \/ k = j + 1
    OBVIOUS
  <2> QED BY <1>2, <1>6, <2>1
<1>11. \A k \in 1 .. (j + 1) - 1 : Told'[k].option.c # "h"
  <2>1. \A k \in 1 .. (j + 1) - 1 : k \in 1 .. j - 1 \/ (j > 0 /\ k = j)
    OBVIOUS
  <2> QED BY <1>1, <1>2, <1>6, <2>1
<1>12. help' <=> j + 1 > 0 /\ Told'[j + 1].option.c = "h"
  <2>1. Told'[j + 1].option.c = c /\ j + 1 > 0
    BY <1>2
  <2> HIDE DEF c
  <2> QED BY <1>1, <1>7, <2>1
<1>13. j + 1 \in 0 .. Len(Told') - 1 /\ P!Unread' = SubSeq(Told', (j + 1) + 1, Len(Told'))
  <2>1. (j + 1) + 1 = j + 2
    OBVIOUS
  <2>2. Told' = Told
    BY <1>2
  <2> DEFINE n == Len(Told)
  <2>3. n \in Nat /\ j + 1 < n
    BY <1>2, <1>3
  <2>4. j + 1 \in 0 .. n - 1
    <3> HIDE DEF n
    <3> QED BY <2>3
  <2>5. P!Unread' = SubSeq(Told, (j + 1) + 1, n)
    <3>1. P!Unread' = SubSeq(Told, j + 2, Len(Told))
      BY <1>2
    <3> QED BY <2>1, <3>1
  <2> QED BY <2>2, <2>4, <2>5, Zenon
<1> QED BY <1>8, <1>9, <1>10, <1>11, <1>12, <1>13 DEF After

LEMMA DecideAsTold ==
    ASSUME ParserInv, Decide, NEW j \in Nat, After(j)
    PROVE  DoesAsTold'
<1>1. /\ done /\ argv # << >> /\ P!Call /\ UNCHANGED tokenizerVars
      /\ P!Result' # "OK" \/ help
      /\ outcome' = IF P!Result' \in {"MISSING", "UNKNOWN"} THEN P!Result'
                    ELSE IF help THEN "HELP" ELSE IF manual THEN "MANUAL" ELSE "QUERY"
      /\ UNCHANGED <<rows, cols>>
  BY DEF Decide, CallsNext
<1>2. /\ UNCHANGED Told /\ j + 1 \in 1 .. Len(Told) /\ P!Result' = Told[j + 1].result
  BY <1>1, TurnHears
<1>3. Len(Told) \in Nat
  BY ToldIs
<1>4. /\ rows = SizeAfter(j, "r", DefaultRows) /\ cols = SizeAfter(j, "c", DefaultCols)
      /\ manual <=> GivenIn(j, "r") \cup GivenIn(j, "c") # {}
      /\ \A k \in 1 .. j : Told[k].result = "OK"
      /\ \A k \in 1 .. j - 1 : Told[k].option.c # "h"
      /\ help <=> j > 0 /\ Told[j].option.c = "h"
  BY DEF After
\* The loop stops where this call is, and nowhere before.
<1>5. Stops(Told, j + 1)
  <2>1. CASE P!Result' # "OK"
    BY <1>2, <2>1 DEF Stops
  <2>2. CASE help
    <3>1. j + 1 > 1 /\ (j + 1) - 1 = j
      BY <1>4, <2>2
    <3> QED BY <1>4, <2>2, <3>1 DEF Stops
  <2> QED BY <1>1, <2>1, <2>2
<1>6. \A i \in 1 .. j : ~Stops(Told, i)
  <2> SUFFICES ASSUME NEW i \in 1 .. j, Stops(Told, i) PROVE FALSE
    OBVIOUS
  <2>1. i > 1 /\ Told[i - 1].option.c = "h"
    BY <1>4 DEF Stops
  <2>2. i - 1 \in 1 .. j - 1
    BY <2>1
  <2> QED BY <1>4, <2>1, <2>2
<1> DEFINE last == Last(Told)
<1>7. last = j + 1
  <2>1. j + 1 \in 1 .. Len(Told) /\ (j + 1) - 1 = j
    BY <1>2
  <2>2. last \in 1 .. Len(Told) /\ Stops(Told, last) /\ \A i \in 1 .. last - 1 : ~Stops(Told, i)
    BY <1>5, <1>6, <2>1 DEF Last
  <2> HIDE DEF last
  <2>3. ~(last \in 1 .. j)
    BY <1>6, <2>2
  <2>4. ~(j + 1 \in 1 .. last - 1)
    BY <1>5, <2>2
  <2> QED BY <1>3, <2>2, <2>3, <2>4
<1>8. \A c : Given(Told, c) = GivenIn(j, c)
  <2>1. Last(Told) - 1 = j
    <3> HIDE DEF last
    <3>1. last - 1 = j
      BY <1>7
    <3> QED BY <3>1 DEF last
  <2> QED BY <2>1 DEF GivenIn, Given
<1>9. \A c, default : Size(Told, c, default) = SizeAfter(j, c, default)
  BY <1>8 DEF Size, SizeAfter
<1>10. Given(Told, "h") # {} <=> help
  <2>1. GivenIn(j, "h") # {} <=> j > 0 /\ Told[j].option.c = "h"
    <3>1. \A k \in 1 .. j : k \in 1 .. j - 1 \/ k = j
      OBVIOUS
    <3>2. j > 0 => j \in 1 .. j
      OBVIOUS
    <3> QED BY <1>4, <3>1, <3>2 DEF GivenIn
  <2> QED BY <1>4, <1>8, <2>1
<1> DEFINE result == Told[Last(Told)].result
<1>11. outcome' = IF result \in {"MISSING", "UNKNOWN"} THEN result
                  ELSE IF Given(Told, "h") # {} THEN "HELP"
                  ELSE IF Given(Told, "r") \cup Given(Told, "c") # {} THEN "MANUAL" ELSE "QUERY"
  <2>1. result = P!Result'
    BY <1>2, <1>7
  <2> HIDE DEF result
  <2> QED BY <1>1, <1>4, <1>8, <1>10, <2>1
<1>12. rows' = Size(Told, "r", DefaultRows) /\ cols' = Size(Told, "c", DefaultCols)
  BY <1>1, <1>4, <1>9
<1> QED BY <1>2, <1>11, <1>12 DEF DoesAsTold

LEMMA StepTold == ToldInv /\ [Next]_vars => ToldInv'
<1> SUFFICES ASSUME ToldInv, [Next]_vars PROVE ToldInv'
  OBVIOUS
<1>1. ParserInv'
  BY StepParser DEF ToldInv
<1>2. CASE Tokenize
  <2>1. ~done
    BY <1>2 DEF Tokenize, T!Next, T!ReadEnd, T!ReadEscaped, T!ReadQuoted, T!CloseQuote,
       T!ReadEscape, T!ReadSpace, T!OpenQuote, T!ReadPlain, T!Reads
  <2>2. AtStart /\ outcome = "NONE" /\ UNCHANGED <<parserVars, ownVars>>
    BY <1>2, <2>1 DEF ToldInv, Tokenize
  <2>3. AtStart' /\ outcome' = "NONE"
    BY <2>2 DEF AtStart, parserVars, ownVars
  <2> QED BY <1>1, <2>3 DEF ToldInv, DoesAsTold
<1>3. CASE NoCommand
  <2>1. done' /\ outcome' = "NO_COMMAND"
    BY <1>3 DEF NoCommand, tokenizerVars
  <2> QED BY <1>1, <2>1 DEF ToldInv, DoesAsTold
<1>4. ASSUME TakeOption \/ Decide
      PROVE  \E j \in Nat : After(j)
  <2>1. outcome = "NONE" /\ ParserInv
    BY <1>4 DEF TakeOption, Decide, CallsNext, ToldInv
  <2>2. AtStart => After(0)
    BY <2>1, AfterNone
  <2> QED BY <2>1, <2>2 DEF ToldInv
<1>5. CASE TakeOption
  <2>1. PICK j \in Nat : After(j)
    BY <1>4, <1>5
  <2>2. After(j + 1)'
    BY <1>5, <2>1, TakeGoesOn DEF ToldInv
  <2>3. outcome' = "NONE" /\ done'
    BY <1>5 DEF TakeOption, CallsNext, tokenizerVars
  <2>4. (\E i \in Nat : After(i))'
    BY <2>2
  <2> QED BY <1>1, <2>3, <2>4 DEF ToldInv, DoesAsTold
<1>6. CASE Decide
  <2>1. PICK j \in Nat : After(j)
    BY <1>4, <1>6
  <2>2. DoesAsTold'
    BY <1>6, <2>1, DecideAsTold DEF ToldInv
  <2>3. outcome' # "NONE" /\ done'
    BY <1>6 DEF Decide, CallsNext, tokenizerVars
  <2> QED BY <1>1, <2>2, <2>3 DEF ToldInv
<1>7. CASE UNCHANGED vars
  <2>1. UNCHANGED <<line, buffer, argv, done, index, offset, state,
                    rows, cols, manual, help, outcome>>
    BY <1>7 DEF vars, tokenizerVars, parserVars, ownVars
  <2>2. Args' = Args
    BY <2>1 DEF Args, Words, T!Strings, T!StringAt, T!end
  <2>3. Told' = Told /\ P!Unread' = P!Unread
    BY <2>1, <2>2 DEF Told, P!Unread
  <2>4. \A j : After(j)' = After(j)
    BY <2>1, <2>3 DEF After, GivenIn, SizeAfter
  <2>5. AtStart' = AtStart /\ DoesAsTold' = DoesAsTold
    BY <2>1, <2>3 DEF AtStart, DoesAsTold
  <2> QED BY <1>1, <2>1, <2>4, <2>5 DEF ToldInv
<1> QED BY <1>2, <1>3, <1>5, <1>6, <1>7 DEF Next

\* What the command does, and with which size, is what its line as a whole says:
\* for every line and table, whatever is grouped, repeated, empty or left out.
THEOREM CommandAsTold == Spec => []DoesAsTold
<1>1. Init => ToldInv
  BY InitParser DEF Init, T!Init, P!Init, ToldInv, AtStart, DoesAsTold
<1>2. ToldInv => DoesAsTold
  BY DEF ToldInv
<1> QED BY <1>1, <1>2, StepTold, PTL DEF Spec

-----------------------------------------------------------------------------
(* The words.  First what the functions CommandLine is built from are, for *)
(* every line: they go from one place to the next.                         *)

\* How the characters of a line are read.
HowRead == Marks \cup {"plain", "escaped"}

LEMMA ReadingIs ==
    ASSUME NEW r \in HowRead, NEW c
    PROVE  T!CL!Reading(r, c) \in HowRead
BY DEF HowRead, T!CL!Reading

LEMMA ReadingsAre ==
    ASSUME NEW l \in Texts
    PROVE  /\ Len(l) \in Nat
           /\ T!CL!Readings(l) \in [1 .. Len(l) + 1 -> HowRead]
           /\ T!CL!Readings(l)[1] = "plain"
           /\ \A i \in 1 .. Len(l) :
                 T!CL!Readings(l)[i + 1] = T!CL!Reading(T!CL!Readings(l)[i], l[i])
<1> DEFINE n == Len(l)
           step == [i \in 1 .. n |-> [r \in HowRead |-> T!CL!Reading(r, l[i])]]
           Is(g) == g = [i \in 1 .. n + 1 |-> IF i = 1 THEN "plain"
                                              ELSE T!CL!Reading(g[i - 1], l[i - 1])]
           u == CHOOSE g : Is(g)
<1>1. n \in Nat
  BY DEF Texts
<1>2. T!CL!Readings(l) = u
  BY DEF T!CL!Readings
<1> HIDE DEF n
<1>3. step \in [1 .. n -> [HowRead -> HowRead]]
  BY ReadingIs
<1>4. "plain" \in HowRead
  BY DEF HowRead
<1>5. PICK f : Follows(f, n, HowRead, "plain", step)
  <2> HIDE DEF step
  <2> QED BY <1>1, <1>3, <1>4, Iterates
<1> DEFINE g == [i \in 1 .. n + 1 |-> f[i - 1]]
<1>6. Is(g)
  <2>1. ASSUME NEW i \in 1 .. n + 1
        PROVE  f[i - 1] = IF i = 1 THEN "plain" ELSE T!CL!Reading(g[i - 1], l[i - 1])
    <3>1. CASE i = 1
      BY <1>5, <3>1 DEF Follows
    <3>2. CASE i # 1
      <4>1. i - 1 \in 1 .. n /\ i - 1 \in 1 .. n + 1 /\ (i - 1) - 1 \in 0 .. n
        BY <1>1, <3>2
      <4>2. f[i - 1] = step[i - 1][f[(i - 1) - 1]] /\ f[(i - 1) - 1] \in HowRead
        BY <1>5, <4>1 DEF Follows
      <4>3. g[i - 1] = f[(i - 1) - 1]
        BY <4>1
      <4> QED BY <3>2, <4>1, <4>2, <4>3
    <3> QED BY <3>1, <3>2
  <2> QED BY <2>1
<1>7. Is(u)
  <2> HIDE DEF Is, g
  <2> QED BY <1>6
<1> HIDE DEF u
<1>8. u = [i \in 1 .. n + 1 |-> IF i = 1 THEN "plain" ELSE T!CL!Reading(u[i - 1], l[i - 1])]
  BY <1>7
<1>9. u[1] = "plain"
  <2>1. 1 \in 1 .. n + 1
    BY <1>1
  <2> QED BY <1>8, <2>1
<1>10. \A i \in 1 .. n : u[i + 1] = T!CL!Reading(u[i], l[i])
  <2> TAKE i \in 1 .. n
  <2>1. i + 1 \in 1 .. n + 1 /\ i + 1 # 1 /\ (i + 1) - 1 = i
    BY <1>1
  <2> QED BY <1>8, <2>1
<1>11. u \in [1 .. n + 1 -> HowRead]
  <2> DEFINE S == {i \in 0 .. n : u[i + 1] \in HowRead}
  <2>1. 0 \in S
    BY <1>1, <1>4, <1>9
  <2>2. ASSUME NEW i \in 1 .. n, i - 1 \in S PROVE i \in S
    <3>1. u[i] \in HowRead /\ i \in 0 .. n
      <4>1. (i - 1) + 1 = i
        BY <1>1
      <4> QED BY <1>1, <2>2, <4>1
    <3> QED BY <1>10, <3>1, ReadingIs
  <2>3. \A i \in 0 .. n : i \in S
    <3> HIDE DEF S
    <3> QED BY <1>1, <2>1, <2>2, ClimbsTo
  <2>4. \A i \in 1 .. n + 1 : u[i] \in HowRead
    <3> TAKE i \in 1 .. n + 1
    <3>1. i - 1 \in 0 .. n /\ (i - 1) + 1 = i
      BY <1>1
    <3> QED BY <2>3, <3>1
  <2> QED BY <1>8, <2>4
<1> QED BY <1>1, <1>2, <1>9, <1>10, <1>11 DEF n

\* Places in order, from one to the next.
LEMMA InOrderIs ==
    ASSUME NEW S, NEW n \in Nat
    PROVE  /\ T!CL!InOrder(S, n) \in [0 .. n -> Seq(Nat)]
           /\ T!CL!InOrder(S, n)[0] = << >>
           /\ \A i \in 1 .. n :
                 T!CL!InOrder(S, n)[i] = IF i \in S THEN Append(T!CL!InOrder(S, n)[i - 1], i)
                                         ELSE T!CL!InOrder(S, n)[i - 1]
<1> DEFINE V == Seq(Nat)
           step == [i \in 1 .. n |-> [s \in V |-> IF i \in S THEN Append(s, i) ELSE s]]
           Is(g) == g = [i \in 0 .. n |-> IF i = 0 THEN << >>
                                          ELSE IF i \in S THEN Append(g[i - 1], i) ELSE g[i - 1]]
           u == CHOOSE g : Is(g)
<1>1. T!CL!InOrder(S, n) = u
  BY DEF T!CL!InOrder
<1>2. step \in [1 .. n -> [V -> V]] /\ << >> \in V
  OBVIOUS
<1>3. PICK f : Follows(f, n, V, << >>, step)
  <2> HIDE DEF step, V
  <2> QED BY <1>2, Iterates
<1>4. Is(f)
  <2>1. ASSUME NEW i \in 0 .. n
        PROVE  f[i] = IF i = 0 THEN << >>
                      ELSE IF i \in S THEN Append(f[i - 1], i) ELSE f[i - 1]
    <3>1. CASE i = 0
      BY <1>3, <3>1 DEF Follows
    <3>2. CASE i # 0
      <4>1. i \in 1 .. n /\ i - 1 \in 0 .. n
        BY <3>2
      <4>2. f[i - 1] \in V /\ f[i] = step[i][f[i - 1]]
        BY <1>3, <4>1 DEF Follows
      <4> HIDE DEF V
      <4>3. step[i][f[i - 1]] = IF i \in S THEN Append(f[i - 1], i) ELSE f[i - 1]
        BY <4>1, <4>2
      <4> QED BY <3>2, <4>2, <4>3
    <3> QED BY <3>1, <3>2
  <2>2. f = [i \in 0 .. n |-> f[i]]
    BY <1>3 DEF Follows
  <2> QED BY <2>1, <2>2
<1>5. Is(u)
  <2> HIDE DEF Is
  <2> QED BY <1>4
<1> HIDE DEF u
<1>6. u[0] = << >>
  BY <1>5
<1>7. \A i \in 1 .. n : u[i] = IF i \in S THEN Append(u[i - 1], i) ELSE u[i - 1]
  <2> TAKE i \in 1 .. n
  <2>1. i \in 0 .. n /\ i # 0
    OBVIOUS
  <2> QED BY <1>5, <2>1
<1>8. u \in [0 .. n -> Seq(Nat)]
  <2> DEFINE Typed == {i \in 0 .. n : u[i] \in Seq(Nat)}
  <2>1. 0 \in Typed
    <3>1. 0 \in 0 .. n /\ << >> \in Seq(Nat)
      OBVIOUS
    <3> QED BY <1>6, <3>1
  <2>2. ASSUME NEW i \in 1 .. n, i - 1 \in Typed PROVE i \in Typed
    <3>1. u[i - 1] \in Seq(Nat) /\ i \in Nat /\ i \in 0 .. n
      BY <2>2
    <3>2. Append(u[i - 1], i) \in Seq(Nat)
      BY <3>1
    <3> QED BY <1>7, <3>1, <3>2
  <2>3. \A i \in 0 .. n : i \in Typed
    <3> HIDE DEF Typed
    <3> QED BY <2>1, <2>2, ClimbsTo
  <2> QED BY <1>5, <2>3
<1> QED BY <1>1, <1>6, <1>7, <1>8

\* Places not behind j that belong to S, and nothing else, are in order up to j.
LEMMA PlacesBelong ==
    ASSUME NEW S, NEW n \in Nat, NEW j \in 0 .. n
    PROVE  /\ Len(T!CL!InOrder(S, n)[j]) \in Nat
           /\ \A k \in 1 .. Len(T!CL!InOrder(S, n)[j]) :
                 T!CL!InOrder(S, n)[j][k] \in S /\ T!CL!InOrder(S, n)[j][k] \in 1 .. j
<1> DEFINE u == T!CL!InOrder(S, n)
           Belong(i) == \A k \in 1 .. Len(u[i]) : u[i][k] \in S /\ u[i][k] \in 1 .. i
           Good == {i \in 0 .. n : Belong(i)}
<1>1. /\ u \in [0 .. n -> Seq(Nat)] /\ u[0] = << >>
      /\ \A i \in 1 .. n : u[i] = IF i \in S THEN Append(u[i - 1], i) ELSE u[i - 1]
  BY InOrderIs
<1> HIDE DEF u
<1>2. 0 \in Good
  <2>1. Len(u[0]) = 0 /\ 0 \in 0 .. n
    BY <1>1
  <2> QED BY <2>1
<1>3. ASSUME NEW i \in 1 .. n, i - 1 \in Good PROVE i \in Good
  <2>1. i - 1 \in 0 .. n /\ i \in 0 .. n /\ Belong(i - 1) /\ u[i - 1] \in Seq(Nat)
    BY <1>1, <1>3
  <2>2. CASE i \in S
    <3>1. u[i] = Append(u[i - 1], i)
      BY <1>1, <2>2
    <3>2. /\ Len(u[i]) = Len(u[i - 1]) + 1 /\ Len(u[i - 1]) \in Nat
          /\ u[i][Len(u[i - 1]) + 1] = i
          /\ \A k \in 1 .. Len(u[i - 1]) : u[i][k] = u[i - 1][k]
      BY <2>1, <3>1
    <3>3. Belong(i)
      <4> SUFFICES ASSUME NEW k \in 1 .. Len(u[i])
                   PROVE  u[i][k] \in S /\ u[i][k] \in 1 .. i
        OBVIOUS
      <4>1. CASE k = Len(u[i - 1]) + 1
        BY <2>2, <3>2, <4>1
      <4>2. CASE k # Len(u[i - 1]) + 1
        <5>1. k \in 1 .. Len(u[i - 1])
          BY <3>2, <4>2
        <5>2. u[i - 1][k] \in S /\ u[i - 1][k] \in 1 .. i - 1
          BY <2>1, <5>1
        <5>3. 1 .. i - 1 \subseteq 1 .. i
          OBVIOUS
        <5> QED BY <3>2, <5>1, <5>2, <5>3
      <4> QED BY <4>1, <4>2
    <3> QED BY <2>1, <3>3
  <2>3. CASE i \notin S
    <3>1. u[i] = u[i - 1]
      BY <1>1, <2>3
    <3>2. 1 .. i - 1 \subseteq 1 .. i
      OBVIOUS
    <3>3. Belong(i)
      BY <2>1, <3>1, <3>2
    <3> QED BY <2>1, <3>3
  <2> QED BY <2>2, <2>3
<1>4. Belong(j)
  <2> HIDE DEF Belong
  <2>1. \A i \in 0 .. n : i \in Good
    <3> HIDE DEF Good
    <3> QED BY <1>2, <1>3, ClimbsTo
  <2> QED BY <2>1
<1>5. Len(u[j]) \in Nat
  BY <1>1
<1> QED BY <1>4, <1>5 DEF u

Leads(s, t) == Len(s) <= Len(t) /\ \A m \in 1 .. Len(s) : t[m] = s[m]

\* The places in order up to j are the first of those up to k, and all of them
\* when there is none in between.
LEMMA PlacesGrow ==
    ASSUME NEW S, NEW n \in Nat, NEW j \in 0 .. n, NEW k \in j .. n
    PROVE  /\ Leads(T!CL!InOrder(S, n)[j], T!CL!InOrder(S, n)[k])
           /\ (\A i \in j + 1 .. k : i \notin S) => T!CL!InOrder(S, n)[k] = T!CL!InOrder(S, n)[j]
<1> DEFINE u == T!CL!InOrder(S, n)
           Grows(i) == /\ Len(u[j]) <= Len(u[i])
                       /\ \A m \in 1 .. Len(u[j]) : u[i][m] = u[j][m]
           Same(i) == (\A h \in j + 1 .. i : h \notin S) => u[i] = u[j]
           Good == {d \in 0 .. n - j : Grows(j + d) /\ Same(j + d)}
<1>1. /\ u \in [0 .. n -> Seq(Nat)]
      /\ \A i \in 1 .. n : u[i] = IF i \in S THEN Append(u[i - 1], i) ELSE u[i - 1]
  BY InOrderIs
<1> HIDE DEF u
<1>2. n - j \in Nat /\ Len(u[j]) \in Nat /\ j + 0 = j
  BY <1>1
<1>3. 0 \in Good
  <2>1. Grows(j) /\ Same(j)
    BY <1>2
  <2> HIDE DEF Grows, Same
  <2> QED BY <1>2, <2>1
<1>4. ASSUME NEW d \in 1 .. n - j, d - 1 \in Good PROVE d \in Good
  <2> DEFINE i == j + d
  <2>1. /\ i \in 1 .. n /\ i - 1 \in 0 .. n /\ j + (d - 1) = i - 1 /\ d \in 0 .. n - j
        /\ i - 1 \in Nat /\ i \in j + 1 .. i
    OBVIOUS
  <2>2. Grows(i - 1) /\ Same(i - 1)
    <3> HIDE DEF Grows, Same, i
    <3>1. Grows(j + (d - 1)) /\ Same(j + (d - 1))
      BY <1>4
    <3> QED BY <2>1, <3>1
  <2>3. u[i - 1] \in Seq(Nat) /\ Len(u[i - 1]) \in Nat
    BY <1>1, <2>1
  <2>4. \A h : h \in j + 1 .. i - 1 => h \in j + 1 .. i
    BY <2>1
  <2> HIDE DEF i
  <2>5. CASE i \in S
    <3>1. u[i] = Append(u[i - 1], i)
      BY <1>1, <2>1, <2>5
    <3>2. /\ Len(u[i]) = Len(u[i - 1]) + 1
          /\ \A m \in 1 .. Len(u[i - 1]) : u[i][m] = u[i - 1][m]
      BY <2>3, <3>1
    <3>3. Grows(i)
      <4>1. Len(u[j]) <= Len(u[i - 1])
        BY <2>2
      <4>2. Len(u[j]) <= Len(u[i])
        BY <1>2, <2>3, <3>2, <4>1
      <4>3. ASSUME NEW m \in 1 .. Len(u[j]) PROVE u[i][m] = u[j][m]
        <5>1. m \in 1 .. Len(u[i - 1])
          BY <1>2, <2>3, <4>1
        <5> QED BY <2>2, <3>2, <5>1
      <4> QED BY <4>2, <4>3
    <3>4. Same(i)
      BY <2>1, <2>5
    <3> HIDE DEF Grows, Same
    <3> QED BY <2>1, <3>3, <3>4 DEF i
  <2>6. CASE i \notin S
    <3>1. u[i] = u[i - 1]
      BY <1>1, <2>1, <2>6
    <3>2. Grows(i) /\ Same(i)
      BY <2>2, <2>4, <3>1
    <3> HIDE DEF Grows, Same
    <3> QED BY <2>1, <3>2 DEF i
  <2> QED BY <2>5, <2>6
<1>5. Grows(k) /\ Same(k)
  <2> HIDE DEF Grows, Same
  <2>1. \A d \in 0 .. n - j : d \in Good
    <3> HIDE DEF Good
    <3> QED BY <1>2, <1>3, <1>4, ClimbsTo
  <2>2. k - j \in 0 .. n - j /\ j + (k - j) = k
    OBVIOUS
  <2>3. Grows(j + (k - j)) /\ Same(j + (k - j))
    BY <2>1, <2>2
  <2> QED BY <2>2, <2>3
<1> QED BY <1>5 DEF u, Leads

-----------------------------------------------------------------------------
(* A word while it is read.                                                *)

\* The letters of the word that begins at start, as far as the place p.
SoFar(l, start, p) ==
    T!CL!Letters(l, T!CL!InOrder(T!CL!WordFrom(l, start) \ T!CL!Syntax(l), Len(l))[p])

LEMMA SpacesAre ==
    ASSUME NEW l \in Texts
    PROVE  /\ Len(l) \in Nat
           /\ 0 \in T!CL!Spaces(l) /\ Len(l) + 1 \in T!CL!Spaces(l)
           /\ \A i \in 1 .. Len(l) :
                 i \in T!CL!Spaces(l) <=> T!CL!Readings(l)[i] = "plain" /\ l[i] = Space
           /\ \A i \in T!CL!Starts(l) :
                 i \in 1 .. Len(l) /\ i \notin T!CL!Spaces(l) /\ i - 1 \in T!CL!Spaces(l)
           /\ T!CL!Finished(l) \subseteq T!CL!Starts(l)
<1>1. Len(l) \in Nat
  BY DEF Texts
<1> QED BY <1>1 DEF T!CL!Spaces, T!CL!Starts, T!CL!Finished

LEMMA LettersAre ==
    ASSUME NEW l \in Texts, NEW places \in Seq(Nat),
           \A k \in 1 .. Len(places) : places[k] \in 1 .. Len(l)
    PROVE  /\ T!CL!Letters(l, places) \in Texts
           /\ Len(T!CL!Letters(l, places)) = Len(places)
           /\ \A k \in 1 .. Len(places) : T!CL!Letters(l, places)[k] = l[places[k]]
<1>1. \A k \in 1 .. Len(places) : l[places[k]] \in Chars
  BY ElementsBelong DEF Texts
<1>2. Len(places) \in Nat
  OBVIOUS
<1> QED BY <1>1, <1>2 DEF T!CL!Letters, Texts

LEMMA SoFarIs ==
    ASSUME NEW l \in Texts, NEW start \in 1 .. Len(l), NEW p \in 0 .. Len(l)
    PROVE  /\ SoFar(l, start, p) \in Texts /\ Len(SoFar(l, start, p)) \in Nat
           /\ T!CL!Text(l, start) = SoFar(l, start, Len(l))
<1> DEFINE S == T!CL!WordFrom(l, start) \ T!CL!Syntax(l)
           places == T!CL!InOrder(S, Len(l))[p]
<1>1. Len(l) \in Nat
  BY DEF Texts
<1>2. places \in Seq(Nat)
  <2> HIDE DEF S
  <2> QED BY <1>1, InOrderIs
<1>3. \A k \in 1 .. Len(places) : places[k] \in 1 .. Len(l)
  <2> HIDE DEF S
  <2>1. \A k \in 1 .. Len(places) : places[k] \in 1 .. p
    BY <1>1, PlacesBelong
  <2> QED BY <1>1, <2>1
<1> HIDE DEF places
<1>4. T!CL!Letters(l, places) \in Texts
  BY <1>2, <1>3, LettersAre
<1>5. SoFar(l, start, p) \in Texts
  BY <1>4 DEF SoFar, places
<1>6. T!CL!Text(l, start) = SoFar(l, start, Len(l))
  BY DEF SoFar, T!CL!Text
<1> QED BY <1>5, <1>6 DEF Texts

\* A word begins with no letter.
LEMMA SoFarBegins ==
    ASSUME NEW l \in Texts, NEW start \in 1 .. Len(l)
    PROVE  Len(SoFar(l, start, start - 1)) = 0
<1> DEFINE S == T!CL!WordFrom(l, start) \ T!CL!Syntax(l)
<1>1. Len(l) \in Nat /\ 0 \in 0 .. Len(l) /\ start - 1 \in 0 .. Len(l)
  BY DEF Texts
<1>2. \A i \in 0 + 1 .. start - 1 : i \notin S
  BY <1>1 DEF T!CL!WordFrom
<1>3. T!CL!InOrder(S, Len(l))[start - 1] = T!CL!InOrder(S, Len(l))[0]
  <2> HIDE DEF S
  <2> QED BY <1>1, <1>2, PlacesGrow
<1>4. T!CL!InOrder(S, Len(l))[0] = << >>
  <2> HIDE DEF S
  <2> QED BY <1>1, InOrderIs
<1> QED BY <1>3, <1>4 DEF SoFar, T!CL!Letters

\* A place that belongs to the word adds its letter unless it is a mark.
LEMMA SoFarGrows ==
    ASSUME NEW l \in Texts, NEW start \in 1 .. Len(l), NEW p \in 0 .. Len(l) - 1,
           p + 1 \in T!CL!WordFrom(l, start)
    PROVE  /\ p + 1 \in T!CL!Syntax(l) => SoFar(l, start, p + 1) = SoFar(l, start, p)
           /\ p + 1 \notin T!CL!Syntax(l) =>
                 /\ Len(SoFar(l, start, p + 1)) = Len(SoFar(l, start, p)) + 1
                 /\ SoFar(l, start, p + 1)[Len(SoFar(l, start, p)) + 1] = l[p + 1]
                 /\ \A i \in 1 .. Len(SoFar(l, start, p)) :
                       SoFar(l, start, p + 1)[i] = SoFar(l, start, p)[i]
<1> DEFINE S == T!CL!WordFrom(l, start) \ T!CL!Syntax(l)
           u == T!CL!InOrder(S, Len(l))
           next == u[p + 1]
           before == u[p]
<1>1. Len(l) \in Nat /\ p \in Nat /\ p + 1 \in 1 .. Len(l) /\ (p + 1) - 1 = p /\ p \in 0 .. Len(l)
      /\ p + 1 \in 0 .. Len(l)
  BY DEF Texts
<1>2. /\ u \in [0 .. Len(l) -> Seq(Nat)]
      /\ next = IF p + 1 \in S THEN Append(before, p + 1) ELSE before
  <2> HIDE DEF S
  <2>1. \A i \in 1 .. Len(l) : u[i] = IF i \in S THEN Append(u[i - 1], i) ELSE u[i - 1]
    BY <1>1, InOrderIs
  <2>2. u \in [0 .. Len(l) -> Seq(Nat)]
    BY <1>1, InOrderIs
  <2> HIDE DEF u
  <2> QED BY <1>1, <2>1, <2>2
<1>3. /\ before \in Seq(Nat) /\ next \in Seq(Nat)
      /\ \A k \in 1 .. Len(before) : before[k] \in 1 .. Len(l)
      /\ \A k \in 1 .. Len(next) : next[k] \in 1 .. Len(l)
  <2>1. before \in Seq(Nat) /\ next \in Seq(Nat)
    <3> HIDE DEF u
    <3> QED BY <1>1, <1>2
  <2>2. ASSUME NEW q \in 0 .. Len(l)
        PROVE  \A k \in 1 .. Len(u[q]) : u[q][k] \in 1 .. Len(l)
    <3>1. \A k \in 1 .. Len(u[q]) : u[q][k] \in 1 .. q
      <4> HIDE DEF S
      <4> QED BY <1>1, PlacesBelong
    <3> HIDE DEF u
    <3> QED BY <1>1, <3>1
  <2> HIDE DEF u
  <2> QED BY <1>1, <2>1, <2>2
<1>4. SoFar(l, start, p + 1) = T!CL!Letters(l, next) /\ SoFar(l, start, p) = T!CL!Letters(l, before)
  BY DEF SoFar
<1>5. p + 1 \in S <=> p + 1 \notin T!CL!Syntax(l)
  OBVIOUS
<1> HIDE DEF next, before, u, S
<1>6. CASE p + 1 \in T!CL!Syntax(l)
  BY <1>2, <1>4, <1>5, <1>6
<1>7. CASE p + 1 \notin T!CL!Syntax(l)
  <2>1. next = Append(before, p + 1)
    BY <1>2, <1>5, <1>7
  <2>2. /\ Len(next) = Len(before) + 1 /\ Len(before) \in Nat
        /\ next[Len(before) + 1] = p + 1
        /\ \A i \in 1 .. Len(before) : next[i] = before[i]
    BY <1>1, <1>3, <2>1
  <2>3. /\ Len(T!CL!Letters(l, before)) = Len(before)
        /\ \A k \in 1 .. Len(before) : T!CL!Letters(l, before)[k] = l[before[k]]
    BY <1>3, LettersAre
  <2>4. /\ Len(T!CL!Letters(l, next)) = Len(next)
        /\ \A k \in 1 .. Len(next) : T!CL!Letters(l, next)[k] = l[next[k]]
    BY <1>3, LettersAre
  <2>5. Len(before) + 1 \in 1 .. Len(next) /\ \A i \in 1 .. Len(before) : i \in 1 .. Len(next)
    BY <2>2
  <2> QED BY <1>4, <1>7, <2>2, <2>3, <2>4, <2>5
<1> QED BY <1>6, <1>7

\* Before a space the word has all its letters.
LEMMA SoFarEnds ==
    ASSUME NEW l \in Texts, NEW start \in 1 .. Len(l), NEW p \in start .. Len(l),
           p + 1 \in T!CL!Spaces(l)
    PROVE  T!CL!Text(l, start) = SoFar(l, start, p)
<1> DEFINE S == T!CL!WordFrom(l, start) \ T!CL!Syntax(l)
<1>1. Len(l) \in Nat /\ p \in 0 .. Len(l) /\ Len(l) \in p .. Len(l)
  BY DEF Texts
<1>2. \A i \in p + 1 .. Len(l) : i \notin S
  <2> SUFFICES ASSUME NEW i \in p + 1 .. Len(l) PROVE i \notin T!CL!WordFrom(l, start)
    OBVIOUS
  <2>1. p + 1 \in start .. i
    BY <1>1
  <2> QED BY <2>1 DEF T!CL!WordFrom
<1>3. T!CL!InOrder(S, Len(l))[Len(l)] = T!CL!InOrder(S, Len(l))[p]
  <2> HIDE DEF S
  <2> QED BY <1>1, <1>2, PlacesGrow
<1> QED BY <1>3 DEF SoFar, T!CL!Text

\* The string at a is text, all of it before an offset.
Written(b, a, before, text) ==
    /\ a \in Nat /\ before \in Nat /\ a + Len(text) < before
    /\ \A i \in 1 .. Len(text) : b[a + i - 1] = text[i]
    /\ b[a + Len(text)] = Nul

\* The strings of v are the words that begin no later than the place q.
Handed(v, b, before, l, q) ==
    LET starts == T!CL!InOrder(T!CL!Finished(l), Len(l))[q]
    IN  /\ Len(v) = Len(starts)
        /\ \A m \in 1 .. Len(v) : Written(b, v[m], before, T!CL!Text(l, starts[m]))

\* Between two words, when the line is read as far as p.
Between(l, p, b, out, v) ==
    /\ p \in T!CL!Spaces(l) \/ p + 1 \in T!CL!Spaces(l)
    /\ Handed(v, b, out, l, p)

\* Inside the word that begins at start.  What is read of it is in the buffer,
\* from a to out.
Inside(l, start, p, a, b, out, v) ==
    /\ start \in T!CL!Starts(l) /\ start <= p + 1
    /\ \A i \in start .. p : i \notin T!CL!Spaces(l)
    /\ a \in Nat /\ out = a + Len(SoFar(l, start, p))
    /\ \A i \in 1 .. Len(SoFar(l, start, p)) : b[a + i - 1] = SoFar(l, start, p)[i]
    /\ Handed(v, b, a, l, start - 1)

LEMMA StartsAre ==
    ASSUME NEW l \in Texts, NEW q \in 0 .. Len(l)
    PROVE  LET starts == T!CL!InOrder(T!CL!Finished(l), Len(l))[q]
           IN  /\ starts \in Seq(Nat)
               /\ \A m \in 1 .. Len(starts) :
                     /\ starts[m] \in T!CL!Finished(l) /\ starts[m] \in 1 .. q
                     /\ starts[m] \in 1 .. Len(l)
                     /\ T!CL!Text(l, starts[m]) \in Texts
<1> DEFINE F == T!CL!Finished(l)
           starts == T!CL!InOrder(F, Len(l))[q]
<1> HIDE DEF F
<1>1. Len(l) \in Nat /\ q \in Nat
  BY DEF Texts
<1>2. starts \in Seq(Nat)
  BY <1>1, InOrderIs
<1>3. \A m \in 1 .. Len(starts) : starts[m] \in F /\ starts[m] \in 1 .. q
  BY <1>1, PlacesBelong
<1> HIDE DEF starts
<1>4. \A m \in 1 .. Len(starts) : starts[m] \in 1 .. Len(l)
  BY <1>1, <1>3
<1>5. \A i \in 1 .. Len(l) : T!CL!Text(l, i) \in Texts
  <2> TAKE i \in 1 .. Len(l)
  <2>1. Len(l) \in 0 .. Len(l)
    BY <1>1
  <2> QED BY <2>1, SoFarIs
<1> QED BY <1>2, <1>3, <1>4, <1>5 DEF F, starts

\* What is written behind the strings leaves them as they are.
LEMMA HandedStays ==
    ASSUME NEW l \in Texts, NEW q \in 0 .. Len(l),
           NEW v, NEW b, NEW before \in Nat, Handed(v, b, before, l, q),
           NEW c, NEW later \in Nat, before <= later,
           \A i \in 0 .. before - 1 : c[i] = b[i]
    PROVE  Handed(v, c, later, l, q)
<1> DEFINE starts == T!CL!InOrder(T!CL!Finished(l), Len(l))[q]
<1>1. Len(v) = Len(starts)
  BY DEF Handed
<1>2. ASSUME NEW m \in 1 .. Len(v)
      PROVE  Written(c, v[m], later, T!CL!Text(l, starts[m]))
  <2> DEFINE text == T!CL!Text(l, starts[m])
             a == v[m]
  <2>1. Written(b, a, before, text)
    BY <1>2 DEF Handed
  <2>2. text \in Texts
    BY <1>1, <1>2, StartsAre
  <2> HIDE DEF text, a
  <2>3. /\ Len(text) \in Nat /\ a \in Nat /\ a + Len(text) < before
        /\ \A i \in 1 .. Len(text) : b[a + i - 1] = text[i]
        /\ b[a + Len(text)] = Nul
    BY <2>1, <2>2 DEF Written, Texts
  <2>4. a + Len(text) < later /\ c[a + Len(text)] = Nul
    <3>1. a + Len(text) \in 0 .. before - 1
      BY <2>3
    <3> QED BY <2>3, <3>1
  <2>5. \A i \in 1 .. Len(text) : c[a + i - 1] = text[i]
    <3> TAKE i \in 1 .. Len(text)
    <3>1. a + i - 1 \in 0 .. before - 1
      BY <2>3
    <3> QED BY <2>3, <3>1
  <2>6. Written(c, a, later, text)
    BY <2>3, <2>4, <2>5 DEF Written
  <2> QED BY <2>6 DEF text, a
<1> HIDE DEF starts
<1>3. Handed(v, c, later, l, q)
  BY <1>1, <1>2 DEF Handed, starts
<1> QED BY <1>3

\* No word begins at a place that is a space or comes after none.
LEMMA HandedFurther ==
    ASSUME NEW l \in Texts, NEW q \in 0 .. Len(l), NEW r \in q .. Len(l),
           \A i \in q + 1 .. r : i \notin T!CL!Finished(l),
           NEW v, NEW b, NEW before, Handed(v, b, before, l, q)
    PROVE  Handed(v, b, before, l, r)
<1> DEFINE F == T!CL!Finished(l)
<1>1. Len(l) \in Nat
  BY DEF Texts
<1>2. T!CL!InOrder(F, Len(l))[r] = T!CL!InOrder(F, Len(l))[q]
  <2>1. \A i \in q + 1 .. r : i \notin F
    OBVIOUS
  <2> HIDE DEF F
  <2> QED BY <1>1, <2>1, PlacesGrow
<1> QED BY <1>2 DEF Handed

\* A word begins after a space.
LEMMA WordBegins ==
    ASSUME NEW l \in Texts, NEW p \in 0 .. Len(l) - 1,
           NEW b, NEW out \in Nat, NEW v,
           Between(l, p, b, out, v), p + 1 \notin T!CL!Spaces(l)
    PROVE  p + 1 \in 1 .. Len(l) /\ Inside(l, p + 1, p, out, b, out, v)
<1>1. Len(l) \in Nat /\ p + 1 \in 1 .. Len(l) /\ (p + 1) - 1 = p /\ p \in Nat
  BY DEF Texts
<1>2. p \in T!CL!Spaces(l) /\ Handed(v, b, out, l, p)
  BY DEF Between
<1>3. p + 1 \in T!CL!Starts(l)
  BY <1>1, <1>2 DEF T!CL!Starts
<1>4. Len(SoFar(l, p + 1, p)) = 0
  <2>1. Len(SoFar(l, p + 1, (p + 1) - 1)) = 0
    BY <1>1, SoFarBegins
  <2> QED BY <1>1, <2>1
<1>5. \A i \in p + 1 .. p : FALSE
  BY <1>1
<1>6. \A i \in 1 .. Len(SoFar(l, p + 1, p)) : FALSE
  BY <1>4
<1>7. p + 1 <= p + 1 /\ out = out + Len(SoFar(l, p + 1, p))
  BY <1>1, <1>4
<1>8. Handed(v, b, out, l, (p + 1) - 1)
  BY <1>1, <1>2
<1> QED BY <1>1, <1>3, <1>5, <1>6, <1>7, <1>8 DEF Inside

\* A character of the word is read, and written unless it is a mark.
LEMMA WordGoesOn ==
    ASSUME NEW l \in Texts, NEW p \in 0 .. Len(l) - 1, NEW start,
           NEW b, NEW a, NEW out, NEW v,
           Inside(l, start, p, a, b, out, v), p + 1 \notin T!CL!Spaces(l),
           NEW c, NEW later,
           IF p + 1 \in T!CL!Syntax(l) THEN c = b /\ later = out
           ELSE /\ later = out + 1 /\ c[out] = l[p + 1]
                /\ \A i \in 0 .. out - 1 : c[i] = b[i]
    PROVE  start \in 1 .. p + 1 /\ Inside(l, start, p + 1, a, c, later, v)
<1> DEFINE was == SoFar(l, start, p)
           is == SoFar(l, start, p + 1)
<1>1. /\ Len(l) \in Nat /\ p \in Nat /\ p + 1 \in 1 .. Len(l) /\ p \in 0 .. Len(l)
      /\ p + 1 \in 0 .. Len(l)
  BY DEF Texts
<1>2. start \in T!CL!Starts(l) /\ start \in 1 .. Len(l)
  BY SpacesAre DEF Inside
<1>3. /\ start <= p + 1 /\ a \in Nat /\ out = a + Len(was)
      /\ \A i \in start .. p : i \notin T!CL!Spaces(l)
      /\ \A i \in 1 .. Len(was) : b[a + i - 1] = was[i]
      /\ Handed(v, b, a, l, start - 1)
  BY DEF Inside
<1>4. \A i \in start .. p + 1 : i \notin T!CL!Spaces(l)
  BY <1>1, <1>2, <1>3
<1>5. p + 1 \in T!CL!WordFrom(l, start)
  BY <1>1, <1>2, <1>3, <1>4 DEF T!CL!WordFrom
<1>6. Len(was) \in Nat
  BY <1>1, <1>2, SoFarIs
<1>7. start <= (p + 1) + 1 /\ start \in 1 .. p + 1 /\ start - 1 \in 0 .. Len(l)
  BY <1>1, <1>2, <1>3
<1>8. CASE p + 1 \in T!CL!Syntax(l)
  <2>1. is = was /\ c = b /\ later = out
    BY <1>2, <1>5, <1>8, SoFarGrows
  <2> QED BY <1>2, <1>3, <1>4, <1>7, <2>1 DEF Inside
<1>9. CASE p + 1 \notin T!CL!Syntax(l)
  <2>1. /\ Len(is) = Len(was) + 1 /\ is[Len(was) + 1] = l[p + 1]
        /\ \A i \in 1 .. Len(was) : is[i] = was[i]
    BY <1>2, <1>5, <1>9, SoFarGrows
  <2>2. later = out + 1 /\ c[out] = l[p + 1] /\ \A i \in 0 .. out - 1 : c[i] = b[i]
    BY <1>9
  <2> HIDE DEF was, is
  <2>3. later = a + Len(is)
    BY <1>3, <1>6, <2>1, <2>2
  <2>4. \A i \in 1 .. Len(is) : c[a + i - 1] = is[i]
    <3> TAKE i \in 1 .. Len(is)
    <3>1. CASE i = Len(was) + 1
      <4>1. a + i - 1 = out
        BY <1>3, <1>6, <3>1
      <4> QED BY <2>1, <2>2, <3>1, <4>1
    <3>2. CASE i # Len(was) + 1
      <4>1. i \in 1 .. Len(was) /\ a + i - 1 \in 0 .. out - 1
        BY <1>3, <1>6, <2>1, <3>2
      <4> QED BY <1>3, <2>1, <2>2, <4>1
    <3> QED BY <3>1, <3>2
  <2>5. Handed(v, c, a, l, start - 1)
    <3>1. \A i \in 0 .. a - 1 : c[i] = b[i]
      BY <1>3, <1>6, <2>2
    <3>2. a <= a /\ a \in Nat
      BY <1>3
    <3> QED BY <1>3, <1>7, <3>1, <3>2, HandedStays
  <2> QED BY <1>2, <1>3, <1>4, <1>7, <2>3, <2>4, <2>5 DEF Inside, is
<1> QED BY <1>8, <1>9

\* Before a space, or at an end that is read plainly, the word is handed over.
LEMMA WordEnds ==
    ASSUME NEW l \in Texts, NEW p \in 1 .. Len(l), NEW start \in 1 .. p,
           NEW b, NEW a, NEW out, NEW v \in Seq(Nat),
           Inside(l, start, p, a, b, out, v), p + 1 \in T!CL!Spaces(l),
           p = Len(l) => T!CL!Readings(l)[Len(l) + 1] = "plain",
           NEW c, \A i \in 0 .. out - 1 : c[i] = b[i], c[out] = Nul
    PROVE  Handed(Append(v, a), c, out + 1, l, p)
<1> DEFINE was == SoFar(l, start, p)
           F == T!CL!Finished(l)
           u == T!CL!InOrder(F, Len(l))
           before == u[start - 1]
           w == Append(v, a)
<1>1. /\ Len(l) \in Nat /\ p \in Nat /\ p \in 0 .. Len(l) /\ start \in 1 .. Len(l)
      /\ start - 1 \in 0 .. Len(l) /\ start \in 0 .. Len(l) /\ p \in start .. Len(l)
  BY DEF Texts
<1>2. /\ start \in T!CL!Starts(l) /\ a \in Nat /\ out = a + Len(was)
      /\ \A i \in start .. p : i \notin T!CL!Spaces(l)
      /\ \A i \in 1 .. Len(was) : b[a + i - 1] = was[i]
      /\ Handed(v, b, a, l, start - 1)
  BY DEF Inside
<1>3. T!CL!Text(l, start) = was /\ Len(was) \in Nat
  BY <1>1, SoFarEnds, SoFarIs
<1>4. start \in F
  <2>1. ASSUME p # Len(l) PROVE Len(l) \notin T!CL!WordFrom(l, start)
    <3>1. p + 1 \in start .. Len(l)
      BY <1>1, <2>1
    <3> QED BY <3>1 DEF T!CL!WordFrom
  <2> QED BY <1>2, <2>1 DEF T!CL!Finished
<1>5. before \in Seq(Nat) /\ u[start] = Append(before, start)
  <2> HIDE DEF F
  <2>1. /\ u \in [0 .. Len(l) -> Seq(Nat)]
        /\ \A i \in 1 .. Len(l) : u[i] = IF i \in F THEN Append(u[i - 1], i) ELSE u[i - 1]
    BY <1>1, InOrderIs
  <2> HIDE DEF u
  <2> QED BY <1>1, <1>4, <2>1
<1>6. Len(v) = Len(before) /\ Handed(v, c, out + 1, l, start - 1)
  <2>1. \A i \in 0 .. a - 1 : c[i] = b[i]
    BY <1>2, <1>3
  <2>2. a \in Nat /\ out + 1 \in Nat /\ a <= out + 1
    BY <1>2, <1>3
  <2>3. Handed(v, c, out + 1, l, start - 1)
    BY <1>1, <1>2, <2>1, <2>2, HandedStays
  <2> QED BY <1>2, <2>3 DEF Handed
<1>7. /\ Len(v) \in Nat /\ Len(w) = Len(v) + 1 /\ w[Len(v) + 1] = a
      /\ \A m \in 1 .. Len(v) : w[m] = v[m]
  BY <1>2
<1>8. /\ Len(u[start]) = Len(v) + 1 /\ u[start][Len(v) + 1] = start
      /\ \A m \in 1 .. Len(v) : u[start][m] = before[m]
  <2> HIDE DEF u, before
  <2> QED BY <1>5, <1>6
<1> HIDE DEF w
<1>9. Handed(w, c, out + 1, l, start)
  <2>1. ASSUME NEW m \in 1 .. Len(w)
        PROVE  Written(c, w[m], out + 1, T!CL!Text(l, u[start][m]))
    <3>1. CASE m = Len(v) + 1
      <4> HIDE DEF was, u
      <4>1. a + Len(was) < out + 1 /\ out + 1 \in Nat /\ c[a + Len(was)] = Nul
        BY <1>2, <1>3
      <4>2. \A i \in 1 .. Len(was) : c[a + i - 1] = was[i]
        <5> TAKE i \in 1 .. Len(was)
        <5>1. a + i - 1 \in 0 .. out - 1
          BY <1>2, <1>3
        <5> QED BY <1>2, <5>1
      <4>3. Written(c, a, out + 1, was)
        BY <1>2, <4>1, <4>2 DEF Written
      <4> QED BY <1>3, <1>7, <1>8, <3>1, <4>3
    <3>2. CASE m # Len(v) + 1
      <4>1. m \in 1 .. Len(v)
        BY <1>7, <3>2
      <4>2. Written(c, v[m], out + 1, T!CL!Text(l, before[m]))
        BY <1>6, <4>1 DEF Handed
      <4> HIDE DEF u, before
      <4> QED BY <1>7, <1>8, <4>1, <4>2
    <3> QED BY <3>1, <3>2
  <2>2. Len(w) = Len(u[start])
    BY <1>7, <1>8
  <2> QED BY <2>1, <2>2 DEF Handed
<1>10. \A i \in start + 1 .. p : i \notin F
  <2> TAKE i \in start + 1 .. p
  <2>1. i - 1 \in start .. p
    BY <1>1
  <2>2. i - 1 \notin T!CL!Spaces(l)
    BY <1>2, <2>1
  <2> QED BY <2>2, SpacesAre
<1>11. Handed(w, c, out + 1, l, p)
  BY <1>1, <1>9, <1>10, HandedFurther
<1> QED BY <1>11 DEF w

-----------------------------------------------------------------------------
(* The tokenizer reads as CommandLine says, and what it has handed over is *)
(* what CommandLine finds in the part it has read.                         *)

HowNext == IF escape THEN "escaped" ELSE IF quote # NoMark THEN quote ELSE "plain"

WordsInv ==
    /\ TokenizerInv
    /\ escape => quote = NoMark
    /\ ~done =>
          /\ T!CL!Readings(line)[in_offset + 1] = HowNext
          /\ arg = NoArg => Between(line, in_offset, buffer, out_offset, argv)
          /\ arg # NoArg => \E start \in 1 .. in_offset :
                Inside(line, start, in_offset, arg, buffer, out_offset, argv)
    /\ done =>
          \E q \in 0 .. Len(line) :
             /\ Handed(argv, buffer, T!end + 1, line, q)
             /\ Len(argv) = MaxArgv \/ q = Len(line)

LEMMA LineIs ==
    ASSUME TokenizerInv
    PROVE  /\ line \in Texts /\ Len(line) \in Nat /\ T!end = Len(line)
           /\ in_offset \in 0 .. Len(line) /\ out_offset \in 0 .. Len(line) + 1
           /\ buffer \in [0 .. Len(line) -> Chars \cup {Nul}]
           /\ argv \in Seq(Nat)
<1>1. line \in Texts /\ T!end = Len(line) /\ Len(line) \in Nat
  BY EndIsNat DEF TokenizerInv, T!TypeOK, Texts, T!end
<1>2. argv \in Seq(0 .. Len(line))
  BY <1>1 DEF TokenizerInv, T!TypeOK
<1>3. argv \in Seq(Nat)
  BY <1>1, <1>2
<1> QED BY <1>1, <1>3 DEF TokenizerInv, T!TypeOK

\* A turn of the loop reads the next character of the line, and reads it as
\* the line says.
LEMMA TurnReads ==
    ASSUME WordsInv, NEW c \in Chars, T!Reads(c)
    PROVE  /\ in_offset \in 0 .. Len(line) - 1 /\ in_offset' = in_offset + 1
           /\ out_offset \in 0 .. Len(line) /\ ~done /\ line' = line
           /\ line[in_offset + 1] = c
           /\ T!CL!Readings(line)[in_offset + 1] = HowNext
           /\ T!CL!Readings(line)[in_offset' + 1] = T!CL!Reading(HowNext, c)
<1>1. /\ in_offset < T!end /\ in_offset' = in_offset + 1 /\ out_offset <= in_offset
      /\ ~done /\ line' = line
  BY ReadsMoves DEF WordsInv
<1>2. /\ line \in Texts /\ Len(line) \in Nat /\ T!end = Len(line)
      /\ in_offset \in 0 .. Len(line) /\ out_offset \in 0 .. Len(line) + 1
  BY LineIs DEF WordsInv
<1>3. in_offset \in 0 .. Len(line) - 1 /\ out_offset \in 0 .. Len(line)
  BY <1>1, <1>2
<1>4. buffer[in_offset] = c
  BY <1>1 DEF T!Reads, T!CharAt
<1>5. buffer[in_offset] = T!Given(in_offset)
  BY <1>1, <1>2 DEF WordsInv, TokenizerInv, T!InputIsAhead
<1>6. line[in_offset + 1] = c
  BY <1>1, <1>4, <1>5 DEF T!Given
<1>7. T!CL!Readings(line)[in_offset + 1] = HowNext
  BY <1>1 DEF WordsInv
<1>8. in_offset + 1 \in 1 .. Len(line)
  BY <1>2, <1>3
<1>9. T!CL!Readings(line)[(in_offset + 1) + 1] = T!CL!Reading(HowNext, c)
  BY <1>2, <1>6, <1>7, <1>8, ReadingsAre
<1> QED BY <1>1, <1>3, <1>6, <1>7, <1>9

\* What a turn writes, it writes behind what was written.
LEMMA TurnWrites ==
    ASSUME TokenizerInv, NEW c, T!Puts(c), out_offset \in 0 .. Len(line)
    PROVE  /\ out_offset' = out_offset + 1 /\ buffer'[out_offset] = c
           /\ \A i \in 0 .. out_offset - 1 : buffer'[i] = buffer[i]
<1>1. buffer \in [0 .. Len(line) -> Chars \cup {Nul}] /\ Len(line) \in Nat
  BY LineIs
<1>2. buffer' = [buffer EXCEPT ![out_offset] = c] /\ out_offset' = out_offset + 1
  BY DEF T!Puts
<1> QED BY <1>1, <1>2

\* A character that is no space belongs to a word, perhaps to a new one.
LEMMA InsideOfAWord ==
    ASSUME WordsInv, ~done, in_offset \in 0 .. Len(line) - 1,
           in_offset + 1 \notin T!CL!Spaces(line), NEW b, NEW out,
           IF in_offset + 1 \in T!CL!Syntax(line) THEN b = buffer /\ out = out_offset
           ELSE /\ out = out_offset + 1 /\ b[out_offset] = line[in_offset + 1]
                /\ \A i \in 0 .. out_offset - 1 : b[i] = buffer[i]
    PROVE  \E start \in 1 .. in_offset + 1 :
              Inside(line, start, in_offset + 1, IF arg = NoArg THEN out_offset ELSE arg,
                     b, out, argv)
<1>1. line \in Texts /\ out_offset \in Nat
  BY LineIs DEF WordsInv
<1>2. CASE arg = NoArg
  <2>1. Between(line, in_offset, buffer, out_offset, argv)
    BY <1>2 DEF WordsInv
  <2>2. Inside(line, in_offset + 1, in_offset, out_offset, buffer, out_offset, argv)
    BY <1>1, <2>1, WordBegins
  <2>3. in_offset + 1 \in 1 .. in_offset + 1 /\ Inside(line, in_offset + 1, in_offset + 1, out_offset, b, out, argv)
    BY <1>1, <2>2, WordGoesOn
  <2> QED BY <1>2, <2>3
<1>3. CASE arg # NoArg
  <2>1. PICK start \in 1 .. in_offset :
           Inside(line, start, in_offset, arg, buffer, out_offset, argv)
    BY <1>3 DEF WordsInv
  <2>2. start \in 1 .. in_offset + 1 /\ Inside(line, start, in_offset + 1, arg, b, out, argv)
    BY <1>1, <2>1, WordGoesOn
  <2> QED BY <1>3, <2>2
<1> QED BY <1>2, <1>3

\* The turns that read a character of a word.
LEMMA TurnInside ==
    ASSUME WordsInv, TokenizerInv', NEW c \in Chars, T!Reads(c),
           in_offset + 1 \notin T!CL!Spaces(line),
           IF in_offset + 1 \in T!CL!Syntax(line) THEN T!PutsNothing ELSE T!Puts(c),
           T!Continues, T!PushArg, escape' => quote' = NoMark,
           HowNext' = T!CL!Reading(HowNext, c)
    PROVE  WordsInv'
<1>1. /\ in_offset \in 0 .. Len(line) - 1 /\ in_offset' = in_offset + 1
      /\ out_offset \in 0 .. Len(line) /\ ~done /\ line' = line
      /\ line[in_offset + 1] = c
      /\ T!CL!Readings(line)[in_offset' + 1] = HowNext'
  BY TurnReads
<1>2. IF in_offset + 1 \in T!CL!Syntax(line) THEN buffer' = buffer /\ out_offset' = out_offset
      ELSE /\ out_offset' = out_offset + 1 /\ buffer'[out_offset] = line[in_offset + 1]
           /\ \A i \in 0 .. out_offset - 1 : buffer'[i] = buffer[i]
  BY <1>1, TurnWrites DEF WordsInv, T!PutsNothing
<1>3. arg' = (IF arg = NoArg THEN out_offset ELSE arg) /\ argv' = argv /\ done' = done
  BY DEF T!PushArg, T!Continues
<1>4. arg' # NoArg
  BY <1>1, <1>3, Constants
<1>5. \E start \in 1 .. in_offset + 1 :
         Inside(line, start, in_offset + 1, IF arg = NoArg THEN out_offset ELSE arg,
                buffer', out_offset', argv)
  BY <1>1, <1>2, InsideOfAWord
<1>6. \E start \in 1 .. in_offset' :
         Inside(line', start, in_offset', arg', buffer', out_offset', argv')
  BY <1>1, <1>3, <1>5
<1> QED BY <1>1, <1>3, <1>4, <1>6 DEF WordsInv

\* The turns that hand a word over.
LEMMA TurnHandsOver ==
    ASSUME WordsInv, TokenizerInv', NEW c \in Chars, T!Reads(c), T!HandsOver,
           Handed(Append(argv, arg), buffer', out_offset', line, in_offset'),
           in_offset' \in T!CL!Spaces(line) \/ in_offset' + 1 \in T!CL!Spaces(line),
           escape' = FALSE, HowNext' = T!CL!Reading(HowNext, c)
    PROVE  WordsInv'
<1>1. /\ in_offset \in 0 .. Len(line) - 1 /\ in_offset' = in_offset + 1 /\ line' = line
      /\ T!CL!Readings(line)[in_offset' + 1] = HowNext'
  BY TurnReads
<1>2. argv' = Append(argv, arg) /\ arg' = NoArg /\ done' = (Len(argv') = MaxArgv)
  BY DEF T!HandsOver, T!IsFull
<1>3. Between(line', in_offset', buffer', out_offset', argv')
  BY <1>1, <1>2 DEF Between
<1>4. /\ line' \in Texts /\ T!end' = Len(line') /\ in_offset' \in 0 .. Len(line')
      /\ out_offset' \in 0 .. Len(line') + 1
  <2>1. line \in Texts /\ Len(line) \in Nat
    BY LineIs DEF WordsInv
  <2>2. T!end' = Len(line') /\ out_offset' \in 0 .. T!end' + 1
    BY DEF TokenizerInv, T!TypeOK, T!end
  <2> QED BY <1>1, <2>1, <2>2
<1>5. Handed(argv', buffer', T!end' + 1, line', in_offset')
  <2>1. out_offset' \in Nat /\ T!end' + 1 \in Nat /\ out_offset' <= T!end' + 1
    BY <1>4 DEF Texts
  <2>2. Handed(argv', buffer', out_offset', line', in_offset')
    BY <1>3 DEF Between
  <2> QED BY <1>4, <2>1, <2>2, HandedStays
<1> QED BY <1>1, <1>2, <1>3, <1>4, <1>5 DEF WordsInv

\* How the character is read says whether it is a space or a mark.
LEMMA PlaceIs ==
    ASSUME WordsInv, NEW c \in Chars, T!Reads(c)
    PROVE  /\ in_offset + 1 \in T!CL!Spaces(line) <=> HowNext = "plain" /\ c = Space
           /\ in_offset + 1 \in T!CL!Syntax(line) <=>
                 (HowNext = "plain" /\ c \in Marks \cup {Escape}) \/ HowNext = c
<1>1. /\ in_offset \in 0 .. Len(line) - 1 /\ line[in_offset + 1] = c
      /\ T!CL!Readings(line)[in_offset + 1] = HowNext
  BY TurnReads
<1>2. line \in Texts /\ in_offset + 1 \in 1 .. Len(line)
  BY <1>1, LineIs DEF WordsInv
<1> QED BY <1>1, <1>2, SpacesAre DEF T!CL!Syntax

LEMMA ReadConstants ==
    /\ "plain" \notin Chars /\ "escaped" \notin Chars
    /\ Space \notin Marks /\ Space # Escape /\ Escape \notin Marks
BY ResizeCommandAssumption DEF T!TokenizerAssumption

LEMMA EscapedStep == WordsInv /\ TokenizerInv' /\ T!ReadEscaped => WordsInv'
<1> SUFFICES ASSUME WordsInv, TokenizerInv', T!ReadEscaped PROVE WordsInv'
  OBVIOUS
<1>1. PICK c \in Chars : T!Reads(c) /\ T!Puts(c)
  BY DEF T!ReadEscaped
<1>2. escape /\ escape' = FALSE /\ T!Continues /\ arg' = arg /\ quote' = quote /\ quote = NoMark
  BY DEF T!ReadEscaped, WordsInv
<1>3. HowNext = "escaped" /\ HowNext' = "plain" /\ HowNext # c
  BY <1>2, ReadConstants DEF HowNext
<1>4. T!CL!Reading(HowNext, c) = "plain"
  BY <1>3 DEF T!CL!Reading
<1>5. in_offset + 1 \notin T!CL!Spaces(line) /\ in_offset + 1 \notin T!CL!Syntax(line)
  BY <1>1, <1>3, PlaceIs
<1>6. T!PushArg
  BY <1>2 DEF WordsInv, TokenizerInv, T!Plain, T!PushArg
<1> QED BY <1>1, <1>2, <1>3, <1>4, <1>5, <1>6, TurnInside

LEMMA QuotedStep == WordsInv /\ TokenizerInv' /\ T!ReadQuoted => WordsInv'
<1> SUFFICES ASSUME WordsInv, TokenizerInv', T!ReadQuoted PROVE WordsInv'
  OBVIOUS
<1>1. PICK c \in Chars \ {quote} : T!Reads(c) /\ T!Puts(c)
  BY DEF T!ReadQuoted
<1>2. /\ ~escape /\ escape' = escape /\ T!Continues /\ arg' = arg /\ quote' = quote
      /\ quote # NoMark
  BY DEF T!ReadQuoted
<1>3. HowNext = quote /\ HowNext' = quote /\ quote \in Marks /\ quote \in Chars
  BY <1>2, Constants DEF HowNext, WordsInv, TokenizerInv, T!TypeOK
<1>4. T!CL!Reading(HowNext, c) = quote
  BY <1>1, <1>3, ReadConstants DEF T!CL!Reading
<1>5. in_offset + 1 \notin T!CL!Spaces(line) /\ in_offset + 1 \notin T!CL!Syntax(line)
  BY <1>1, <1>3, PlaceIs, ReadConstants
<1>6. T!PushArg
  BY <1>2 DEF WordsInv, TokenizerInv, T!Plain, T!PushArg
<1> QED BY <1>1, <1>2, <1>3, <1>4, <1>5, <1>6, TurnInside

\* What a step that begins plainly may read.
LEMMA PlainIs == T!Plain => HowNext = "plain" /\ escape = FALSE /\ quote = NoMark
BY DEF T!Plain, HowNext

LEMMA EscapeStep == WordsInv /\ TokenizerInv' /\ T!ReadEscape => WordsInv'
<1> SUFFICES ASSUME WordsInv, TokenizerInv', T!ReadEscape PROVE WordsInv'
  OBVIOUS
<1>1. /\ T!Reads(Escape) /\ T!PutsNothing /\ T!Continues /\ T!PushArg
      /\ escape' = TRUE /\ quote' = quote /\ Escape \in Chars
      /\ HowNext = "plain" /\ quote = NoMark
  BY Constants, PlainIs DEF T!ReadEscape
<1>2. HowNext' = "escaped" /\ T!CL!Reading(HowNext, Escape) = "escaped"
  BY <1>1 DEF HowNext, T!CL!Reading
<1>3. in_offset + 1 \notin T!CL!Spaces(line) /\ in_offset + 1 \in T!CL!Syntax(line)
  BY <1>1, PlaceIs, ReadConstants
<1> QED BY <1>1, <1>2, <1>3, TurnInside

LEMMA OpenStep == WordsInv /\ TokenizerInv' /\ T!OpenQuote => WordsInv'
<1> SUFFICES ASSUME WordsInv, TokenizerInv', T!OpenQuote PROVE WordsInv'
  OBVIOUS
<1>1. PICK m \in Marks : T!Reads(m) /\ quote' = m /\ T!PutsNothing
  BY DEF T!OpenQuote
<1>2. /\ T!Continues /\ T!PushArg /\ escape' = FALSE /\ m \in Chars /\ m # NoMark
      /\ HowNext = "plain"
  BY Constants, PlainIs DEF T!OpenQuote
<1>3. HowNext' = m /\ T!CL!Reading(HowNext, m) = m
  BY <1>1, <1>2, ReadConstants DEF HowNext, T!CL!Reading
<1>4. in_offset + 1 \notin T!CL!Spaces(line) /\ in_offset + 1 \in T!CL!Syntax(line)
  BY <1>1, <1>2, PlaceIs, ReadConstants
<1> QED BY <1>1, <1>2, <1>3, <1>4, TurnInside

LEMMA PlainStep == WordsInv /\ TokenizerInv' /\ T!ReadPlain => WordsInv'
<1> SUFFICES ASSUME WordsInv, TokenizerInv', T!ReadPlain PROVE WordsInv'
  OBVIOUS
<1>1. PICK c \in Chars \ (Marks \cup {Escape, Space}) : T!Reads(c) /\ T!Puts(c)
  BY DEF T!ReadPlain
<1>2. /\ T!Continues /\ T!PushArg /\ escape' = FALSE /\ quote' = NoMark
      /\ HowNext = "plain"
  BY PlainIs DEF T!ReadPlain
<1>3. HowNext' = "plain" /\ T!CL!Reading(HowNext, c) = "plain"
  BY <1>1, <1>2 DEF HowNext, T!CL!Reading
<1>4. in_offset + 1 \notin T!CL!Spaces(line) /\ in_offset + 1 \notin T!CL!Syntax(line)
  BY <1>1, <1>2, PlaceIs, ReadConstants
<1> QED BY <1>1, <1>2, <1>3, <1>4, TurnInside

\* A space ends the word before it, if there is one.
LEMMA SpaceStep == WordsInv /\ TokenizerInv' /\ T!ReadSpace => WordsInv'
<1> SUFFICES ASSUME WordsInv, TokenizerInv', T!ReadSpace PROVE WordsInv'
  OBVIOUS
<1>1. /\ T!Reads(Space) /\ escape' = FALSE /\ quote' = NoMark /\ Space \in Chars
      /\ HowNext = "plain"
  BY Constants, PlainIs DEF T!ReadSpace
<1>2. HowNext' = "plain" /\ T!CL!Reading(HowNext, Space) = "plain"
  BY <1>1, ReadConstants DEF HowNext, T!CL!Reading
<1>3. in_offset + 1 \in T!CL!Spaces(line)
  BY <1>1, PlaceIs
<1>4. /\ in_offset \in 0 .. Len(line) - 1 /\ in_offset' = in_offset + 1
      /\ out_offset \in 0 .. Len(line) /\ ~done /\ line' = line
      /\ T!CL!Readings(line)[in_offset' + 1] = HowNext'
  BY <1>1, <1>2, TurnReads
<1>5. line \in Texts /\ Len(line) \in Nat /\ argv \in Seq(Nat)
  BY LineIs DEF WordsInv
<1>6. /\ in_offset \in 0 .. Len(line) /\ in_offset + 1 \in in_offset .. Len(line)
      /\ \A i \in in_offset + 1 .. in_offset + 1 : i \notin T!CL!Finished(line)
  <2>1. in_offset + 1 \notin T!CL!Finished(line)
    BY <1>3, <1>5, SpacesAre
  <2>2. \A i \in in_offset + 1 .. in_offset + 1 : i = in_offset + 1
    BY <1>4
  <2> QED BY <1>4, <1>5, <2>1, <2>2
<1>7. CASE arg # NoArg
  <2>1. T!Puts(Nul) /\ T!HandsOver
    BY <1>7 DEF T!ReadSpace
  <2>2. PICK start \in 1 .. in_offset :
           Inside(line, start, in_offset, arg, buffer, out_offset, argv)
    BY <1>4, <1>7 DEF WordsInv
  <2>3. in_offset \in 1 .. Len(line) /\ in_offset # Len(line)
    BY <1>4, <1>5, <2>2
  <2>4. /\ out_offset' = out_offset + 1 /\ buffer'[out_offset] = Nul
        /\ \A i \in 0 .. out_offset - 1 : buffer'[i] = buffer[i]
    BY <1>4, <2>1, TurnWrites DEF WordsInv
  <2>5. Handed(Append(argv, arg), buffer', out_offset + 1, line, in_offset)
    BY <1>3, <1>5, <2>2, <2>3, <2>4, WordEnds
  <2>6. Handed(Append(argv, arg), buffer', out_offset + 1, line, in_offset + 1)
    BY <1>5, <1>6, <2>5, HandedFurther
  <2> QED BY <1>1, <1>2, <1>3, <1>4, <2>1, <2>4, <2>6, TurnHandsOver
<1>8. CASE arg = NoArg
  <2>1. /\ buffer' = buffer /\ out_offset' = out_offset /\ arg' = NoArg
        /\ argv' = argv /\ done' = done
    BY <1>8 DEF T!ReadSpace, T!PutsNothing, T!Continues
  <2>2. Handed(argv, buffer, out_offset, line, in_offset)
    BY <1>4, <1>8 DEF WordsInv, Between
  <2>3. Handed(argv, buffer, out_offset, line, in_offset + 1)
    BY <1>5, <1>6, <2>2, HandedFurther
  <2>4. Between(line', in_offset', buffer', out_offset', argv')
    BY <1>3, <1>4, <2>1, <2>3 DEF Between
  <2> QED BY <1>1, <1>4, <2>1, <2>4 DEF WordsInv
<1> QED BY <1>7, <1>8

\* A closing mark ends the word only before a space or the end of the line.
LEMMA CloseStep == WordsInv /\ TokenizerInv' /\ T!CloseQuote => WordsInv'
<1> SUFFICES ASSUME WordsInv, TokenizerInv', T!CloseQuote PROVE WordsInv'
  OBVIOUS
<1>1. /\ T!Reads(quote) /\ quote \in Marks /\ quote \in Chars /\ quote # NoMark
      /\ escape = FALSE /\ escape' = FALSE /\ quote' = NoMark /\ arg # NoArg
  BY Constants DEF T!CloseQuote, T!Plain, WordsInv, TokenizerInv, T!TypeOK
<1>2. HowNext = quote /\ HowNext' = "plain" /\ T!CL!Reading(HowNext, quote) = "plain"
  BY <1>1, ReadConstants DEF HowNext, T!CL!Reading
<1>3. in_offset + 1 \notin T!CL!Spaces(line) /\ in_offset + 1 \in T!CL!Syntax(line)
  BY <1>1, <1>2, PlaceIs, ReadConstants
<1>4. /\ in_offset \in 0 .. Len(line) - 1 /\ in_offset' = in_offset + 1
      /\ out_offset \in 0 .. Len(line) /\ ~done /\ line' = line
      /\ T!CL!Readings(line)[in_offset' + 1] = "plain"
  BY <1>1, <1>2, TurnReads
<1>5. line \in Texts /\ Len(line) \in Nat /\ argv \in Seq(Nat) /\ T!end = Len(line)
  BY LineIs DEF WordsInv
<1>6. CASE T!EndsWord(T!CharAt(in_offset'))
  <2>1. T!Puts(Nul) /\ T!HandsOver
    BY <1>6 DEF T!CloseQuote
  <2>2. in_offset' + 1 \in T!CL!Spaces(line)
    <3>1. CASE in_offset' = Len(line)
      BY <1>5, <3>1, SpacesAre
    <3>2. CASE in_offset' # Len(line)
      <4>1. in_offset' < T!end /\ in_offset' \in in_offset .. T!end /\ in_offset' + 1 \in 1 .. Len(line)
        BY <1>4, <1>5, <3>2
      <4>2. T!CharAt(in_offset') = line[in_offset' + 1]
        BY <1>4, <4>1 DEF T!CharAt, WordsInv, TokenizerInv, T!InputIsAhead, T!Given
      <4>3. line[in_offset' + 1] \in Chars
        BY <1>5, <4>1, ElementsBelong DEF Texts
      <4>4. line[in_offset' + 1] = Space
        BY <1>6, <4>2, <4>3, Constants DEF T!EndsWord
      <4> QED BY <1>4, <1>5, <4>1, <4>4, SpacesAre
    <3> QED BY <3>1, <3>2
  <2>3. PICK start \in 1 .. in_offset + 1 :
           Inside(line, start, in_offset + 1, arg, buffer, out_offset, argv)
    BY <1>1, <1>3, <1>4, InsideOfAWord
  <2>4. /\ out_offset' = out_offset + 1 /\ buffer'[out_offset] = Nul
        /\ \A i \in 0 .. out_offset - 1 : buffer'[i] = buffer[i]
    BY <1>4, <2>1, TurnWrites DEF WordsInv
  <2>5. in_offset + 1 \in 1 .. Len(line)
    BY <1>4, <1>5
  <2>6. (in_offset + 1) + 1 \in T!CL!Spaces(line)
    BY <1>4, <2>2
  <2>7. in_offset + 1 = Len(line) => T!CL!Readings(line)[Len(line) + 1] = "plain"
    BY <1>4
  <2>8. Handed(Append(argv, arg), buffer', out_offset + 1, line, in_offset + 1)
    BY <1>5, <2>3, <2>4, <2>5, <2>6, <2>7, WordEnds
  <2> QED BY <1>1, <1>2, <1>4, <2>1, <2>2, <2>4, <2>8, TurnHandsOver
<1>7. CASE ~T!EndsWord(T!CharAt(in_offset'))
  <2>1. T!PutsNothing /\ T!Continues /\ T!PushArg
    BY <1>1, <1>7 DEF T!CloseQuote, T!PushArg
  <2> QED BY <1>1, <1>2, <1>3, <2>1, TurnInside
<1> QED BY <1>6, <1>7

\* At the end of the line the last word is finished or is none.
LEMMA EndStep == WordsInv /\ TokenizerInv' /\ T!ReadEnd => WordsInv'
<1> SUFFICES ASSUME WordsInv, TokenizerInv', T!ReadEnd PROVE WordsInv'
  OBVIOUS
<1>1. /\ in_offset = Len(line) /\ in_offset' = in_offset /\ ~done /\ line' = line
      /\ T!end' = T!end /\ T!end = Len(line)
      /\ line \in Texts /\ Len(line) \in Nat /\ argv \in Seq(Nat)
      /\ out_offset \in 0 .. Len(line) + 1
  BY ReadsNul, LineIs DEF T!ReadEnd, WordsInv
<1>2. quote' = quote /\ escape' = escape /\ HowNext' = HowNext
  BY DEF T!ReadEnd, HowNext
<1>3. /\ T!CL!Readings(line)[Len(line) + 1] = HowNext
      /\ Len(line) + 1 \in T!CL!Spaces(line)
      /\ T!Plain <=> HowNext = "plain"
  <2>1. T!CL!Readings(line)[Len(line) + 1] = HowNext
    BY <1>1 DEF WordsInv
  <2>2. T!Plain <=> HowNext = "plain"
    <3>1. quote \in Marks \cup {NoMark} /\ escape \in BOOLEAN
      BY DEF WordsInv, TokenizerInv, T!TypeOK
    <3> QED BY <3>1, Constants, ReadConstants DEF T!Plain, HowNext
  <2> QED BY <1>1, <2>1, <2>2, SpacesAre
<1>4. CASE T!Plain /\ arg # NoArg
  <2>1. T!Puts(Nul) /\ T!HandsOver
    BY <1>4 DEF T!ReadEnd
  <2>2. PICK start \in 1 .. in_offset :
           Inside(line, start, in_offset, arg, buffer, out_offset, argv)
    BY <1>1, <1>4 DEF WordsInv
  <2>3. out_offset <= in_offset
    BY <1>4 DEF WordsInv, TokenizerInv
  <2>4. in_offset \in 1 .. Len(line) /\ out_offset \in 0 .. Len(line) /\ out_offset + 1 \in Nat
    BY <1>1, <2>2, <2>3
  <2>5. /\ out_offset' = out_offset + 1 /\ buffer'[out_offset] = Nul
        /\ \A i \in 0 .. out_offset - 1 : buffer'[i] = buffer[i]
    BY <2>1, <2>4, TurnWrites DEF WordsInv
  <2>6. Handed(Append(argv, arg), buffer', out_offset + 1, line, in_offset)
    BY <1>1, <1>3, <1>4, <2>2, <2>4, <2>5, WordEnds
  <2>7. argv' = Append(argv, arg) /\ arg' = NoArg /\ done' = (Len(argv') = MaxArgv)
    BY <2>1 DEF T!HandsOver, T!IsFull
  <2>8. Between(line', in_offset', buffer', out_offset', argv')
    BY <1>1, <1>3, <2>5, <2>6, <2>7 DEF Between
  <2>9. Handed(argv', buffer', T!end' + 1, line', in_offset')
    <3>1. in_offset \in 0 .. Len(line) /\ Len(line) + 1 \in Nat /\ out_offset + 1 <= Len(line) + 1
      BY <1>1, <2>4
    <3>2. Handed(Append(argv, arg), buffer', Len(line) + 1, line, in_offset)
      BY <1>1, <2>4, <2>6, <3>1, HandedStays
    <3> QED BY <1>1, <2>7, <3>2
  <2>10. in_offset' \in 0 .. Len(line')
    BY <1>1
  <2> QED BY <1>1, <1>2, <1>3, <2>7, <2>8, <2>9, <2>10 DEF WordsInv
<1>5. CASE ~(T!Plain /\ arg # NoArg)
  <2>1. /\ done' = TRUE /\ argv' = argv /\ buffer' = buffer
    BY <1>5 DEF T!ReadEnd, T!PutsNothing
  <2>2. Handed(argv, buffer, Len(line) + 1, line, Len(line))
    <3>1. Len(line) \in 0 .. Len(line) /\ Len(line) + 1 \in Nat /\ Len(line) \in Len(line) .. Len(line)
      BY <1>1
    <3>2. CASE arg = NoArg
      <4>1. Handed(argv, buffer, out_offset, line, Len(line))
        BY <1>1, <3>2 DEF WordsInv, Between
      <4>2. out_offset \in Nat /\ out_offset <= Len(line) + 1
        BY <1>1
      <4> QED BY <1>1, <3>1, <4>1, <4>2, HandedStays
    <3>3. CASE arg # NoArg
      <4>1. HowNext # "plain"
        BY <1>3, <1>5, <3>3
      <4>2. PICK start \in 1 .. Len(line) :
               Inside(line, start, Len(line), arg, buffer, out_offset, argv)
        BY <1>1, <3>3 DEF WordsInv
      <4>3. /\ start \in T!CL!Starts(line) /\ arg \in Nat
            /\ \A i \in start .. Len(line) : i \notin T!CL!Spaces(line)
            /\ Handed(argv, buffer, arg, line, start - 1)
        BY <4>2 DEF Inside
      <4>4. arg <= Len(line) + 1
        <5>1. arg \in 0 .. T!end \cup {NoArg}
          BY DEF WordsInv, TokenizerInv, T!TypeOK
        <5> QED BY <1>1, <3>3, <5>1
      <4>5. /\ start - 1 \in 0 .. Len(line) /\ Len(line) \in start - 1 .. Len(line)
            /\ Len(line) \in start .. Len(line)
        BY <1>1
      <4>6. Handed(argv, buffer, Len(line) + 1, line, start - 1)
        BY <1>1, <3>1, <4>3, <4>4, <4>5, HandedStays
      <4>7. Len(line) \in T!CL!WordFrom(line, start)
        BY <4>3, <4>5 DEF T!CL!WordFrom
      <4>8. start \notin T!CL!Finished(line)
        BY <1>3, <4>1, <4>7 DEF T!CL!Finished
      <4>9. \A i \in (start - 1) + 1 .. Len(line) : i \notin T!CL!Finished(line)
        <5> SUFFICES ASSUME NEW i \in start .. Len(line), i # start
                     PROVE  i \notin T!CL!Finished(line)
          BY <1>1, <4>8
        <5>1. i - 1 \in start .. Len(line)
          BY <1>1
        <5>2. i - 1 \notin T!CL!Spaces(line)
          BY <4>3, <5>1
        <5> QED BY <1>1, <5>2, SpacesAre
      <4> QED BY <1>1, <4>5, <4>6, <4>9, HandedFurther
    <3> QED BY <3>2, <3>3
  <2>3. Len(line') \in 0 .. Len(line')
    BY <1>1
  <2>4. Handed(argv', buffer', T!end' + 1, line', Len(line'))
    BY <1>1, <2>1, <2>2
  <2> QED BY <1>2, <2>1, <2>3, <2>4 DEF WordsInv
<1> QED BY <1>4, <1>5

LEMMA StepWords == WordsInv /\ [Next]_vars => WordsInv'
<1> SUFFICES ASSUME WordsInv, [Next]_vars PROVE WordsInv'
  OBVIOUS
<1>1. TokenizerInv'
  BY StepInv DEF WordsInv
<1>2. CASE T!Next
  BY <1>1, <1>2, EscapedStep, QuotedStep, EscapeStep, OpenStep, PlainStep, SpaceStep,
     CloseStep, EndStep DEF T!Next
<1>3. CASE UNCHANGED tokenizerVars
  <2>1. /\ line' = line /\ buffer' = buffer /\ in_offset' = in_offset /\ argv' = argv
        /\ out_offset' = out_offset /\ arg' = arg /\ quote' = quote /\ escape' = escape
        /\ done' = done /\ T!end' = T!end
    BY <1>3 DEF tokenizerVars, T!end
  <2> QED BY <1>1, <2>1 DEF WordsInv, HowNext
<1> QED BY <1>2, <1>3
      DEF Next, Tokenize, NoCommand, TakeOption, Decide, CallsNext, vars, tokenizerVars

LEMMA InitWords == Init => WordsInv
<1> SUFFICES ASSUME Init PROVE WordsInv
  OBVIOUS
<1>1. TokenizerInv
  BY InitInv
<1>2. /\ in_offset = 0 /\ out_offset = 0 /\ arg = NoArg /\ quote = NoMark
      /\ escape = FALSE /\ argv = << >> /\ done = FALSE
  BY DEF Init, T!Init
<1>3. line \in Texts /\ Len(line) \in Nat
  BY <1>1, LineIs
<1>4. T!CL!Readings(line)[in_offset + 1] = HowNext
  BY <1>2, <1>3, ReadingsAre DEF HowNext
<1>5. Handed(argv, buffer, out_offset, line, 0)
  <2> DEFINE F == T!CL!Finished(line)
  <2>1. T!CL!InOrder(F, Len(line))[0] = << >>
    <3> HIDE DEF F
    <3> QED BY <1>3, InOrderIs
  <2> QED BY <1>2, <2>1 DEF Handed
<1>6. Between(line, in_offset, buffer, out_offset, argv)
  BY <1>2, <1>3, <1>5, SpacesAre DEF Between
<1> QED BY <1>1, <1>2, <1>4, <1>6 DEF WordsInv

\* What is written at an offset is the string that is found there.
LEMMA WrittenIsFound ==
    ASSUME TokenizerInv, NEW a, NEW before, NEW text \in Texts,
           Written(buffer, a, before, text), before <= T!end + 1
    PROVE  T!StringAt(a) = text
<1> DEFINE Ends(k) == buffer[k] = Nul /\ \A j \in a .. k - 1 : buffer[j] # Nul
           t == CHOOSE k \in a .. T!end : Ends(k)
           z == a + Len(text)
<1>1. /\ T!end \in Nat /\ a \in Nat /\ before \in Nat /\ Len(text) \in Nat
      /\ z < before /\ buffer[z] = Nul
      /\ \A i \in 1 .. Len(text) : buffer[a + i - 1] = text[i] /\ text[i] \in Chars
  <2>1. T!end \in Nat
    BY LineIs
  <2>2. Len(text) \in Nat /\ \A i \in 1 .. Len(text) : text[i] \in Chars
    BY ElementsBelong DEF Texts
  <2> QED BY <2>1, <2>2 DEF Written
<1>2. z \in a .. T!end /\ Ends(z)
  <2>1. z \in a .. T!end
    BY <1>1
  <2>2. ASSUME NEW j \in a .. z - 1 PROVE buffer[j] # Nul
    <3>1. j - a + 1 \in 1 .. Len(text) /\ a + (j - a + 1) - 1 = j
      BY <1>1
    <3>2. buffer[a + (j - a + 1) - 1] \in Chars
      BY <1>1, <3>1
    <3> QED BY <3>1, <3>2, Constants
  <2> QED BY <1>1, <2>1, <2>2
<1>3. ASSUME NEW k \in a .. T!end, Ends(k) PROVE k = z
  <2> HIDE DEF z
  <2>1. ~(k < z)
    <3> SUFFICES ASSUME k < z PROVE FALSE
      OBVIOUS
    <3>1. k \in a .. z - 1
      BY <1>1, <1>2
    <3> QED BY <1>2, <1>3, <3>1
  <2>2. ~(z < k)
    <3> SUFFICES ASSUME z < k PROVE FALSE
      OBVIOUS
    <3>1. z \in a .. k - 1
      BY <1>1, <1>2
    <3> QED BY <1>2, <1>3, <3>1
  <2> QED BY <1>1, <1>2, <2>1, <2>2
<1>4. t = z
  <2> HIDE DEF Ends, z
  <2>1. t \in a .. T!end /\ Ends(t)
    BY <1>2
  <2> QED BY <1>3, <2>1
<1>5. T!StringAt(a) = [i \in 1 .. t - a |-> buffer[a + i - 1]]
  BY DEF T!StringAt
<1> HIDE DEF t
<1>6. t - a = Len(text)
  BY <1>1, <1>4
<1>7. T!StringAt(a) = [i \in 1 .. Len(text) |-> text[i]]
  BY <1>1, <1>5, <1>6
<1> QED BY <1>7 DEF Texts

\* The strings of argv are then the first words of the line.
LEMMA HandedAreWords ==
    ASSUME TokenizerInv, NEW q \in 0 .. Len(line), NEW before,
           Handed(argv, buffer, before, line, q), before <= T!end + 1
    PROVE  LET words == T!CL!WordsOf(line)
           IN  /\ Len(argv) <= Len(words)
               /\ T!Strings = SubSeq(words, 1, Len(argv))
               /\ q = Len(line) => Len(argv) = Len(words)
<1> DEFINE u == T!CL!InOrder(T!CL!Finished(line), Len(line))
           starts == u[q]
           all == u[Len(line)]
           words == T!CL!WordsOf(line)
<1>1. line \in Texts /\ Len(line) \in Nat /\ Len(line) \in 0 .. Len(line) /\ Len(line) \in q .. Len(line)
      /\ argv \in Seq(Nat) /\ Len(argv) \in Nat
  BY LineIs
<1>2. /\ Len(argv) = Len(starts)
      /\ \A m \in 1 .. Len(argv) : Written(buffer, argv[m], before, T!CL!Text(line, starts[m]))
  BY DEF Handed
<1>3. all \in Seq(Nat) /\ Len(all) \in Nat /\ \A m \in 1 .. Len(starts) : T!CL!Text(line, starts[m]) \in Texts
  <2>1. all \in Seq(Nat)
    BY <1>1, StartsAre
  <2>2. \A m \in 1 .. Len(starts) : T!CL!Text(line, starts[m]) \in Texts
    BY <1>1, StartsAre
  <2> HIDE DEF all
  <2> QED BY <2>1, <2>2
<1>4. Len(starts) <= Len(all) /\ \A m \in 1 .. Len(starts) : all[m] = starts[m]
  <2> DEFINE F == T!CL!Finished(line)
             n == Len(line)
             some == T!CL!InOrder(F, n)[q]
             every == T!CL!InOrder(F, n)[n]
  <2>1. n \in Nat /\ q \in 0 .. n /\ n \in q .. n
    BY <1>1
  <2> HIDE DEF F, n
  <2>2. Leads(some, every)
    BY <2>1, PlacesGrow
  <2> QED BY <2>2 DEF F, n, Leads
<1>5. words = [k \in 1 .. Len(all) |-> T!CL!Text(line, all[k])]
  BY DEF T!CL!WordsOf
<1> HIDE DEF starts, all, words
<1>6. Len(words) = Len(all)
  BY <1>3, <1>5
<1>7. \A m \in 1 .. Len(argv) : T!StringAt(argv[m]) = T!CL!Text(line, starts[m])
  BY <1>2, <1>3, WrittenIsFound
<1>8. \A m \in 1 .. Len(argv) : m \in 1 .. Len(all) /\ words[m] = T!CL!Text(line, starts[m])
  <2> TAKE m \in 1 .. Len(argv)
  <2>1. m \in 1 .. Len(all) /\ m \in 1 .. Len(starts)
    BY <1>1, <1>2, <1>3, <1>4
  <2> QED BY <1>4, <1>5, <2>1
<1>9. T!Strings = [m \in 1 .. Len(argv) |-> words[m]]
  BY <1>7, <1>8 DEF T!Strings
<1>10. SubSeq(words, 1, Len(argv)) = [m \in 1 .. Len(argv) |-> words[m]]
  <2>1. \A m \in 1 .. Len(argv) : words[1 + m - 1] = words[m]
    BY <1>1
  <2>2. 1 + Len(argv) - 1 = Len(argv)
    BY <1>1
  <2> QED BY <1>1, <2>1, <2>2
<1>11. q = Len(line) => starts = all
  BY DEF starts, all
<1> QED BY <1>2, <1>4, <1>6, <1>9, <1>10, <1>11 DEF words

\* The words of a line, whatever it is, are what argv points to: each of them
\* from the moment it is handed over, none is written over by a later one, and
\* in the end there are all of them that argv has room for.
THEOREM WordsAsWritten == Spec => []WordsOfLine
<1>1. WordsInv => WordsOfLine
  <2> SUFFICES ASSUME WordsInv PROVE T!WordsOfLine
    BY DEF WordsOfLine
  <2>1. TokenizerInv /\ line \in Texts /\ T!end \in Nat /\ T!end = Len(line)
        /\ in_offset \in 0 .. Len(line) /\ out_offset <= T!end + 1
    BY LineIs DEF WordsInv
  <2>2. CASE done
    <3>1. PICK q \in 0 .. Len(line) :
             /\ Handed(argv, buffer, T!end + 1, line, q)
             /\ Len(argv) = MaxArgv \/ q = Len(line)
      BY <2>2 DEF WordsInv
    <3>2. T!end + 1 <= T!end + 1
      BY <2>1
    <3> QED BY <2>1, <3>1, <3>2, HandedAreWords DEF T!WordsOfLine
  <2>3. CASE ~done /\ arg = NoArg
    <3>1. Handed(argv, buffer, out_offset, line, in_offset)
      BY <2>3 DEF WordsInv, Between
    <3> QED BY <2>1, <2>3, <3>1, HandedAreWords DEF T!WordsOfLine
  <2>4. CASE ~done /\ arg # NoArg
    <3>1. PICK start \in 1 .. in_offset :
             Inside(line, start, in_offset, arg, buffer, out_offset, argv)
      BY <2>4 DEF WordsInv
    <3>2. Handed(argv, buffer, arg, line, start - 1) /\ start - 1 \in 0 .. Len(line)
      BY <2>1, <3>1 DEF Inside
    <3>3. arg <= T!end + 1
      <4>1. arg \in 0 .. T!end
        BY <2>1, <2>4 DEF TokenizerInv, T!TypeOK
      <4> QED BY <2>1, <4>1
    <3> QED BY <2>1, <2>4, <3>2, <3>3, HandedAreWords DEF T!WordsOfLine
  <2> QED BY <2>2, <2>3, <2>4
<1> QED BY InitWords, StepWords, <1>1, PTL DEF Spec
==============================================================================
