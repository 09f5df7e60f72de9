---------------------------- MODULE DecoderProofs ----------------------------
(***************************************************************************)
(* What Decoder::process remembers of the bytes it was sent and what it    *)
(* hears in them, for every set of bytes, every table of keys and every    *)
(* length of a control sequence; and that a query of the terminal's size   *)
(* (cmd_resize) learns what the window had and loses no report, for every  *)
(* set of windows, of keys and of numbers of queries.                      *)
(***************************************************************************)
EXTENDS SizeQuery, SequenceTheorems, FiniteSetTheorems, WellFoundedInduction, TLAPS

InSequence == state \in {"CSI_P", "CSI_I"}

\* The sequence being read is n parameter bytes and then intermediate ones.
Split(n) ==
    /\ \A i \in 3 .. n + 2 : run[i] \in Params
    /\ \A i \in n + 3 .. Len(run) : run[i] \in Intermediates
    /\ state = "CSI_P" <=> n = Len(run) - 2
    /\ Len(parameter) = IF n < MaxParameter THEN n ELSE MaxParameter
    /\ \A i \in 1 .. Len(parameter) : parameter[i] = run[i + 2]
    /\ intermediate_len = Len(run) - 2 - n

\* Where the decoder is in a sequence, byte by byte.
DecoderInv ==
    /\ TypeOK
    /\ state # "IDLE" => Len(run) <= MaxRun
    /\ state = "IDLE" => run = << >> \/ Sent!Finished(run)
    /\ state = "ESCAPE" => run = <<Esc>>
    /\ InSequence =>
           /\ Len(run) >= 2 /\ run[1] = Esc /\ run[2] = Bracket
           /\ \E n \in 0 .. Len(run) - 2 : Split(n)

LEMMA Lengths ==
    ASSUME DecoderInv
    PROVE  /\ run \in Seq(Bytes) /\ Len(run) \in Nat
           /\ parameter \in Seq(Params) /\ Len(parameter) \in Nat
           /\ MaxRun \in Nat /\ MaxParameter \in Nat \ {0}
BY DecoderAssumption DEF DecoderInv, TypeOK

LEMMA Appended ==
    ASSUME NEW S, NEW s \in Seq(S), NEW c \in S
    PROVE  /\ Append(s, c) \in Seq(S) /\ Len(Append(s, c)) = Len(s) + 1
           /\ Append(s, c)[Len(s) + 1] = c
           /\ \A i \in 1 .. Len(s) : Append(s, c)[i] = s[i]
OBVIOUS

LEMMA TwoOrMore == \A n \in Nat : n >= 2 => n = 2 \/ 3 <= n
OBVIOUS

\* The bytes after the introducer.
LEMMA Body ==
    ASSUME NEW S, NEW s \in Seq(S), Len(s) >= 2
    PROVE  /\ SubSeq(s, 3, Len(s)) \in Seq(S)
           /\ Len(SubSeq(s, 3, Len(s))) = Len(s) - 2
           /\ \A i \in 1 .. Len(s) - 2 : SubSeq(s, 3, Len(s))[i] = s[i + 2]
<1> DEFINE p == SubSeq(s, 3, Len(s))
<1>1. Len(s) \in Nat /\ 3 \in Int /\ \A i \in 3 .. Len(s) : s[i] \in S
  BY LenProperties
<1>2. /\ p \in Seq(S)
      /\ Len(p) = IF 3 <= Len(s) THEN Len(s) - 3 + 1 ELSE 0
      /\ \A i \in 1 .. Len(s) - 3 + 1 : p[i] = s[3 + i - 1]
  BY <1>1, SubSeqProperties
<1> HIDE DEF p
<1>3. Len(p) = Len(s) - 2
  <2>1. CASE 3 <= Len(s)
    BY <1>1, <1>2, <2>1
  <2>2. CASE Len(s) = 2
    BY <1>2, <2>2
  <2>3. Len(s) = 2 \/ 3 <= Len(s)
    <3>1. Len(s) \in Nat
      BY LenProperties
    <3> QED BY <3>1, TwoOrMore
  <2> QED BY <2>1, <2>2, <2>3
<1>4. ASSUME NEW i \in 1 .. Len(s) - 2
      PROVE  p[i] = s[i + 2]
  <2>1. i \in 1 .. Len(s) - 3 + 1 /\ 3 + i - 1 = i + 2
    BY <1>1
  <2> QED BY <1>2, <2>1
<1> QED BY <1>2, <1>3, <1>4 DEF p

\* All bytes of a piece are of a kind.
LEMMA PieceAreAll ==
    ASSUME NEW S, NEW s \in Seq(S), NEW m \in Nat \ {0}, NEW n \in 0 .. Len(s), NEW T
    PROVE  Sent!AreAll(SubSeq(s, m, n), T) <=> \A i \in m .. n : s[i] \in T
<1>1. Len(s) \in Nat /\ m \in Int /\ n \in Int /\ \A i \in m .. n : s[i] \in S
  BY LenProperties
<1> DEFINE p == SubSeq(s, m, n)
<1>2. /\ Len(p) = IF m <= n THEN n - m + 1 ELSE 0
      /\ \A i \in 1 .. n - m + 1 : p[i] = s[m + i - 1]
  BY <1>1, SubSeqProperties
<1> HIDE DEF p
<1>3. ASSUME \A i \in 1 .. Len(p) : p[i] \in T, NEW i \in m .. n
      PROVE  s[i] \in T
  <2>1. i - m + 1 \in 1 .. n - m + 1 /\ m + (i - m + 1) - 1 = i /\ m <= n
    BY <1>1
  <2> QED BY <1>2, <1>3, <2>1
<1>4. ASSUME \A i \in m .. n : s[i] \in T, NEW j \in 1 .. Len(p)
      PROVE  p[j] \in T
  <2>1. j \in 1 .. n - m + 1 /\ m + j - 1 \in m .. n
    BY <1>1, <1>2
  <2> QED BY <1>2, <1>4, <2>1
<1> QED BY <1>3, <1>4 DEF Sent!AreAll, p

LEMMA InitDecoder == Init => DecoderInv
BY DecoderAssumption DEF Init, DecoderInv, TypeOK, InSequence

-----------------------------------------------------------------------------
LEMMA OneByteFinished ==
    ASSUME NEW c, c # Esc
    PROVE  Sent!Finished(<<c>>)
BY DEF Sent!Finished

LEMMA EscapeFinished ==
    ASSUME NEW c \in Bytes, c # Bracket
    PROVE  Sent!Finished(Append(<<Esc>>, c))
BY DecoderAssumption DEF Sent!Finished

\* A byte that neither a parameter nor an intermediate byte may follow ends it.
LEMMA FinalFinished ==
    ASSUME DecoderInv, InSequence, NEW c \in Bytes, Final(c)
    PROVE  Sent!Finished(Append(run, c))
<1> DEFINE s == Append(run, c)
           b == SubSeq(s, 3, Len(s))
<1>1. /\ run \in Seq(Bytes) /\ Len(run) \in Nat /\ Len(run) >= 2 /\ run[2] = Bracket
  BY Lengths DEF DecoderInv
<1>2. PICK n \in 0 .. Len(run) - 2 : Split(n)
  BY DEF DecoderInv
<1>3. /\ s \in Seq(Bytes) /\ Len(s) = Len(run) + 1 /\ s[Len(run) + 1] = c
      /\ \A i \in 1 .. Len(run) : s[i] = run[i]
  BY <1>1, Appended
<1>4. /\ b \in Seq(Bytes) /\ Len(b) = Len(run) - 1
      /\ \A i \in 1 .. Len(run) - 1 : b[i] = s[i + 2]
  <2> HIDE DEF s
  <2> QED BY <1>1, <1>3, Body
<1>5. b[Len(run) - 1] = c /\ \A i \in 1 .. Len(run) - 2 : b[i] = run[i + 2]
  <2> HIDE DEF s, b
  <2>1. Len(run) - 1 \in 1 .. Len(run) - 1 /\ (Len(run) - 1) + 2 = Len(run) + 1
    BY <1>1
  <2>2. ASSUME NEW i \in 1 .. Len(run) - 2 PROVE b[i] = run[i + 2]
    <3>1. i \in 1 .. Len(run) - 1 /\ i + 2 \in 1 .. Len(run)
      BY <1>1
    <3> QED BY <1>3, <1>4, <3>1
  <2> QED BY <1>3, <1>4, <2>1, <2>2
<1>6. ASSUME NEW m \in 0 .. Len(b),
             Sent!AreAll(SubSeq(b, 1, m), Params),
             Sent!AreAll(SubSeq(b, m + 1, Len(b)), Intermediates)
      PROVE  FALSE
  <2> HIDE DEF b, s
  <2>0. b \in Seq(Bytes) /\ 1 \in Nat \ {0} /\ m + 1 \in Nat \ {0} /\ m \in 0 .. Len(b) /\ Len(b) \in 0 .. Len(b)
    BY <1>1, <1>4
  <2>1. \A i \in 1 .. m : b[i] \in Params
    BY <1>6, <2>0, PieceAreAll
  <2>2. \A i \in m + 1 .. Len(b) : b[i] \in Intermediates
    BY <1>6, <2>0, PieceAreAll
  <2>3. CASE m < Len(b)
    BY <1>1, <1>4, <1>5, <2>2, <2>3 DEF Final
  <2>4. CASE m = Len(b)
    <3>1. c \in Params /\ state # "CSI_P"
      BY <1>1, <1>4, <1>5, <2>1, <2>4 DEF Final
    <3>2. n + 3 <= Len(run) /\ run[n + 3] \in Intermediates
      BY <1>1, <1>2, <3>1 DEF Split, InSequence
    <3>3. b[n + 1] = run[n + 3] /\ b[n + 1] \in Params
      BY <1>1, <1>4, <1>5, <2>1, <2>4, <3>2
    <3> QED BY <3>2, <3>3, DecoderAssumption
  <2> QED BY <1>6, <2>3, <2>4, <1>1, <1>4
<1>7. ~Sent!Unfinished(b)
  BY <1>6 DEF Sent!Unfinished
<1>8. Len(s) # 1
  BY <1>1, <1>3
<1> QED BY <1>7, <1>8 DEF Sent!Finished

-----------------------------------------------------------------------------
\* The steps that end a sequence, and those that wait for more of it.
LEMMA RunType ==
    ASSUME DecoderInv, NEW c \in Bytes
    PROVE  /\ RunWith(c) \in Seq(Bytes)
           /\ Len(RunWith(c)) = IF state = "IDLE" THEN 1 ELSE Len(run) + 1
           /\ Len(RunWith(c)) <= MaxRun + 1
<1>1. CASE state = "IDLE"
  BY <1>1, Lengths DEF RunWith
<1>2. CASE state # "IDLE"
  <2>1. Append(run, c) \in Seq(Bytes) /\ Len(Append(run, c)) = Len(run) + 1
    BY Lengths, Appended
  <2>2. Len(run) <= MaxRun
    BY <1>2 DEF DecoderInv
  <2> QED BY <1>2, <2>1, <2>2, Lengths DEF RunWith
<1> QED BY <1>1, <1>2

LEMMA HandsKeeps ==
    ASSUME DecoderInv, NEW c \in Bytes, NEW symbol, Hands(c, symbol),
           Sent!Finished(RunWith(c)), UNCHANGED <<parameter, intermediate_len>>
    PROVE  DecoderInv'
BY RunType DEF DecoderInv, TypeOK, Hands, InSequence

\* A byte of a sequence is appended to those before it.
LEMMA WaitingAppends ==
    ASSUME DecoderInv, state # "IDLE", NEW c \in Bytes, NEW next, Waiting(c, next)
    PROVE  /\ state' = next
           /\ run' \in Seq(Bytes) /\ Len(run') = Len(run) + 1 /\ Len(run') <= MaxRun
           /\ run'[Len(run) + 1] = c
           /\ \A i \in 1 .. Len(run) : run'[i] = run[i]
BY Lengths, Appended DEF Waiting, RunWith

LEMMA ParameterKeeps ==
    ASSUME DecoderInv, NEW c \in Bytes, ReadParameter(c)
    PROVE  DecoderInv'
<1>1. /\ state = "CSI_P" /\ state' = "CSI_P" /\ c \in Params
      /\ parameter' = Remembered(parameter, c) /\ intermediate_len' = intermediate_len
  BY DEF ReadParameter, Waiting
<1>2. /\ run' \in Seq(Bytes) /\ Len(run') = Len(run) + 1 /\ Len(run') <= MaxRun
      /\ run'[Len(run) + 1] = c
      /\ \A i \in 1 .. Len(run) : run'[i] = run[i]
  BY <1>1, WaitingAppends DEF ReadParameter
<1>3. /\ Len(run) \in Nat /\ Len(run) >= 2 /\ run[1] = Esc /\ run[2] = Bracket
      /\ Len(parameter) \in Nat /\ Len(parameter) <= MaxParameter /\ MaxParameter \in Nat
      /\ parameter \in Seq(Params)
  BY <1>1, Lengths DEF DecoderInv, InSequence, TypeOK
<1>4. PICK n \in 0 .. Len(run) - 2 : Split(n)
  BY <1>1 DEF DecoderInv, InSequence
<1>5. n = Len(run) - 2
  BY <1>1, <1>4 DEF Split
<1>6. /\ parameter' \in Seq(Params) /\ Len(parameter') <= MaxParameter
      /\ Len(parameter') = IF n + 1 < MaxParameter THEN n + 1 ELSE MaxParameter
      /\ \A i \in 1 .. Len(parameter') : parameter'[i] = run'[i + 2]
  <2>1. CASE Len(parameter) < MaxParameter
    <3>1. /\ parameter' \in Seq(Params) /\ Len(parameter') = Len(parameter) + 1
          /\ parameter'[Len(parameter) + 1] = c
          /\ \A i \in 1 .. Len(parameter) : parameter'[i] = parameter[i]
      BY <1>1, <1>3, <2>1, Appended DEF Remembered
    <3>2. n < MaxParameter /\ Len(parameter) = n
      BY <1>3, <1>4, <2>1 DEF Split
    <3>3. ASSUME NEW i \in 1 .. n + 1 PROVE parameter'[i] = run'[i + 2]
      <4>1. CASE i = n + 1
        BY <1>2, <1>3, <1>5, <3>1, <3>2, <4>1
      <4>2. CASE i \in 1 .. n
        <5>1. parameter[i] = run[i + 2] /\ i + 2 \in 1 .. Len(run)
          BY <1>3, <1>4, <1>5, <3>2, <4>2 DEF Split
        <5> QED BY <1>2, <3>1, <3>2, <4>2, <5>1
      <4> QED BY <4>1, <4>2
    <3> QED BY <1>3, <3>1, <3>2, <3>3
  <2>2. CASE ~(Len(parameter) < MaxParameter)
    <3>1. parameter' = parameter /\ Len(parameter) = MaxParameter
      BY <1>1, <1>3, <2>2 DEF Remembered
    <3>2. MaxParameter <= n
      BY <1>3, <1>4, <3>1 DEF Split
    <3>3. ASSUME NEW i \in 1 .. Len(parameter) PROVE parameter[i] = run'[i + 2]
      <4>1. parameter[i] = run[i + 2] /\ i + 2 \in 1 .. Len(run)
        BY <1>3, <1>4, <1>5, <3>1, <3>2 DEF Split
      <4> QED BY <1>2, <4>1
    <3> QED BY <1>3, <3>1, <3>2, <3>3
  <2> QED BY <2>1, <2>2
<1>7. Split(n + 1)'
  <2>1. ASSUME NEW i \in 3 .. n + 3 PROVE run'[i] \in Params
    <3>1. CASE i = n + 3
      BY <1>1, <1>2, <1>5, <3>1
    <3>2. CASE i \in 3 .. n + 2
      <4>1. run[i] \in Params
        BY <1>4, <3>2 DEF Split
      <4>2. i \in 1 .. Len(run)
        BY <1>3, <1>5, <3>2
      <4> QED BY <1>2, <4>1, <4>2
    <3> QED BY <3>1, <3>2
  <2>2. intermediate_len' = Len(run') - 2 - (n + 1)
    BY <1>1, <1>2, <1>3, <1>4 DEF Split
  <2> QED BY <1>1, <1>2, <1>3, <1>5, <1>6, <2>1, <2>2 DEF Split
<1>8. n + 1 \in 0 .. Len(run') - 2
  BY <1>2, <1>3, <1>5
<1>9. TypeOK'
  <2>1. intermediate_len \in 0 .. MaxIntermediate /\ MaxRun \in Nat
    BY Lengths DEF DecoderInv, TypeOK
  <2> QED BY <1>1, <1>2, <1>6, <2>1 DEF TypeOK
<1>10. run'[1] = Esc /\ run'[2] = Bracket /\ Len(run') >= 2
  BY <1>2, <1>3
<1> QED BY <1>1, <1>2, <1>7, <1>8, <1>9, <1>10 DEF DecoderInv, InSequence

LEMMA IntermediateKeeps ==
    ASSUME DecoderInv, NEW c \in Bytes, ReadIntermediate(c)
    PROVE  DecoderInv'
<1>1. /\ state \in {"CSI_P", "CSI_I"} /\ state' = "CSI_I" /\ c \in Intermediates
      /\ parameter' = parameter /\ intermediate_len' = intermediate_len + 1
  BY DEF ReadIntermediate, Waiting
<1>2. /\ run' \in Seq(Bytes) /\ Len(run') = Len(run) + 1 /\ Len(run') <= MaxRun
      /\ run'[Len(run) + 1] = c
      /\ \A i \in 1 .. Len(run) : run'[i] = run[i]
  BY <1>1, WaitingAppends DEF ReadIntermediate
<1>3. /\ Len(run) \in Nat /\ Len(run) >= 2 /\ run[1] = Esc /\ run[2] = Bracket
      /\ Len(parameter) \in Nat /\ MaxParameter \in Nat /\ MaxRun \in Nat
  BY <1>1, Lengths DEF DecoderInv, InSequence
<1>4. PICK n \in 0 .. Len(run) - 2 : Split(n)
  BY <1>1 DEF DecoderInv, InSequence
<1>5. Split(n)'
  <2>1. ASSUME NEW i \in 3 .. n + 2 PROVE run'[i] \in Params
    <3>1. run[i] \in Params
      BY <1>4 DEF Split
    <3>2. i \in 1 .. Len(run)
      BY <1>3
    <3> QED BY <1>2, <3>1, <3>2
  <2>2. ASSUME NEW i \in n + 3 .. Len(run) + 1 PROVE run'[i] \in Intermediates
    <3>1. CASE i = Len(run) + 1
      BY <1>1, <1>2, <3>1
    <3>2. CASE i \in n + 3 .. Len(run)
      <4>1. run[i] \in Intermediates
        BY <1>4, <3>2 DEF Split
      <4>2. i \in 1 .. Len(run)
        BY <1>3, <3>2
      <4> QED BY <1>2, <4>1, <4>2
    <3> QED BY <1>3, <3>1, <3>2
  <2>3. ASSUME NEW i \in 1 .. Len(parameter) PROVE parameter[i] = run'[i + 2]
    <3>1. parameter[i] = run[i + 2] /\ i <= n
      BY <1>3, <1>4 DEF Split
    <3>2. i + 2 \in 1 .. Len(run)
      BY <1>3, <3>1
    <3> QED BY <1>2, <3>1, <3>2
  <2>4. n # Len(run') - 2 /\ intermediate_len' = Len(run') - 2 - n
    BY <1>1, <1>2, <1>3, <1>4 DEF Split
  <2>5. Len(parameter') = IF n < MaxParameter THEN n ELSE MaxParameter
    BY <1>1, <1>4 DEF Split
  <2> QED BY <1>1, <1>2, <2>1, <2>2, <2>3, <2>4, <2>5 DEF Split
<1>6. n \in 0 .. Len(run') - 2
  BY <1>2, <1>3
<1>7. TypeOK'
  <2>1. intermediate_len' \in 0 .. MaxIntermediate
    BY <1>1, DecoderAssumption DEF ReadIntermediate, DecoderInv, TypeOK
  <2>2. parameter \in Seq(Params) /\ Len(parameter) <= MaxParameter
    BY DEF DecoderInv, TypeOK
  <2> QED BY <1>1, <1>2, <1>3, <2>1, <2>2 DEF TypeOK
<1>8. run'[1] = Esc /\ run'[2] = Bracket /\ Len(run') >= 2
  BY <1>2, <1>3
<1> QED BY <1>1, <1>2, <1>5, <1>6, <1>7, <1>8 DEF DecoderInv, InSequence

\* A sequence begins without parameters, whatever the one before it had.
LEMMA BracketKeeps ==
    ASSUME DecoderInv, ReadBracket
    PROVE  DecoderInv'
<1>1. /\ state = "ESCAPE" /\ state' = "CSI_P" /\ Bracket \in Bytes
      /\ parameter' = << >> /\ intermediate_len' = 0
  BY DecoderAssumption DEF ReadBracket, Waiting, Forgotten
<1>2. /\ run' \in Seq(Bytes) /\ Len(run') = Len(run) + 1 /\ Len(run') <= MaxRun
      /\ run'[Len(run) + 1] = Bracket
      /\ \A i \in 1 .. Len(run) : run'[i] = run[i]
  BY <1>1, WaitingAppends DEF ReadBracket
<1>3. run = <<Esc>> /\ Len(run) = 1
  BY <1>1 DEF DecoderInv
<1>4. Len(run') = 2 /\ run'[1] = Esc /\ run'[2] = Bracket
  BY <1>2, <1>3
<1>5. Split(0)'
  BY <1>1, <1>4, DecoderAssumption DEF Split
<1>6. TypeOK'
  BY <1>1, <1>2, DecoderAssumption DEF TypeOK
<1> QED BY <1>1, <1>2, <1>4, <1>5, <1>6 DEF DecoderInv, InSequence

LEMMA EscapeKeeps ==
    ASSUME DecoderInv, ReadEscape
    PROVE  DecoderInv'
<1>1. /\ state' = "ESCAPE" /\ run' = <<Esc>> /\ Len(run') <= MaxRun
      /\ UNCHANGED <<parameter, intermediate_len>> /\ Esc \in Bytes
  BY DecoderAssumption DEF ReadEscape, Waiting, RunWith
<1>2. run' \in Seq(Bytes) /\ Len(run') = 1
  BY <1>1
<1> QED BY <1>1, <1>2, DecoderAssumption DEF DecoderInv, TypeOK, InSequence

LEMMA StepDecoder == DecoderInv /\ [Next]_vars => DecoderInv'
<1> SUFFICES ASSUME DecoderInv, [Next]_vars PROVE DecoderInv'
  OBVIOUS
<1>1. CASE Next
  <2> PICK c \in Bytes : Process(c)
    BY <1>1 DEF Next
  <2>1. CASE ReadKey(c)
    <3>1. Sent!Finished(RunWith(c))
      BY <2>1, OneByteFinished DEF ReadKey, RunWith
    <3> QED BY <2>1, <3>1, HandsKeeps DEF ReadKey
  <2>2. CASE ReadEscaped(c)
    <3>1. Sent!Finished(RunWith(c))
      BY <2>2, EscapeFinished DEF ReadEscaped, RunWith, DecoderInv
    <3> QED BY <2>2, <3>1, HandsKeeps DEF ReadEscaped
  <2>3. CASE ReadFinal(c)
    <3>1. Sent!Finished(RunWith(c))
      BY <2>3, FinalFinished DEF ReadFinal, RunWith, InSequence
    <3>2. \E symbol : Hands(c, symbol)
      BY <2>3 DEF ReadFinal, ReadReport
    <3> QED BY <2>3, <3>1, <3>2, HandsKeeps DEF ReadFinal
  <2> QED BY <2>1, <2>2, <2>3, EscapeKeeps, BracketKeeps, ParameterKeeps, IntermediateKeeps
          DEF Process
<1>2. CASE UNCHANGED vars
  BY <1>2 DEF vars, DecoderInv, TypeOK, InSequence, Split
<1> QED BY <1>1, <1>2

\* Every state of the decoder is well typed: no parameter is written past the
\* array's end and no count leaves its bound.
THEOREM TypeCorrect == Spec => []TypeOK
<1>1. DecoderInv => TypeOK
  BY DEF DecoderInv
<1> QED BY InitDecoder, StepDecoder, <1>1, PTL DEF Spec

-----------------------------------------------------------------------------
(* The same of the sequence as a whole. *)

LEMMA NotFinished ==
    ASSUME DecoderInv, InSequence
    PROVE  ~Sent!Finished(run)
<1> DEFINE b == SubSeq(run, 3, Len(run))
<1>1. /\ run \in Seq(Bytes) /\ Len(run) \in Nat /\ Len(run) >= 2 /\ run[2] = Bracket
  BY Lengths DEF DecoderInv
<1>2. PICK n \in 0 .. Len(run) - 2 : Split(n)
  BY DEF DecoderInv
<1>3. /\ b \in Seq(Bytes) /\ Len(b) = Len(run) - 2
      /\ \A i \in 1 .. Len(run) - 2 : b[i] = run[i + 2]
  BY <1>1, Body
<1> HIDE DEF b
<1>4. /\ \A i \in 1 .. n : b[i] \in Params
      /\ \A i \in n + 1 .. Len(b) : b[i] \in Intermediates
  <2>1. ASSUME NEW i \in 1 .. n PROVE b[i] \in Params
    <3>1. i \in 1 .. Len(run) - 2 /\ i + 2 \in 3 .. n + 2
      BY <1>1
    <3> QED BY <1>2, <1>3, <3>1 DEF Split
  <2>2. ASSUME NEW i \in n + 1 .. Len(b) PROVE b[i] \in Intermediates
    <3>1. i \in 1 .. Len(run) - 2 /\ i + 2 \in n + 3 .. Len(run)
      BY <1>1, <1>3
    <3> QED BY <1>2, <1>3, <3>1 DEF Split
  <2> QED BY <2>1, <2>2
<1>5. /\ 1 \in Nat \ {0} /\ n + 1 \in Nat \ {0}
      /\ n \in 0 .. Len(b) /\ Len(b) \in 0 .. Len(b)
  BY <1>1, <1>3
<1>6. /\ Sent!AreAll(SubSeq(b, 1, n), Params)
      /\ Sent!AreAll(SubSeq(b, n + 1, Len(b)), Intermediates)
  BY <1>3, <1>4, <1>5, PieceAreAll
<1>7. Sent!Unfinished(b)
  BY <1>5, <1>6 DEF Sent!Unfinished
<1>8. Len(run) # 1
  BY <1>1
<1> QED BY <1>1, <1>7, <1>8 DEF Sent!Finished, b

\* The parameters of a body are what the array holds of its first bytes.
LEMMA ParametersAre ==
    ASSUME NEW b \in Seq(Bytes), NEW n \in 0 .. Len(b),
           \A i \in 1 .. n : b[i] \in Params,
           n < Len(b) => b[n + 1] \notin Params
    PROVE  Sent!Parameters(b) = SubSeq(b, 1, IF n < MaxParameter THEN n ELSE MaxParameter)
<1> DEFINE S == {k \in 0 .. Len(b) : Sent!AreAll(SubSeq(b, 1, k), Params)}
<1>1. Len(b) \in Nat /\ 1 \in Nat \ {0}
  OBVIOUS
<1>2. ASSUME NEW k \in 0 .. Len(b)
      PROVE  Sent!AreAll(SubSeq(b, 1, k), Params) <=> k <= n
  <2>1. Sent!AreAll(SubSeq(b, 1, k), Params) <=> \A i \in 1 .. k : b[i] \in Params
    BY <1>1, PieceAreAll
  <2>2. k <= n => \A i \in 1 .. k : b[i] \in Params
    BY <1>1
  <2>3. ~(k <= n) => n < Len(b) /\ n + 1 \in 1 .. k
    BY <1>1
  <2> QED BY <2>1, <2>2, <2>3
<1>3. S = 0 .. n
  BY <1>1, <1>2
<1>4. Sent!Max(S) = n
  <2>1. n \in 0 .. n /\ \A y \in 0 .. n : n >= y
    OBVIOUS
  <2>2. \A x \in 0 .. n : (\A y \in 0 .. n : x >= y) => x = n
    OBVIOUS
  <2> HIDE DEF S
  <2> QED BY <1>3, <2>1, <2>2 DEF Sent!Max
<1> QED BY <1>4 DEF Sent!Parameters

\* The parameters of a sequence are those remembered, while it is being read
\* and when a byte that is no parameter has ended it.
LEMMA ParametersRemembered ==
    ASSUME DecoderInv, InSequence, NEW s \in Seq(Bytes),
           \/ s = run
           \/ \E c \in Bytes \ Params : s = Append(run, c)
    PROVE  parameter = Sent!Parameters(SubSeq(s, 3, Len(s)))
<1> DEFINE b == SubSeq(s, 3, Len(s))
<1>1. /\ run \in Seq(Bytes) /\ Len(run) \in Nat /\ Len(run) >= 2
      /\ parameter \in Seq(Params) /\ Len(parameter) \in Nat /\ MaxParameter \in Nat \ {0}
  BY Lengths DEF DecoderInv
<1>2. PICK n \in 0 .. Len(run) - 2 : Split(n)
  BY DEF DecoderInv
<1>3. /\ \A i \in 1 .. Len(run) : s[i] = run[i]
      /\ \/ Len(s) = Len(run)
         \/ Len(s) = Len(run) + 1 /\ s[Len(run) + 1] \notin Params
  <2>1. CASE s = run
    BY <2>1
  <2>2. ASSUME NEW c \in Bytes \ Params, s = Append(run, c)
        PROVE  /\ \A i \in 1 .. Len(run) : s[i] = run[i]
               /\ Len(s) = Len(run) + 1 /\ s[Len(run) + 1] \notin Params
    BY <1>1, <2>2, Appended
  <2> QED BY <2>1, <2>2
<1>4. /\ b \in Seq(Bytes) /\ Len(b) = Len(s) - 2
      /\ \A i \in 1 .. Len(s) - 2 : b[i] = s[i + 2]
  BY <1>1, <1>3, Body
<1> HIDE DEF b
<1>5. n \in 0 .. Len(b) /\ \A i \in 1 .. n : b[i] = run[i + 2] /\ b[i] \in Params
  <2>1. ASSUME NEW i \in 1 .. n PROVE b[i] = run[i + 2] /\ b[i] \in Params
    <3>1. i \in 1 .. Len(s) - 2 /\ i + 2 \in 1 .. Len(run) /\ i + 2 \in 3 .. n + 2
      BY <1>1, <1>3
    <3> QED BY <1>2, <1>3, <1>4, <3>1 DEF Split
  <2> QED BY <1>1, <1>3, <1>4, <2>1
<1>6. n < Len(b) => b[n + 1] \notin Params
  <2> SUFFICES ASSUME n < Len(b) PROVE b[n + 1] \notin Params
    OBVIOUS
  <2>1. n + 1 \in 1 .. Len(s) - 2 /\ b[n + 1] = s[n + 3]
    BY <1>1, <1>3, <1>4
  <2>2. CASE n + 3 = Len(run) + 1
    BY <1>1, <1>3, <2>1, <2>2
  <2>3. CASE n + 3 # Len(run) + 1
    <3>1. n + 3 \in 1 .. Len(run) /\ n + 3 \in n + 3 .. Len(run)
      BY <1>1, <1>3, <2>1, <2>3
    <3>2. run[n + 3] \in Intermediates
      BY <1>2, <3>1 DEF Split
    <3> QED BY <1>3, <2>1, <3>1, <3>2, DecoderAssumption
  <2> QED BY <2>2, <2>3
<1> DEFINE m == IF n < MaxParameter THEN n ELSE MaxParameter
<1>7. Sent!Parameters(b) = SubSeq(b, 1, m)
  BY <1>4, <1>5, <1>6, ParametersAre
<1>8. /\ m \in 0 .. n /\ Len(parameter) = m
      /\ \A i \in 1 .. m : parameter[i] = run[i + 2]
  BY <1>1, <1>2 DEF Split
<1>9. /\ SubSeq(b, 1, m) \in Seq(Bytes) /\ Len(SubSeq(b, 1, m)) = m
      /\ \A i \in 1 .. m : SubSeq(b, 1, m)[i] = b[i]
  BY <1>1, <1>4, <1>5, <1>8
<1>10. \A i \in 1 .. m : parameter[i] = SubSeq(b, 1, m)[i]
  BY <1>1, <1>5, <1>8, <1>9
<1> HIDE DEF m
<1> QED BY <1>1, <1>7, <1>8, <1>9, <1>10, SeqEqual DEF b

LEMMA TwoElements ==
    ASSUME NEW S, NEW p \in Seq(S), Len(p) = 2
    PROVE  p = <<p[1], p[2]>>
<1>1. p \in [1 .. 2 -> S]
  <2>1. p \in [1 .. Len(p) -> S]
    BY LenProperties
  <2> QED BY <2>1
<1> QED BY <1>1

LEMMA StateFollows == DecoderInv => StateIsOfRun
<1> SUFFICES ASSUME DecoderInv PROVE StateIsOfRun
  OBVIOUS
<1>1. state \in {"IDLE", "ESCAPE", "CSI_P", "CSI_I"}
  BY DEF DecoderInv, TypeOK
<1>2. ~Sent!Finished(<<Esc>>) /\ <<Esc>> # << >>
  BY DEF Sent!Finished
<1>3. InSequence => ~Sent!Finished(run) /\ Len(run) >= 2 /\ run # << >> /\ run # <<Esc>>
  <2>1. Len(<<Esc>>) = 1 /\ Len(<< >>) = 0
    OBVIOUS
  <2> QED BY <2>1, NotFinished DEF DecoderInv
<1>4. state = "IDLE" <=> run = << >> \/ Sent!Finished(run)
  BY <1>1, <1>2, <1>3 DEF DecoderInv, InSequence
<1>5. state = "ESCAPE" <=> run = <<Esc>>
  BY <1>1, <1>2, <1>3, <1>4 DEF DecoderInv, InSequence
<1>6. ASSUME InSequence
      PROVE  /\ SubSeq(run, 1, 2) = <<Esc, Bracket>>
             /\ state = "CSI_I" <=> run[Len(run)] \in Intermediates
  <2>1. /\ run \in Seq(Bytes) /\ Len(run) \in Nat /\ Len(run) >= 2
        /\ run[1] = Esc /\ run[2] = Bracket
    BY <1>6, Lengths DEF DecoderInv
  <2>2. PICK n \in 0 .. Len(run) - 2 : Split(n)
    BY <1>6 DEF DecoderInv
  <2>3. SubSeq(run, 1, 2) = <<Esc, Bracket>>
    <3> DEFINE p == SubSeq(run, 1, 2)
    <3>1. 1 \in Int /\ 2 \in Int /\ \A i \in 1 .. 2 : run[i] \in Bytes
      BY <2>1, DecoderAssumption
    <3>2. p \in Seq(Bytes) /\ Len(p) = 2 /\ p[1] = Esc /\ p[2] = Bracket
      BY <2>1, <3>1, SubSeqProperties
    <3>3. p = <<p[1], p[2]>>
      <4> HIDE DEF p
      <4> QED BY <3>2, TwoElements
    <3> QED BY <3>2, <3>3
  <2>4. CASE n = Len(run) - 2
    <3>1. state = "CSI_P"
      BY <2>2, <2>4 DEF Split
    <3>2. run[Len(run)] = Bracket \/ run[Len(run)] \in Params
      BY <2>1, <2>2, <2>4 DEF Split
    <3> QED BY <2>3, <3>1, <3>2, DecoderAssumption
  <2>5. CASE n # Len(run) - 2
    <3>1. state = "CSI_I"
      BY <1>6, <2>2, <2>5 DEF Split, InSequence
    <3>2. run[Len(run)] \in Intermediates
      BY <2>1, <2>2, <2>5 DEF Split
    <3> QED BY <2>3, <3>1, <3>2
  <2> QED BY <2>4, <2>5
<1> QED BY <1>4, <1>5, <1>6, ParametersRemembered, Lengths DEF StateIsOfRun, InSequence

\* What the decoder remembers is told by the bytes of the sequence as a whole:
\* it never takes the rest of one sequence for the beginning of another.
THEOREM StateCorrect == Spec => []StateIsOfRun
BY InitDecoder, StepDecoder, StateFollows, PTL DEF Spec

-----------------------------------------------------------------------------
(* Numbers: what is read digit by digit, modulo 2^w, is what is spelt.     *)

\* A set of numbers that is not empty has a least one.
LEMMA LeastNumber ==
    ASSUME NEW S \in SUBSET Nat, S # {}
    PROVE  \E m \in S : \A k \in S : ~(k < m)
<1>1. PICK m \in S : \A k \in S : <<k, m>> \notin OpToRel(<, Nat)
  BY WFMin, NatLessThanWellFounded
<1> QED BY <1>1, Zenon DEF OpToRel

\* What holds at 0 and is handed on from place to place holds up to the end.
LEMMA ClimbsTo ==
    ASSUME NEW n \in Nat, NEW S, 0 \in S,
           \A i \in 1 .. n : i - 1 \in S => i \in S
    PROVE  \A i \in 0 .. n : i \in S
<1> DEFINE Bad == {i \in 0 .. n : i \notin S}
<1> SUFFICES ASSUME Bad # {} PROVE FALSE
  OBVIOUS
<1>1. Bad \in SUBSET Nat
  OBVIOUS
<1>2. PICK m \in Bad : \A j \in Bad : ~(j < m)
  <2> HIDE DEF Bad
  <2> QED BY <1>1, LeastNumber
<1>3. m \in 1 .. n /\ m - 1 \in 0 .. n /\ m - 1 < m /\ m \notin S
  BY <1>2
<1>4. m - 1 \in S
  BY <1>2, <1>3
<1> QED BY <1>3, <1>4

\* A function that goes up one step at a time, and that there is one.
Follows(f, n, V, start, step) ==
    /\ f \in [0 .. n -> V]
    /\ f[0] = start
    /\ \A i \in 1 .. n : f[i] = step[i][f[i - 1]]

LEMMA Iterates ==
    ASSUME NEW n \in Nat, NEW V, NEW start \in V, NEW step \in [1 .. n -> [V -> V]]
    PROVE  \E f : Follows(f, n, V, start, step)
<1> DEFINE Solves(m, f) == Follows(f, m, V, start, step)
           S == {m \in 0 .. n : \E f : Solves(m, f)}
<1>1. 0 \in S
  <2> DEFINE f0 == [i \in 0 .. 0 |-> start]
  <2>1. Solves(0, f0) /\ 0 \in 0 .. n
    BY DEF Follows
  <2> HIDE DEF Solves, f0
  <2> QED BY <2>1
<1>2. ASSUME NEW m \in 1 .. n, m - 1 \in S
      PROVE  m \in S
  <2>1. PICK f : Solves(m - 1, f)
    BY <1>2
  <2> DEFINE g == [i \in 0 .. m |-> IF i = m THEN step[m][f[m - 1]] ELSE f[i]]
  <2>2. f[m - 1] \in V /\ step[m][f[m - 1]] \in V
    BY <2>1 DEF Follows
  <2>3. g \in [0 .. m -> V] /\ g[0] = start
    BY <2>1, <2>2 DEF Follows
  <2>4. ASSUME NEW i \in 1 .. m PROVE g[i] = step[i][g[i - 1]]
    <3>1. i - 1 \in 0 .. m - 1 /\ i - 1 # m /\ i \in 0 .. m
      OBVIOUS
    <3>2. g[i - 1] = f[i - 1]
      BY <3>1
    <3>3. CASE i = m
      BY <3>2, <3>3
    <3>4. CASE i # m
      <4>1. i \in 1 .. m - 1 /\ g[i] = f[i]
        BY <3>1, <3>4
      <4> QED BY <2>1, <3>2, <4>1 DEF Follows
    <3> QED BY <3>3, <3>4
  <2> HIDE DEF g
  <2>5. Solves(m, g) /\ m \in 0 .. n
    BY <2>3, <2>4 DEF Follows
  <2> HIDE DEF Solves
  <2> QED BY <2>5
<1>3. n \in S
  <2> HIDE DEF S
  <2>1. n \in 0 .. n
    OBVIOUS
  <2> QED BY <1>1, <1>2, <2>1, ClimbsTo
<1> QED BY <1>3

\* The steps of Number, and those of Value, which keep w bits of each sum.
Shift(v, s, i) == v * 10 + DigitOf[s[i]]
Spelling(s, n) == [i \in 1 .. n |-> [v \in Nat |-> Shift(v, s, i)]]
Reading(s, n) == [i \in 1 .. n |-> [v \in Nat |-> Shift(v, s, i) % UintMod]]

Spells(f, s, n) == Follows(f, n, Nat, 0, Spelling(s, n))
Reads(f, s, n) == Follows(f, n, Nat, 0, Reading(s, n))

LEMMA Shifted ==
    ASSUME NEW s, NEW i, s[i] \in Digits, NEW v \in Nat
    PROVE  Shift(v, s, i) \in Nat /\ Shift(v, s, i) % UintMod \in Nat
<1>1. DigitOf[s[i]] \in 0 .. 9 /\ UintMod \in Nat \ {0}
  BY UnsignedAssumption
<1>2. Shift(v, s, i) \in Nat
  BY <1>1 DEF Shift
<1>3. \A x \in Nat : x % UintMod \in Nat
  BY <1>1
<1> QED BY <1>2, <1>3

LEMMA NumberSpelt ==
    ASSUME NEW S, NEW s \in Seq(S), \A i \in 1 .. Len(s) : s[i] \in Digits
    PROVE  \E f : /\ Spells(f, s, Len(s))
                  /\ Sent!Number(s) = f[Len(s)] % UintMod
<1> DEFINE L == Len(s)
           g == CHOOSE f : f = [n \in 0 .. L |->
                    IF n = 0 THEN 0 ELSE f[n - 1] * 10 + DigitOf[s[n]]]
           From(f) == [n \in 0 .. L |-> IF n = 0 THEN 0 ELSE f[n - 1] * 10 + DigitOf[s[n]]]
<1>1. L \in Nat
  OBVIOUS
<1>2. Sent!Number(s) = g[L] % UintMod
  BY DEF Sent!Number
<1>3. Spelling(s, L) \in [1 .. L -> [Nat -> Nat]]
  BY Shifted DEF Spelling
<1>4. PICK f : Spells(f, s, L)
  <2> HIDE DEF L
  <2> QED BY <1>1, <1>3, Iterates DEF Spells
<1>5. f = From(f)
  <2>1. f \in [0 .. L -> Nat] /\ f[0] = 0
    BY <1>4 DEF Spells, Follows
  <2>2. \A n \in 1 .. L : f[n - 1] \in Nat
    BY <1>1, <2>1
  <2>3. \A n \in 1 .. L : f[n] = f[n - 1] * 10 + DigitOf[s[n]]
    BY <1>4, <2>2 DEF Spells, Follows, Spelling, Shift
  <2> QED BY <1>1, <2>1, <2>3
<1> HIDE DEF L
<1>6. g = From(g)
  <2>1. g = CHOOSE h : h = From(h)
    OBVIOUS
  <2> HIDE DEF g, From
  <2> QED BY <1>5, <2>1
<1>7. \A h : h = From(h) => Spells(h, s, L)
  <2> SUFFICES ASSUME NEW h, h = From(h) PROVE Spells(h, s, L)
    OBVIOUS
  <2>1. h = [n \in 0 .. L |-> h[n]] /\ h[0] = 0
    BY <1>1
  <2>2. \A n \in 1 .. L : h[n] = h[n - 1] * 10 + DigitOf[s[n]]
    BY <1>1
  <2> DEFINE T == {n \in 0 .. L : h[n] \in Nat}
  <2>3. \A n \in 1 .. L : DigitOf[s[n]] \in 0 .. 9
    BY UnsignedAssumption DEF L
  <2>4. 0 \in T
    BY <1>1, <2>1
  <2>5. \A n \in 1 .. L : n - 1 \in T => n \in T
    <3> SUFFICES ASSUME NEW n \in 1 .. L, n - 1 \in T PROVE n \in T
      OBVIOUS
    <3>1. h[n - 1] \in Nat
      OBVIOUS
    <3>2. DigitOf[s[n]] \in Nat /\ n \in 0 .. L
      <4>1. DigitOf[s[n]] \in 0 .. 9
        BY <2>3
      <4>2. n \in 0 .. L
        BY <1>1
      <4> HIDE DEF T
      <4> QED BY <4>1, <4>2
    <3>3. \A v, d \in Nat : v * 10 + d \in Nat
      OBVIOUS
    <3>4. h[n - 1] * 10 + DigitOf[s[n]] \in Nat
      BY <3>1, <3>2, <3>3
    <3>5. h[n] \in Nat
      BY <2>2, <3>4
    <3> QED BY <3>2, <3>5
  <2>6. \A n \in 0 .. L : n \in T
    <3> HIDE DEF T
    <3> QED BY <1>1, <2>4, <2>5, ClimbsTo
  <2>7. h \in [0 .. L -> Nat]
    BY <2>1, <2>6
  <2>8. \A n \in 1 .. L : h[n - 1] \in Nat
    BY <1>1, <2>6
  <2> QED BY <2>1, <2>2, <2>7, <2>8 DEF Spells, Follows, Spelling, Shift
<1> HIDE DEF From, g
<1>8. Spells(g, s, L)
  BY <1>6, <1>7
<1> QED BY <1>2, <1>8 DEF L

\* How many digits s begins with.
DigitsEnd(s, k) ==
    /\ \A i \in 1 .. k : s[i] \in Digits
    /\ k < Len(s) => s[k + 1] \notin Digits

LEMMA LeadingType ==
    ASSUME NEW S, NEW s \in Seq(S)
    PROVE  Leading(s) \in 0 .. Len(s) /\ DigitsEnd(s, Leading(s))
<1> DEFINE T == {k \in 0 .. Len(s) : k < Len(s) => s[k + 1] \notin Digits}
<1>1. Len(s) \in Nat
  OBVIOUS
<1>2. T \in SUBSET Nat /\ T # {}
  <2>1. Len(s) \in T
    BY <1>1
  <2> QED BY <1>1, <2>1
<1>3. PICK m \in T : \A k \in T : ~(k < m)
  <2> HIDE DEF T
  <2> QED BY <1>2, LeastNumber
<1>4. m \in 0 .. Len(s) /\ DigitsEnd(s, m)
  <2>1. ASSUME NEW i \in 1 .. m PROVE s[i] \in Digits
    <3>1. i - 1 \in 0 .. Len(s) /\ i - 1 < m /\ i - 1 < Len(s) /\ (i - 1) + 1 = i
      BY <1>1, <1>3
    <3>2. i - 1 \notin T
      BY <1>3, <3>1
    <3> QED BY <3>1, <3>2
  <2> QED BY <1>3, <2>1 DEF DigitsEnd
<1>5. Leading(s) = CHOOSE k \in 0 .. Len(s) : DigitsEnd(s, k)
  BY DEF Leading, DigitsEnd
<1> QED BY <1>4, <1>5

LEMMA LeadingIs ==
    ASSUME NEW S, NEW s \in Seq(S), NEW n \in 0 .. Len(s), DigitsEnd(s, n)
    PROVE  Leading(s) = n
<1>1. Len(s) \in Nat /\ Leading(s) \in 0 .. Len(s) /\ DigitsEnd(s, Leading(s))
  BY LeadingType
<1> DEFINE k == Leading(s)
<1> HIDE DEF k
<1>2. ASSUME k < n PROVE FALSE
  <2>1. k < Len(s) /\ k + 1 \in 1 .. n
    BY <1>1, <1>2 DEF k
  <2> QED BY <1>1, <2>1 DEF DigitsEnd, k
<1>3. ASSUME n < k PROVE FALSE
  <2>1. n < Len(s) /\ n + 1 \in 1 .. k
    BY <1>1, <1>3 DEF k
  <2> QED BY <1>1, <2>1 DEF DigitsEnd, k
<1> QED BY <1>1, <1>2, <1>3 DEF k

LEMMA ValueRead ==
    ASSUME NEW S, NEW s \in Seq(S)
    PROVE  \E f : /\ Reads(f, s, Leading(s))
                  /\ Value(s) = f[Leading(s)]
<1> DEFINE L == Leading(s)
           g == CHOOSE f : f = [n \in 0 .. L |->
                    IF n = 0 THEN 0 ELSE (f[n - 1] * 10 + DigitOf[s[n]]) % UintMod]
           From(f) == [n \in 0 .. L |-> IF n = 0 THEN 0 ELSE (f[n - 1] * 10 + DigitOf[s[n]]) % UintMod]
<1>1. L \in Nat /\ \A i \in 1 .. L : s[i] \in Digits
  BY LeadingType DEF DigitsEnd
<1>2. Value(s) = g[L]
  BY DEF Value
<1>3. Reading(s, L) \in [1 .. L -> [Nat -> Nat]]
  BY <1>1, Shifted DEF Reading
<1>4. PICK f : Reads(f, s, L)
  <2> HIDE DEF L
  <2> QED BY <1>1, <1>3, Iterates DEF Reads
<1>5. f = From(f)
  <2>1. f \in [0 .. L -> Nat] /\ f[0] = 0
    BY <1>4 DEF Reads, Follows
  <2>2. \A n \in 1 .. L : f[n - 1] \in Nat
    BY <1>1, <2>1
  <2>3. \A n \in 1 .. L : f[n] = (f[n - 1] * 10 + DigitOf[s[n]]) % UintMod
    BY <1>4, <2>2 DEF Reads, Follows, Reading, Shift
  <2> QED BY <1>1, <2>1, <2>3
<1> HIDE DEF L
<1>6. g = From(g)
  <2>1. g = CHOOSE h : h = From(h)
    OBVIOUS
  <2> HIDE DEF g, From
  <2> QED BY <1>5, <2>1
<1>7. \A h : h = From(h) => Reads(h, s, L)
  <2> SUFFICES ASSUME NEW h, h = From(h) PROVE Reads(h, s, L)
    OBVIOUS
  <2>1. h = [n \in 0 .. L |-> h[n]] /\ h[0] = 0
    BY <1>1
  <2>2. \A n \in 1 .. L : h[n] = (h[n - 1] * 10 + DigitOf[s[n]]) % UintMod
    BY <1>1
  <2> DEFINE T == {n \in 0 .. L : h[n] \in Nat}
  <2>3. \A n \in 1 .. L : DigitOf[s[n]] \in 0 .. 9
    BY <1>1, UnsignedAssumption
  <2>4. 0 \in T
    BY <1>1, <2>1
  <2>5. \A n \in 1 .. L : n - 1 \in T => n \in T
    <3> SUFFICES ASSUME NEW n \in 1 .. L, n - 1 \in T PROVE n \in T
      OBVIOUS
    <3>1. h[n - 1] \in Nat
      OBVIOUS
    <3>2. DigitOf[s[n]] \in Nat /\ n \in 0 .. L
      <4>1. DigitOf[s[n]] \in 0 .. 9
        BY <2>3
      <4>2. n \in 0 .. L
        BY <1>1
      <4> HIDE DEF T
      <4> QED BY <4>1, <4>2
    <3>3. \A v, d \in Nat : v * 10 + d \in Nat
      OBVIOUS
    <3>4. (h[n - 1] * 10 + DigitOf[s[n]]) % UintMod \in Nat
      <4>1. h[n - 1] * 10 + DigitOf[s[n]] \in Nat
        BY <3>1, <3>2, <3>3
      <4>2. \A x \in Nat : x % UintMod \in Nat
        BY UnsignedAssumption
      <4> QED BY <4>1, <4>2
    <3>5. h[n] \in Nat
      BY <2>2, <3>4
    <3> QED BY <3>2, <3>5
  <2>6. \A n \in 0 .. L : n \in T
    <3> HIDE DEF T
    <3> QED BY <1>1, <2>4, <2>5, ClimbsTo
  <2>7. h \in [0 .. L -> Nat]
    BY <2>1, <2>6
  <2>8. \A n \in 1 .. L : h[n - 1] \in Nat
    BY <1>1, <2>6
  <2> QED BY <2>1, <2>2, <2>7, <2>8 DEF Reads, Follows, Reading, Shift
<1> HIDE DEF From, g
<1>8. Reads(g, s, L)
  BY <1>6, <1>7
<1> QED BY <1>2, <1>8 DEF L

\* A multiple of m nearer to zero than m is zero.
LEMMA SmallMultiple ==
    ASSUME NEW m \in Nat \ {0}, NEW p \in Int, -m < m * p, m * p < m
    PROVE  p = 0
<1>1. CASE p >= 1
  <2>1. m * p = m * (p - 1) + m /\ m * (p - 1) >= 0
    BY <1>1
  <2> QED BY <2>1
<1>2. CASE p <= -1
  <2>1. m * p = m * (p + 1) - m /\ m * (p + 1) <= 0
    BY <1>2
  <2> QED BY <2>1
<1> QED BY <1>1, <1>2

LEMMA Quotient ==
    ASSUME NEW x \in Nat, NEW m \in Nat \ {0}
    PROVE  /\ x \div m \in Nat /\ x % m \in 0 .. m - 1
           /\ x = m * (x \div m) + (x % m)
OBVIOUS

LEMMA Remainder ==
    ASSUME NEW m \in Nat \ {0}, NEW x \in Nat, NEW q \in Int, NEW r \in 0 .. m - 1,
           x = m * q + r
    PROVE  x % m = r
<1> DEFINE k == x \div m
           t == x % m
<1>1. k \in Nat /\ t \in 0 .. m - 1 /\ x = m * k + t
  BY Quotient
<1> HIDE DEF k, t
<1>2. q - k \in Int /\ m * (q - k) = m * q - m * k
  BY <1>1
<1>3. m * q \in Int /\ m * k \in Int
  BY <1>1
<1>4. m * (q - k) = t - r
  BY <1>1, <1>2, <1>3
<1>5. -m < t - r /\ t - r < m
  BY <1>1
<1>6. q - k = 0
  BY <1>2, <1>4, <1>5, SmallMultiple
<1>7. t = r
  BY <1>1, <1>4, <1>6
<1> QED BY <1>7 DEF t

LEMMA ModuloShift ==
    ASSUME NEW m \in Nat \ {0}, NEW a \in Nat, NEW d \in Nat
    PROVE  (a * 10 + d) % m = ((a % m) * 10 + d) % m
<1> DEFINE q == a \div m
           r == a % m
           x == r * 10 + d
           k == x \div m
           t == x % m
<1>1. q \in Nat /\ r \in Nat /\ a = m * q + r
  BY Quotient
<1>2. x \in Nat
  BY <1>1
<1>3. k \in Nat /\ t \in 0 .. m - 1 /\ x = m * k + t
  <2> HIDE DEF x
  <2> QED BY <1>2, Quotient
<1> HIDE DEF q, r, k, t
<1>4. a * 10 + d = m * (q * 10) + x
  BY <1>1
<1> HIDE DEF x
<1>5. m * (q * 10) + x = m * (q * 10 + k) + t
  BY <1>1, <1>3
<1>6. a * 10 + d \in Nat /\ q * 10 + k \in Int
  BY <1>1, <1>3
<1>7. (a * 10 + d) % m = t
  BY <1>3, <1>4, <1>5, <1>6, Remainder
<1> QED BY <1>7 DEF t, x, r

\* What get_uint computes is the number that the digits before the first other
\* byte spell, modulo 2^w.
LEMMA ValueIsNumber ==
    ASSUME NEW S, NEW s \in Seq(S)
    PROVE  Value(s) = Sent!Number(SubSeq(s, 1, Leading(s)))
<1> DEFINE k == Leading(s)
           d == SubSeq(s, 1, k)
<1>1. Len(s) \in Nat /\ k \in 0 .. Len(s) /\ \A i \in 1 .. k : s[i] \in Digits
  BY LeadingType DEF DigitsEnd
<1>2. d \in Seq(S) /\ Len(d) = k /\ \A i \in 1 .. k : d[i] = s[i]
  <2> HIDE DEF k
  <2> QED BY <1>1
<1> HIDE DEF d
<1>3. \A i \in 1 .. Len(d) : d[i] \in Digits
  BY <1>1, <1>2
<1>4. PICK f : Spells(f, d, k) /\ Sent!Number(d) = f[k] % UintMod
  BY <1>2, <1>3, NumberSpelt
<1>5. PICK g : Reads(g, s, k) /\ Value(s) = g[k]
  BY ValueRead
<1> HIDE DEF k
<1>6. /\ f \in [0 .. k -> Nat] /\ f[0] = 0
      /\ \A i \in 1 .. k : f[i] = f[i - 1] * 10 + DigitOf[s[i]]
  <2>1. f \in [0 .. k -> Nat] /\ f[0] = 0
    BY <1>4 DEF Spells, Follows
  <2>2. \A i \in 1 .. k : f[i - 1] \in Nat
    BY <1>1, <2>1
  <2> QED BY <1>2, <1>4, <2>1, <2>2 DEF Spells, Follows, Spelling, Shift
<1>7. /\ g \in [0 .. k -> Nat] /\ g[0] = 0
      /\ \A i \in 1 .. k : g[i] = (g[i - 1] * 10 + DigitOf[s[i]]) % UintMod
  <2>1. g \in [0 .. k -> Nat] /\ g[0] = 0
    BY <1>5 DEF Reads, Follows
  <2>2. \A i \in 1 .. k : g[i - 1] \in Nat
    BY <1>1, <2>1
  <2> QED BY <1>5, <2>1, <2>2 DEF Reads, Follows, Reading, Shift
<1>8. UintMod \in Nat \ {0} /\ \A i \in 1 .. k : DigitOf[s[i]] \in Nat
  BY <1>1, UnsignedAssumption
<1> DEFINE T == {i \in 0 .. k : g[i] = f[i] % UintMod}
<1>9. 0 \in T
  BY <1>1, <1>6, <1>7, <1>8
<1>10. ASSUME NEW i \in 1 .. k, i - 1 \in T PROVE i \in T
  <2>1. g[i - 1] = f[i - 1] % UintMod /\ f[i - 1] \in Nat /\ i \in 0 .. k
    BY <1>1, <1>6, <1>10
  <2>2. (f[i - 1] * 10 + DigitOf[s[i]]) % UintMod
        = ((f[i - 1] % UintMod) * 10 + DigitOf[s[i]]) % UintMod
    BY <1>8, <2>1, ModuloShift
  <2>3. g[i] = f[i] % UintMod
    BY <1>6, <1>7, <2>1, <2>2
  <2> QED BY <2>1, <2>3
<1>11. k \in T
  <2>1. \A i \in 0 .. k : i \in T
    <3> HIDE DEF T
    <3>1. k \in Nat
      BY <1>1
    <3> QED BY <1>9, <1>10, <3>1, ClimbsTo
  <2> HIDE DEF T
  <2> QED BY <1>1, <2>1
<1> QED BY <1>4, <1>5, <1>11 DEF d, k

-----------------------------------------------------------------------------
(* What is read out of the parameters is what they report.                 *)

LEMMA Piece ==
    ASSUME NEW S, NEW s \in Seq(S), NEW m \in Nat \ {0}, NEW n \in 0 .. Len(s)
    PROVE  /\ SubSeq(s, m, n) \in Seq(S)
           /\ Len(SubSeq(s, m, n)) = IF m <= n THEN n - m + 1 ELSE 0
           /\ \A i \in 1 .. n - m + 1 : SubSeq(s, m, n)[i] = s[m + i - 1]
<1>1. Len(s) \in Nat /\ m \in Int /\ n \in Int /\ \A i \in m .. n : s[i] \in S
  BY LenProperties
<1> QED BY <1>1, SubSeqProperties

\* A piece of a piece.
LEMMA PieceOfPiece ==
    ASSUME NEW S, NEW s \in Seq(S), NEW m \in 1 .. Len(s) + 1, NEW n \in 0 .. Len(s) - m + 1
    PROVE  SubSeq(SubSeq(s, m, Len(s)), 1, n) = SubSeq(s, m, m + n - 1)
<1> DEFINE t == SubSeq(s, m, Len(s))
           u == SubSeq(t, 1, n)
           v == SubSeq(s, m, m + n - 1)
<1>1. Len(s) \in Nat /\ m \in Nat \ {0} /\ Len(s) \in 0 .. Len(s) /\ m + n - 1 \in 0 .. Len(s)
  OBVIOUS
<1>2. /\ t \in Seq(S) /\ Len(t) = Len(s) - m + 1
      /\ \A i \in 1 .. Len(s) - m + 1 : t[i] = s[m + i - 1]
  BY <1>1, Piece
<1>3. /\ v \in Seq(S) /\ Len(v) = n
      /\ \A i \in 1 .. n : v[i] = s[m + i - 1]
  <2>1. /\ v \in Seq(S) /\ Len(v) = IF m <= m + n - 1 THEN (m + n - 1) - m + 1 ELSE 0
        /\ \A i \in 1 .. (m + n - 1) - m + 1 : v[i] = s[m + i - 1]
    BY <1>1, Piece
  <2>2. (m + n - 1) - m + 1 = n /\ n \in Nat /\ (m <= m + n - 1 <=> n >= 1)
    BY <1>1
  <2> QED BY <2>1, <2>2
<1> HIDE DEF t, v
<1>4. /\ u \in Seq(S) /\ Len(u) = n
      /\ \A i \in 1 .. n : u[i] = t[i]
  BY <1>1, <1>2
<1>5. ASSUME NEW i \in 1 .. n PROVE u[i] = v[i]
  <2>1. i \in 1 .. Len(s) - m + 1
    BY <1>1
  <2> QED BY <1>2, <1>3, <1>4, <2>1
<1> HIDE DEF u
<1> QED BY <1>3, <1>4, <1>5, SeqEqual DEF t, u, v

\* The parameters read as rows and columns do in the decoder.
HasPosition(p) ==
    /\ Leading(p) > 0 /\ Len(p) > Leading(p)
    /\ p[Leading(p) + 1] = Semicolon
    /\ Leading(Rest(p, Leading(p))) > 0

\* A report's numbers as ControlSequences finds them.
Behind(r) == Len(r[1]) + 1 + Len(r[2]) + 1

Apart(r, p) ==
    /\ r[1] # << >> /\ Sent!AreAll(r[1], Digits)
    /\ r[2] # << >> /\ Sent!AreAll(r[2], Digits)
    /\ Behind(r) <= Len(p) => p[Behind(r)] \notin Digits

Rows(p) == SubSeq(p, 1, Leading(p))
Cols(p) == SubSeq(Rest(p, Leading(p)), 1, Leading(Rest(p, Leading(p))))

LEMMA RestIs ==
    ASSUME NEW p \in Seq(Params), NEW n \in 0 .. Len(p)
    PROVE  /\ Rest(p, n) \in Seq(Params)
           /\ Len(Rest(p, n)) = IF n < Len(p) THEN Len(p) - n - 1 ELSE 0
           /\ \A i \in 1 .. Len(p) - n - 1 : Rest(p, n)[i] = p[n + 1 + i]
<1>1. Len(p) \in Nat /\ Len(p) \in 0 .. Len(p) /\ n + 2 \in Nat \ {0}
  OBVIOUS
<1>2. /\ Rest(p, n) \in Seq(Params)
      /\ Len(Rest(p, n)) = IF n + 2 <= Len(p) THEN Len(p) - (n + 2) + 1 ELSE 0
      /\ \A i \in 1 .. Len(p) - (n + 2) + 1 : Rest(p, n)[i] = p[(n + 2) + i - 1]
  BY <1>1, Piece DEF Rest
<1>3. \A i \in 1 .. Len(p) - n - 1 : i \in 1 .. Len(p) - (n + 2) + 1 /\ (n + 2) + i - 1 = n + 1 + i
  BY <1>1
<1>4. Len(Rest(p, n)) = IF n < Len(p) THEN Len(p) - n - 1 ELSE 0
  BY <1>1, <1>2
<1> QED BY <1>2, <1>3, <1>4

LEMMA SemicolonBetween ==
    ASSUME NEW p, NEW r \in Sent!Positions(p)
    PROVE  \E k \in 1 .. Len(p), m \in 0 .. Len(p) :
               p[k] = Semicolon /\ r = <<SubSeq(p, 1, k - 1), SubSeq(p, k + 1, m)>>
BY DEF Sent!Positions

LEMMA BetweenSemicolons ==
    ASSUME NEW p, NEW k \in 1 .. Len(p), NEW m \in 0 .. Len(p), p[k] = Semicolon
    PROVE  <<SubSeq(p, 1, k - 1), SubSeq(p, k + 1, m)>> \in Sent!Positions(p)
BY DEF Sent!Positions

LEMMA FoundIsRead ==
    ASSUME NEW p \in Seq(Params), NEW r \in Sent!Positions(p), Apart(r, p)
    PROVE  HasPosition(p) /\ r[1] = Rows(p) /\ r[2] = Cols(p)
<1>1. PICK k \in 1 .. Len(p), m \in 0 .. Len(p) :
          p[k] = Semicolon /\ r = <<SubSeq(p, 1, k - 1), SubSeq(p, k + 1, m)>>
  BY SemicolonBetween
<1> DEFINE a == SubSeq(p, 1, k - 1)
           b == SubSeq(p, k + 1, m)
           q == Rest(p, k - 1)
<1>2. Len(p) \in Nat /\ k \in 1 .. Len(p) /\ p[k] = Semicolon /\ r[1] = a /\ r[2] = b
  BY <1>1
<1>3. /\ a \in Seq(Params) /\ Len(a) = k - 1
      /\ \A i \in 1 .. k - 1 : a[i] = p[i]
  BY <1>2
<1>4. /\ b \in Seq(Params) /\ Len(b) = IF k + 1 <= m THEN m - (k + 1) + 1 ELSE 0
      /\ \A i \in 1 .. m - (k + 1) + 1 : b[i] = p[(k + 1) + i - 1]
  <2>1. k + 1 \in Nat \ {0}
    BY <1>2
  <2> QED BY <1>2, <2>1, Piece
<1> HIDE DEF a, b
<1>5. a # << >> /\ b # << >>
  BY <1>2 DEF Apart
<1>6. k - 1 > 0 /\ k + 1 <= m /\ Len(b) = m - k
  <2>1. Len(a) # 0 /\ Len(b) # 0
    BY <1>3, <1>4, <1>5, EmptySeq
  <2> QED BY <1>2, <1>3, <1>4, <2>1
<1>7. /\ \A i \in 1 .. k - 1 : p[i] \in Digits
      /\ \A i \in 1 .. m - k : b[i] \in Digits /\ b[i] = p[k + i]
  <2>1. /\ \A i \in 1 .. k - 1 : a[i] \in Digits
        /\ \A i \in 1 .. m - k : b[i] \in Digits
    BY <1>2, <1>3, <1>6 DEF Apart, Sent!AreAll
  <2>2. ASSUME NEW i \in 1 .. m - k PROVE b[i] = p[k + i]
    <3>1. i \in 1 .. m - (k + 1) + 1 /\ (k + 1) + i - 1 = k + i
      BY <1>2
    <3> QED BY <1>4, <3>1
  <2> QED BY <1>3, <2>1, <2>2
<1>8. Leading(p) = k - 1
  <2>1. k - 1 \in 0 .. Len(p) /\ (k - 1) + 1 = k
    BY <1>2
  <2>2. DigitsEnd(p, k - 1)
    BY <1>2, <1>7, <2>1, DecoderAssumption DEF DigitsEnd
  <2> QED BY <2>1, <2>2, LeadingIs
<1>9. /\ q \in Seq(Params) /\ Len(q) = Len(p) - k
      /\ \A i \in 1 .. Len(p) - k : q[i] = p[k + i]
  <2>1. /\ q \in Seq(Params) /\ Len(q) = IF k - 1 < Len(p) THEN Len(p) - (k - 1) - 1 ELSE 0
        /\ \A i \in 1 .. Len(p) - (k - 1) - 1 : q[i] = p[(k - 1) + 1 + i]
    <3>1. k - 1 \in 0 .. Len(p)
      BY <1>2
    <3> QED BY <3>1, RestIs
  <2>2. Len(p) - (k - 1) - 1 = Len(p) - k /\ k - 1 < Len(p)
        /\ \A i \in 1 .. Len(p) - k : (k - 1) + 1 + i = k + i
    BY <1>2
  <2> QED BY <2>1, <2>2
<1>10. Leading(q) = m - k
  <2>1. m - k \in 0 .. Len(q)
    BY <1>2, <1>6, <1>9
  <2>2. \A i \in 1 .. m - k : q[i] \in Digits
    BY <1>2, <1>7, <1>9, <2>1
  <2>3. m - k < Len(q) => q[m - k + 1] \notin Digits
    <3> SUFFICES ASSUME m - k < Len(q) PROVE q[m - k + 1] \notin Digits
      OBVIOUS
    <3>0. Len(q) = Len(p) - k
      BY <1>9
    <3>1. m - k + 1 \in 1 .. Len(p) - k /\ k + (m - k + 1) = m + 1
      <4> HIDE DEF q
      <4> QED BY <1>2, <1>6, <3>0
    <3>2. q[m - k + 1] = p[m + 1]
      <4>1. \A i \in 1 .. Len(p) - k : k + i = m + 1 => q[i] = p[m + 1]
        BY <1>9
      <4> HIDE DEF q
      <4> QED BY <3>1, <4>1
    <3>3. Len(a) + 1 + Len(b) + 1 = m + 1 /\ m + 1 <= Len(p)
      BY <1>2, <1>3, <1>6, <1>9
    <3>4. Behind(r) = m + 1
      BY <1>2, <3>3 DEF Behind
    <3>5. p[m + 1] \notin Digits
      BY <3>3, <3>4 DEF Apart
    <3> QED BY <3>2, <3>5
  <2> HIDE DEF q
  <2> QED BY <1>9, <2>1, <2>2, <2>3, LeadingIs DEF DigitsEnd
<1>11. HasPosition(p)
  <2>1. Len(p) > k - 1 /\ (k - 1) + 1 = k /\ m - k > 0
    BY <1>2, <1>6
  <2> QED BY <1>2, <1>6, <1>8, <1>10, <2>1 DEF HasPosition
<1>12. Cols(p) = b
  <2>1. q = SubSeq(p, k + 1, Len(p))
    <3>1. (k - 1) + 2 = k + 1
      BY <1>2
    <3> QED BY <3>1 DEF Rest
  <2>2. k + 1 \in 1 .. Len(p) + 1 /\ m - k \in 0 .. Len(p) - (k + 1) + 1 /\ (k + 1) + (m - k) - 1 = m
    BY <1>2, <1>6
  <2>3. SubSeq(SubSeq(p, k + 1, Len(p)), 1, m - k) = SubSeq(p, k + 1, (k + 1) + (m - k) - 1)
    BY <2>2, PieceOfPiece
  <2> QED BY <1>8, <1>10, <2>1, <2>2, <2>3 DEF Cols, b
<1> QED BY <1>2, <1>8, <1>11, <1>12 DEF Rows, a

LEMMA ReadIsFound ==
    ASSUME NEW p \in Seq(Params), HasPosition(p)
    PROVE  <<Rows(p), Cols(p)>> \in Sent!Positions(p) /\ Apart(<<Rows(p), Cols(p)>>, p)
<1> DEFINE n == Leading(p)
           q == Rest(p, n)
           j == Leading(q)
           k == n + 1
           m == k + j
<1>1. /\ Len(p) \in Nat /\ n \in 1 .. Len(p) - 1 /\ p[n + 1] = Semicolon /\ j > 0
      /\ \A i \in 1 .. n : p[i] \in Digits
  BY LeadingType DEF HasPosition, DigitsEnd
<1>2. /\ q \in Seq(Params) /\ Len(q) = Len(p) - n - 1
      /\ \A i \in 1 .. Len(p) - n - 1 : q[i] = p[n + 1 + i]
  <2>1. n \in 0 .. Len(p) /\ n < Len(p)
    BY <1>1
  <2> HIDE DEF n
  <2> QED BY <2>1, RestIs
<1>3. j \in 1 .. Len(q) /\ DigitsEnd(q, j)
  <2> HIDE DEF q
  <2> QED BY <1>1, <1>2, LeadingType
<1> HIDE DEF n, q, j
<1>4. k \in 1 .. Len(p) /\ m \in 0 .. Len(p) /\ j \in Nat /\ n \in Nat
  BY <1>1, <1>2, <1>3
<1>5. Rows(p) = SubSeq(p, 1, k - 1)
  <2>1. k - 1 = n
    BY <1>4
  <2> QED BY <2>1 DEF Rows, n
<1>6. Cols(p) = SubSeq(p, k + 1, m)
  <2>1. n + 2 = k + 1 /\ k + 1 \in 1 .. Len(p) + 1 /\ j \in 0 .. Len(p) - (k + 1) + 1 /\ (k + 1) + j - 1 = m
    BY <1>1, <1>2, <1>3, <1>4
  <2>2. q = SubSeq(p, k + 1, Len(p))
    BY <2>1 DEF q, Rest
  <2>3. SubSeq(SubSeq(p, k + 1, Len(p)), 1, j) = SubSeq(p, k + 1, (k + 1) + j - 1)
    <3> HIDE DEF k, m
    <3> QED BY <2>1, PieceOfPiece
  <2>4. Cols(p) = SubSeq(q, 1, j)
    BY DEF Cols, q, j, n
  <2> HIDE DEF k, m
  <2> QED BY <2>1, <2>2, <2>3, <2>4
<1>7. <<Rows(p), Cols(p)>> \in Sent!Positions(p)
  <2>1. p[k] = Semicolon
    BY <1>1
  <2> HIDE DEF k, m
  <2> QED BY <1>4, <1>5, <1>6, <2>1, BetweenSemicolons
<1>8. /\ Rows(p) \in Seq(Params) /\ Len(Rows(p)) = n
      /\ \A i \in 1 .. n : Rows(p)[i] = p[i]
  BY <1>1 DEF Rows, n
<1>9. /\ Cols(p) \in Seq(Params) /\ Len(Cols(p)) = j
      /\ \A i \in 1 .. j : Cols(p)[i] = q[i]
  BY <1>2, <1>3 DEF Cols, q, j, n
<1>10. Rows(p) # << >> /\ Cols(p) # << >>
  <2>1. Len(Rows(p)) # 0 /\ Len(Cols(p)) # 0
    BY <1>1, <1>3, <1>8, <1>9
  <2> QED BY <2>1, <1>8, <1>9, EmptySeq
<1>11. Sent!AreAll(Rows(p), Digits) /\ Sent!AreAll(Cols(p), Digits)
  BY <1>1, <1>3, <1>8, <1>9 DEF Sent!AreAll, DigitsEnd
<1>12. ASSUME n + 1 + j + 1 <= Len(p) PROVE p[n + 1 + j + 1] \notin Digits
  <2>1. j < Len(q) /\ j + 1 \in 1 .. Len(p) - n - 1 /\ n + 1 + (j + 1) = n + 1 + j + 1
    BY <1>1, <1>2, <1>4, <1>12
  <2> QED BY <1>2, <1>3, <2>1 DEF DigitsEnd
<1>13. Behind(<<Rows(p), Cols(p)>>) = n + 1 + j + 1
  BY <1>8, <1>9 DEF Behind
<1> QED BY <1>7, <1>10, <1>11, <1>12, <1>13 DEF Apart

\* The one report that the parameters mean, if they mean one.
LEMMA ReportedIs ==
    ASSUME NEW p \in Seq(Params)
    PROVE  Sent!Reported(p) = IF HasPosition(p)
                              THEN {Position(Value(p), Value(Rest(p, Leading(p))))}
                              ELSE {}
<1> DEFINE Found == {r \in Sent!Positions(p) : Apart(r, p)}
           At(r) == Position(Sent!Number(r[1]), Sent!Number(r[2]))
<1>1. Sent!Reported(p) = {At(r) : r \in Found}
  BY DEF Sent!Reported, Apart, Behind, Sent!Position, Position, Sent!Digits, Digits
<1>2. Found = IF HasPosition(p) THEN {<<Rows(p), Cols(p)>>} ELSE {}
  <2>1. ASSUME NEW r \in Found PROVE HasPosition(p) /\ r = <<Rows(p), Cols(p)>>
    <3>1. \E a, b : r = <<a, b>>
      BY DEF Sent!Positions
    <3> QED BY <3>1, FoundIsRead
  <2> QED BY <2>1, ReadIsFound
<1>3. Value(p) = Sent!Number(Rows(p))
  BY ValueIsNumber DEF Rows
<1>4. Value(Rest(p, Leading(p))) = Sent!Number(Cols(p))
  <2>1. Rest(p, Leading(p)) \in Seq(Params)
    BY LeadingType, RestIs
  <2> QED BY <2>1, ValueIsNumber DEF Cols
<1> HIDE DEF Found
<1> QED BY <1>1, <1>2, <1>3, <1>4

-----------------------------------------------------------------------------
(* What is handed over is what was meant. *)

\* The last byte of a control sequence is looked at as ControlSequences does.
LEMMA FinalMeans ==
    ASSUME DecoderInv, NEW c \in Bytes, ReadFinal(c)
    PROVE  heard' = Sent!Meaning(Append(run, c))
<1> DEFINE s == Append(run, c)
           p == Sent!Parameters(SubSeq(s, 3, Len(s)))
<1>1. InSequence /\ Final(c) /\ parameter \in Seq(Params)
  BY Lengths DEF ReadFinal, InSequence
<1>2. /\ s \in Seq(Bytes) /\ Len(s) # 1 /\ s[Len(s)] = c /\ s[2] = Bracket
  <2>1. /\ run \in Seq(Bytes) /\ Len(run) \in Nat /\ Len(run) >= 2 /\ run[2] = Bracket
    BY <1>1, Lengths DEF DecoderInv
  <2>2. /\ s \in Seq(Bytes) /\ Len(s) = Len(run) + 1 /\ s[Len(run) + 1] = c
        /\ \A i \in 1 .. Len(run) : s[i] = run[i]
    BY <2>1, Appended
  <2> HIDE DEF s
  <2> QED BY <2>1, <2>2
<1>3. c \notin Params => p = parameter
  BY <1>1, <1>2, ParametersRemembered
<1> HIDE DEF s, p
<1>4. Sent!Meaning(s) =
          IF c \in DOMAIN ArrowOf THEN ArrowOf[c]
          ELSE IF c = Tilde /\ Len(p) = 1 /\ p[1] \in DOMAIN TildeOf THEN Key(TildeOf[p[1]])
          ELSE IF c = Report /\ Sent!Reported(p) # {} THEN CHOOSE r \in Sent!Reported(p) : TRUE
          ELSE Nothing
  BY <1>2 DEF Sent!Meaning, Sent!Key, Key, Sent!Nothing, Nothing, p
<1>5. CASE c \in DOMAIN ArrowOf
  <2>1. heard' = ArrowOf[c]
    BY <1>5, DecoderAssumption DEF ReadFinal, Hands
  <2> QED BY <1>4, <1>5, <2>1 DEF s
<1>6. CASE c = Tilde
  <2>1. c \notin DOMAIN ArrowOf /\ c # Report /\ c \notin Params
    BY <1>6, DecoderAssumption
  <2>2. heard' = IF Len(parameter) = 1 /\ parameter[1] \in DOMAIN TildeOf
                 THEN Key(TildeOf[parameter[1]]) ELSE Nothing
    BY <1>6, <2>1 DEF ReadFinal, Hands
  <2> QED BY <1>3, <1>4, <1>6, <2>1, <2>2 DEF s
<1>7. CASE c = Report
  <2>1. c \notin DOMAIN ArrowOf /\ c # Tilde /\ c \notin Params
    BY <1>7, DecoderAssumption
  <2>2. heard' = IF HasPosition(parameter)
                 THEN Position(Value(parameter), Value(Rest(parameter, Leading(parameter))))
                 ELSE Nothing
    BY <1>7, <2>1 DEF ReadFinal, ReadReport, Hands, HasPosition
  <2>3. Sent!Reported(p) = IF HasPosition(parameter)
                 THEN {Position(Value(parameter), Value(Rest(parameter, Leading(parameter))))}
                 ELSE {}
    BY <1>1, <1>3, <2>1, ReportedIs
  <2>4. \A x : (CHOOSE r \in {x} : TRUE) = x /\ {x} # {}
    OBVIOUS
  <2> QED BY <1>4, <1>7, <2>1, <2>2, <2>3, <2>4 DEF s
<1>8. CASE c \notin DOMAIN ArrowOf \cup {Report, Tilde}
  <2>1. heard' = Nothing
    BY <1>8 DEF ReadFinal, Hands
  <2> QED BY <1>4, <1>8, <2>1 DEF s
<1> QED BY <1>5, <1>6, <1>7, <1>8

\* A byte that waits for more hands nothing over and finishes nothing.
LEMMA ReadHears ==
    ASSUME DecoderInv, NEW c \in Bytes, Process(c)
    PROVE  Sent!Read(c)
<1>1. StateIsOfRun /\ StateIsOfRun'
  <2>1. DecoderInv'
    BY StepDecoder DEF Next
  <2>2. StateIsOfRun'
    BY <2>1, StateFollows, PTL
  <2> QED BY <2>2, StateFollows
<1>3. (run = << >> \/ Sent!Finished(run)) <=> state = "IDLE"
  BY <1>1 DEF StateIsOfRun
<1>4. RunWith(c) \in Seq(Bytes) /\ RunWith(c) # << >>
  <2>1. /\ RunWith(c) \in Seq(Bytes) /\ Len(run) \in Nat
        /\ Len(RunWith(c)) = IF state = "IDLE" THEN 1 ELSE Len(run) + 1
    BY RunType, Lengths
  <2>2. Len(RunWith(c)) # 0
    BY <2>1
  <2> QED BY <2>1, <2>2, EmptySeq
<1>5. ASSUME NEW next \in {"ESCAPE", "CSI_P", "CSI_I"}, Waiting(c, next)
      PROVE  Sent!Read(c)
  <2>1. run' = RunWith(c) /\ heard' = Nothing /\ state' # "IDLE"
    BY <1>5 DEF Waiting
  <2>2. ~Sent!Finished(run')
    BY <1>1, <2>1 DEF StateIsOfRun
  <2> QED BY <1>3, <2>1, <2>2 DEF Sent!Read, RunWith, Sent!Nothing, Nothing
<1>6. ASSUME NEW symbol, Hands(c, symbol), symbol = Sent!Meaning(RunWith(c))
      PROVE  Sent!Read(c)
  <2>1. run' = RunWith(c) /\ heard' = symbol /\ state' = "IDLE"
    BY <1>6 DEF Hands
  <2>2. Sent!Finished(run')
    BY <1>1, <1>4, <2>1 DEF StateIsOfRun
  <2> QED BY <1>3, <1>6, <2>1, <2>2 DEF Sent!Read, RunWith
<1>7. Sent!Read(c)
  <2>1. CASE ReadKey(c)
    <3>1. RunWith(c) = <<c>> /\ Len(<<c>>) = 1 /\ <<c>>[1] = c
      BY <2>1 DEF ReadKey, RunWith
    <3>2. Sent!Meaning(<<c>>) = IF c \in DOMAIN ControlOf THEN Key(ControlOf[c]) ELSE Char(c)
      BY <3>1 DEF Sent!Meaning, Sent!Key, Key, Sent!Char, Char
    <3> QED BY <1>6, <2>1, <3>1, <3>2 DEF ReadKey
  <2>2. CASE ReadEscaped(c)
    <3>1. run = <<Esc>> /\ RunWith(c) = Append(run, c) /\ c # Bracket
      BY <2>2 DEF ReadEscaped, RunWith, DecoderInv
    <3>2. Len(RunWith(c)) = 2 /\ RunWith(c)[2] = c
      BY <3>1
    <3>3. Sent!Meaning(RunWith(c)) = Nothing
      BY <3>1, <3>2 DEF Sent!Meaning, Sent!Nothing, Nothing
    <3> QED BY <1>6, <2>2, <3>3 DEF ReadEscaped
  <2>3. CASE ReadFinal(c)
    <3>1. RunWith(c) = Append(run, c)
      BY <2>3 DEF ReadFinal, RunWith
    <3>2. PICK symbol : Hands(c, symbol)
      BY <2>3 DEF ReadFinal, ReadReport
    <3>3. symbol = heard'
      BY <3>2 DEF Hands
    <3> QED BY <1>6, <2>3, <3>1, <3>2, <3>3, FinalMeans
  <2> QED BY <1>5, <2>1, <2>2, <2>3
          DEF Process, ReadEscape, ReadBracket, ReadParameter, ReadIntermediate
<1> QED BY <1>7

LEMMA StepHears == DecoderInv /\ [Next]_vars => [Sent!Next]_(Sent!vars)
<1> SUFFICES ASSUME DecoderInv, Next PROVE Sent!Next
  BY DEF vars, Sent!vars
<1>1. PICK c \in Bytes : Process(c)
  BY DEF Next
<1> QED BY <1>1, ReadHears DEF Sent!Next

\* What the decoder hands over, byte by byte, is what the terminal meant by the
\* sequence as a whole: for every table of keys, every size of the parameter
\* array and every width of integers.
THEOREM HearsCorrect == Spec => HearsWhatIsMeant
<1>1. Init => Sent!Init
  BY DEF Init, Sent!Init, Nothing, Sent!Nothing
<1> QED BY <1>1, InitDecoder, StepDecoder, StepHears, PTL DEF Spec, HearsWhatIsMeant, Sent!Spec

-----------------------------------------------------------------------------
(* What stands in a sequence of bytes. *)

\* A key press or a report: over when it ends, and not before; and the
\* only escape in it is its first byte.
Whole(u) ==
    /\ u \in Seq(Bytes) \ {<< >>}
    /\ \A n \in 1 .. Len(u) : Sent!Finished(SubSeq(u, 1, n)) <=> n = Len(u)
    /\ \A n \in 2 .. Len(u) : u[n] # Esc

LEMMA Places ==
    ASSUME NEW S, NEW s \in Seq(S), NEW t \in Seq(S)
    PROVE  /\ s \o t \in Seq(S) /\ Len(s) \in Nat /\ Len(t) \in Nat
           /\ Len(s \o t) = Len(s) + Len(t)
           /\ \A i \in 1 .. Len(s) : (s \o t)[i] = s[i]
           /\ \A i \in 1 .. Len(t) : (s \o t)[Len(s) + i] = t[i]
<1>1. /\ s \o t \in Seq(S) /\ Len(s) \in Nat /\ Len(t) \in Nat
      /\ Len(s \o t) = Len(s) + Len(t)
      /\ \A i \in 1 .. Len(s) + Len(t) :
            (s \o t)[i] = IF i <= Len(s) THEN s[i] ELSE t[i - Len(s)]
  BY ConcatProperties
<1>2. ASSUME NEW i \in 1 .. Len(t) PROVE (s \o t)[Len(s) + i] = t[i]
  <2>1. Len(s) + i \in 1 .. Len(s) + Len(t) /\ ~(Len(s) + i <= Len(s)) /\ (Len(s) + i) - Len(s) = i
    BY <1>1
  <2> QED BY <1>1, <2>1
<1> QED BY <1>1, <1>2

LEMMA AtOf ==
    ASSUME NEW S, NEW s \in Seq(S), NEW t \in Seq(S), NEW u \in Seq(S), NEW j \in 1 .. Len(s)
    PROVE  IsAt(u, s, j) => IsAt(u, s \o t, j)
<1> SUFFICES ASSUME IsAt(u, s, j) PROVE IsAt(u, s \o t, j)
  OBVIOUS
<1>1. Len(u) \in Nat
  OBVIOUS
<1>2. /\ Len(s) \in Nat /\ Len(t) \in Nat /\ Len(s \o t) = Len(s) + Len(t)
      /\ \A i \in 1 .. Len(s) : (s \o t)[i] = s[i]
  BY Places
<1>3. j + Len(u) <= Len(s) + 1 /\ \A i \in 1 .. Len(u) : s[j + i - 1] = u[i]
  BY DEF IsAt
<1>4. \A i \in 1 .. Len(u) : j + i - 1 \in 1 .. Len(s)
  BY <1>1, <1>2, <1>3
<1>5. j + Len(u) <= Len(s \o t) + 1
  BY <1>1, <1>2, <1>3
<1> QED BY <1>2, <1>3, <1>4, <1>5 DEF IsAt

LEMMA AtBehind ==
    ASSUME NEW S, NEW s \in Seq(S), NEW t \in Seq(S), NEW u \in Seq(S), NEW j \in 1 .. Len(t)
    PROVE  IsAt(u, s \o t, Len(s) + j) <=> IsAt(u, t, j)
<1>1. Len(u) \in Nat
  OBVIOUS
<1>2. /\ Len(s) \in Nat /\ Len(t) \in Nat /\ Len(s \o t) = Len(s) + Len(t)
      /\ \A i \in 1 .. Len(t) : (s \o t)[Len(s) + i] = t[i]
  BY Places
<1>3. Len(s) + j + Len(u) <= Len(s \o t) + 1 <=> j + Len(u) <= Len(t) + 1
  BY <1>1, <1>2
<1>4. ASSUME j + Len(u) <= Len(t) + 1, NEW i \in 1 .. Len(u)
      PROVE  (s \o t)[Len(s) + j + i - 1] = t[j + i - 1]
  <2>1. j + i - 1 \in 1 .. Len(t) /\ Len(s) + (j + i - 1) = Len(s) + j + i - 1
    BY <1>1, <1>2, <1>4
  <2> QED BY <1>2, <2>1
<1> QED BY <1>3, <1>4 DEF IsAt

\* A sequence stands in front of what follows it.
LEMMA AtFront ==
    ASSUME NEW S, NEW s \in Seq(S), NEW t \in Seq(S)
    PROVE  IsAt(s, s \o t, 1)
<1>1. /\ Len(s) \in Nat /\ Len(t) \in Nat /\ Len(s \o t) = Len(s) + Len(t)
      /\ \A i \in 1 .. Len(s) : (s \o t)[i] = s[i]
  BY Places
<1>2. \A i \in 1 .. Len(s) : 1 + i - 1 = i
  BY <1>1
<1> QED BY <1>1, <1>2 DEF IsAt

\* The beginnings of two sequences that stand at one place.
LEMMA Begin ==
    ASSUME NEW S, NEW u \in Seq(S), NEW v \in Seq(S), NEW s, NEW j \in Nat,
           IsAt(u, s, j), IsAt(v, s, j), NEW n \in 0 .. Len(u), n <= Len(v)
    PROVE  SubSeq(u, 1, n) = SubSeq(v, 1, n)
<1>1. Len(u) \in Nat /\ Len(v) \in Nat /\ n \in 0 .. Len(v) /\ 1 \in Nat \ {0}
  OBVIOUS
<1>2. /\ SubSeq(u, 1, n) \in Seq(S) /\ Len(SubSeq(u, 1, n)) = n
      /\ \A i \in 1 .. n : SubSeq(u, 1, n)[i] = u[i]
  BY <1>1
<1>3. /\ SubSeq(v, 1, n) \in Seq(S) /\ Len(SubSeq(v, 1, n)) = n
      /\ \A i \in 1 .. n : SubSeq(v, 1, n)[i] = v[i]
  BY <1>1
<1>4. ASSUME NEW i \in 1 .. n PROVE u[i] = v[i]
  <2>1. i \in 1 .. Len(u) /\ i \in 1 .. Len(v)
    BY <1>1
  <2>2. u[i] = s[j + i - 1] /\ v[i] = s[j + i - 1]
    BY <2>1 DEF IsAt
  <2> QED BY <2>2
<1> DEFINE a == SubSeq(u, 1, n)
           b == SubSeq(v, 1, n)
<1> HIDE DEF a, b
<1> QED BY <1>2, <1>3, <1>4, SeqEqual DEF a, b

LEMMA AllOf ==
    ASSUME NEW S, NEW u \in Seq(S)
    PROVE  SubSeq(u, 1, Len(u)) = u
<1>1. /\ SubSeq(u, 1, Len(u)) \in Seq(S) /\ Len(SubSeq(u, 1, Len(u))) = Len(u)
      /\ \A i \in 1 .. Len(u) : SubSeq(u, 1, Len(u))[i] = u[i]
  OBVIOUS
<1> DEFINE a == SubSeq(u, 1, Len(u))
<1> HIDE DEF a
<1> QED BY <1>1, SeqEqual DEF a

LEMMA NoneOf ==
    ASSUME NEW S, NEW u \in Seq(S), u # << >>
    PROVE  Len(u) \in Nat \ {0} /\ 1 \in 1 .. Len(u) /\ u[1] \in S
<1>1. Len(u) # 0 /\ Len(u) \in Nat
  BY EmptySeq
<1> QED BY <1>1

\* A finished sequence at the place of a whole one is that one, if it is no
\* longer.
LEMMA Finishes ==
    ASSUME NEW u, Whole(u), NEW v \in Seq(Bytes), v # << >>, Sent!Finished(v),
           NEW s, NEW j \in Nat, IsAt(u, s, j), IsAt(v, s, j), Len(v) <= Len(u)
    PROVE  v = u
<1>1. u \in Seq(Bytes) /\ Len(v) \in 1 .. Len(u) /\ Len(u) \in Nat /\ Len(v) \in 0 .. Len(v)
  BY NoneOf DEF Whole
<1>2. SubSeq(v, 1, Len(v)) = SubSeq(u, 1, Len(v))
  BY <1>1, Begin
<1>3. v = SubSeq(u, 1, Len(v))
  BY <1>2, AllOf
<1>4. Len(v) = Len(u)
  BY <1>1, <1>3 DEF Whole
<1> QED BY <1>1, <1>3, <1>4, AllOf

LEMMA WholeFinished ==
    ASSUME NEW u, Whole(u)
    PROVE  u \in Seq(Bytes) /\ u # << >> /\ Sent!Finished(u) /\ Len(u) \in Nat \ {0}
<1>1. u \in Seq(Bytes) /\ u # << >> /\ Len(u) \in Nat /\ Len(u) \in 1 .. Len(u)
  BY NoneOf DEF Whole
<1>2. Sent!Finished(SubSeq(u, 1, Len(u)))
  BY <1>1 DEF Whole
<1>3. SubSeq(u, 1, Len(u)) = u
  BY <1>1, AllOf
<1>4. Len(u) \in Nat \ {0}
  BY <1>1
<1>5. Sent!Finished(u)
  BY <1>2, <1>3, Zenon
<1> QED BY <1>1, <1>4, <1>5

LEMMA SameUnit ==
    ASSUME NEW u, Whole(u), NEW v, Whole(v), NEW s, NEW j \in Nat, IsAt(u, s, j), IsAt(v, s, j)
    PROVE  u = v
<1>1. Len(u) \in Nat /\ Len(v) \in Nat
  BY WholeFinished
<1>2. CASE Len(v) <= Len(u)
  BY <1>2, WholeFinished, Finishes
<1>3. CASE Len(u) <= Len(v)
  BY <1>3, WholeFinished, Finishes
<1> QED BY <1>1, <1>2, <1>3
-----------------------------------------------------------------------------
(* A report, byte by byte. *)

RowDigits(c) == Decimal[c.row]
ColDigits(c) == Decimal[c.col]
Written(c) == Len(RowDigits(c)) + 1 + Len(ColDigits(c))

LEMMA DigitsOf ==
    ASSUME NEW c \in Cursors
    PROVE  /\ RowDigits(c) \in Seq(Digits) \ {<< >>} /\ ColDigits(c) \in Seq(Digits) \ {<< >>}
           /\ Len(RowDigits(c)) \in Nat \ {0} /\ Len(ColDigits(c)) \in Nat \ {0}
           /\ Written(c) \in Nat \ {0} /\ Written(c) <= MaxParameter
           /\ Sent!Number(RowDigits(c)) = c.row /\ Sent!Number(ColDigits(c)) = c.col
<1>1. /\ \A n \in {c.row, c.col} : Decimal[n] \in Seq(Digits) \ {<< >>} /\ Sent!Number(Decimal[n]) = n
      /\ Len(Decimal[c.row]) + 1 + Len(Decimal[c.col]) <= MaxParameter
  BY DecimalAssumption
<1>2. /\ RowDigits(c) \in Seq(Digits) \ {<< >>} /\ ColDigits(c) \in Seq(Digits) \ {<< >>}
      /\ Sent!Number(RowDigits(c)) = c.row /\ Sent!Number(ColDigits(c)) = c.col
  BY <1>1 DEF RowDigits, ColDigits
<1>3. Len(RowDigits(c)) \in Nat \ {0} /\ Len(ColDigits(c)) \in Nat \ {0}
  BY <1>2, NoneOf
<1>4. Written(c) <= MaxParameter
  BY <1>1, Zenon DEF Written, RowDigits, ColDigits
<1>5. Written(c) \in Nat \ {0}
  BY <1>3 DEF Written
<1> QED BY <1>2, <1>3, <1>4, <1>5

LEMMA ReportIs ==
    ASSUME NEW c \in Cursors
    PROVE  /\ ReportOf(c) \in Seq(Bytes) /\ Len(ReportOf(c)) = Written(c) + 3
           /\ ReportOf(c)[1] = Esc /\ ReportOf(c)[2] = Bracket
           /\ \A i \in 1 .. Len(RowDigits(c)) : ReportOf(c)[i + 2] = RowDigits(c)[i]
           /\ ReportOf(c)[Len(RowDigits(c)) + 3] = Semicolon
           /\ \A i \in 1 .. Len(ColDigits(c)) :
                 ReportOf(c)[Len(RowDigits(c)) + 3 + i] = ColDigits(c)[i]
           /\ ReportOf(c)[Written(c) + 3] = Report
<1> DEFINE a == RowDigits(c)
           d == ColDigits(c)
           s1 == <<Esc, Bracket>>
           s2 == s1 \o a
           s3 == s2 \o <<Semicolon>>
           s4 == s3 \o d
           s5 == s4 \o <<Report>>
<1>1. ReportOf(c) = s5
  BY DEF ReportOf, RowDigits, ColDigits
<1>2. /\ s1 \in Seq(Bytes) /\ Len(s1) = 2 /\ s1[1] = Esc /\ s1[2] = Bracket
      /\ <<Semicolon>> \in Seq(Bytes) /\ Len(<<Semicolon>>) = 1 /\ <<Semicolon>>[1] = Semicolon
      /\ <<Report>> \in Seq(Bytes) /\ Len(<<Report>>) = 1 /\ <<Report>>[1] = Report
  BY DecoderAssumption, KeysAssumption
<1>3. /\ a \in Seq(Bytes) /\ d \in Seq(Bytes) /\ Len(a) \in Nat \ {0} /\ Len(d) \in Nat \ {0}
      /\ Written(c) = Len(a) + 1 + Len(d)
  <2>1. Digits \subseteq Bytes
    BY DecoderAssumption
  <2>2. a \in Seq(Digits) /\ d \in Seq(Digits) /\ Len(a) \in Nat \ {0} /\ Len(d) \in Nat \ {0}
    BY DigitsOf
  <2>3. \A e \in Seq(Digits) : e \in Seq(Bytes)
    BY <2>1
  <2> QED BY <2>2, <2>3 DEF Written
<1> HIDE DEF a, d
<1>4. /\ s2 \in Seq(Bytes) /\ Len(s2) = 2 + Len(a)
      /\ s2[1] = Esc /\ s2[2] = Bracket
      /\ \A i \in 1 .. Len(a) : s2[2 + i] = a[i]
  <2> HIDE DEF s1
  <2>1. 1 \in 1 .. Len(s1) /\ 2 \in 1 .. Len(s1)
    BY <1>2
  <2>2. /\ s2 \in Seq(Bytes) /\ Len(s2) = Len(s1) + Len(a)
        /\ \A i \in 1 .. Len(s1) : s2[i] = s1[i]
        /\ \A i \in 1 .. Len(a) : s2[Len(s1) + i] = a[i]
    <3>1. s1 \in Seq(Bytes) /\ a \in Seq(Bytes)
      BY <1>2, <1>3
    <3> QED BY <3>1, Places
  <2> HIDE DEF s2
  <2> QED BY <1>2, <1>3, <2>1, <2>2
<1>5. /\ s3 \in Seq(Bytes) /\ Len(s3) = 3 + Len(a)
      /\ s3[3 + Len(a)] = Semicolon
      /\ \A i \in 1 .. 2 + Len(a) : s3[i] = s2[i]
  <2> DEFINE z == <<Semicolon>>
  <2> HIDE DEF s2, z
  <2>1. z \in Seq(Bytes) /\ Len(z) = 1 /\ z[1] = Semicolon /\ s3 = s2 \o z
    BY <1>2 DEF z
  <2> HIDE DEF s3
  <2>2. 1 \in 1 .. Len(z) /\ Len(s2) + 1 = 3 + Len(a)
    BY <1>3, <1>4, <2>1
  <2>3. /\ s3 \in Seq(Bytes) /\ Len(s3) = Len(s2) + Len(z)
        /\ \A i \in 1 .. Len(s2) : s3[i] = s2[i]
        /\ \A i \in 1 .. Len(z) : s3[Len(s2) + i] = z[i]
    <3>1. s2 \in Seq(Bytes) /\ z \in Seq(Bytes)
      BY <1>4, <2>1
    <3>2. /\ s2 \o z \in Seq(Bytes) /\ Len(s2 \o z) = Len(s2) + Len(z)
          /\ \A i \in 1 .. Len(s2) : (s2 \o z)[i] = s2[i]
          /\ \A i \in 1 .. Len(z) : (s2 \o z)[Len(s2) + i] = z[i]
      BY <3>1, Places
    <3> QED BY <2>1, <3>2
  <2> QED BY <1>3, <1>4, <2>1, <2>2, <2>3
<1>6. /\ s4 \in Seq(Bytes) /\ Len(s4) = 3 + Len(a) + Len(d)
      /\ \A i \in 1 .. Len(d) : s4[3 + Len(a) + i] = d[i]
      /\ \A i \in 1 .. 3 + Len(a) : s4[i] = s3[i]
  <2> HIDE DEF s3
  <2>1. /\ s4 \in Seq(Bytes) /\ Len(s4) = Len(s3) + Len(d)
        /\ \A i \in 1 .. Len(s3) : s4[i] = s3[i]
        /\ \A i \in 1 .. Len(d) : s4[Len(s3) + i] = d[i]
    <3>1. s3 \in Seq(Bytes) /\ d \in Seq(Bytes)
      BY <1>3, <1>5
    <3> QED BY <3>1, Places
  <2> HIDE DEF s4
  <2> QED BY <1>3, <1>5, <2>1
<1>7. /\ s5 \in Seq(Bytes) /\ Len(s5) = 4 + Len(a) + Len(d)
      /\ s5[4 + Len(a) + Len(d)] = Report
      /\ \A i \in 1 .. 3 + Len(a) + Len(d) : s5[i] = s4[i]
  <2> DEFINE z == <<Report>>
  <2> HIDE DEF s4, z
  <2>1. z \in Seq(Bytes) /\ Len(z) = 1 /\ z[1] = Report /\ s5 = s4 \o z
    BY <1>2 DEF z
  <2> HIDE DEF s5
  <2>2. 1 \in 1 .. Len(z) /\ Len(s4) + 1 = 4 + Len(a) + Len(d)
    BY <1>3, <1>6, <2>1
  <2>3. /\ s5 \in Seq(Bytes) /\ Len(s5) = Len(s4) + Len(z)
        /\ \A i \in 1 .. Len(s4) : s5[i] = s4[i]
        /\ \A i \in 1 .. Len(z) : s5[Len(s4) + i] = z[i]
    <3>1. s4 \in Seq(Bytes) /\ z \in Seq(Bytes)
      BY <1>6, <2>1
    <3>2. /\ s4 \o z \in Seq(Bytes) /\ Len(s4 \o z) = Len(s4) + Len(z)
          /\ \A i \in 1 .. Len(s4) : (s4 \o z)[i] = s4[i]
          /\ \A i \in 1 .. Len(z) : (s4 \o z)[Len(s4) + i] = z[i]
      BY <3>1, Places
    <3> QED BY <2>1, <3>2
  <2> QED BY <1>3, <1>6, <2>1, <2>2, <2>3
<1> HIDE DEF s2, s3, s4, s5
<1>8. s5[1] = Esc /\ s5[2] = Bracket
  <2>1. /\ 1 \in 1 .. 2 + Len(a) /\ 1 \in 1 .. 3 + Len(a) /\ 1 \in 1 .. 3 + Len(a) + Len(d)
        /\ 2 \in 1 .. 2 + Len(a) /\ 2 \in 1 .. 3 + Len(a) /\ 2 \in 1 .. 3 + Len(a) + Len(d)
    BY <1>3
  <2> QED BY <1>4, <1>5, <1>6, <1>7, <2>1
<1>9. ASSUME NEW i \in 1 .. Len(a) PROVE s5[i + 2] = a[i]
  <2>1. i + 2 \in 1 .. 2 + Len(a) /\ i + 2 \in 1 .. 3 + Len(a) /\ i + 2 \in 1 .. 3 + Len(a) + Len(d) /\ i + 2 = 2 + i
    BY <1>3
  <2> QED BY <1>4, <1>5, <1>6, <1>7, <2>1
<1>10. s5[Len(a) + 3] = Semicolon
  <2>1. Len(a) + 3 = 3 + Len(a) /\ 3 + Len(a) \in 1 .. 3 + Len(a) /\ 3 + Len(a) \in 1 .. 3 + Len(a) + Len(d)
    BY <1>3
  <2> QED BY <1>5, <1>6, <1>7, <2>1
<1>11. ASSUME NEW i \in 1 .. Len(d) PROVE s5[Len(a) + 3 + i] = d[i]
  <2>1. Len(a) + 3 + i = 3 + Len(a) + i /\ 3 + Len(a) + i \in 1 .. 3 + Len(a) + Len(d)
    BY <1>3
  <2> QED BY <1>6, <1>7, <2>1
<1>12. 4 + Len(a) + Len(d) = Written(c) + 3
  BY <1>3
<1> QED BY <1>1, <1>7, <1>8, <1>9, <1>10, <1>11, <1>12 DEF a, d

\* Between the introducer and the final byte of a report are parameters.
LEMMA ReportParameters ==
    ASSUME NEW c \in Cursors
    PROVE  \A i \in 3 .. Written(c) + 2 : ReportOf(c)[i] \in Params
<1> DEFINE n == Len(RowDigits(c))
           m == Len(ColDigits(c))
<1>1. n \in Nat \ {0} /\ m \in Nat \ {0} /\ Written(c) = n + 1 + m
  BY DigitsOf DEF Written
<1>2. /\ \A i \in 1 .. n : RowDigits(c)[i] \in Params
      /\ \A i \in 1 .. m : ColDigits(c)[i] \in Params
      /\ Semicolon \in Params
  BY DigitsOf, DecoderAssumption
<1> SUFFICES ASSUME NEW i \in 3 .. Written(c) + 2 PROVE ReportOf(c)[i] \in Params
  OBVIOUS
<1> HIDE DEF n, m
<1>3. CASE i \in 3 .. n + 2
  <2>1. i - 2 \in 1 .. n /\ (i - 2) + 2 = i
    BY <1>1, <1>3
  <2>2. ReportOf(c)[(i - 2) + 2] = RowDigits(c)[i - 2]
    BY <2>1, ReportIs DEF n
  <2> QED BY <1>2, <2>1, <2>2
<1>4. CASE i = n + 3
  BY <1>2, <1>4, ReportIs DEF n
<1>5. CASE i \in n + 4 .. n + m + 3
  <2>1. i - n - 3 \in 1 .. m /\ n + 3 + (i - n - 3) = i
    BY <1>1, <1>5
  <2>2. ReportOf(c)[n + 3 + (i - n - 3)] = ColDigits(c)[i - n - 3]
    BY <2>1, ReportIs DEF n, m
  <2> QED BY <1>2, <2>1, <2>2
<1>6. i \in 3 .. n + 2 \/ i = n + 3 \/ i \in n + 4 .. n + m + 3
  BY <1>1
<1> QED BY <1>3, <1>4, <1>5, <1>6

LEMMA ReportWhole ==
    ASSUME NEW c \in Cursors
    PROVE  Whole(ReportOf(c))
<1> DEFINE u == ReportOf(c)
           w == Written(c)
<1>1. /\ w \in Nat \ {0} /\ u \in Seq(Bytes) /\ Len(u) = w + 3
      /\ u[1] = Esc /\ u[2] = Bracket /\ u[w + 3] = Report
      /\ \A i \in 3 .. w + 2 : u[i] \in Params
  BY DigitsOf, ReportIs, ReportParameters
<1> HIDE DEF u, w
<1>2. u # << >>
  BY <1>1
<1>3. ASSUME NEW n \in 2 .. Len(u) PROVE u[n] # Esc
  <2>1. n = 2 \/ n \in 3 .. w + 2 \/ n = w + 3
    BY <1>1
  <2> QED BY <1>1, <2>1, DecoderAssumption, KeysAssumption
<1>4. ASSUME NEW n \in 1 .. Len(u)
      PROVE  Sent!Finished(SubSeq(u, 1, n)) <=> n = Len(u)
  <2> DEFINE v == SubSeq(u, 1, n)
             b == SubSeq(v, 3, Len(v))
  <2>1. v \in Seq(Bytes) /\ Len(v) = n /\ \A i \in 1 .. n : v[i] = u[i]
    <3>1. 1 \in Nat \ {0} /\ n \in 0 .. Len(u) /\ n >= 1 /\ n \in Nat
      BY <1>1
    <3> QED BY <1>1, <3>1
  <2> HIDE DEF v
  <2>2. CASE n = 1
    <3>1. v = <<Esc>>
      <4>1. v[1] = Esc
        BY <1>1, <2>1, <2>2
      <4>2. <<Esc>> \in Seq(Bytes) /\ Len(<<Esc>>) = 1 /\ <<Esc>>[1] = Esc
        BY DecoderAssumption
      <4> DEFINE z == <<Esc>>
      <4> HIDE DEF z
      <4>3. \A i \in 1 .. Len(v) : v[i] = z[i]
        BY <2>1, <2>2, <4>1, <4>2 DEF z
      <4> QED BY <2>1, <2>2, <4>2, <4>3, SeqEqual DEF z
    <3>2. ~Sent!Finished(v)
      BY <3>1 DEF Sent!Finished
    <3> QED BY <1>1, <2>2, <3>2 DEF v
  <2>3. CASE n # 1
    <3>1. n >= 2 /\ v[2] = Bracket
      BY <1>1, <2>1, <2>3
    <3>2. /\ b \in Seq(Bytes) /\ Len(b) = n - 2
          /\ \A i \in 1 .. n - 2 : b[i] = v[i + 2]
      BY <2>1, <3>1, Body
    <3> HIDE DEF b
    <3>3. \A i \in 1 .. n - 2 : b[i] = u[i + 2]
      <4>1. \A i \in 1 .. n - 2 : i + 2 \in 1 .. n
        BY <1>1
      <4> QED BY <2>1, <3>2, <4>1
    <3>4. Sent!Finished(v) <=> ~Sent!Unfinished(b)
      BY <2>1, <2>3, <3>1 DEF Sent!Finished, b
    <3>5. CASE n = Len(u)
      <4>1. n - 2 \in 1 .. n - 2 /\ (n - 2) + 2 = w + 3 /\ n - 2 \in Nat
        BY <1>1, <3>5
      <4>2. b[n - 2] = Report
        BY <1>1, <3>3, <4>1
      <4>3. ASSUME NEW k \in 0 .. Len(b), Sent!AreAll(SubSeq(b, 1, k), Params),
                   Sent!AreAll(SubSeq(b, k + 1, Len(b)), Intermediates)
            PROVE  FALSE
        <5>0. b \in Seq(Bytes) /\ 1 \in Nat \ {0} /\ k + 1 \in Nat \ {0} /\ k \in 0 .. Len(b) /\ Len(b) \in 0 .. Len(b)
          BY <3>2
        <5>1. \A i \in 1 .. k : b[i] \in Params
          BY <4>3, <5>0, PieceAreAll
        <5>2. \A i \in k + 1 .. Len(b) : b[i] \in Intermediates
          BY <4>3, <5>0, PieceAreAll
        <5>3. b[n - 2] \in Params \cup Intermediates
          BY <3>2, <4>1, <5>1, <5>2
        <5> QED BY <4>2, <5>3, DecoderAssumption
      <4>4. ~Sent!Unfinished(b)
        BY <4>3 DEF Sent!Unfinished
      <4> QED BY <3>4, <3>5, <4>4 DEF v
    <3>6. CASE n # Len(u)
      <4>1. \A i \in 1 .. Len(b) : b[i] \in Params
        <5>1. \A i \in 1 .. Len(b) : i \in 1 .. n - 2 /\ i + 2 \in 3 .. w + 2
          BY <1>1, <3>2, <3>6
        <5> QED BY <1>1, <3>3, <5>1
      <4>2. /\ 1 \in Nat \ {0} /\ Len(b) + 1 \in Nat \ {0} /\ Len(b) \in 0 .. Len(b) /\ b \in Seq(Bytes)
            /\ \A i \in Len(b) + 1 .. Len(b) : b[i] \in Intermediates
        BY <3>2
      <4>3. /\ Sent!AreAll(SubSeq(b, 1, Len(b)), Params)
            /\ Sent!AreAll(SubSeq(b, Len(b) + 1, Len(b)), Intermediates)
        BY <4>1, <4>2, PieceAreAll
      <4>4. Sent!Unfinished(b)
        BY <4>2, <4>3 DEF Sent!Unfinished
      <4> QED BY <3>4, <3>6, <4>4 DEF v
    <3> QED BY <3>5, <3>6
  <2> QED BY <2>2, <2>3
<1> QED BY <1>1, <1>2, <1>3, <1>4 DEF Whole, u
\* What a report means is where the cursor was.
LEMMA ReportMeans ==
    ASSUME NEW c \in Cursors
    PROVE  Sent!Meaning(ReportOf(c)) = Position(c.row, c.col)
<1> DEFINE s == ReportOf(c)
           a == RowDigits(c)
           d == ColDigits(c)
           n == Len(a)
           m == Len(d)
           w == Written(c)
           b == SubSeq(s, 3, Len(s))
           p == Sent!Parameters(b)
<1>1. /\ a \in Seq(Digits) /\ d \in Seq(Digits) /\ n \in Nat \ {0} /\ m \in Nat \ {0}
      /\ w = n + 1 + m /\ w <= MaxParameter /\ w \in Nat \ {0} /\ MaxParameter \in Nat
      /\ Sent!Number(a) = c.row /\ Sent!Number(d) = c.col
  BY DigitsOf, DecoderAssumption DEF Written
<1>2. /\ s \in Seq(Bytes) /\ Len(s) = w + 3 /\ s[2] = Bracket /\ s[w + 3] = Report
      /\ \A i \in 1 .. n : s[i + 2] = a[i]
      /\ s[n + 3] = Semicolon
      /\ \A i \in 1 .. m : s[n + 3 + i] = d[i]
      /\ \A i \in 3 .. w + 2 : s[i] \in Params
  BY ReportIs, ReportParameters
<1> HIDE DEF s, a, d, n, m, w
<1>3. /\ b \in Seq(Bytes) /\ Len(b) = w + 1
      /\ \A i \in 1 .. w + 1 : b[i] = s[i + 2]
  <2>1. Len(s) >= 2 /\ Len(s) - 2 = w + 1
    BY <1>1, <1>2
  <2> QED BY <1>2, <2>1, Body
<1> HIDE DEF b
<1>4. p = SubSeq(b, 1, w)
  <2>1. w \in 0 .. Len(b)
    BY <1>1, <1>3
  <2>2. \A i \in 1 .. w : b[i] \in Params
    <3>1. \A i \in 1 .. w : i + 2 \in 3 .. w + 2 /\ i \in 1 .. w + 1
      BY <1>1
    <3> QED BY <1>2, <1>3, <3>1
  <2>3. b[w + 1] \notin Params
    <3>1. w + 1 \in 1 .. w + 1 /\ (w + 1) + 2 = w + 3
      BY <1>1
    <3>2. b[w + 1] = Report
      BY <1>2, <1>3, <3>1
    <3> QED BY <3>2, DecoderAssumption
  <2>4. p = SubSeq(b, 1, IF w < MaxParameter THEN w ELSE MaxParameter)
    BY <1>3, <2>1, <2>2, <2>3, ParametersAre
  <2>5. (IF w < MaxParameter THEN w ELSE MaxParameter) = w
    BY <1>1
  <2> QED BY <2>4, <2>5
<1>5. /\ p \in Seq(Params) /\ Len(p) = w
      /\ \A i \in 1 .. w : p[i] = s[i + 2]
  <2>1. \A i \in 1 .. w : i \in 1 .. w + 1 /\ i + 2 \in 3 .. w + 2
    BY <1>1
  <2>2. \A i \in 1 .. w : b[i] = s[i + 2] /\ b[i] \in Params
    BY <1>2, <1>3, <2>1
  <2>3. 1 \in Int /\ w \in Int /\ w >= 1 /\ w - 1 + 1 = w /\ \A i \in 1 .. w : 1 + i - 1 = i
    BY <1>1
  <2>4. /\ SubSeq(b, 1, w) \in Seq(Params)
        /\ Len(SubSeq(b, 1, w)) = IF 1 <= w THEN w - 1 + 1 ELSE 0
        /\ \A i \in 1 .. w - 1 + 1 : SubSeq(b, 1, w)[i] = b[1 + i - 1]
    BY <2>2, <2>3, SubSeqProperties
  <2> QED BY <1>4, <2>2, <2>3, <2>4
<1> HIDE DEF p
<1>6. /\ \A i \in 1 .. n : p[i] = a[i]
      /\ p[n + 1] = Semicolon
      /\ \A i \in 1 .. m : p[n + 1 + i] = d[i]
  <2>1. ASSUME NEW i \in 1 .. n PROVE p[i] = a[i]
    <3>1. i \in 1 .. w
      BY <1>1
    <3> QED BY <1>2, <1>5, <3>1
  <2>2. n + 1 \in 1 .. w /\ (n + 1) + 2 = n + 3
    BY <1>1
  <2>3. ASSUME NEW i \in 1 .. m PROVE p[n + 1 + i] = d[i]
    <3>1. n + 1 + i \in 1 .. w /\ (n + 1 + i) + 2 = n + 3 + i
      BY <1>1
    <3> QED BY <1>2, <1>5, <3>1
  <2> QED BY <1>2, <1>5, <2>1, <2>2, <2>3
<1>7. Leading(p) = n
  <2>1. n \in 0 .. Len(p)
    BY <1>1, <1>5
  <2>2. DigitsEnd(p, n)
    <3>1. \A i \in 1 .. n : p[i] \in Digits
      <4>1. \A i \in 1 .. n : a[i] \in Digits
        BY <1>1 DEF n
      <4> QED BY <1>6, <4>1
    <3> QED BY <1>6, <3>1, DecoderAssumption DEF DigitsEnd
  <2> QED BY <1>5, <2>1, <2>2, LeadingIs
<1>8. Rest(p, n) = d
  <2> DEFINE q == Rest(p, n)
  <2>1. n \in 0 .. Len(p) /\ n < Len(p) /\ Len(p) - n - 1 = m
    BY <1>1, <1>5
  <2>2. /\ q \in Seq(Params) /\ Len(q) = m
        /\ \A i \in 1 .. m : q[i] = p[n + 1 + i]
    BY <1>5, <2>1, RestIs
  <2>3. d \in Seq(Params) /\ Len(d) = m
    <3>1. \A e \in Seq(Digits) : e \in Seq(Params)
      BY DecoderAssumption
    <3> QED BY <1>1, <3>1 DEF m
  <2>4. \A i \in 1 .. m : q[i] = d[i]
    BY <1>6, <2>2
  <2> HIDE DEF q
  <2> QED BY <2>2, <2>3, <2>4, SeqEqual DEF q
<1>9. Leading(d) = m
  <2>1. m \in 0 .. Len(d) /\ DigitsEnd(d, m)
    BY <1>1 DEF DigitsEnd, m
  <2> QED BY <1>1, <2>1, LeadingIs
<1>10. HasPosition(p)
  BY <1>1, <1>5, <1>6, <1>7, <1>8, <1>9 DEF HasPosition
<1>11. Value(p) = c.row /\ Value(Rest(p, Leading(p))) = c.col
  <2>1. SubSeq(p, 1, n) = a
    <3> DEFINE q == SubSeq(p, 1, n)
    <3>1. q \in Seq(Params) /\ Len(q) = n /\ \A i \in 1 .. n : q[i] = p[i]
      <4>1. n \in 0 .. Len(p) /\ n >= 1
        BY <1>1, <1>5
      <4> QED BY <1>5, <4>1
    <3>2. a \in Seq(Params) /\ Len(a) = n
      <4>1. \A e \in Seq(Digits) : e \in Seq(Params)
        BY DecoderAssumption
      <4> QED BY <1>1, <4>1 DEF n
    <3> HIDE DEF q
    <3> QED BY <1>6, <3>1, <3>2, SeqEqual DEF q
  <2>2. SubSeq(d, 1, m) = d
    BY <1>1, AllOf DEF m
  <2>3. Value(p) = Sent!Number(SubSeq(p, 1, n))
    BY <1>5, <1>7, ValueIsNumber
  <2>4. Value(d) = Sent!Number(SubSeq(d, 1, m))
    BY <1>1, <1>9, ValueIsNumber
  <2> QED BY <1>1, <1>7, <1>8, <2>1, <2>2, <2>3, <2>4
<1>12. Sent!Reported(p) = {Position(c.row, c.col)}
  BY <1>5, <1>10, <1>11, ReportedIs
<1>13. s[Len(s)] = Report /\ Len(s) # 1 /\ s[2] = Bracket
  BY <1>1, <1>2
<1>14. Report \notin DOMAIN ArrowOf /\ Report # Tilde
  BY DecoderAssumption
<1>15. Sent!Meaning(s) = IF Sent!Reported(p) # {} THEN CHOOSE r \in Sent!Reported(p) : TRUE
                         ELSE Sent!Nothing
  BY <1>13, <1>14 DEF Sent!Meaning, b, p
<1>16. \A x : (CHOOSE r \in {x} : TRUE) = x /\ {x} # {}
  OBVIOUS
<1> QED BY <1>12, <1>15, <1>16 DEF s
-----------------------------------------------------------------------------
(* Keys and reports among what has come. *)

ReportBytes == {ReportOf(c) : c \in Cursors}
Units == Typed \cup ReportBytes

LEMMA UnitWhole == \A u \in Units : Whole(u)
<1>1. ASSUME NEW u \in Typed PROVE Whole(u)
  BY KeysAssumption DEF IsKey, Whole
<1> QED BY <1>1, ReportWhole DEF Units, ReportBytes

LEMMA ReportUnit ==
    ASSUME NEW c \in Cursors
    PROVE  /\ ReportOf(c) \in ReportBytes /\ ReportOf(c) \in Units
           /\ Whole(ReportOf(c)) /\ ReportOf(c)[1] = Esc /\ ReportOf(c) \in Seq(Bytes)
BY ReportWhole, ReportIs DEF Units, ReportBytes

LEMMA KeyIsNoReport == \A u \in Typed : u \notin ReportBytes /\ Sent!Meaning(u).type # "CPR"
<1> SUFFICES ASSUME NEW u \in Typed PROVE u \notin ReportBytes /\ Sent!Meaning(u).type # "CPR"
  OBVIOUS
<1>1. Sent!Meaning(u).type # "CPR"
  BY KeysAssumption DEF IsKey
<1>2. ASSUME NEW c \in Cursors PROVE u # ReportOf(c)
  <2>1. Sent!Meaning(ReportOf(c)).type = "CPR"
    BY ReportMeans DEF Position
  <2> QED BY <1>1, <2>1
<1> QED BY <1>1, <1>2 DEF ReportBytes

\* Where there is an escape, a key press or a report has come.
EscBegins(s) == \A j \in 1 .. Len(s) : s[j] = Esc => \E u \in Units : IsAt(u, s, j)

\* What stands at a place begins with what is there.
LEMMA FirstAt ==
    ASSUME NEW u, Whole(u), NEW s, NEW j \in Nat, IsAt(u, s, j)
    PROVE  s[j] = u[1]
<1>1. 1 \in 1 .. Len(u) /\ j + 1 - 1 = j
  BY WholeFinished
<1> QED BY <1>1 DEF IsAt

LEMMA AtBefore ==
    ASSUME NEW s \in Seq(Bytes), NEW t \in Seq(Bytes), EscBegins(s),
           NEW u, Whole(u), u[1] = Esc, NEW j \in 1 .. Len(s), IsAt(u, s \o t, j)
    PROVE  IsAt(u, s, j)
<1>1. s[j] = Esc
  <2>1. (s \o t)[j] = Esc
    <3>1. j \in Nat
      OBVIOUS
    <3> QED BY <3>1, FirstAt
  <2>2. (s \o t)[j] = s[j]
    BY Places
  <2> QED BY <2>1, <2>2
<1>2. PICK v \in Units : IsAt(v, s, j)
  BY <1>1 DEF EscBegins
<1>3. Whole(v) /\ v \in Seq(Bytes)
  BY UnitWhole, WholeFinished
<1>4. IsAt(v, s \o t, j)
  BY <1>2, <1>3, AtOf
<1>5. u = v
  BY <1>3, <1>4, SameUnit
<1> QED BY <1>2, <1>5

\* Nothing that begins with an escape stands inside of a key or a report.
LEMMA InUnit ==
    ASSUME NEW r, Whole(r), NEW u, Whole(u), u[1] = Esc,
           NEW s, IsAt(r, s, 1), NEW j \in 1 .. Len(r), IsAt(u, s, j)
    PROVE  j = 1 /\ u = r
<1>1. s[j] = Esc /\ Len(r) \in Nat \ {0}
  BY FirstAt, WholeFinished
<1>2. s[j] = r[j]
  <2>1. 1 + j - 1 = j
    OBVIOUS
  <2> QED BY <2>1 DEF IsAt
<1>3. j = 1
  <2>1. j = 1 \/ j \in 2 .. Len(r)
    BY <1>1
  <2> QED BY <1>1, <1>2, <2>1 DEF Whole
<1> QED BY <1>3, SameUnit

LEMMA EscAppended ==
    ASSUME NEW s \in Seq(Bytes), EscBegins(s), NEW u \in Units
    PROVE  EscBegins(s \o u)
<1>1. Whole(u) /\ u \in Seq(Bytes)
  BY UnitWhole, WholeFinished
<1>2. /\ Len(s) \in Nat /\ Len(u) \in Nat /\ Len(s \o u) = Len(s) + Len(u)
      /\ \A i \in 1 .. Len(s) : (s \o u)[i] = s[i]
      /\ \A i \in 1 .. Len(u) : (s \o u)[Len(s) + i] = u[i]
  BY <1>1, Places
<1> SUFFICES ASSUME NEW j \in 1 .. Len(s \o u), (s \o u)[j] = Esc
             PROVE  \E v \in Units : IsAt(v, s \o u, j)
  BY DEF EscBegins
<1>3. CASE j \in 1 .. Len(s)
  <2>1. PICK v \in Units : IsAt(v, s, j)
    BY <1>2, <1>3 DEF EscBegins
  <2>2. v \in Seq(Bytes)
    BY UnitWhole, WholeFinished
  <2>3. IsAt(v, s \o u, j)
    BY <1>1, <1>3, <2>1, <2>2, AtOf
  <2> QED BY <2>3
<1>4. CASE j = Len(s) + 1
  <2>1. IsAt(u, u, 1) /\ 1 \in 1 .. Len(u)
    <3>1. \A i \in 1 .. Len(u) : 1 + i - 1 = i
      BY <1>2
    <3> QED BY <1>1, <1>2, <3>1, WholeFinished DEF IsAt
  <2>2. IsAt(u, s \o u, Len(s) + 1)
    BY <1>1, <2>1, AtBehind
  <2> QED BY <1>4, <2>2
<1>5. CASE j \in Len(s) + 2 .. Len(s) + Len(u)
  <2>1. j - Len(s) \in 2 .. Len(u) /\ j - Len(s) \in 1 .. Len(u) /\ Len(s) + (j - Len(s)) = j
    BY <1>2, <1>5
  <2>2. u[j - Len(s)] = Esc
    BY <1>2, <2>1
  <2> QED BY <1>1, <2>1, <2>2 DEF Whole
<1>6. j \in 1 .. Len(s) \/ j = Len(s) + 1 \/ j \in Len(s) + 2 .. Len(s) + Len(u)
  BY <1>2
<1> QED BY <1>3, <1>4, <1>5, <1>6

LEMMA EscBehind ==
    ASSUME NEW r \in Seq(Bytes), NEW s \in Seq(Bytes), EscBegins(r \o s)
    PROVE  EscBegins(s)
<1>1. /\ Len(r) \in Nat /\ Len(s) \in Nat /\ Len(r \o s) = Len(r) + Len(s)
      /\ \A i \in 1 .. Len(s) : (r \o s)[Len(r) + i] = s[i]
  BY Places
<1> SUFFICES ASSUME NEW j \in 1 .. Len(s), s[j] = Esc
             PROVE  \E v \in Units : IsAt(v, s, j)
  BY DEF EscBegins
<1>2. Len(r) + j \in 1 .. Len(r \o s) /\ (r \o s)[Len(r) + j] = Esc
  BY <1>1
<1>3. PICK v \in Units : IsAt(v, r \o s, Len(r) + j)
  BY <1>2 DEF EscBegins
<1>4. v \in Seq(Bytes)
  BY UnitWhole, WholeFinished
<1>5. IsAt(v, s, j)
  BY <1>3, <1>4, AtBehind
<1> QED BY <1>5

\* The reports when a key or a report has come behind what there was, ...
LEMMA ReportsAppended ==
    ASSUME NEW s \in Seq(Bytes), EscBegins(s), NEW u \in Units
    PROVE  Reports(s \o u) = Reports(s) \cup (IF u \in ReportBytes THEN {Len(s) + 1} ELSE {})
<1>1. Whole(u) /\ u \in Seq(Bytes) /\ Len(u) \in Nat \ {0}
  BY UnitWhole, WholeFinished
<1>2. Len(s) \in Nat /\ Len(s \o u) = Len(s) + Len(u)
  BY <1>1, Places
<1>3. IsAt(u, u, 1)
  <2>1. \A i \in 1 .. Len(u) : 1 + i - 1 = i
    BY <1>1
  <2> QED BY <1>1, <2>1 DEF IsAt
<1>4. ASSUME NEW j \in 1 .. Len(s), NEW c \in Cursors
      PROVE  IsAt(ReportOf(c), s \o u, j) <=> IsAt(ReportOf(c), s, j)
  BY <1>1, ReportUnit, AtBefore, AtOf
<1>5. ASSUME NEW j \in 1 .. Len(u), NEW c \in Cursors, IsAt(ReportOf(c), s \o u, Len(s) + j)
      PROVE  j = 1 /\ u = ReportOf(c)
  <2>1. IsAt(ReportOf(c), u, j)
    BY <1>1, <1>5, ReportUnit, AtBehind
  <2> QED BY <1>1, <1>3, <2>1, ReportUnit, InUnit
<1>6. u \in ReportBytes => \E c \in Cursors : IsAt(ReportOf(c), s \o u, Len(s) + 1)
  <2>1. 1 \in 1 .. Len(u)
    BY <1>1
  <2>2. IsAt(u, s \o u, Len(s) + 1)
    BY <1>1, <1>3, <2>1, AtBehind
  <2> QED BY <2>2 DEF ReportBytes
<1>7. ASSUME NEW j \in 1 .. Len(s)
      PROVE  j \in Reports(s \o u) <=> j \in Reports(s)
  <2>1. j \in 1 .. Len(s \o u)
    BY <1>1, <1>2
  <2> QED BY <1>4, <2>1 DEF Reports
<1>8. ASSUME NEW i \in 1 .. Len(u)
      PROVE  Len(s) + i \in Reports(s \o u) <=> i = 1 /\ u \in ReportBytes
  <2>1. Len(s) + i \in 1 .. Len(s \o u)
    BY <1>1, <1>2
  <2> QED BY <1>5, <1>6, <2>1 DEF Reports, ReportBytes
<1>9. Reports(s) \subseteq 1 .. Len(s) /\ Reports(s \o u) \subseteq 1 .. Len(s) + Len(u)
  BY <1>2 DEF Reports
<1>10. \A j \in 1 .. Len(s) + Len(u) : j \in 1 .. Len(s) \/ \E i \in 1 .. Len(u) : j = Len(s) + i
  <2> SUFFICES ASSUME NEW j \in 1 .. Len(s) + Len(u), j \notin 1 .. Len(s)
               PROVE  \E i \in 1 .. Len(u) : j = Len(s) + i
    OBVIOUS
  <2>1. j - Len(s) \in 1 .. Len(u) /\ j = Len(s) + (j - Len(s))
    BY <1>1, <1>2
  <2> QED BY <2>1
<1>11. 1 \in 1 .. Len(u)
  BY <1>1
<1>12. ASSUME NEW j \in Reports(s \o u)
       PROVE  j \in Reports(s) \/ (u \in ReportBytes /\ j = Len(s) + 1)
  BY <1>7, <1>8, <1>9, <1>10
<1> QED BY <1>7, <1>8, <1>9, <1>11, <1>12

\* ... and when one that stood in front has been read.
LEMMA ReportsBehind ==
    ASSUME NEW r, Whole(r), NEW s \in Seq(Bytes)
    PROVE  Reports(r \o s) = {Len(r) + j : j \in Reports(s)}
                             \cup (IF r \in ReportBytes THEN {1} ELSE {})
<1>1. r \in Seq(Bytes) /\ Len(r) \in Nat \ {0}
  BY WholeFinished
<1>2. Len(s) \in Nat /\ Len(r \o s) = Len(r) + Len(s)
  BY <1>1, Places
<1>3. IsAt(r, r \o s, 1)
  BY <1>1, AtFront
<1>4. ASSUME NEW j \in 1 .. Len(s)
      PROVE  Len(r) + j \in Reports(r \o s) <=> j \in Reports(s)
  <2>1. Len(r) + j \in 1 .. Len(r \o s)
    BY <1>1, <1>2
  <2>2. \A c \in Cursors : IsAt(ReportOf(c), r \o s, Len(r) + j) <=> IsAt(ReportOf(c), s, j)
    BY <1>1, ReportUnit, AtBehind
  <2> QED BY <2>1, <2>2 DEF Reports
<1>5. ASSUME NEW j \in 1 .. Len(r)
      PROVE  j \in Reports(r \o s) <=> j = 1 /\ r \in ReportBytes
  <2>1. j \in 1 .. Len(r \o s)
    BY <1>1, <1>2
  <2>2. ASSUME NEW c \in Cursors, IsAt(ReportOf(c), r \o s, j)
        PROVE  j = 1 /\ r = ReportOf(c)
    BY <1>3, <2>2, ReportUnit, InUnit
  <2> QED BY <1>3, <2>1, <2>2 DEF Reports, ReportBytes
<1>6. Reports(s) \subseteq 1 .. Len(s) /\ Reports(r \o s) \subseteq 1 .. Len(r) + Len(s)
  BY <1>2 DEF Reports
<1>7. \A j \in 1 .. Len(r) + Len(s) : j \in 1 .. Len(r) \/ \E i \in 1 .. Len(s) : j = Len(r) + i
  <2> SUFFICES ASSUME NEW j \in 1 .. Len(r) + Len(s), j \notin 1 .. Len(r)
               PROVE  \E i \in 1 .. Len(s) : j = Len(r) + i
    OBVIOUS
  <2>1. j - Len(r) \in 1 .. Len(s) /\ j = Len(r) + (j - Len(r))
    BY <1>1, <1>2
  <2> QED BY <2>1
<1>8. 1 \in 1 .. Len(r)
  BY <1>1
<1>9. ASSUME NEW j \in Reports(r \o s)
      PROVE  (\E i \in Reports(s) : j = Len(r) + i) \/ (r \in ReportBytes /\ j = 1)
  BY <1>4, <1>5, <1>6, <1>7
<1> QED BY <1>4, <1>5, <1>6, <1>8, <1>9

-----------------------------------------------------------------------------
(* How many there are. *)

LEMMA Moved ==
    ASSUME NEW S \in SUBSET Nat, IsFiniteSet(S), NEW n \in Int
    PROVE  /\ IsFiniteSet({n + j : j \in S})
           /\ Cardinality({n + j : j \in S}) = Cardinality(S)
<1> DEFINE f == [j \in S |-> n + j]
           R == {n + j : j \in S}
<1>1. f \in Bijection(S, R)
  <2>1. f \in [S -> R] /\ \A r \in R : \E j \in S : f[j] = r
    OBVIOUS
  <2>2. \A i, j \in S : f[i] = f[j] => i = j
    OBVIOUS
  <2> HIDE DEF f, R
  <2> QED BY <2>1, <2>2 DEF Bijection, Injection, Surjection, IsInjective
<1> HIDE DEF f, R
<1>2. ExistsBijection(S, R)
  BY <1>1 DEF ExistsBijection
<1> QED BY <1>2, FS_Bijection DEF R

LEMMA ReportsFinite ==
    ASSUME NEW s \in Seq(Bytes)
    PROVE  /\ IsFiniteSet(Reports(s)) /\ Reports(s) \subseteq 1 .. Len(s)
           /\ Cardinality(Reports(s)) \in Nat
<1>1. IsFiniteSet(1 .. Len(s))
  <2>1. 1 \in Int /\ Len(s) \in Int
    OBVIOUS
  <2> QED BY <2>1, FS_Interval
<1>2. Reports(s) \in SUBSET (1 .. Len(s))
  BY DEF Reports
<1>3. IsFiniteSet(Reports(s))
  BY <1>1, <1>2, FS_Subset
<1> QED BY <1>2, <1>3, FS_CardinalityType

LEMMA CountAppended ==
    ASSUME NEW s \in Seq(Bytes), EscBegins(s), NEW u \in Units
    PROVE  Cardinality(Reports(s \o u)) =
               Cardinality(Reports(s)) + (IF u \in ReportBytes THEN 1 ELSE 0)
<1>1. Reports(s \o u) = Reports(s) \cup (IF u \in ReportBytes THEN {Len(s) + 1} ELSE {})
  BY ReportsAppended
<1>2. IsFiniteSet(Reports(s)) /\ Reports(s) \subseteq 1 .. Len(s) /\ Cardinality(Reports(s)) \in Nat
  BY ReportsFinite
<1>3. Len(s) + 1 \notin Reports(s)
  BY <1>2
<1>4. CASE u \in ReportBytes
  <2>1. Reports(s \o u) = Reports(s) \cup {Len(s) + 1}
    BY <1>1, <1>4
  <2> QED BY <1>2, <1>3, <1>4, <2>1, FS_AddElement
<1>5. CASE u \notin ReportBytes
  BY <1>1, <1>2, <1>5
<1> QED BY <1>4, <1>5

LEMMA CountBehind ==
    ASSUME NEW r, Whole(r), NEW s \in Seq(Bytes)
    PROVE  Cardinality(Reports(r \o s)) =
               Cardinality(Reports(s)) + (IF r \in ReportBytes THEN 1 ELSE 0)
<1> DEFINE M == {Len(r) + j : j \in Reports(s)}
<1>1. Reports(r \o s) = M \cup (IF r \in ReportBytes THEN {1} ELSE {})
  BY ReportsBehind
<1>2. IsFiniteSet(Reports(s)) /\ Reports(s) \subseteq 1 .. Len(s) /\ Cardinality(Reports(s)) \in Nat
  BY ReportsFinite
<1>3. Len(r) \in Nat \ {0}
  BY WholeFinished
<1>4. IsFiniteSet(M) /\ Cardinality(M) = Cardinality(Reports(s))
  <2>1. Reports(s) \in SUBSET Nat /\ Len(r) \in Int
    BY <1>2, <1>3
  <2> QED BY <1>2, <2>1, Moved
<1>5. 1 \notin M
  BY <1>2, <1>3
<1> HIDE DEF M
<1>6. CASE r \in ReportBytes
  <2>1. Reports(r \o s) = M \cup {1}
    BY <1>1, <1>6
  <2> QED BY <1>2, <1>4, <1>5, <1>6, <2>1, FS_AddElement
<1>7. CASE r \notin ReportBytes
  <2>1. Reports(r \o s) = M
    BY <1>1, <1>7
  <2> QED BY <1>2, <1>4, <1>7, <2>1
<1> QED BY <1>6, <1>7
-----------------------------------------------------------------------------
(* What the terminal has been sent and has not carried out. *)

Cup(n) == [op |-> "CUP", row |-> n, col |-> n]
Dsr == [op |-> "DSR"]
Sendable == {[op |-> "CUP", row |-> n, col |-> n] : n \in {1, 999}} \cup {[op |-> "DSR"]}

LEMMA SendableIs == /\ Cup(1) \in Sendable /\ Cup(999) \in Sendable /\ Dsr \in Sendable
                    /\ Cup(1).op = "CUP" /\ Cup(999).op = "CUP" /\ Dsr.op = "DSR"
                    /\ \A x \in Sendable : x = Cup(1) \/ x = Cup(999) \/ x = Dsr
BY DEF Cup, Dsr, Sendable

LEMMA Commands == PutCup(999, 999) = <<Cup(999)>> /\ PutCup(1, 1) = <<Cup(1)>> /\ PutDsr = <<Dsr>>
<1>1. PutUint(999) = 999 /\ PutUint(1) = 1
  BY DEF PutUint
<1>2. PutCup(999, 999) = <<[op |-> "CUP", row |-> 999, col |-> 999]>>
  BY <1>1 DEF PutCup
<1>3. PutCup(1, 1) = <<[op |-> "CUP", row |-> 1, col |-> 1]>>
  BY <1>1 DEF PutCup
<1> QED BY <1>2, <1>3 DEF PutDsr, Cup, Dsr

LEMMA OneMore ==
    ASSUME NEW S, NEW s \in Seq(S), NEW x \in S
    PROVE  s \o <<x>> = Append(s, x)
BY AppendIsConcat

LEMMA TwoMore ==
    ASSUME NEW S, NEW s \in Seq(S), NEW x \in S, NEW y \in S
    PROVE  s \o (<<x>> \o <<y>>) = Append(Append(s, x), y)
<1> DEFINE a == <<x>>
           b == <<y>>
<1>1. a \in Seq(S) /\ b \in Seq(S)
  OBVIOUS
<1>2. s \o a = Append(s, x) /\ Append(s, x) \in Seq(S)
  BY OneMore, Appended
<1>3. Append(s, x) \o b = Append(Append(s, x), y)
  BY <1>2, OneMore
<1> HIDE DEF a, b
<1>4. (s \o a) \o b = s \o (a \o b)
  BY <1>1, ConcatAssociative
<1> QED BY <1>2, <1>3, <1>4 DEF a, b

\* A request is only sent behind the move to the far corner.
Asked(out) == \A i \in 2 .. Len(out) : out[i].op = "DSR" => out[i - 1] = Cup(999)

LEMMA RequestsFinite ==
    ASSUME NEW out \in Seq(Sendable)
    PROVE  /\ IsFiniteSet(Requests(out)) /\ Requests(out) \subseteq 1 .. Len(out)
           /\ Cardinality(Requests(out)) \in Nat
<1>1. IsFiniteSet(1 .. Len(out))
  <2>1. 1 \in Int /\ Len(out) \in Int
    OBVIOUS
  <2> QED BY <2>1, FS_Interval
<1>2. Requests(out) \in SUBSET (1 .. Len(out))
  BY DEF Requests
<1>3. IsFiniteSet(Requests(out))
  BY <1>1, <1>2, FS_Subset
<1> QED BY <1>2, <1>3, FS_CardinalityType

LEMMA RequestsAppended ==
    ASSUME NEW out \in Seq(Sendable), NEW x \in Sendable
    PROVE  Cardinality(Requests(Append(out, x))) =
               Cardinality(Requests(out)) + (IF x.op = "DSR" THEN 1 ELSE 0)
<1>1. /\ Len(out) \in Nat /\ Len(Append(out, x)) = Len(out) + 1
      /\ Append(out, x)[Len(out) + 1] = x
      /\ \A i \in 1 .. Len(out) : Append(out, x)[i] = out[i]
  BY Appended
<1>2. Requests(Append(out, x)) =
          Requests(out) \cup (IF x.op = "DSR" THEN {Len(out) + 1} ELSE {})
  <2> DEFINE a == Append(out, x)
  <2> HIDE DEF a
  <2>1. Requests(a) = {i \in 1 .. Len(out) + 1 : a[i].op = "DSR"}
    BY <1>1 DEF Requests, a
  <2>2. \A i \in 1 .. Len(out) + 1 : i \in 1 .. Len(out) \/ i = Len(out) + 1
    BY <1>1
  <2>3. Len(out) + 1 \in 1 .. Len(out) + 1 /\ \A i \in 1 .. Len(out) : i \in 1 .. Len(out) + 1
    BY <1>1
  <2>4. \A i \in 1 .. Len(out) : i \in Requests(a) <=> i \in Requests(out)
    BY <1>1, <2>1, <2>3 DEF Requests, a
  <2>5. Len(out) + 1 \in Requests(a) <=> x.op = "DSR"
    BY <1>1, <2>1, <2>3 DEF a
  <2>6. Requests(out) \subseteq 1 .. Len(out) /\ Requests(a) \subseteq 1 .. Len(out) + 1
    BY <2>1 DEF Requests
  <2>7. ASSUME NEW i \in Requests(a)
        PROVE  i \in Requests(out) \/ (x.op = "DSR" /\ i = Len(out) + 1)
    BY <2>2, <2>4, <2>5, <2>6
  <2> QED BY <2>4, <2>5, <2>6, <2>7 DEF a
<1>3. /\ IsFiniteSet(Requests(out)) /\ Requests(out) \subseteq 1 .. Len(out)
      /\ Cardinality(Requests(out)) \in Nat
  BY RequestsFinite
<1>4. Len(out) + 1 \notin Requests(out)
  BY <1>1, <1>3
<1>5. CASE x.op = "DSR"
  <2>1. Requests(Append(out, x)) = Requests(out) \cup {Len(out) + 1}
    BY <1>2, <1>5
  <2> QED BY <1>3, <1>4, <1>5, <2>1, FS_AddElement
<1>6. CASE x.op # "DSR"
  <2>1. Requests(Append(out, x)) = Requests(out)
    BY <1>2, <1>6
  <2> QED BY <1>3, <1>6, <2>1
<1> QED BY <1>5, <1>6

LEMMA RequestsTail ==
    ASSUME NEW out \in Seq(Sendable), out # << >>
    PROVE  Cardinality(Requests(out)) =
               Cardinality(Requests(Tail(out))) + (IF Head(out).op = "DSR" THEN 1 ELSE 0)
<1> DEFINE t == Tail(out)
           M == {1 + j : j \in Requests(t)}
<1>1. /\ Len(out) \in Nat \ {0} /\ Head(out) = out[1] /\ t \in Seq(Sendable)
      /\ Len(t) = Len(out) - 1 /\ \A i \in 1 .. Len(t) : t[i] = out[i + 1]
  BY NoneOf, HeadTailProperties
<1> HIDE DEF t
<1>2. Requests(out) \ {1} = M
  <2>1. ASSUME NEW i \in Requests(out), i # 1 PROVE i - 1 \in Requests(t) /\ i = 1 + (i - 1)
    <3>1. i \in 2 .. Len(out) /\ out[i].op = "DSR"
      BY <2>1 DEF Requests
    <3>2. i - 1 \in 1 .. Len(t) /\ (i - 1) + 1 = i
      BY <1>1, <3>1
    <3>3. t[i - 1] = out[i]
      BY <1>1, <3>2
    <3> QED BY <3>1, <3>2, <3>3 DEF Requests
  <2>2. ASSUME NEW j \in Requests(t) PROVE 1 + j \in Requests(out) /\ 1 + j # 1
    <3>1. j \in 1 .. Len(t) /\ t[j].op = "DSR"
      BY DEF Requests
    <3>2. 1 + j \in 1 .. Len(out) /\ 1 + j = j + 1 /\ 1 + j # 1
      BY <1>1, <3>1
    <3> QED BY <1>1, <3>1, <3>2 DEF Requests
  <2> QED BY <2>1, <2>2
<1>3. /\ IsFiniteSet(Requests(t)) /\ Requests(t) \subseteq 1 .. Len(t) /\ Cardinality(Requests(t)) \in Nat
      /\ IsFiniteSet(Requests(out)) /\ Cardinality(Requests(out)) \in Nat
  BY <1>1, RequestsFinite
<1>4. Cardinality(M) = Cardinality(Requests(t))
  <2>1. Requests(t) \in SUBSET Nat /\ 1 \in Int
    BY <1>1, <1>3
  <2> QED BY <1>3, <2>1, Moved
<1>5. 1 \in Requests(out) <=> Head(out).op = "DSR"
  BY <1>1 DEF Requests
<1> HIDE DEF M
<1>6. Cardinality(Requests(out) \ {1}) =
          IF 1 \in Requests(out) THEN Cardinality(Requests(out)) - 1 ELSE Cardinality(Requests(out))
  BY <1>3, FS_RemoveElement
<1>7. Cardinality(Requests(t)) =
          IF Head(out).op = "DSR" THEN Cardinality(Requests(out)) - 1 ELSE Cardinality(Requests(out))
  BY <1>2, <1>4, <1>5, <1>6
<1> DEFINE k == Cardinality(Requests(t))
           n == Cardinality(Requests(out))
<1> HIDE DEF k, n
<1>8. n = k + (IF Head(out).op = "DSR" THEN 1 ELSE 0)
  <2>1. k \in Nat /\ n \in Nat /\ k = IF Head(out).op = "DSR" THEN n - 1 ELSE n
    BY <1>3, <1>7 DEF k, n
  <2> QED BY <2>1
<1> QED BY <1>8 DEF k, n, t

LEMMA AskedAppended ==
    ASSUME NEW out \in Seq(Sendable), Asked(out), NEW x \in Sendable,
           x.op = "DSR" => Len(out) > 0 /\ out[Len(out)] = Cup(999)
    PROVE  Asked(Append(out, x))
<1>1. /\ Len(out) \in Nat /\ Len(Append(out, x)) = Len(out) + 1
      /\ Append(out, x)[Len(out) + 1] = x
      /\ \A i \in 1 .. Len(out) : Append(out, x)[i] = out[i]
  BY Appended
<1> DEFINE a == Append(out, x)
<1> HIDE DEF a
<1> SUFFICES ASSUME NEW i \in 2 .. Len(out) + 1, a[i].op = "DSR" PROVE a[i - 1] = Cup(999)
  BY <1>1 DEF Asked, a
<1>2. i - 1 \in 1 .. Len(out) /\ a[i - 1] = out[i - 1]
  BY <1>1 DEF a
<1>3. CASE i = Len(out) + 1
  <2>1. i - 1 = Len(out) /\ a[i] = x
    BY <1>1, <1>3 DEF a
  <2> QED BY <1>2, <2>1
<1>4. CASE i \in 2 .. Len(out)
  <2>1. a[i] = out[i]
    BY <1>1, <1>4 DEF a
  <2> QED BY <1>2, <1>4, <2>1 DEF Asked
<1>5. i = Len(out) + 1 \/ i \in 2 .. Len(out)
  BY <1>1
<1> QED BY <1>3, <1>4, <1>5

LEMMA AskedTail ==
    ASSUME NEW out \in Seq(Sendable), out # << >>, Asked(out)
    PROVE  /\ Asked(Tail(out))
           /\ Tail(out) # << >> /\ Tail(out)[1].op = "DSR" => Head(out) = Cup(999)
<1> DEFINE t == Tail(out)
<1>1. /\ Len(out) \in Nat \ {0} /\ Head(out) = out[1] /\ t \in Seq(Sendable)
      /\ Len(t) = Len(out) - 1 /\ \A i \in 1 .. Len(t) : t[i] = out[i + 1]
  BY NoneOf, HeadTailProperties
<1> HIDE DEF t
<1>2. ASSUME NEW i \in 2 .. Len(t), t[i].op = "DSR" PROVE t[i - 1] = Cup(999)
  <2>1. i \in 1 .. Len(t) /\ i - 1 \in 1 .. Len(t) /\ i + 1 \in 2 .. Len(out) /\ (i - 1) + 1 = i /\ (i + 1) - 1 = i
    BY <1>1
  <2>2. out[i + 1].op = "DSR" /\ t[i - 1] = out[i]
    BY <1>1, <1>2, <2>1
  <2>3. out[(i + 1) - 1] = Cup(999)
    BY <2>1, <2>2 DEF Asked
  <2> QED BY <2>1, <2>2, <2>3
<1>3. ASSUME t # << >>, t[1].op = "DSR" PROVE out[1] = Cup(999)
  <2>1. 1 \in 1 .. Len(t) /\ 2 \in 2 .. Len(out) /\ 1 + 1 = 2 /\ 2 - 1 = 1
    BY <1>1, <1>3, NoneOf
  <2>2. out[2].op = "DSR"
    BY <1>1, <1>3, <2>1
  <2> QED BY <2>1, <2>2 DEF Asked
<1> QED BY <1>1, <1>2, <1>3 DEF Asked, t
-----------------------------------------------------------------------------
(* A byte is read. *)

\* What is being read has not reached the end of what the terminal sent.
Begun == state # "IDLE" => \A u \in Units : IsAt(u, Unread, 1) => Len(run) < Len(u)

Pending == IF state = "IDLE" THEN << >> ELSE run

LEMMA PendingType ==
    ASSUME DecoderInv, input \in Seq(Bytes)
    PROVE  Pending \in Seq(Bytes) /\ Unread = Pending \o input /\ Unread \in Seq(Bytes)
<1>1. run \in Seq(Bytes) /\ << >> \in Seq(Bytes)
  BY Lengths
<1>2. Pending \in Seq(Bytes)
  BY <1>1 DEF Pending
<1>3. Unread = Pending \o input
  BY DEF Unread, Pending
<1> QED BY <1>2, <1>3, Places

LEMMA EscapeFirst ==
    ASSUME DecoderInv, state # "IDLE"
    PROVE  run \in Seq(Bytes) /\ run[1] = Esc /\ 1 \in 1 .. Len(run)
<1>1. state = "ESCAPE" \/ InSequence
  BY DEF DecoderInv, TypeOK, InSequence
<1>2. CASE state = "ESCAPE"
  <2>1. run = <<Esc>> /\ run \in Seq(Bytes)
    BY <1>2, Lengths DEF DecoderInv
  <2> QED BY <2>1
<1>3. CASE InSequence
  <2>1. run \in Seq(Bytes) /\ Len(run) \in Nat /\ Len(run) >= 2 /\ run[1] = Esc
    BY <1>3, Lengths DEF DecoderInv
  <2> QED BY <2>1
<1> QED BY <1>1, <1>2, <1>3

\* A byte that is no escape is a key, and no report.
LEMMA OneByte ==
    ASSUME NEW c \in Bytes, Sent!Finished(<<c>>)
    PROVE  Whole(<<c>>) /\ <<c>> \notin ReportBytes /\ Sent!Meaning(<<c>>).type # "CPR"
<1> DEFINE u == <<c>>
<1>1. u \in Seq(Bytes) /\ Len(u) = 1 /\ u[1] = c /\ u # << >>
  OBVIOUS
<1>2. SubSeq(u, 1, 1) = u
  <2> HIDE DEF u
  <2> QED BY <1>1, AllOf
<1>3. Whole(u)
  <2>1. Sent!Finished(u)
    OBVIOUS
  <2> HIDE DEF u
  <2>2. \A n \in 1 .. Len(u) : n = 1
    BY <1>1
  <2>3. \A n \in 1 .. Len(u) : Sent!Finished(SubSeq(u, 1, n)) <=> n = Len(u)
    BY <1>1, <1>2, <2>1, <2>2
  <2>4. \A n \in 2 .. Len(u) : u[n] # Esc
    BY <1>1
  <2> QED BY <1>1, <2>3, <2>4 DEF Whole
<1>4. Sent!Meaning(u) = IF c \in DOMAIN ControlOf THEN Key(ControlOf[c]) ELSE Char(c)
  BY <1>1 DEF Sent!Meaning, Sent!Key, Key, Sent!Char, Char
<1>5. Sent!Meaning(u).type # "CPR"
  BY <1>4, KeysAssumption DEF Key, Char
<1>6. ASSUME NEW d \in Cursors PROVE ReportOf(d) # u
  <2>1. Len(ReportOf(d)) = Written(d) + 3 /\ Written(d) \in Nat
    BY ReportIs, DigitsOf
  <2> HIDE DEF u
  <2>2. Len(ReportOf(d)) # Len(u)
    BY <1>1, <2>1
  <2> QED BY <2>2
<1> HIDE DEF u
<1>7. u \notin ReportBytes
  BY <1>6 DEF ReportBytes
<1> QED BY <1>3, <1>5, <1>7 DEF u

\* What of it is a report is heard as one.
LEMMA UnitHeard ==
    ASSUME NEW u \in Units
    PROVE  Sent!Meaning(u).type = "CPR" <=> u \in ReportBytes
<1>1. CASE u \in Typed
  BY <1>1, KeyIsNoReport
<1>2. CASE u \in ReportBytes
  <2>1. PICK c \in Cursors : u = ReportOf(c)
    BY <1>2 DEF ReportBytes
  <2> QED BY <1>2, <2>1, ReportMeans DEF Position
<1> QED BY <1>1, <1>2 DEF Units

LEMMA PendingTyped == DecoderInv /\ input \in Seq(Bytes) => Unread \in Seq(Bytes)
BY PendingType

\* Either the byte waits for more, or a key or report has been read to its end.
UnitRead(r) ==
    /\ Whole(r)
    /\ Unread = r \o Unread'
    /\ heard' = Sent!Meaning(r)
    /\ heard'.type = "CPR" <=> r \in ReportBytes

LEMMA ByteRead ==
    ASSUME DecoderInv, input \in Seq(Bytes), EscBegins(Unread), Begun, Decodes
    PROVE  /\ DecoderInv' /\ input' \in Seq(Bytes)
           /\ EscBegins(Unread)' /\ Begun'
           /\ \/ Unread' = Unread /\ heard' = Nothing
              \/ \E r : UnitRead(r)
<1> DEFINE c == Head(input)
           t == Tail(input)
<1>1. c \in Bytes /\ t \in Seq(Bytes) /\ input' = t /\ Process(c)
  BY HeadTailProperties DEF Decodes
<1>2. input = <<c>> \o t
  BY DEF Decodes
<1> HIDE DEF c, t
<1>3. DecoderInv'
  BY <1>1, StepDecoder DEF Next
<1>4. StateIsOfRun /\ StateIsOfRun'
  <2>1. StateIsOfRun'
    BY <1>3, StateFollows, PTL
  <2> QED BY <2>1, StateFollows
<1>5. Sent!Read(c)
  BY <1>1, ReadHears
<1>6. /\ run \in Seq(Bytes) /\ Len(run) \in Nat
      /\ run' = IF state = "IDLE" THEN <<c>> ELSE Append(run, c)
  BY <1>4, <1>5, Lengths DEF StateIsOfRun, Sent!Read
<1>7. /\ run' = Pending \o <<c>> /\ run' \in Seq(Bytes) /\ run' # << >>
      /\ Len(run') = IF state = "IDLE" THEN 1 ELSE Len(run) + 1
  <2>1. CASE state = "IDLE"
    BY <1>1, <1>6, <2>1, ConcatEmptySeq DEF Pending
  <2>2. CASE state # "IDLE"
    <3>1. run' = Append(run, c) /\ Pending = run
      BY <1>6, <2>2 DEF Pending
    <3>2. /\ Append(run, c) \in Seq(Bytes) /\ Len(Append(run, c)) = Len(run) + 1
          /\ run \o <<c>> = Append(run, c)
      BY <1>1, <1>6, Appended, OneMore
    <3>3. run' # << >>
      BY <1>6, <3>1, <3>2, EmptySeq
    <3> QED BY <2>2, <3>1, <3>2, <3>3
  <2> QED BY <2>1, <2>2
<1>8. Unread = run' \o t
  <2> DEFINE z == <<c>>
  <2>1. z \in Seq(Bytes) /\ run' = Pending \o z /\ input = z \o t
    <3>1. z \in Seq(Bytes)
      BY <1>1
    <3>2. run' = Pending \o z
      BY <1>7
    <3>3. input = z \o t
      BY <1>2
    <3> QED BY <3>1, <3>2, <3>3
  <2> HIDE DEF z
  <2>2. Unread = Pending \o (z \o t) /\ Pending \in Seq(Bytes)
    BY <2>1, PendingType
  <2>3. (Pending \o z) \o t = Pending \o (z \o t)
    BY <1>1, <2>1, <2>2, ConcatAssociative
  <2> QED BY <2>1, <2>2, <2>3
<1>9. IsAt(run', Unread, 1)
  BY <1>1, <1>7, <1>8, AtFront
<1>10. ASSUME NEW u \in Units, IsAt(u, Unread, 1)
       PROVE  Whole(u) /\ u \in Seq(Bytes) /\ Len(u) \in Nat \ {0} /\ Len(run') <= Len(u)
  <2>1. Whole(u) /\ u \in Seq(Bytes) /\ Len(u) \in Nat \ {0}
    BY UnitWhole, WholeFinished
  <2>2. state # "IDLE" => Len(run) < Len(u)
    BY <1>10 DEF Begun
  <2> QED BY <1>6, <1>7, <2>1, <2>2
<1>11. CASE state' # "IDLE"
  <2>1. ~Sent!Finished(run')
    BY <1>4, <1>11 DEF StateIsOfRun
  <2>2. heard' = Nothing
    BY <1>5, <2>1 DEF Sent!Read, Sent!Nothing, Nothing
  <2>3. Unread' = Unread
    BY <1>1, <1>8, <1>11 DEF Unread
  <2>4. ASSUME NEW u \in Units, IsAt(u, Unread, 1) PROVE Len(run') < Len(u)
    <3>1. Whole(u) /\ u \in Seq(Bytes) /\ Len(u) \in Nat \ {0} /\ Len(run') <= Len(u)
      BY <1>10, <2>4
    <3>2. Len(run') # Len(u)
      <4>1. SUFFICES ASSUME Len(run') = Len(u) PROVE FALSE
        OBVIOUS
      <4>2. Sent!Finished(u) /\ u # << >>
        BY <3>1, WholeFinished
      <4>3. SubSeq(u, 1, Len(u)) = SubSeq(run', 1, Len(u))
        <5>1. 1 \in Nat /\ Len(u) \in 0 .. Len(u) /\ Len(u) <= Len(run')
          BY <3>1, <4>1
        <5> QED BY <1>7, <1>9, <2>4, <3>1, <5>1, Begin
      <4>4. u = run'
        BY <1>7, <3>1, <4>1, <4>3, AllOf
      <4> QED BY <2>1, <4>2, <4>4
    <3>3. Len(run') \in Nat
      BY <1>7
    <3> QED BY <3>1, <3>2, <3>3
  <2>5. EscBegins(Unread')
    BY <2>3
  <2>6. Begun'
    BY <2>3, <2>4 DEF Begun, Units, ReportBytes
  <2> QED BY <1>1, <1>3, <2>2, <2>3, <2>5, <2>6
<1>12. CASE state' = "IDLE"
  <2>1. Sent!Finished(run')
    BY <1>4, <1>7, <1>12 DEF StateIsOfRun
  <2>2. heard' = Sent!Meaning(run')
    BY <1>5, <2>1 DEF Sent!Read
  <2>3. Unread' = t
    BY <1>1, <1>12, ConcatEmptySeq DEF Unread
  <2>4. EscBegins(Unread')
    BY <1>1, <1>7, <1>8, <2>3, EscBehind
  <2>5. Begun'
    BY <1>12 DEF Begun
  <2>6. Whole(run') /\ (Sent!Meaning(run').type = "CPR" <=> run' \in ReportBytes)
    <3>1. CASE state = "IDLE"
      BY <1>1, <1>6, <2>1, <3>1, OneByte
    <3>2. CASE state # "IDLE"
      <4>1. run[1] = Esc /\ 1 \in 1 .. Len(run)
        BY <3>2, EscapeFirst
      <4>2. Unread[1] = Esc /\ 1 \in 1 .. Len(Unread)
        <5>1. Unread = run \o input
          BY <3>2 DEF Unread
        <5> QED BY <1>6, <4>1, <5>1, Places
      <4>3. PICK u \in Units : IsAt(u, Unread, 1)
        BY <4>2 DEF EscBegins
      <4>4. run' = u
        <5>1. 1 \in Nat /\ Whole(u) /\ Len(run') <= Len(u)
          BY <1>10, <4>3
        <5> QED BY <1>7, <1>9, <2>1, <4>3, <5>1, Finishes
      <4> QED BY <1>10, <4>3, <4>4, UnitHeard
    <3> QED BY <3>1, <3>2
  <2>7. UnitRead(run')
    BY <1>8, <2>2, <2>3, <2>6 DEF UnitRead
  <2> QED BY <1>1, <1>3, <2>4, <2>5, <2>7
<1> QED BY <1>11, <1>12
-----------------------------------------------------------------------------
(* The invariant of a size query. *)

CountsAgree == unanswered = OnTheirWay

\* A query under way is the last one that was asked.
Waits ==
    yielding => unanswered = prior + 1 /\ heard.type # "CPR" /\ window \in had

SeenIn(c, h) == c.row \in {w.rows : w \in h} /\ c.col \in {w.cols : w \in h}

\* What has been reported, and what will be with the next request, has been seen
\* since the query began.
FreshIn(s, out, c, h) ==
    /\ \A j \in 1 .. Len(s), d \in Cursors : IsAt(ReportOf(d), s, j) => SeenIn(d, h)
    /\ out # << >> /\ out[1].op = "DSR" => SeenIn(c, h)

Fresh == yielding /\ prior = 0 => FreshIn(Unread, output, cursor, had)

QueryInv ==
    /\ QueryTypeOK /\ DecoderInv
    /\ EscBegins(Unread) /\ Begun
    /\ Asked(output)
    /\ CountsAgree
    /\ Waits
    /\ Fresh

LEMMA QueryTypes ==
    ASSUME QueryInv
    PROVE  /\ window \in Windows /\ cursor \in Cursors
           /\ output \in Seq(Sendable) /\ input \in Seq(Bytes)
           /\ yielding \in BOOLEAN /\ resize_state = IF yielding THEN "RX" ELSE "IDLE"
           /\ had \subseteq Windows
           /\ unanswered \in 0 .. MaxQueries /\ prior \in 0 .. MaxQueries
           /\ MaxQueries \in Nat \ {0}
           /\ TypeOK
BY SizeQueryAssumption DEF QueryInv, QueryTypeOK, Sendable

LEMMA WindowIs ==
    ASSUME NEW w \in Windows
    PROVE  w.rows \in 1 .. 998 /\ w.cols \in 1 .. 998
<1>1. w \in [rows : 1 .. 998, cols : 1 .. 998]
  BY SizeQueryAssumption
<1> QED BY <1>1

\* The cursor stays where it can be, and is in the corner when it has been
\* sent there.
LEMMA InCursors ==
    ASSUME NEW c \in Cursors, NEW w \in Windows
    PROVE  /\ InWindow(c.row, c.col, w) \in Cursors
           /\ InWindow(c.row, c.col, w).row \in {c.row, w.rows}
           /\ InWindow(c.row, c.col, w).col \in {c.col, w.cols}
<1>1. /\ c.row \in {1} \cup {v.rows : v \in Windows} /\ c.col \in {1} \cup {v.cols : v \in Windows}
  BY DEF Cursors
<1>2. Within(c.row, w.rows) \in {c.row, w.rows} /\ Within(c.col, w.cols) \in {c.col, w.cols}
  BY DEF Within
<1>3. /\ Within(c.row, w.rows) \in {1} \cup {v.rows : v \in Windows}
      /\ Within(c.col, w.cols) \in {1} \cup {v.cols : v \in Windows}
  BY <1>1, <1>2
<1>4. InWindow(c.row, c.col, w) = [row |-> Within(c.row, w.rows), col |-> Within(c.col, w.cols)]
  BY DEF InWindow
<1> QED BY <1>2, <1>3, <1>4 DEF Cursors

LEMMA WithinIs ==
    ASSUME NEW r \in 1 .. 998
    PROVE  Within(999, r) = r /\ Within(1, r) = 1
BY DEF Within

LEMMA SentTo ==
    ASSUME NEW w \in Windows, NEW n \in {1, 999}
    PROVE  /\ InWindow(n, n, w) \in Cursors
           /\ n = 999 => InWindow(n, n, w) = [row |-> w.rows, col |-> w.cols]
<1> DEFINE r == w.rows
           k == w.cols
<1>1. r \in 1 .. 998 /\ k \in 1 .. 998
  BY WindowIs
<1>2. /\ n = 999 => Within(n, w.rows) = w.rows /\ Within(n, w.cols) = w.cols
      /\ n = 1 => Within(n, w.rows) = 1 /\ Within(n, w.cols) = 1
  <2> HIDE DEF r, k
  <2>1. Within(999, r) = r /\ Within(1, r) = 1
    BY <1>1, WithinIs
  <2>2. Within(999, k) = k /\ Within(1, k) = 1
    BY <1>1, WithinIs
  <2>3. CASE n = 1
    BY <2>1, <2>2, <2>3 DEF r, k
  <2>4. CASE n = 999
    BY <2>1, <2>2, <2>4 DEF r, k
  <2> QED BY <2>3, <2>4
<1>3. /\ Within(n, w.rows) \in {1} \cup {v.rows : v \in Windows}
      /\ Within(n, w.cols) \in {1} \cup {v.cols : v \in Windows}
  <2>1. CASE n = 1
    BY <1>2, <2>1
  <2>2. CASE n = 999
    BY <1>2, <2>2
  <2> QED BY <2>1, <2>2
<1>4. InWindow(n, n, w) = [row |-> Within(n, w.rows), col |-> Within(n, w.cols)]
  BY DEF InWindow
<1>5. InWindow(n, n, w) \in Cursors
  BY <1>3, <1>4 DEF Cursors
<1> QED BY <1>2, <1>4, <1>5

LEMMA SeenMore ==
    ASSUME NEW c, NEW h, NEW g, SeenIn(c, h), h \subseteq g
    PROVE  SeenIn(c, g)
BY DEF SeenIn

\* A report tells the place of the cursor.
LEMMA SameReport ==
    ASSUME NEW c \in Cursors, NEW d \in Cursors, ReportOf(c) = ReportOf(d)
    PROVE  c.row = d.row /\ c.col = d.col
<1>1. Position(c.row, c.col) = Position(d.row, d.col)
  BY ReportMeans
<1> QED BY <1>1 DEF Position

LEMMA FreshAppended ==
    ASSUME NEW s \in Seq(Bytes), EscBegins(s), NEW u \in Units, NEW h,
           \A j \in 1 .. Len(s), d \in Cursors : IsAt(ReportOf(d), s, j) => SeenIn(d, h),
           \A d \in Cursors : u = ReportOf(d) => SeenIn(d, h)
    PROVE  \A j \in 1 .. Len(s \o u), d \in Cursors :
               IsAt(ReportOf(d), s \o u, j) => SeenIn(d, h)
<1>1. Whole(u) /\ u \in Seq(Bytes) /\ Len(u) \in Nat \ {0}
  BY UnitWhole, WholeFinished
<1>2. Len(s) \in Nat /\ Len(s \o u) = Len(s) + Len(u)
  BY <1>1, Places
<1> SUFFICES ASSUME NEW j \in 1 .. Len(s \o u), NEW d \in Cursors, IsAt(ReportOf(d), s \o u, j)
             PROVE  SeenIn(d, h)
  OBVIOUS
<1>3. CASE j \in 1 .. Len(s)
  <2>1. IsAt(ReportOf(d), s, j)
    BY <1>1, <1>3, ReportUnit, AtBefore
  <2> QED BY <1>3, <2>1
<1>4. CASE j \notin 1 .. Len(s)
  <2> DEFINE i == j - Len(s)
  <2>1. i \in 1 .. Len(u) /\ j = Len(s) + i
    BY <1>1, <1>2, <1>4
  <2> HIDE DEF i
  <2>2. IsAt(ReportOf(d), u, i)
    BY <1>1, <2>1, ReportUnit, AtBehind
  <2>3. IsAt(u, u, 1)
    <3>1. \A k \in 1 .. Len(u) : 1 + k - 1 = k
      BY <1>1
    <3> QED BY <1>1, <3>1 DEF IsAt
  <2>4. u = ReportOf(d)
    BY <1>1, <2>1, <2>2, <2>3, ReportUnit, InUnit
  <2> QED BY <2>4
<1> QED BY <1>3, <1>4

\* What is typed or reported is behind what is unread.
LEMMA Arrives ==
    ASSUME DecoderInv, input \in Seq(Bytes), EscBegins(Unread), Begun,
           NEW u \in Units, input' = input \o u, UNCHANGED vars
    PROVE  /\ input' \in Seq(Bytes) /\ Unread \in Seq(Bytes)
           /\ Unread' = Unread \o u /\ EscBegins(Unread') /\ Begun'
<1>1. Whole(u) /\ u \in Seq(Bytes)
  BY UnitWhole, WholeFinished
<1>2. state' = state /\ run' = run
  BY DEF vars
<1>3. Pending \in Seq(Bytes) /\ Unread = Pending \o input /\ Unread \in Seq(Bytes)
  BY PendingType
<1>4. Unread' = Unread \o u
  <2>1. Unread' = Pending \o (input \o u)
    BY <1>2 DEF Unread, Pending
  <2>2. (Pending \o input) \o u = Pending \o (input \o u)
    BY <1>1, <1>3, ConcatAssociative
  <2> QED BY <1>3, <2>1, <2>2
<1>5. EscBegins(Unread')
  BY <1>3, <1>4, EscAppended
<1>6. ASSUME state # "IDLE", NEW v \in Units, IsAt(v, Unread', 1)
      PROVE  Len(run) < Len(v)
  <2>1. run \in Seq(Bytes) /\ run[1] = Esc /\ 1 \in 1 .. Len(run)
    BY <1>6, EscapeFirst
  <2>2. Unread = run \o input
    BY <1>6 DEF Unread
  <2>3. 1 \in 1 .. Len(Unread) /\ Unread[1] = Esc
    BY <2>1, <2>2, Places
  <2>4. 1 \in 1 .. Len(Unread \o u) /\ (Unread \o u)[1] = Esc
    <3>1. /\ Len(Unread) \in Nat /\ Len(u) \in Nat /\ Len(Unread \o u) = Len(Unread) + Len(u)
          /\ \A i \in 1 .. Len(Unread) : (Unread \o u)[i] = Unread[i]
      BY <1>1, <1>3, Places
    <3> QED BY <2>3, <3>1
  <2>5. Whole(v) /\ v[1] = Esc
    <3>1. 1 \in Nat /\ Whole(v)
      BY <1>6, UnitWhole
    <3>2. IsAt(v, Unread \o u, 1)
      BY <1>4, <1>6
    <3>3. (Unread \o u)[1] = v[1]
      <4> DEFINE t == Unread \o u
      <4>1. IsAt(v, t, 1)
        BY <3>2
      <4> HIDE DEF t
      <4>2. t[1] = v[1]
        BY <3>1, <4>1, FirstAt
      <4> QED BY <4>2 DEF t
    <3> QED BY <2>4, <3>1, <3>3
  <2>6. IsAt(v, Unread, 1)
    BY <1>1, <1>3, <1>4, <1>6, <2>3, <2>5, AtBefore
  <2> QED BY <1>6, <2>6 DEF Begun
<1>7. Begun'
  BY <1>2, <1>6 DEF Begun, Units, ReportBytes
<1>8. input' \in Seq(Bytes)
  BY <1>1, Places
<1> QED BY <1>3, <1>4, <1>5, <1>7, <1>8

LEMMA DecoderRests ==
    ASSUME DecoderInv, UNCHANGED vars
    PROVE  DecoderInv' /\ TypeOK'
<1>1. DecoderInv'
  BY StepDecoder
<1> QED BY <1>1 DEF DecoderInv
-----------------------------------------------------------------------------
(* Each step keeps it. *)

LEMMA InitQuery == QueryInit => QueryInv
<1> SUFFICES ASSUME QueryInit PROVE QueryInv
  OBVIOUS
<1>1. DecoderInv /\ TypeOK
  BY InitDecoder DEF QueryInit, DecoderInv
<1>2. /\ state = "IDLE" /\ input = << >> /\ output = << >> /\ yielding = FALSE
      /\ resize_state = "IDLE" /\ had = {} /\ unanswered = 0 /\ prior = 0
      /\ window \in Windows /\ cursor = [row |-> 1, col |-> 1]
  BY DEF QueryInit, Init
<1>3. cursor \in Cursors
  BY <1>2 DEF Cursors
<1>4. QueryTypeOK
  <2>1. 0 \in 0 .. MaxQueries
    BY SizeQueryAssumption
  <2>2. /\ output \in Seq({[op |-> "CUP", row |-> n, col |-> n] : n \in {1, 999}} \cup {[op |-> "DSR"]})
        /\ input \in Seq(Bytes)
    BY <1>2
  <2>3. had \subseteq Windows /\ yielding \in BOOLEAN /\ resize_state = IF yielding THEN "RX" ELSE "IDLE"
    BY <1>2
  <2>4. unanswered \in 0 .. MaxQueries /\ prior \in 0 .. MaxQueries
    BY <1>2, <2>1
  <2> QED BY <1>1, <1>2, <1>3, <2>2, <2>3, <2>4 DEF QueryTypeOK
<1>5. Unread = << >> /\ Len(Unread) = 0 /\ Unread \in Seq(Bytes)
  <2>1. Unread = << >> \o << >>
    BY <1>2 DEF Unread
  <2> QED BY <2>1
<1>6. EscBegins(Unread) /\ Begun
  BY <1>2, <1>5 DEF EscBegins, Begun
<1>7. Len(output) = 0 /\ output \in Seq(Sendable)
  BY <1>2
<1>8. Asked(output)
  BY <1>7 DEF Asked
<1>9. CountsAgree
  <2>1. Reports(Unread) = {}
    <3>1. Reports(Unread) \subseteq 1 .. 0
      BY <1>5 DEF Reports
    <3> QED BY <3>1
  <2>2. Requests(output) = {}
    <3>1. Requests(output) \subseteq 1 .. 0
      BY <1>7 DEF Requests
    <3> QED BY <3>1
  <2>3. Cardinality(Reports(Unread)) = 0 /\ Cardinality(Requests(output)) = 0
    BY <2>1, <2>2, FS_EmptySet
  <2> QED BY <1>2, <2>3 DEF CountsAgree, OnTheirWay
<1> QED BY <1>1, <1>2, <1>4, <1>6, <1>8, <1>9 DEF QueryInv, Waits, Fresh

\* What has arrived on the input line: a key, or the report of a request that
\* is not on the output line any more.
LEMMA CountsArrive ==
    ASSUME QueryInv, NEW u \in Units, Unread' = Unread \o u,
           output' \in Seq(Sendable),
           Cardinality(Requests(output)) =
               Cardinality(Requests(output')) + (IF u \in ReportBytes THEN 1 ELSE 0)
    PROVE  OnTheirWay' = OnTheirWay
<1>1. Unread \in Seq(Bytes) /\ EscBegins(Unread)
  BY QueryTypes, PendingType DEF QueryInv
<1>2. Cardinality(Reports(Unread')) =
          Cardinality(Reports(Unread)) + (IF u \in ReportBytes THEN 1 ELSE 0)
  BY <1>1, CountAppended
<1>3. /\ Cardinality(Reports(Unread)) \in Nat
      /\ Cardinality(Requests(output)) \in Nat /\ Cardinality(Requests(output')) \in Nat
  BY <1>1, QueryTypes, ReportsFinite, RequestsFinite
<1> DEFINE r == Cardinality(Reports(Unread))
           rr == Cardinality(Reports(Unread'))
           q == Cardinality(Requests(output))
           qq == Cardinality(Requests(output'))
<1>4. OnTheirWay = q + r /\ OnTheirWay' = qq + rr
  BY DEF OnTheirWay, Reports, Requests
<1> HIDE DEF r, rr, q, qq
<1>5. rr = r + (IF u \in ReportBytes THEN 1 ELSE 0) /\ q = qq + (IF u \in ReportBytes THEN 1 ELSE 0)
      /\ r \in Nat /\ q \in Nat /\ qq \in Nat
  BY <1>2, <1>3 DEF r, rr, q, qq
<1>6. CASE u \in ReportBytes
  BY <1>4, <1>5, <1>6
<1>7. CASE u \notin ReportBytes
  BY <1>4, <1>5, <1>7
<1> QED BY <1>6, <1>7

LEMMA KeyKeeps == QueryInv /\ TypeKey => QueryInv'
<1> SUFFICES ASSUME QueryInv, TypeKey PROVE QueryInv'
  OBVIOUS
<1>1. PICK u \in Typed : input' = input \o u
  BY DEF TypeKey
<1>2. UNCHANGED <<terminalVars, output, vars, shellVars, ghostVars>>
  BY DEF TypeKey
<1>3. UNCHANGED <<window, cursor, output, yielding, resize_state, size, had, unanswered, prior, heard>>
      /\ UNCHANGED vars
  BY <1>2 DEF terminalVars, shellVars, ghostVars, vars
<1>4. u \in Units /\ u \notin ReportBytes
  BY KeyIsNoReport DEF Units
<1>5. /\ DecoderInv /\ input \in Seq(Bytes) /\ EscBegins(Unread) /\ Begun /\ output \in Seq(Sendable)
  BY QueryTypes DEF QueryInv
<1>6. /\ input' \in Seq(Bytes) /\ Unread \in Seq(Bytes)
      /\ Unread' = Unread \o u /\ EscBegins(Unread') /\ Begun'
  BY <1>1, <1>3, <1>4, <1>5, Arrives
<1>7. DecoderInv' /\ TypeOK'
  BY <1>3, <1>5, DecoderRests
<1>8. QueryTypeOK'
  BY <1>3, <1>6, <1>7 DEF QueryInv, QueryTypeOK
<1>9. CountsAgree'
  <2>1. Cardinality(Requests(output)) \in Nat
    BY <1>5, RequestsFinite
  <2>2. /\ output' \in Seq(Sendable)
        /\ Cardinality(Requests(output)) =
               Cardinality(Requests(output')) + (IF u \in ReportBytes THEN 1 ELSE 0)
    BY <1>3, <1>4, <1>5, <2>1
  <2>3. OnTheirWay' = OnTheirWay
    BY <1>4, <1>6, <2>2, CountsArrive
  <2> QED BY <1>3, <2>3 DEF CountsAgree, QueryInv
<1>10. Fresh'
  <2> SUFFICES ASSUME yielding, prior = 0 PROVE FreshIn(Unread', output, cursor, had)
    BY <1>3 DEF Fresh
  <2>1. FreshIn(Unread, output, cursor, had)
    BY DEF QueryInv, Fresh
  <2>2. \A d \in Cursors : u # ReportOf(d)
    BY <1>4 DEF ReportBytes
  <2>3. \A j \in 1 .. Len(Unread \o u), d \in Cursors :
            IsAt(ReportOf(d), Unread \o u, j) => SeenIn(d, had)
    BY <1>4, <1>5, <1>6, <2>1, <2>2, FreshAppended DEF FreshIn
  <2> QED BY <1>6, <2>1, <2>3 DEF FreshIn
<1>11. EscBegins(Unread)' /\ Asked(output)' /\ Waits'
  BY <1>3, <1>6 DEF QueryInv, Asked, Waits
<1> QED BY <1>6, <1>7, <1>8, <1>9, <1>10, <1>11 DEF QueryInv

LEMMA WindowKeeps == QueryInv /\ ResizeWindow => QueryInv'
<1> SUFFICES ASSUME QueryInv, ResizeWindow PROVE QueryInv'
  OBVIOUS
<1>1. PICK w \in Windows : window' = w /\ cursor' = InWindow(cursor.row, cursor.col, w)
  BY DEF ResizeWindow
<1>2. /\ had' = had \cup {w}
      /\ UNCHANGED <<output, input, yielding, resize_state, size, unanswered, prior, state, run, heard>>
      /\ UNCHANGED vars
  BY <1>1 DEF ResizeWindow, shellVars, vars
<1>3. DecoderInv' /\ TypeOK'
  BY <1>2, DecoderRests DEF QueryInv
<1>4. /\ cursor \in Cursors /\ cursor' \in Cursors
      /\ cursor'.row \in {cursor.row, w.rows} /\ cursor'.col \in {cursor.col, w.cols}
  BY <1>1, QueryTypes, InCursors
<1>5. QueryTypeOK'
  BY <1>1, <1>2, <1>3, <1>4 DEF QueryInv, QueryTypeOK
<1>6. Unread' = Unread
  BY <1>2 DEF Unread
<1>7. EscBegins(Unread)' /\ Begun' /\ Asked(output)'
  <2>1. EscBegins(Unread') /\ Asked(output')
    BY <1>2, <1>6 DEF QueryInv
  <2>2. Begun'
    BY <1>2, <1>6 DEF QueryInv, Begun, Units, ReportBytes
  <2> QED BY <2>1, <2>2
<1>8. CountsAgree'
  BY <1>2, <1>6 DEF QueryInv, CountsAgree, OnTheirWay
<1>9. Waits'
  BY <1>1, <1>2 DEF QueryInv, Waits
<1>10. Fresh'
  <2> SUFFICES ASSUME yielding, prior = 0 PROVE FreshIn(Unread, output, cursor', had')
    BY <1>2, <1>6 DEF Fresh
  <2>1. FreshIn(Unread, output, cursor, had)
    BY DEF QueryInv, Fresh
  <2>2. \A c : SeenIn(c, had) => SeenIn(c, had')
    BY <1>2, SeenMore
  <2>3. SeenIn(cursor, had) => SeenIn(cursor', had')
    BY <1>2, <1>4 DEF SeenIn
  <2> QED BY <2>1, <2>2, <2>3 DEF FreshIn
<1> QED BY <1>3, <1>5, <1>7, <1>8, <1>9, <1>10 DEF QueryInv

LEMMA MoveKeeps == QueryInv /\ MoveCursor => QueryInv'
<1> SUFFICES ASSUME QueryInv, MoveCursor PROVE QueryInv'
  OBVIOUS
<1>1. /\ output # << >> /\ Head(output).op = "CUP" /\ output' = Tail(output)
      /\ cursor' = InWindow(Head(output).row, Head(output).col, window)
      /\ UNCHANGED <<window, input, yielding, resize_state, size, had, unanswered, prior, state, run, heard>>
      /\ UNCHANGED vars
  BY DEF MoveCursor, shellVars, ghostVars, vars
<1>2. /\ output \in Seq(Sendable) /\ output' \in Seq(Sendable) /\ Head(output) \in Sendable
  BY <1>1, QueryTypes, HeadTailProperties
<1>3. DecoderInv' /\ TypeOK'
  BY <1>1, DecoderRests DEF QueryInv
<1>4. PICK n \in {1, 999} : Head(output) = Cup(n)
  <2>1. Head(output) # Dsr
    BY <1>1, SendableIs
  <2> QED BY <1>2, <2>1, SendableIs
<1>5. /\ cursor' = InWindow(n, n, window) /\ window \in Windows /\ cursor' \in Cursors
      /\ n = 999 => cursor' = [row |-> window.rows, col |-> window.cols]
  BY <1>1, <1>4, QueryTypes, SentTo DEF Cup
<1>6. QueryTypeOK'
  BY <1>1, <1>2, <1>3, <1>5 DEF QueryInv, QueryTypeOK, Sendable
<1>7. Unread' = Unread
  BY <1>1 DEF Unread
<1>8. Asked(output') /\ (output' # << >> /\ output'[1].op = "DSR" => Head(output) = Cup(999))
  BY <1>1, <1>2, AskedTail DEF QueryInv
<1>9. EscBegins(Unread)' /\ Begun' /\ Asked(output)'
  <2>1. EscBegins(Unread')
    BY <1>7 DEF QueryInv
  <2>2. Begun'
    BY <1>1, <1>7 DEF QueryInv, Begun, Units, ReportBytes
  <2> QED BY <1>8, <2>1, <2>2
<1>10. CountsAgree'
  <2>1. Cardinality(Requests(output)) = Cardinality(Requests(output')) + 0
    <3>1. Head(output).op # "DSR"
      BY <1>1
    <3> QED BY <1>1, <1>2, <3>1, RequestsTail
  <2>2. Cardinality(Requests(output')) \in Nat
    BY <1>2, RequestsFinite
  <2>3. Cardinality(Requests(output)) = Cardinality(Requests(output'))
    BY <2>1, <2>2
  <2> QED BY <1>1, <1>7, <2>3 DEF QueryInv, CountsAgree, OnTheirWay
<1>11. Waits'
  BY <1>1 DEF QueryInv, Waits
<1>12. Fresh'
  <2> SUFFICES ASSUME yielding, prior = 0 PROVE FreshIn(Unread, output', cursor', had)
    BY <1>1, <1>7 DEF Fresh
  <2>1. FreshIn(Unread, output, cursor, had) /\ window \in had
    BY DEF QueryInv, Fresh, Waits
  <2>2. ASSUME output' # << >>, output'[1].op = "DSR" PROVE SeenIn(cursor', had)
    <3>1. Cup(n) = Cup(999)
      BY <1>4, <1>8, <2>2
    <3>2. n = 999
      <4>1. Cup(n).row = Cup(999).row
        BY <3>1
      <4> QED BY <4>1 DEF Cup
    <3>3. cursor'.row = window.rows /\ cursor'.col = window.cols
      BY <1>5, <3>2
    <3> QED BY <2>1, <3>3 DEF SeenIn
  <2> QED BY <2>1, <2>2 DEF FreshIn
<1> QED BY <1>3, <1>6, <1>9, <1>10, <1>11, <1>12 DEF QueryInv

LEMMA ReportKeeps == QueryInv /\ SendReport => QueryInv'
<1> SUFFICES ASSUME QueryInv, SendReport PROVE QueryInv'
  OBVIOUS
<1> DEFINE u == ReportOf(cursor)
<1>1. /\ output # << >> /\ Head(output).op = "DSR" /\ output' = Tail(output)
      /\ input' = input \o u
      /\ UNCHANGED <<window, cursor, yielding, resize_state, size, had, unanswered, prior, state, run, heard>>
      /\ UNCHANGED vars
  BY DEF SendReport, terminalVars, shellVars, ghostVars, vars
<1>2. /\ output \in Seq(Sendable) /\ output' \in Seq(Sendable) /\ Head(output) \in Sendable
      /\ Head(output) = output[1] /\ cursor \in Cursors
  BY <1>1, QueryTypes, HeadTailProperties
<1>3. u \in Units /\ u \in ReportBytes
  BY <1>2, ReportUnit
<1>4. DecoderInv /\ input \in Seq(Bytes) /\ EscBegins(Unread) /\ Begun /\ Asked(output)
  BY QueryTypes DEF QueryInv
<1> HIDE DEF u
<1>5. /\ input' \in Seq(Bytes) /\ Unread \in Seq(Bytes)
      /\ Unread' = Unread \o u /\ EscBegins(Unread') /\ Begun'
  BY <1>1, <1>3, <1>4, Arrives
<1>6. DecoderInv' /\ TypeOK'
  BY <1>1, <1>4, DecoderRests
<1>7. QueryTypeOK'
  BY <1>1, <1>2, <1>5, <1>6 DEF QueryInv, QueryTypeOK, Sendable
<1>8. CountsAgree'
  <2>1. Cardinality(Requests(output)) = Cardinality(Requests(output')) + 1
    BY <1>1, <1>2, RequestsTail
  <2>2. OnTheirWay' = OnTheirWay
    BY <1>2, <1>3, <1>5, <2>1, CountsArrive
  <2> QED BY <1>1, <2>2 DEF CountsAgree, QueryInv
<1>9. Asked(output') /\ ~(output' # << >> /\ output'[1].op = "DSR")
  <2>1. Head(output) # Cup(999)
    BY <1>1, SendableIs
  <2>2. Asked(output') /\ (output' # << >> /\ output'[1].op = "DSR" => Head(output) = Cup(999))
    BY <1>1, <1>2, <1>4, AskedTail
  <2> QED BY <2>1, <2>2
<1>10. Fresh'
  <2> SUFFICES ASSUME yielding, prior = 0 PROVE FreshIn(Unread', output', cursor, had)
    BY <1>1 DEF Fresh
  <2>1. FreshIn(Unread, output, cursor, had)
    BY DEF QueryInv, Fresh
  <2>2. SeenIn(cursor, had)
    BY <1>1, <1>2, <2>1 DEF FreshIn
  <2>3. \A d \in Cursors : u = ReportOf(d) => SeenIn(d, had)
    <3>1. \A d \in Cursors : u = ReportOf(d) => d.row = cursor.row /\ d.col = cursor.col
      BY <1>2, SameReport DEF u
    <3> QED BY <2>2, <3>1 DEF SeenIn
  <2>4. \A j \in 1 .. Len(Unread \o u), d \in Cursors :
            IsAt(ReportOf(d), Unread \o u, j) => SeenIn(d, had)
    BY <1>3, <1>4, <1>5, <2>1, <2>3, FreshAppended DEF FreshIn
  <2> QED BY <1>5, <1>9, <2>4 DEF FreshIn
<1>11. EscBegins(Unread)' /\ Asked(output)' /\ Waits'
  BY <1>1, <1>5, <1>9 DEF QueryInv, Waits
<1> QED BY <1>5, <1>6, <1>7, <1>8, <1>10, <1>11 DEF QueryInv

LEMMA StutterKeeps == QueryInv /\ UNCHANGED queryVars => QueryInv'
<1> SUFFICES ASSUME QueryInv, UNCHANGED queryVars PROVE QueryInv'
  OBVIOUS
<1>1. /\ UNCHANGED <<window, cursor, output, input, yielding, resize_state, size, had, unanswered,
                     prior, state, run, heard>>
      /\ UNCHANGED vars
  BY DEF queryVars, terminalVars, shellVars, ghostVars, vars
<1>2. DecoderInv' /\ TypeOK'
  BY <1>1, DecoderRests DEF QueryInv
<1>3. QueryTypeOK'
  BY <1>1, <1>2 DEF QueryInv, QueryTypeOK
<1>4. Unread' = Unread
  BY <1>1 DEF Unread
<1>5. EscBegins(Unread') /\ Asked(output') /\ Begun'
  <2>1. EscBegins(Unread') /\ Asked(output')
    BY <1>1, <1>4 DEF QueryInv
  <2>2. Begun'
    BY <1>1, <1>4 DEF QueryInv, Begun, Units, ReportBytes
  <2> QED BY <2>1, <2>2
<1>6. CountsAgree'
  BY <1>1, <1>4 DEF QueryInv, CountsAgree, OnTheirWay
<1>7. Waits' /\ Fresh'
  BY <1>1, <1>4 DEF QueryInv, Waits, Fresh
<1> QED BY <1>2, <1>3, <1>5, <1>6, <1>7 DEF QueryInv
\* What a byte that is read changes of what has come.
LEMMA ByteOutcome ==
    ASSUME QueryInv, Decodes
    PROVE  /\ DecoderInv' /\ input' \in Seq(Bytes) /\ Unread' \in Seq(Bytes)
           /\ EscBegins(Unread)' /\ Begun'
           /\ window' = window /\ cursor' = cursor
           /\ IsReport => \E c \in Cursors : /\ heard' = Position(c.row, c.col)
                                             /\ IsAt(ReportOf(c), Unread, 1)
                                             /\ 1 \in 1 .. Len(Unread)
           /\ Cardinality(Reports(Unread)) =
                  Cardinality(Reports(Unread')) + (IF IsReport THEN 1 ELSE 0)
           /\ \A h : (\A j \in 1 .. Len(Unread), d \in Cursors :
                          IsAt(ReportOf(d), Unread, j) => SeenIn(d, h))
                     => \A j \in 1 .. Len(Unread'), d \in Cursors :
                          IsAt(ReportOf(d), Unread', j) => SeenIn(d, h)
<1>1. /\ DecoderInv /\ input \in Seq(Bytes) /\ EscBegins(Unread) /\ Begun
      /\ Unread \in Seq(Bytes)
  BY QueryTypes, PendingType DEF QueryInv
<1>2. /\ DecoderInv' /\ input' \in Seq(Bytes)
      /\ EscBegins(Unread)' /\ Begun'
      /\ \/ Unread' = Unread /\ heard' = Nothing
         \/ \E r : UnitRead(r)
  BY <1>1, ByteRead
<1>3. Unread' \in Seq(Bytes)
  <2>1. (DecoderInv /\ input \in Seq(Bytes) => Unread \in Seq(Bytes))'
    BY PendingTyped, PTL
  <2> QED BY <1>2, <2>1
<1>4. window' = window /\ cursor' = cursor
  BY DEF Decodes, terminalVars
<1>5. CASE Unread' = Unread /\ heard' = Nothing
  <2>1. ~IsReport
    BY <1>5 DEF IsReport, Nothing
  <2>2. Cardinality(Reports(Unread)) \in Nat /\ Reports(Unread') = Reports(Unread)
    BY <1>1, <1>5, ReportsFinite
  <2> QED BY <1>2, <1>3, <1>4, <1>5, <2>1, <2>2
<1>6. CASE \E r : UnitRead(r)
  <2>1. PICK r : UnitRead(r)
    BY <1>6
  <2>2. /\ Whole(r) /\ r \in Seq(Bytes) /\ Len(r) \in Nat \ {0}
        /\ Unread = r \o Unread' /\ heard' = Sent!Meaning(r)
        /\ IsReport <=> r \in ReportBytes
    BY <2>1, WholeFinished DEF UnitRead, IsReport
  <2>3. Cardinality(Reports(r \o Unread')) =
            Cardinality(Reports(Unread')) + (IF r \in ReportBytes THEN 1 ELSE 0)
    BY <1>3, <2>2, CountBehind
  <2>4. Len(Unread') \in Nat /\ Len(Unread) = Len(r) + Len(Unread')
    BY <1>3, <2>2, Places
  <2>5. ASSUME IsReport
        PROVE  \E c \in Cursors : /\ heard' = Position(c.row, c.col)
                                  /\ IsAt(ReportOf(c), Unread, 1)
                                  /\ 1 \in 1 .. Len(Unread)
    <3>1. PICK c \in Cursors : r = ReportOf(c)
      BY <2>2, <2>5 DEF ReportBytes
    <3>2. heard' = Position(c.row, c.col)
      BY <2>2, <3>1, ReportMeans
    <3>3. IsAt(r, Unread, 1)
      BY <1>3, <2>2, AtFront
    <3>4. 1 \in 1 .. Len(Unread)
      BY <2>2, <2>4
    <3> QED BY <3>1, <3>2, <3>3, <3>4
  <2>6. ASSUME NEW h, \A j \in 1 .. Len(Unread), d \in Cursors :
                          IsAt(ReportOf(d), Unread, j) => SeenIn(d, h),
               NEW j \in 1 .. Len(Unread'), NEW d \in Cursors, IsAt(ReportOf(d), Unread', j)
        PROVE  SeenIn(d, h)
    <3>1. ReportOf(d) \in Seq(Bytes)
      BY ReportUnit
    <3>2. IsAt(ReportOf(d), Unread, Len(r) + j)
      BY <1>3, <2>2, <2>6, <3>1, AtBehind
    <3>3. Len(r) + j \in 1 .. Len(Unread)
      BY <2>2, <2>4
    <3> QED BY <2>6, <3>2, <3>3
  <2>7. Cardinality(Reports(Unread)) =
            Cardinality(Reports(Unread')) + (IF IsReport THEN 1 ELSE 0)
    BY <2>2, <2>3
  <2> QED BY <1>2, <1>3, <1>4, <2>5, <2>6, <2>7
<1> QED BY <1>2, <1>5, <1>6

\* The count of the queries is that of their answers again.
LEMMA CountsTurn ==
    ASSUME QueryInv, Decodes, NEW asked \in {0, 1}, Counts(asked),
           output' \in Seq(Sendable),
           Cardinality(Requests(output')) = Cardinality(Requests(output)) + asked
    PROVE  /\ CountsAgree'
           /\ unanswered' = unanswered - (IF IsReport THEN 1 ELSE 0) + asked
           /\ unanswered - (IF IsReport THEN 1 ELSE 0) \in 0 .. MaxQueries
<1> DEFINE r == Cardinality(Reports(Unread))
           rr == Cardinality(Reports(Unread'))
           q == Cardinality(Requests(output))
           qq == Cardinality(Requests(output'))
<1>1. r = rr + (IF IsReport THEN 1 ELSE 0) /\ qq = q + asked
  BY ByteOutcome
<1>2. r \in Nat /\ rr \in Nat /\ q \in Nat /\ qq \in Nat
  <2>1. Unread \in Seq(Bytes) /\ Unread' \in Seq(Bytes)
    BY QueryTypes, PendingType, ByteOutcome DEF QueryInv
  <2> QED BY <2>1, QueryTypes, ReportsFinite, RequestsFinite
<1>3. OnTheirWay = q + r /\ OnTheirWay' = qq + rr
  BY DEF OnTheirWay, Reports, Requests
<1>4. unanswered = OnTheirWay /\ unanswered \in 0 .. MaxQueries /\ MaxQueries \in Nat
  BY QueryTypes DEF QueryInv, CountsAgree
<1>5. unanswered' = (IF IsReport /\ unanswered > 0 THEN unanswered - 1 ELSE unanswered) + asked
  BY DEF Counts
<1> HIDE DEF r, rr, q, qq
<1>6. CASE IsReport
  <2>1. unanswered = q + rr + 1 /\ unanswered > 0
    BY <1>1, <1>2, <1>3, <1>4, <1>6
  <2>2. unanswered' = unanswered - 1 + asked
    BY <1>5, <1>6, <2>1
  <2>3. unanswered' = OnTheirWay'
    BY <1>1, <1>2, <1>3, <2>1, <2>2
  <2> QED BY <1>4, <1>6, <2>1, <2>2, <2>3 DEF CountsAgree
<1>7. CASE ~IsReport
  <2>1. unanswered = q + rr /\ unanswered' = unanswered + asked
    BY <1>1, <1>2, <1>3, <1>4, <1>5, <1>7
  <2>2. unanswered' = OnTheirWay'
    BY <1>1, <1>2, <1>3, <2>1
  <2>3. unanswered - 0 = unanswered
    BY <1>4
  <2> QED BY <1>4, <1>7, <2>1, <2>2, <2>3 DEF CountsAgree
<1> QED BY <1>6, <1>7

LEMMA QueryTyped ==
    ASSUME QueryInv, Decodes, output' \in Seq(Sendable), yielding' \in BOOLEAN,
           resize_state' = (IF yielding' THEN "RX" ELSE "IDLE"), had' \subseteq Windows,
           unanswered' \in 0 .. MaxQueries, prior' \in 0 .. MaxQueries
    PROVE  QueryTypeOK'
<1>1. /\ DecoderInv' /\ input' \in Seq(Bytes) /\ window' = window /\ cursor' = cursor
  BY ByteOutcome
<1>2. TypeOK' /\ window \in Windows /\ cursor \in Cursors
  BY <1>1, QueryTypes DEF DecoderInv
<1> QED BY <1>1, <1>2 DEF QueryTypeOK, Sendable

\* A byte after which no query is under way, whatever has been sent.
LEMMA NoQueryKeeps ==
    ASSUME QueryInv, Decodes, Counts(0), output' \in Seq(Sendable), Asked(output'),
           Cardinality(Requests(output')) = Cardinality(Requests(output)),
           yielding' = FALSE, resize_state' = "IDLE", UNCHANGED <<had, prior>>
    PROVE  QueryInv'
<1>1. /\ DecoderInv' /\ EscBegins(Unread)' /\ Begun'
  BY ByteOutcome
<1>2. CountsAgree' /\ unanswered' \in 0 .. MaxQueries
  <2>1. Cardinality(Requests(output)) \in Nat /\ output \in Seq(Sendable)
    BY QueryTypes, RequestsFinite
  <2>2. Cardinality(Requests(output')) = Cardinality(Requests(output)) + 0
    BY <2>1
  <2>3. /\ CountsAgree'
        /\ unanswered' = unanswered - (IF IsReport THEN 1 ELSE 0) + 0
        /\ unanswered - (IF IsReport THEN 1 ELSE 0) \in 0 .. MaxQueries
    BY <2>2, CountsTurn
  <2> DEFINE k == unanswered - (IF IsReport THEN 1 ELSE 0)
  <2> HIDE DEF k
  <2>4. unanswered' = k + 0 /\ k \in 0 .. MaxQueries
    BY <2>3 DEF k
  <2> QED BY <2>3, <2>4
<1>3. QueryTypeOK'
  BY <1>2, QueryTypes, QueryTyped
<1>4. Waits' /\ Fresh'
  BY DEF Waits, Fresh
<1> QED BY <1>1, <1>2, <1>3, <1>4 DEF QueryInv

\* A byte that the shell does nothing about.
LEMMA NobodyKeeps ==
    ASSUME QueryInv, Decodes, Nobody, yielding => ~IsReport
    PROVE  QueryInv'
<1>1. /\ Counts(0) /\ UNCHANGED <<output, yielding, resize_state, had, prior>>
      /\ output \in Seq(Sendable) /\ Asked(output) /\ yielding \in BOOLEAN
      /\ resize_state = IF yielding THEN "RX" ELSE "IDLE"
  BY QueryTypes DEF Nobody, shellVars, QueryInv
<1>2. CASE ~yielding
  <2>1. output' \in Seq(Sendable) /\ Asked(output') /\ yielding' = FALSE /\ resize_state' = "IDLE"
        /\ Cardinality(Requests(output')) = Cardinality(Requests(output))
    BY <1>1, <1>2
  <2> QED BY <1>1, <2>1, NoQueryKeeps
<1>3. CASE yielding
  <2>1. /\ DecoderInv' /\ EscBegins(Unread)' /\ Begun' /\ window' = window /\ cursor' = cursor
    BY ByteOutcome
  <2>2. CountsAgree' /\ unanswered' = unanswered
    <3>1. Cardinality(Requests(output)) \in Nat /\ unanswered \in Nat
      BY <1>1, QueryTypes, RequestsFinite
    <3>2. Cardinality(Requests(output')) = Cardinality(Requests(output)) + 0 /\ output' \in Seq(Sendable)
      BY <1>1, <3>1
    <3>3. CountsAgree' /\ unanswered' = unanswered - (IF IsReport THEN 1 ELSE 0) + 0
      BY <1>1, <3>2, CountsTurn
    <3> QED BY <1>3, <3>1, <3>3
  <2>3. QueryTypeOK'
    BY <1>1, <2>2, QueryTypes, QueryTyped
  <2>4. Waits'
    BY <1>1, <1>3, <2>1, <2>2 DEF Waits, QueryInv, IsReport
  <2>5. Fresh'
    <3> SUFFICES ASSUME prior = 0 PROVE FreshIn(Unread', output, cursor, had)
      BY <1>1, <2>1 DEF Fresh
    <3>1. FreshIn(Unread, output, cursor, had)
      BY <1>3 DEF QueryInv, Fresh
    <3>2. \A j \in 1 .. Len(Unread'), d \in Cursors :
              IsAt(ReportOf(d), Unread', j) => SeenIn(d, had)
      BY <3>1, ByteOutcome DEF FreshIn
    <3> QED BY <3>1, <3>2 DEF FreshIn
  <2> QED BY <1>1, <2>1, <2>2, <2>3, <2>4, <2>5 DEF QueryInv
<1> QED BY <1>2, <1>3

LEMMA StartKeeps == QueryInv /\ StartQuery => QueryInv'
<1> SUFFICES ASSUME QueryInv, StartQuery PROVE QueryInv'
  OBVIOUS
<1>1. /\ Decodes /\ heard'.type = "CR" /\ unanswered < MaxQueries
      /\ output' = output \o Asks /\ resize_state' = "RX" /\ yielding' = TRUE
      /\ had' = {window} /\ prior' = unanswered /\ Counts(1)
  BY DEF StartQuery, AskSize
<1>2. /\ output \in Seq(Sendable) /\ Len(output) \in Nat /\ window \in Windows /\ Asked(output)
      /\ unanswered \in 0 .. MaxQueries /\ MaxQueries \in Nat
  BY QueryTypes DEF QueryInv
<1> DEFINE o == Append(output, Cup(999))
<1>3. output' = Append(o, Dsr)
  <2>1. output' = output \o (<<Cup(999)>> \o <<Dsr>>)
    <3>1. PutCup(999, 999) = <<Cup(999)>> /\ PutDsr = <<Dsr>>
      BY Commands
    <3>2. Asks = PutCup(999, 999) \o PutDsr
      BY Zenon DEF Asks
    <3>3. Asks = <<Cup(999)>> \o <<Dsr>>
      BY <3>1, <3>2
    <3>4. output' = output \o Asks
      BY <1>1
    <3> QED BY <3>3, <3>4
  <2> QED BY <1>2, <2>1, SendableIs, TwoMore
<1>4. /\ o \in Seq(Sendable) /\ Len(o) = Len(output) + 1 /\ o[Len(output) + 1] = Cup(999)
      /\ \A i \in 1 .. Len(output) : o[i] = output[i]
  BY <1>2, SendableIs, Appended
<1>5. Asked(o) /\ Cardinality(Requests(o)) = Cardinality(Requests(output)) + 0
  <2>1. Cup(999) \in Sendable /\ Cup(999).op # "DSR"
    BY SendableIs
  <2> QED BY <1>2, <2>1, AskedAppended, RequestsAppended
<1> HIDE DEF o
<1>6. /\ output' \in Seq(Sendable) /\ Len(output') = Len(o) + 1
      /\ \A i \in 1 .. Len(o) : output'[i] = o[i]
  BY <1>3, <1>4, SendableIs, Appended
<1>7. Asked(output') /\ Cardinality(Requests(output')) = Cardinality(Requests(o)) + 1
  <2>1. Dsr \in Sendable /\ Dsr.op = "DSR" /\ Len(o) > 0 /\ o[Len(o)] = Cup(999)
    BY <1>2, <1>4, SendableIs
  <2> QED BY <1>3, <1>4, <1>5, <2>1, AskedAppended, RequestsAppended
<1>8. Cardinality(Requests(output')) = Cardinality(Requests(output)) + 1
  <2>1. Cardinality(Requests(output)) \in Nat
    BY <1>2, RequestsFinite
  <2> QED BY <1>5, <1>7, <2>1
<1>9. /\ DecoderInv' /\ EscBegins(Unread)' /\ Begun' /\ window' = window /\ cursor' = cursor
  BY <1>1, ByteOutcome
<1>10. ~IsReport
  BY <1>1 DEF IsReport
<1>11. CountsAgree' /\ unanswered' = unanswered + 1
  <2>1. CountsAgree' /\ unanswered' = unanswered - (IF IsReport THEN 1 ELSE 0) + 1
    BY <1>1, <1>6, <1>8, CountsTurn
  <2> QED BY <1>2, <1>10, <2>1
<1>12. QueryTypeOK'
  <2>1. unanswered' \in 0 .. MaxQueries /\ prior' \in 0 .. MaxQueries
    BY <1>1, <1>2, <1>11
  <2>2. yielding' \in BOOLEAN /\ resize_state' = (IF yielding' THEN "RX" ELSE "IDLE") /\ had' \subseteq Windows
    BY <1>1, <1>2
  <2> QED BY <1>1, <1>6, <2>1, <2>2, QueryTyped
<1>13. Waits'
  BY <1>1, <1>9, <1>11 DEF Waits
<1>14. Fresh'
  <2> SUFFICES ASSUME unanswered = 0 PROVE FreshIn(Unread', output', cursor', had')
    BY <1>1 DEF Fresh
  <2> DEFINE r == Cardinality(Reports(Unread))
             rr == Cardinality(Reports(Unread'))
             q == Cardinality(Requests(output))
  <2>1. r \in Nat /\ rr \in Nat /\ q \in Nat /\ Unread' \in Seq(Bytes) /\ Unread \in Seq(Bytes)
    <3>1. Unread \in Seq(Bytes) /\ Unread' \in Seq(Bytes)
      BY <1>1, QueryTypes, PendingType, ByteOutcome DEF QueryInv
    <3> QED BY <1>2, <3>1, ReportsFinite, RequestsFinite
  <2>2. unanswered = q + r
    BY DEF QueryInv, CountsAgree, OnTheirWay
  <2>3. r = rr + 0
    BY <1>1, <1>10, ByteOutcome
  <2>4. rr = 0 /\ q = 0
    <3> HIDE DEF r, rr, q
    <3> QED BY <2>1, <2>2, <2>3
  <2>5. Reports(Unread') = {} /\ Requests(output) = {}
    BY <1>2, <2>1, <2>4, ReportsFinite, RequestsFinite, FS_EmptySet
  <2>6. ASSUME NEW j \in 1 .. Len(Unread'), NEW d \in Cursors, IsAt(ReportOf(d), Unread', j)
        PROVE  FALSE
    <3>1. j \in Reports(Unread')
      BY <2>6 DEF Reports
    <3> QED BY <2>5, <3>1
  <2>7. output'[1].op # "DSR"
    <3>1. CASE Len(output) = 0
      <4>1. 1 \in 1 .. Len(o) /\ output'[1] = Cup(999)
        BY <1>4, <1>6, <3>1
      <4> QED BY <4>1, SendableIs
    <3>2. CASE Len(output) # 0
      <4>1. 1 \in 1 .. Len(output) /\ 1 \in 1 .. Len(o) /\ output'[1] = output[1]
        BY <1>2, <1>4, <1>6, <3>2
      <4>2. 1 \notin Requests(output)
        BY <2>5
      <4> QED BY <4>1, <4>2 DEF Requests
    <3> QED BY <3>1, <3>2
  <2> QED BY <2>6, <2>7 DEF FreshIn
<1> QED BY <1>7, <1>9, <1>11, <1>12, <1>13, <1>14 DEF QueryInv

LEMMA LearnKeeps == QueryInv /\ LearnSize => QueryInv'
<1> SUFFICES ASSUME QueryInv, LearnSize PROVE QueryInv'
  OBVIOUS
<1>1. /\ Decodes /\ output' = output \o PutCup(1, 1) /\ Counts(0)
      /\ yielding' = FALSE /\ resize_state' = "IDLE" /\ UNCHANGED <<had, prior>>
  BY DEF LearnSize
<1>2. output \in Seq(Sendable) /\ Asked(output) /\ Cardinality(Requests(output)) \in Nat
  BY QueryTypes, RequestsFinite DEF QueryInv
<1>3. output' = Append(output, Cup(1)) /\ Cup(1) \in Sendable /\ Cup(1).op # "DSR"
  <2>1. PutCup(1, 1) = <<Cup(1)>>
    BY Commands
  <2>2. Cup(1) \in Sendable /\ Cup(1).op # "DSR"
    BY SendableIs
  <2>3. output \o <<Cup(1)>> = Append(output, Cup(1))
    BY <1>2, <2>2, OneMore
  <2> QED BY <1>1, <2>1, <2>2, <2>3, Zenon
<1>4. /\ output' \in Seq(Sendable) /\ Asked(output')
      /\ Cardinality(Requests(output')) = Cardinality(Requests(output)) + 0
  BY <1>2, <1>3, Appended, AskedAppended, RequestsAppended
<1>5. Cardinality(Requests(output')) = Cardinality(Requests(output))
  BY <1>2, <1>4
<1> QED BY <1>1, <1>2, <1>4, <1>5, NoQueryKeeps

LEMMA StepQuery == QueryInv /\ [QueryNext]_queryVars => QueryInv'
<1> SUFFICES ASSUME QueryInv, [QueryNext]_queryVars PROVE QueryInv'
  OBVIOUS
<1>1. CASE PartialByte
  BY <1>1, NobodyKeeps DEF PartialByte, IsReport
<1>2. CASE OnLine
  BY <1>2, NobodyKeeps DEF OnLine
<1>3. CASE Interrupt
  <2>1. /\ Decodes /\ Counts(0) /\ output' = output /\ yielding' = FALSE /\ resize_state' = "IDLE"
        /\ UNCHANGED <<had, prior>> /\ output \in Seq(Sendable) /\ Asked(output)
    BY <1>3, QueryTypes DEF Interrupt, QueryInv
  <2> QED BY <2>1, NoQueryKeeps
<1>4. CASE Wait
  BY <1>4, NobodyKeeps DEF Wait, IsReport
<1> QED BY <1>1, <1>2, <1>3, <1>4, KeyKeeps, WindowKeeps, MoveKeeps, ReportKeeps, StutterKeeps,
           StartKeeps, LearnKeeps DEF QueryNext, Obeys, ProcessByte

-----------------------------------------------------------------------------
\* Every state of a size query is well typed, the decoder's state too.
THEOREM QueryTypeCorrect == QuerySpec => []QueryTypeOK
<1>1. QueryInv => QueryTypeOK
  BY DEF QueryInv
<1> QED BY InitQuery, StepQuery, <1>1, PTL DEF QuerySpec

\* Every query that was asked and is not answered has a request or a report on
\* its way, whatever is typed around it and however often queries are
\* interrupted: for every set of keys and of windows, and any number of queries.
THEOREM ReportsKept == QuerySpec => []NoReportLost
<1>1. QueryInv => NoReportLost
  <2> SUFFICES ASSUME QueryInv PROVE NoReportLost
    OBVIOUS
  <2>1. unanswered = OnTheirWay
    BY DEF QueryInv, CountsAgree
  <2>2. yielding => unanswered = prior + 1 /\ prior \in Nat
    BY QueryTypes DEF QueryInv, Waits
  <2> QED BY <2>1, <2>2 DEF NoReportLost
<1> QED BY InitQuery, StepQuery, <1>1, PTL DEF QuerySpec

\* A report is only heard while a query is under way when cmd_resize reads it.
LEMMA HeardOnce ==
    ASSUME QueryInv, [QueryNext]_queryVars, yielding, IsReport
    PROVE  LearnSize
<1>1. heard.type # "CPR"
  BY DEF QueryInv, Waits
<1>2. heard' # heard
  BY <1>1 DEF IsReport
<1>3. ~UNCHANGED queryVars /\ ~TypeKey /\ ~ResizeWindow /\ ~Obeys
  BY <1>2 DEF queryVars, TypeKey, ResizeWindow, Obeys, MoveCursor, SendReport, vars
<1> QED BY <1>3 DEF QueryNext, ProcessByte, PartialByte, StartQuery, OnLine, Interrupt, Wait, IsReport

\* What a query learns are rows and columns that the window had while the query
\* was under way, unless an interrupted one still has a report to come: for
\* every window, every set of keys and every number that the decoder can read.
THEOREM SizeLearnt == QuerySpec => LearnsTheSize
<1>1. ASSUME QueryInv, [QueryNext]_queryVars, yielding, IsReport, prior = 0
      PROVE  size'.rows \in {w.rows : w \in had} /\ size'.cols \in {w.cols : w \in had}
  <2>1. Decodes /\ size' = [rows |-> heard'.row, cols |-> heard'.col]
    BY <1>1, HeardOnce DEF LearnSize
  <2>2. PICK c \in Cursors : /\ heard' = Position(c.row, c.col)
                             /\ IsAt(ReportOf(c), Unread, 1) /\ 1 \in 1 .. Len(Unread)
    BY <1>1, <2>1, ByteOutcome
  <2>3. SeenIn(c, had)
    BY <1>1, <2>2 DEF QueryInv, Fresh, FreshIn
  <2>4. size'.rows = c.row /\ size'.cols = c.col
    BY <2>1, <2>2 DEF Position
  <2> QED BY <2>3, <2>4 DEF SeenIn
<1>2. QueryInv /\ [QueryNext]_queryVars =>
          [yielding /\ IsReport /\ prior = 0 =>
              /\ size'.rows \in {w.rows : w \in had}
              /\ size'.cols \in {w.cols : w \in had}]_queryVars
  BY <1>1
<1> QED BY InitQuery, StepQuery, <1>2, PTL DEF QuerySpec, LearnsTheSize
==============================================================================
