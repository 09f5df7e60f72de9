------------------------------ MODULE Tokenizer ------------------------------
(***************************************************************************)
(* Lapel::Tokenizer (src/src/lapel_tokenizer.cpp): a line is cut into the  *)
(* words of argv, in place.  The words are written, without quotation      *)
(* marks and escapes and each with its terminator, over the line that is   *)
(* still being read.  A step is one turn of the loop of next_token(), so   *)
(* one character of the line; the turn that hands over a word contains the *)
(* step of tokenize() that puts it into argv.                              *)
(*                                                                         *)
(* Pointers are offsets into the buffer.  Not in the code: line, the text  *)
(* that was in the buffer before.                                          *)
(***************************************************************************)
EXTENDS Integers, Sequences

CONSTANTS
    Chars,                 \* the characters of a line
    Nul, Space, Escape,    \* 0, ' ' and '\\'
    Marks,                 \* ' and "
    Lines,                 \* bound: the lines that are given
    MaxArgv,               \* max_argv
    NoArg, NoMark

\* Assumed by the modules that use this one.
TokenizerAssumption ==
    /\ Nul \notin Chars
    /\ Space \in Chars \ (Marks \cup {Escape})
    /\ Escape \in Chars \ Marks
    /\ Marks \subseteq Chars
    /\ Lines \subseteq Seq(Chars)
    /\ MaxArgv \in Nat \ {0}
    /\ NoArg \notin Nat /\ NoMark \notin Marks
    \* How a character is read (CommandLine) is no character.
    /\ "plain" \notin Chars /\ "escaped" \notin Chars

VARIABLES line, buffer, in_offset, out_offset, arg, quote, escape, argv, done

vars == <<line, buffer, in_offset, out_offset, arg, quote, escape, argv, done>>

end == Len(line)

TypeOK ==
    /\ line \in Seq(Chars)
    /\ buffer \in [0 .. end -> Chars \cup {Nul}]
    /\ in_offset \in 0 .. end
    /\ out_offset \in 0 .. end + 1
    /\ arg \in 0 .. end \cup {NoArg}
    /\ quote \in Marks \cup {NoMark}
    /\ escape \in BOOLEAN
    /\ argv \in Seq(0 .. end) /\ Len(argv) <= MaxArgv
    /\ done \in BOOLEAN

Given(i) == IF i < end THEN line[i + 1] ELSE Nul

Init ==
    /\ line \in Lines
    /\ buffer = [i \in 0 .. end |-> Given(i)]
    /\ in_offset = 0
    /\ out_offset = 0
    /\ arg = NoArg
    /\ quote = NoMark
    /\ escape = FALSE
    /\ argv = << >>
    /\ done = FALSE

-----------------------------------------------------------------------------
(* get_char, peek_char, put_char, push_arg and pop_arg. *)

CharAt(offset) == IF offset < end THEN buffer[offset] ELSE Nul

\* The turn of the loop that reads c.  A zero in the buffer is read like its end.
Reads(c) ==
    /\ ~done
    /\ CharAt(in_offset) = c
    /\ in_offset' = IF in_offset < end THEN in_offset + 1 ELSE in_offset
    /\ UNCHANGED line

\* (mutant) What has been written is always kept terminated.
PutsTerminated(c) ==
    /\ buffer' = [i \in DOMAIN buffer |->
                    IF i = out_offset THEN c ELSE IF i = out_offset + 1 THEN Nul ELSE buffer[i]]
    /\ out_offset' = out_offset + 1
Puts(c) ==
    /\ buffer' = [buffer EXCEPT ![out_offset] = c]
    /\ out_offset' = out_offset + 1

PutsNothing == UNCHANGED <<buffer, out_offset>>

PushArg == arg' = IF arg = NoArg THEN out_offset ELSE arg

\* (mutant) One word too many.
IsFullLate(n) == n > MaxArgv
IsFull(n) == n = MaxArgv

\* The word that ends here goes into argv; next_token() is called again
\* unless argv is full.
HandsOver ==
    /\ argv' = Append(argv, arg)
    /\ arg' = NoArg
    /\ done' = IsFull(Len(argv'))

Continues == UNCHANGED <<argv, done>>

Plain == ~escape /\ quote = NoMark

-----------------------------------------------------------------------------
(* next_token. *)

\* An escape or a quotation that is not finished takes its word with it.
ReadEnd ==
    /\ Reads(Nul)
    /\ IF Plain /\ arg # NoArg
       THEN Puts(Nul) /\ HandsOver
       ELSE /\ done' = TRUE
            /\ arg' = IF Plain THEN NoArg ELSE arg
            /\ PutsNothing
            /\ UNCHANGED argv
    /\ UNCHANGED <<quote, escape>>

ReadEscaped ==
    /\ escape
    /\ \E c \in Chars : Reads(c) /\ Puts(c)
    /\ escape' = FALSE
    /\ Continues
    /\ UNCHANGED <<arg, quote>>

ReadQuoted ==
    /\ ~escape
    /\ quote # NoMark
    /\ \E c \in Chars \ {quote} : Reads(c) /\ Puts(c)
    /\ Continues
    /\ UNCHANGED <<arg, quote, escape>>

\* (mutant) A closing mark ends the word, whatever follows it.
EndsWordAlways(c) == TRUE
EndsWord(c) == c \in {Nul, Space}

CloseQuote ==
    /\ ~escape
    /\ quote # NoMark
    /\ Reads(quote)
    /\ quote' = NoMark
    /\ IF EndsWord(CharAt(in_offset'))
       THEN Puts(Nul) /\ HandsOver
       ELSE PutsNothing /\ Continues /\ UNCHANGED arg
    /\ UNCHANGED escape

ReadEscape ==
    /\ Plain
    /\ Reads(Escape)
    /\ escape' = TRUE
    /\ PushArg
    /\ PutsNothing
    /\ Continues
    /\ UNCHANGED quote

ReadSpace ==
    /\ Plain
    /\ Reads(Space)
    /\ IF arg # NoArg
       THEN Puts(Nul) /\ HandsOver
       ELSE PutsNothing /\ Continues /\ UNCHANGED arg
    /\ UNCHANGED <<quote, escape>>

OpenQuote ==
    /\ Plain
    /\ \E m \in Marks : Reads(m) /\ quote' = m /\ PutsNothing
    /\ PushArg
    /\ Continues
    /\ UNCHANGED escape

ReadPlain ==
    /\ Plain
    /\ \E c \in Chars \ (Marks \cup {Escape, Space}) : Reads(c) /\ Puts(c)
    /\ PushArg
    /\ Continues
    /\ UNCHANGED <<quote, escape>>

Next ==
    \/ ReadEnd \/ ReadEscaped \/ ReadQuoted \/ CloseQuote
    \/ ReadEscape \/ ReadSpace \/ OpenQuote \/ ReadPlain

Spec == Init /\ [][Next]_vars

-----------------------------------------------------------------------------
(* Properties. *)

\* The C string at an offset of the buffer.
StringAt(offset) ==
    LET terminator == CHOOSE k \in offset .. end :
            buffer[k] = Nul /\ \A j \in offset .. k - 1 : buffer[j] # Nul
    IN  [i \in 1 .. terminator - offset |-> buffer[offset + i - 1]]

Strings == [i \in 1 .. Len(argv) |-> StringAt(argv[i])]

\* Writing never overtakes reading: what has not been read yet is as it was
\* given.
InputIsAhead == \A i \in in_offset .. end : ~done => buffer[i] = Given(i)

CL == INSTANCE CommandLine

\* The strings argv points to are the first words of the line, each of them
\* from the moment it is handed over: no later word is written over it.  In
\* the end all the words are there that argv has room for.
WordsOfLine ==
    LET words == CL!WordsOf(line)
    IN  /\ Len(argv) <= Len(words)
        /\ Strings = SubSeq(words, 1, Len(argv))
        /\ done => Len(argv) = MaxArgv \/ Len(argv) = Len(words)
==============================================================================
