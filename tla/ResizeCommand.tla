---------------------------- MODULE ResizeCommand ----------------------------
(***************************************************************************)
(* A line becomes the arguments of `resize` and they become what it does:  *)
(* Tokenizer, GetOpt and the handler of src/src/lapel_builtin.cpp, in the  *)
(* order in which Shell::process_line and the handler call them.  A step   *)
(* is a step of Tokenizer, or one turn of the handler's loop.              *)
(*                                                                         *)
(* The characters of the words in the buffer are the arguments GetOpt is   *)
(* given; the first word is the name of the command.                       *)
(***************************************************************************)
EXTENDS Unsigned

CONSTANTS Chars, Nul, Space, Escape, Marks, Lines, MaxArgv, NoArg, NoMark,
          Dash, Equals, Table, NoOption,
          DefaultRows, DefaultCols

VARIABLES line, buffer, in_offset, out_offset, arg, quote, escape, argv, done,
          index, offset, current_arg, current_opt, state,
          rows, cols, manual, help, outcome

T == INSTANCE Tokenizer

Words == T!Strings
Args == SubSeq(Words, 2, Len(Words))

P == INSTANCE GetOpt WITH args <- Args

\* The table is that of the handler: sizes are required with their options.
ASSUME ResizeCommandAssumption ==
    /\ T!TokenizerAssumption
    /\ P!GetOptAssumption
    /\ Table \in Seq([s : Seq(Chars), c : Chars, arg : {"NONE", "OPTIONAL", "REQUIRED"}])
    /\ \A i \in 1 .. Len(Table) : Table[i].c \in {"r", "c"} => Table[i].arg = "REQUIRED"

tokenizerVars == <<line, buffer, in_offset, out_offset, arg, quote, escape, argv, done>>
parserVars == <<index, offset, current_arg, current_opt, state>>
ownVars == <<rows, cols, manual, help, outcome>>
vars == <<tokenizerVars, parserVars, ownVars>>

TypeOK ==
    /\ T!TypeOK
    /\ P!TypeOK
    /\ rows \in 0 .. UintMod - 1 \cup {DefaultRows}
    /\ cols \in 0 .. UintMod - 1 \cup {DefaultCols}
    /\ manual \in BOOLEAN /\ help \in BOOLEAN
    /\ outcome \in {"NONE", "NO_COMMAND", "MISSING", "UNKNOWN", "HELP", "MANUAL", "QUERY"}

Init ==
    /\ T!Init
    /\ P!Init
    /\ rows = DefaultRows
    /\ cols = DefaultCols
    /\ manual = FALSE
    /\ help = FALSE
    /\ outcome = "NONE"

-----------------------------------------------------------------------------
Tokenize ==
    /\ T!Next
    /\ UNCHANGED <<parserVars, ownVars>>

\* A line without a word runs nothing.
NoCommand ==
    /\ done /\ argv = << >> /\ outcome = "NONE"
    /\ outcome' = "NO_COMMAND"
    /\ UNCHANGED <<tokenizerVars, parserVars, rows, cols, manual, help>>

\* Every turn of the loop begins with a call of next(), after `help` too.
CallsNext ==
    /\ done /\ argv # << >> /\ outcome = "NONE"
    /\ UNCHANGED tokenizerVars
    /\ P!Call

\* (mutant) An option that is given twice keeps its first value.
KeepsFirst(value, default) == IF value = default THEN Value(current_arg') ELSE value
Takes(value, default) == Value(current_arg')

TakeOption ==
    /\ CallsNext
    /\ P!Result' = "OK" /\ ~help
    /\ rows' = IF current_opt'.c = "r" THEN Takes(rows, DefaultRows) ELSE rows
    /\ cols' = IF current_opt'.c = "c" THEN Takes(cols, DefaultCols) ELSE cols
    /\ manual' = (manual \/ current_opt'.c \in {"r", "c"})
    /\ help' = (current_opt'.c = "h")
    /\ UNCHANGED outcome

\* MANUAL calls set_size, QUERY dsr_resize (LapelShell has what they do).
Decide ==
    /\ CallsNext
    /\ P!Result' # "OK" \/ help
    /\ outcome' = IF P!Result' \in {"MISSING", "UNKNOWN"} THEN P!Result'
                  ELSE IF help THEN "HELP"
                  ELSE IF manual THEN "MANUAL" ELSE "QUERY"
    /\ UNCHANGED <<rows, cols, manual, help>>

Next == Tokenize \/ NoCommand \/ TakeOption \/ Decide

Spec == Init /\ [][Next]_vars

\* The handler runs to its end within the call of process(c).
FairSpec == Spec /\ WF_vars(Next)

-----------------------------------------------------------------------------
(* Properties. *)

\* Writing a word never overtakes reading the line.
InputIsAhead == T!InputIsAhead

\* The strings of argv are the words of the line from the moment each is
\* handed over, also while options are taken from them.
WordsOfLine == T!WordsOfLine

\* The assertion in GetOpt::next holds.
GroupHasLetters == P!GroupHasLetters

\* Every call of next() takes the next option of the list and no more.
TakesNext == [][done /\ argv # << >> => P!TakesNext]_vars

\* Where the loop stops: at the first that is not OK, or after help.
Stops(told, k) == told[k].result # "OK" \/ (k > 1 /\ told[k - 1].option.c = "h")
Last(told) == CHOOSE k \in 1 .. Len(told) : Stops(told, k) /\ \A j \in 1 .. k - 1 : ~Stops(told, j)
Given(told, c) == {k \in 1 .. Last(told) - 1 : told[k].option.c = c}
Latest(S) == CHOOSE k \in S : \A j \in S : j <= k
Size(told, c, default) ==
    IF Given(told, c) = {} THEN default ELSE Value(told[Latest(Given(told, c))].arg)

Told == P!Meaning(Args, 1, 2)

\* The line as a whole says what the command does and with which size: options
\* count up to the first that is wrong or asks for help, the last one of a kind
\* wins, and what comes right after --help is still looked at.
DoesAsTold ==
    outcome \notin {"NONE", "NO_COMMAND"} =>
        /\ rows = Size(Told, "r", DefaultRows)
        /\ cols = Size(Told, "c", DefaultCols)
        /\ LET result == Told[Last(Told)].result
           IN  outcome = IF result \in {"MISSING", "UNKNOWN"} THEN result
                         ELSE IF Given(Told, "h") # {} THEN "HELP"
                         ELSE IF Given(Told, "r") \cup Given(Told, "c") # {} THEN "MANUAL"
                         ELSE "QUERY"

\* Whatever the line, reading it comes to an end.
ParsingEnds == <>(outcome # "NONE")
==============================================================================
