------------------------------ MODULE SizeQuery ------------------------------
(***************************************************************************)
(* How the shell finds out the size of the terminal: cmd_resize            *)
(* (src/src/lapel_shell.cpp) moves the cursor as far as it goes and asks   *)
(* where it is, through Encoder; the terminal answers in between of what   *)
(* is typed; Decoder reads that byte by byte, and the command that yielded *)
(* is called with each symbol.                                             *)
(*                                                                         *)
(* The shell is in STATE_LINE, or in STATE_YIELD with `resize` for its     *)
(* command: LapelShell has the rest of it.  The terminal is not in src/:   *)
(* it carries out what it is sent in order, keeps the cursor inside its    *)
(* window and puts a report behind what has been typed before.             *)
(*                                                                         *)
(* Not in the code: had, the windows since the query under way began;      *)
(* unanswered, the queries whose report has not been read; and prior, what *)
(* that was when this one began.                                           *)
(***************************************************************************)
EXTENDS Decoder, Encoder, FiniteSets

CONSTANTS Windows,        \* sizes, as [rows, cols]
          Decimal,        \* the digits of a number
          Typed,          \* what a key press sends, sequences of bytes
          MaxInput,       \* bound on what has been typed and not been read
          MaxQueries,     \* bound on the queries that are not answered
          DefaultSize

\* Where the cursor can be: the shell moves it to the first row and column, and
\* as far as it goes.
Cursors == [row : {1} \cup {w.rows : w \in Windows},
            col : {1} \cup {w.cols : w \in Windows}]

\* A key sends one byte, or a sequence that begins with its only escape and is
\* over when it ends; none sends what reads as a report.
IsKey(s) ==
    /\ s \in Seq(Bytes) \ {<< >>}
    /\ \A n \in 1 .. Len(s) : Sent!Finished(SubSeq(s, 1, n)) <=> n = Len(s)
    /\ \A n \in 2 .. Len(s) : s[n] # Esc
    /\ Sent!Meaning(s).type # "CPR"

\* No number of a report is longer than what the decoder remembers of one.
ASSUME DecimalAssumption ==
    \A c \in Cursors :
        /\ \A n \in {c.row, c.col} :
              Decimal[n] \in Seq(Digits) \ {<< >>} /\ Sent!Number(Decimal[n]) = n
        /\ Len(Decimal[c.row]) + 1 + Len(Decimal[c.col]) <= MaxParameter

ASSUME KeysAssumption ==
    /\ Report \in Bytes \ {Esc}
    /\ \A b \in DOMAIN ControlOf : ControlOf[b] # "CPR"
    /\ \A s \in Typed : IsKey(s)

ASSUME SizeQueryAssumption ==
    /\ Windows \subseteq [rows : 1 .. 998, cols : 1 .. 998]
    /\ MaxInput \in Nat /\ MaxQueries \in Nat \ {0}

VARIABLES window, cursor, output, input,           \* the terminal and the two lines to it
          yielding, resize_state, size,            \* the shell
          had, unanswered, prior

terminalVars == <<window, cursor>>
shellVars == <<yielding, resize_state, size>>
ghostVars == <<had, unanswered, prior>>
queryVars == <<terminalVars, output, input, vars, shellVars, ghostVars>>

QueryTypeOK ==
    /\ TypeOK
    /\ window \in Windows /\ cursor \in Cursors
    /\ output \in Seq({[op |-> "CUP", row |-> n, col |-> n] : n \in {1, 999}} \cup {[op |-> "DSR"]})
    /\ input \in Seq(Bytes)
    /\ yielding \in BOOLEAN
    /\ resize_state = IF yielding THEN "RX" ELSE "IDLE"
    /\ had \subseteq Windows
    /\ unanswered \in 0 .. MaxQueries /\ prior \in 0 .. MaxQueries

QueryInit ==
    /\ window \in Windows
    /\ cursor = [row |-> 1, col |-> 1]
    /\ output = << >>
    /\ input = << >>
    /\ Init
    /\ yielding = FALSE
    /\ resize_state = "IDLE"
    /\ size = DefaultSize
    /\ had = {}
    /\ unanswered = 0
    /\ prior = 0

-----------------------------------------------------------------------------
(* The terminal and who sits at it. *)

Within(n, limit) == IF n < limit THEN n ELSE limit

InWindow(row, col, w) == [row |-> Within(row, w.rows), col |-> Within(col, w.cols)]

TypeKey ==
    /\ \E bytes \in Typed : input' = input \o bytes
    /\ Len(input') <= MaxInput
    /\ UNCHANGED <<terminalVars, output, vars, shellVars, ghostVars>>

ResizeWindow ==
    /\ \E w \in Windows \ {window} :
          /\ window' = w
          /\ cursor' = InWindow(cursor.row, cursor.col, w)
    /\ had' = had \cup {window'}
    /\ UNCHANGED <<output, input, vars, shellVars, unanswered, prior>>

MoveCursor ==
    /\ output # << >> /\ Head(output).op = "CUP"
    /\ cursor' = InWindow(Head(output).row, Head(output).col, window)
    /\ output' = Tail(output)
    /\ UNCHANGED <<window, input, vars, shellVars, ghostVars>>

ReportOf(c) ==
    <<Esc, Bracket>> \o Decimal[c.row] \o <<Semicolon>> \o Decimal[c.col] \o <<Report>>

SendReport ==
    /\ output # << >> /\ Head(output).op = "DSR"
    /\ input' = input \o ReportOf(cursor)
    /\ output' = Tail(output)
    /\ UNCHANGED <<terminalVars, vars, shellVars, ghostVars>>

-----------------------------------------------------------------------------
(* process(c). *)

\* The byte goes through the decoder.
Decodes ==
    /\ input # << >>
    /\ Process(Head(input))
    /\ input' = Tail(input)
    /\ UNCHANGED terminalVars

IsReport == heard'.type = "CPR"

\* Any report that has been read answers the oldest query.
Counts(asked) ==
    unanswered' = (IF IsReport /\ unanswered > 0 THEN unanswered - 1 ELSE unanswered) + asked

Nobody == Counts(0) /\ UNCHANGED <<output, shellVars, had, prior>>

PartialByte ==
    /\ Decodes
    /\ heard'.type = "NONE"
    /\ Nobody

\* (mutants) The question is put before the cursor is moved, or not, or twice.
AsksAtOnce == PutDsr \o PutCup(999, 999)
AsksNothing == PutCup(999, 999)
AsksTwice == PutCup(999, 999) \o PutDsr \o PutDsr
Asks == PutCup(999, 999) \o PutDsr

\* cmd_resize in RESIZE_STATE_IDLE.
AskSize ==
    /\ unanswered < MaxQueries
    /\ output' = output \o Asks
    /\ resize_state' = "RX"
    /\ yielding' = TRUE
    /\ had' = {window}
    /\ prior' = unanswered
    /\ Counts(1)
    /\ UNCHANGED size

\* Enter, with `resize` on the line.
StartQuery ==
    /\ Decodes
    /\ ~yielding /\ heard'.type = "CR"
    /\ resize_state = "IDLE"
    /\ AskSize

\* A symbol that does something else on the command line, or nothing.
OnLine ==
    /\ Decodes
    /\ ~yielding /\ heard'.type # "NONE"
    /\ Nobody

Interrupt ==
    /\ Decodes
    /\ yielding /\ heard'.type = "ETX"
    /\ yielding' = FALSE
    /\ resize_state' = "IDLE"
    /\ Counts(0)
    /\ UNCHANGED <<output, size, had, prior>>

\* cmd_resize in RESIZE_STATE_RX with a report: set_size.
LearnSize ==
    /\ Decodes
    /\ yielding /\ resize_state = "RX" /\ IsReport
    /\ size' = [rows |-> heard'.row, cols |-> heard'.col]
    /\ output' = output \o PutCup(1, 1)
    /\ yielding' = FALSE
    /\ resize_state' = "IDLE"
    /\ Counts(0)
    /\ UNCHANGED <<had, prior>>

Wait ==
    /\ Decodes
    /\ yielding /\ resize_state = "RX"
    /\ heard'.type \notin {"NONE", "CPR", "ETX"}
    /\ Nobody

ProcessByte == PartialByte \/ StartQuery \/ OnLine \/ Interrupt \/ LearnSize \/ Wait

Obeys == MoveCursor \/ SendReport

QueryNext == TypeKey \/ ResizeWindow \/ Obeys \/ ProcessByte

QuerySpec == QueryInit /\ [][QueryNext]_queryVars

\* The terminal carries out what it is sent and the main loop reads what
\* comes; nobody has to type or to resize anything.
FairSpec == QuerySpec /\ WF_queryVars(Obeys) /\ WF_queryVars(ProcessByte)

-----------------------------------------------------------------------------
(* Properties. *)

\* What a query learns are rows and columns that the window had while the
\* query was under way (of two windows, perhaps, when it was resized between
\* the move of the cursor and the report), whatever is typed into it and
\* unless an interrupted query still has a report to come.
LearnsTheSize ==
    [][yielding /\ IsReport /\ prior = 0 =>
          /\ size'.rows \in {w.rows : w \in had}
          /\ size'.cols \in {w.cols : w \in had}]_queryVars

\* Whatever is typed that is not cut off after an escape, a query that is
\* not interrupted learns a size, and one that is interrupted is over too.
QueryEnds == yielding ~> ~yielding

\* What has come and is not read to its end, and where a report in it begins.
Unread == (IF state = "IDLE" THEN << >> ELSE run) \o input

IsAt(u, s, j) ==
    /\ j + Len(u) <= Len(s) + 1
    /\ \A i \in 1 .. Len(u) : s[j + i - 1] = u[i]

Reports(s) == {j \in 1 .. Len(s) : \E c \in Cursors : IsAt(ReportOf(c), s, j)}

Requests(out) == {i \in 1 .. Len(out) : out[i].op = "DSR"}

\* Every query that was asked and is not answered has a report on its way,
\* whether it is still waited for or not: no report is lost in what is typed
\* around it, and the command never waits for one that has been read.
OnTheirWay == Cardinality(Requests(output)) + Cardinality(Reports(Unread))

NoReportLost ==
    /\ unanswered = OnTheirWay
    /\ yielding => OnTheirWay > 0
==============================================================================
