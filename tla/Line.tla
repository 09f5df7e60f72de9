-------------------------------- MODULE Line --------------------------------
(***************************************************************************)
(* Lapel::Line (src/src/lapel_line.cpp): the C buffer of the line being    *)
(* edited, and how it is drawn on a terminal that wraps at Cols columns,   *)
(* with the state of the Shell that uses it (src/src/lapel_shell.cpp).     *)
(*                                                                         *)
(* A step is one symbol popped by the shell, with all that Line and the    *)
(* shell do with the line because of it, the redraw included, or a call    *)
(* that comes from outside.  get_prompt_size is a function of the mode,    *)
(* because the shell sets prompt and mode together.                        *)
(*                                                                         *)
(* Left to choice, so that the model does at least what the code can do:   *)
(* whether a password is right, what a command prints and returns, which   *)
(* line history or completion writes, how many names match, and how many   *)
(* rows there are above a line begun on a cleared screen.                  *)
(*                                                                         *)
(* Not in the code, and read by no guard: row, how far Line left the       *)
(* terminal's cursor below the row the shell's output had brought it to    *)
(* when the line was begun; begins, the row the line was drawn from then,  *)
(* which is above that one when it is negative; drawn, the cells that were *)
(* written from that row on; unshown, the line has been cleared and not    *)
(* drawn since; and entered, what read_buffer copied at the last Enter.    *)
(***************************************************************************)
EXTENDS Integers, Sequences, FiniteSetsExt

CONSTANTS Chars,         \* characters that can be typed
          Nul,           \* the terminator
          Space,
          Letters,       \* of Chars, what MODE_USERNAME allows
          MaxSize,       \* max: the size of the buffer less one
          Cols,          \* cols
          PromptSize,    \* [Modes -> Nat]
          Recalled,      \* texts that history and completion can write
          Wordless,      \* texts in which the tokenizer finds no word
          Kills          \* ^K and ^U are typed

Modes == {"USERNAME", "PASSWORD", "SESSION"}
States == {"USERNAME", "PASSWORD", "FAIL", "LINE", "YIELD"}

ASSUME LineAssumption ==
    /\ MaxSize \in Nat
    /\ Cols \in Nat \ {0}
    /\ PromptSize \in [Modes -> Nat]
    /\ Nul \notin Chars
    /\ Letters \subseteq Chars
    /\ Recalled \subseteq Seq(Chars)
    /\ << >> \in Wordless /\ Wordless \subseteq Seq(Chars)
    /\ Kills \in BOOLEAN

VARIABLES shell,           \* state, of the Shell
          tab,             \* state, of the Line, is STATE_TAB
          buffer, cursor, end, mode,
          display_cursor,
          begins, row, drawn, unshown, entered

textVars == <<buffer, cursor, end>>
screenVars == <<display_cursor, begins, row, drawn, unshown>>
vars == <<shell, tab, textVars, mode, screenVars, entered>>

Index == 0 .. MaxSize

TypeOK ==
    /\ shell \in States
    /\ tab \in BOOLEAN
    /\ buffer \in [Index -> Chars \cup {Nul}]
    /\ end \in Index
    /\ cursor \in 0 .. end
    /\ mode \in Modes
    /\ display_cursor \in Index
    /\ begins \in Int /\ begins <= 0
    /\ row \in Int
    /\ unshown \in BOOLEAN
    /\ Len(drawn) <= PromptSize[mode] + MaxSize
    /\ Len(entered) <= MaxSize

Init ==
    /\ shell = "USERNAME"
    /\ tab = FALSE
    /\ buffer = [i \in Index |-> Nul]
    /\ cursor = 0
    /\ end = 0
    /\ mode = "USERNAME"
    /\ display_cursor = 0
    /\ begins = 0
    /\ row = PromptSize["USERNAME"] \div Cols
    /\ unshown = FALSE
    /\ drawn = [i \in 1 .. PromptSize["USERNAME"] |-> "USERNAME"]
    /\ entered = << >>

-----------------------------------------------------------------------------
(* Drawing. *)

\* get_cursor_line, get_display_line and get_last_line.
RowOf(m, position) == (PromptSize[m] + position) \div Cols

\* (mutant) A password is echoed.
MaskedNever(m) == FALSE
Masked(m) == m = "PASSWORD"

\* get_raw_char: a cell of the prompt is told by its mode.
Cells == [k \in 1 .. PromptSize[mode] + end |->
    IF k <= PromptSize[mode] THEN mode
    ELSE IF Masked(mode) THEN "*"
    ELSE buffer[k - PromptSize[mode] - 1]]

\* (mutant) The rows above the one the cursor has moved up to are redrawn too late.
FirstRowDisplayed(target, display) == display
\* The row a redraw from the cursor starts at.
FirstRow(target, display) == IF target < display THEN target ELSE display

\* put_cuu() moves up one row.
RowsUp(target, display) == IF target < display THEN 1 ELSE 0

\* get_cursor_line and get_display_line, of the line as it will be.
CursorRow == RowOf(mode', cursor')
DisplayRow == RowOf(mode', display_cursor)

\* do_refresh from up rows above row at, of the line's rows from first on, over
\* cells.  Writing moves the cursor to the last row, and then up to its own.
Redraw(up, first, at, cells) ==
    /\ row' = at - up + (CursorRow - first)
    /\ drawn' = SubSeq(cells, 1, first * Cols)
                \o SubSeq(Cells', first * Cols + 1, PromptSize[mode'] + end')
    /\ display_cursor' = cursor'

RefreshFromCursor ==
    /\ Redraw(RowsUp(CursorRow, DisplayRow), FirstRow(CursorRow, DisplayRow), row, drawn)
    /\ UNCHANGED <<begins, unshown>>

FullRefresh ==
    /\ Redraw(DisplayRow, 0, row, drawn)
    /\ unshown' = FALSE
    /\ UNCHANGED begins

\* The full refresh where the shell's output has left the terminal's cursor:
\* put_cuu(get_display_line()) moves it up all the same, over that output.
DrawnAnew(up) ==
    /\ Redraw(up, 0, 0, << >>)
    /\ begins' = -up
    /\ unshown' = FALSE

RefreshBelow == DrawnAnew(DisplayRow)

\* The same after put_cup and put_ed_all, as far up as there are rows.
RefreshOnCleared == \E up \in 0 .. DisplayRow : DrawnAnew(up)

-----------------------------------------------------------------------------
(* Symbols that Line handles itself.  Any but Tab ends STATE_TAB. *)

\* character_is_allowed
Allowed(m, c) ==
    \/ m = "SESSION"
    \/ m = "USERNAME" /\ c \in Letters
    \/ m = "PASSWORD" /\ c # Space

\* The shell gives the symbol to Line::process.
Reads == shell \in {"USERNAME", "PASSWORD", "LINE"} /\ UNCHANGED <<shell, mode, entered>>
Edits == Reads /\ tab' = FALSE

\* (mutant) The terminator is not moved with the end.
TerminatedNot(b, n) == b
Terminated(b, n) == [b EXCEPT ![n] = Nul]

\* (mutant) The tail is not moved away from the cursor.
OpenedNot(b, c) == [b EXCEPT ![cursor] = c]
\* memmove one up, and the character in its place.
Opened(b, c) == [i \in Index |-> IF i = cursor THEN c
                                 ELSE IF i \in cursor + 1 .. end THEN b[i - 1]
                                 ELSE b[i]]

Insert(c) ==
    /\ Edits
    /\ IF Allowed(mode, c) /\ end # MaxSize
       THEN /\ buffer' = Terminated(Opened(buffer, c), end + 1)
            /\ end' = end + 1
            /\ cursor' = cursor + 1
            /\ RefreshFromCursor
       ELSE UNCHANGED <<textVars, screenVars>>

\* memmove one down from the cursor.
Closed(b) == [i \in Index |-> IF i \in cursor - 1 .. end - 2 THEN b[i + 1] ELSE b[i]]

Backspace ==
    /\ Edits
    /\ IF cursor > 0
       THEN /\ buffer' = Terminated(Closed(buffer), end - 1)
            /\ end' = end - 1
            /\ cursor' = cursor - 1
            /\ RefreshFromCursor
       ELSE UNCHANGED <<textVars, screenVars>>

\* do_home, do_end, do_back and do_forward.
MoveTo(p) ==
    /\ Edits
    /\ cursor' = p
    /\ UNCHANGED <<buffer, end>>
    /\ RefreshFromCursor

Home == MoveTo(0)
End == MoveTo(end)
Back == cursor > 0 /\ MoveTo(cursor - 1)
Forward == cursor # end /\ MoveTo(cursor + 1)

\* ^K: the end moves, the bytes stay.
DeleteFromCursor ==
    /\ Kills
    /\ Edits
    /\ end' = cursor
    /\ UNCHANGED <<buffer, cursor>>
    /\ RefreshFromCursor

\* ^U: likewise.
DeleteLine ==
    /\ Kills
    /\ Edits
    /\ cursor' = 0
    /\ end' = 0
    /\ UNCHANGED buffer
    /\ RefreshFromCursor

\* A symbol that changes nothing there: an event the shell ignores in its
\* state, ^W, a page key, a report of the cursor's position.
OtherSymbol == Edits /\ UNCHANGED <<textVars, screenVars>>

\* EVENT_COMPLETE_1, then EVENT_COMPLETE_2.  In a session the shell draws the
\* line again, whatever complete() finds.
Tab ==
    /\ Reads
    /\ tab' = TRUE
    /\ UNCHANGED textVars
    /\ IF shell = "LINE" THEN FullRefresh ELSE UNCHANGED screenVars

-----------------------------------------------------------------------------
(* Uses of Line by the shell. *)

\* read_buffer copies up to the first terminator.
Stops == {i \in Index : buffer[i] = Nul}
ReadBuffer == [i \in 1 .. IF Stops = {} THEN MaxSize + 1 ELSE Min(Stops) |-> buffer[i - 1]]

\* (mutant) Only the text is cleared, and the cursor stays.
ClearTextOnly == /\ buffer' = [i \in Index |-> Nul] /\ end' = 0 /\ UNCHANGED cursor
\* clear_buffer; display_cursor is left.
Clear == /\ buffer' = [i \in Index |-> Nul] /\ end' = 0 /\ cursor' = 0

\* complete(): several names match at the second Tab, and the message that says
\* so takes two rows of its own, below the cursor's.
FoundMany ==
    /\ shell = "LINE"
    /\ tab
    /\ ReadBuffer \notin Wordless
    /\ UNCHANGED <<shell, tab, textVars, mode, entered>>
    /\ RefreshBelow

\* EVENT_EXEC: the shell copies the line.
Execs(state) ==
    /\ shell = state
    /\ tab' = FALSE
    /\ entered' = ReadBuffer

\* process_username: a user name.  The mode is not USERNAME after oob_logout.
EnterName ==
    /\ Execs("USERNAME")
    /\ ReadBuffer \notin Wordless
    /\ Clear
    /\ shell' = "PASSWORD"
    /\ mode' = "PASSWORD"
    /\ RefreshOnCleared

\* process_username without a word: the line is cleared and nothing is drawn.
EnterNoName ==
    /\ Execs("USERNAME")
    /\ ReadBuffer \in Wordless
    /\ Clear
    /\ unshown' = (unshown \/ end # 0)
    /\ UNCHANGED <<shell, mode, display_cursor, begins, row, drawn>>

\* process_password
EnterAccepted ==
    /\ Execs("PASSWORD")
    /\ Clear
    /\ shell' = "LINE"
    /\ mode' = "SESSION"
    /\ RefreshOnCleared

EnterRefused ==
    /\ Execs("PASSWORD")
    /\ shell' = "FAIL"
    /\ UNCHANGED <<textVars, mode>>
    /\ RefreshOnCleared

\* process_fail: any symbol, and Line does not see it.
LeaveFail ==
    /\ shell = "FAIL"
    /\ Clear
    /\ shell' = "USERNAME"
    /\ mode' = "USERNAME"
    /\ UNCHANGED <<tab, entered>>
    /\ RefreshOnCleared

\* The command ends: below what it printed, on a screen it has cleared, or with
\* a logout, which sets the mode and clears the screen.
Ends ==
    \/ shell' = "LINE" /\ mode' = "SESSION" /\ (RefreshBelow \/ RefreshOnCleared)
    \/ shell' = "USERNAME" /\ mode' = "USERNAME" /\ RefreshOnCleared

\* process_line: no command, one that ends, and one that yields.
EnterLine ==
    /\ Execs("LINE")
    /\ Clear
    /\ Ends

EnterYields ==
    /\ Execs("LINE")
    /\ Clear
    /\ shell' = "YIELD"
    /\ unshown' = TRUE
    /\ UNCHANGED <<mode, display_cursor, begins, row, drawn>>

\* process_yield, when the command does not yield again.  One that has logged out
\* and yields is left out: it is at no prompt and nothing is drawn.
Resume ==
    /\ shell = "YIELD"
    /\ UNCHANGED <<tab, textVars, entered>>
    /\ Ends

\* EVENT_CLEAR: ^L clears the line in place.
ClearLine ==
    /\ shell = "LINE"
    /\ tab' = FALSE
    /\ Clear
    /\ UNCHANGED <<shell, mode, entered>>
    /\ FullRefresh

oob_login ==
    /\ Clear
    /\ shell' = "LINE"
    /\ mode' = "SESSION"
    /\ UNCHANGED <<tab, entered>>
    /\ RefreshOnCleared

\* The line keeps its text, its prompt and its mode.
oob_logout ==
    /\ shell' = "USERNAME"
    /\ UNCHANGED <<tab, textVars, mode, entered>>
    /\ RefreshOnCleared

\* Shell::refresh, called from outside.  It draws nothing while a command yields.
Refresh ==
    /\ UNCHANGED <<shell, tab, textVars, mode, entered>>
    /\ \/ shell = "LINE" /\ FullRefresh
       \/ shell \in {"USERNAME", "PASSWORD", "FAIL"} /\ RefreshOnCleared

\* strlen(line) or max, whichever is less.
Fitting(line) == IF Len(line) > MaxSize THEN MaxSize ELSE Len(line)

\* write_buffer: strncpy pads with terminators, one is written at the end.
Write(line) ==
    /\ shell = "LINE"
    /\ end' = Fitting(line)
    /\ cursor' = end'
    /\ buffer' = [i \in Index |-> IF i < end' THEN line[i + 1]
                                  ELSE IF i = MaxSize /\ end' # MaxSize THEN buffer[i]
                                  ELSE Nul]
    /\ UNCHANGED <<shell, mode, entered>>
    /\ tab' \in BOOLEAN
    /\ FullRefresh

-----------------------------------------------------------------------------
Keys ==
    \/ \E c \in Chars : Insert(c)
    \/ Backspace \/ Home \/ End \/ Back \/ Forward
    \/ DeleteFromCursor \/ DeleteLine \/ OtherSymbol \/ Tab

Uses ==
    \/ FoundMany \/ EnterName \/ EnterNoName \/ EnterAccepted \/ EnterRefused \/ LeaveFail
    \/ EnterLine \/ EnterYields \/ Resume
    \/ ClearLine \/ oob_login \/ oob_logout \/ Refresh
    \/ \E line \in Recalled : Write(line)

Next == Keys \/ Uses

Spec == Init /\ [][Next]_vars

-----------------------------------------------------------------------------
(* Properties. *)

\* Nothing past the text that is shown is ever between it and its terminator:
\* a text has no hole, whatever was inserted, removed or written over it.
NoHole == \A i \in 0 .. end - 1 : buffer[i] # Nul

\* The terminal shows the prompt and the line from the row the line was drawn
\* from, and has its cursor on the row of the line's: no key and no redraw in
\* place moves the line, which would draw it over the output above it or leave a
\* row of it behind.  Not while unshown, after a clear that draws nothing.
ScreenShowsLine == ~unshown => row = begins + RowOf(mode, cursor) /\ drawn = Cells

\* At the password prompt and at the refusal that follows it, and on a password's
\* line that an oob_logout has left at the user name prompt, no character of the
\* line is on the screen.
PasswordHidden ==
    mode = "PASSWORD" \/ shell \in {"PASSWORD", "FAIL"}
        => \A k \in 1 .. Len(drawn) : drawn[k] \in {"PASSWORD", "*"}

\* What Enter would hand to the shell is the text that is shown.
ReadIsShown == ReadBuffer = [i \in 1 .. end |-> buffer[i - 1]]

\* The buffer behaves as the text a user has in mind.
Editor == INSTANCE LineEditor WITH
    text <- [i \in 1 .. end |-> buffer[i - 1]],
    pos <- cursor

ImplementsEditor == Editor!Spec
=============================================================================
