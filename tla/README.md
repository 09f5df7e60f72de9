# Lapel, modelled and proved

Lapel (`src/readme.md`) is a command line shell for microcontrollers: it is given the
bytes of a serial line one at a time, edits a line on the terminal, keeps a history, logs
users in and runs commands that may yield. It has no threads: everything happens inside a
call from a main loop. What makes it hard is that state outlives those calls. A command
yields and is called again later, a session is replaced from outside, a reply of the
terminal comes when nobody waits for it, an index into a ring and a cursor on a screen
have to be right after any sequence of keys.

## 1. The system

| Component | State | Operations | Talks to |
|---|---|---|---|
| **Shell** `lapel_shell.cpp` | `state`, `user`, `logout_permitted`, `logout_pending`, `refresh_pending`, `input_semaphore`/`input_symbol`, `argc`/`argv`/`command`, `resize_state`, `cols`, `history_index` | `process(c)`, `process()`, `refresh`, `set_size`, `oob_login`, `oob_logout`, `add_user`, `remove_user`, and `cmd_*` for handlers | owns Line and Decoder; calls History, the command tables and System; handlers call it back through ShellWrapper |
| **Line** `lapel_line.cpp` | `buffer`, `cursor`, `end`, `display_cursor`, `mode`, `prompt`, `state` (tab) | `process(symbol)` returning an event, `read_buffer`, `write_buffer`, `clear`, `refresh` | draws on the TTY through Encoder |
| **DefaultHistory** `lapel_default_history.cpp` | `size`, `append_count`, the records | `get`, `set`, `push` | called by Shell |
| **Decoder** `lapel_decoder.cpp` | `state`, `parameter`, `intermediate_len` | `process(c)` | gives Shell its symbols |
| **Commands** `lapel_command*.cpp`, `lapel_builtin.cpp` | a linked list, a table | `lookup`, `add_command`, `remove_command`, completion, `authorize` | searched by Shell: registered commands first |
| **Users** `lapel_default_user_list.cpp`, `lapel_user.cpp` | an array of records | `authenticate`, `add_user`, `remove_user` | behind System |
| **Tokenizer**, **GetOpt** | offsets into the line and into `argv` | `tokenize`, `next` | Shell, and the `resize` handler |
| **Encoder** `lapel_encoder.cpp` | | `put_cup`, `put_dsr`, ... | Line and the size query write to the terminal through it |
| TTY, example program, Arduino wrapper, SHA-256 | | output, main loops, vendored code | |

What makes each correct:

* **Shell**: nobody is in session who did not give a listed password or come in out of
  band; a command runs only for a user with a role in common, also when it has yielded and
  other things have happened; who may not log out stays; a password is masked; the screen
  shows the state; a size query ends.
* **Line**: what is on the screen is what is in the buffer, and Enter hands over that text.
* **History**: a ring over a wrapping counter behaves as a bounded list of lines, and
  going up and down in it neither loses nor invents a line.
* **Decoder**: a sequence is given the meaning of its bytes, whatever came before it.
* **Commands, Users**: one entry for a name, first registration or last account wins.
* **Tokenizer, GetOpt**: writing over the line never overtakes reading it, the words are
  those of the line, each option is taken once with its argument, and parsing ends.
* **Size query**: through encoder, terminal and decoder, `resize` learns a size the window
  had, and no report is lost in what is typed around it.

The hard behaviours, each at its line, are the `hazards` of `PROJECT.json`.

## 2. The modules

```
HistoryRing ──── DefaultHistory ──implements──> HistoryLog      MCDefaultHistory
   │      └───── HistoryProofs ── DefaultHistoryProofs
   └──────────── LapelShell ─────implements──> Session          MCLapelShell
                    └── LapelShellProofs
Line ───────────implements──> LineEditor                        MCLine
   └── LineProofs
Unsigned ─┬──── Decoder ──implements──> ControlSequences        MCDecoder
          │        └── SizeQuery (Decoder, Encoder, a terminal) MCSizeQuery
          │                └── DecoderProofs
          └──── ResizeCommand (Tokenizer, GetOpt)               MCResizeCommand
                   │     against CommandLine and Options
                   └── ResizeCommandProofs
DefaultUserList ──implements──> Directory                       MCDefaultUserList
   └── DefaultUserListProofs
CommandHeap ──────implements──> Registry                        MCCommandHeap
   └── CommandHeapProofs
```

**HistoryRing** has the methods of DefaultHistory as operators on a record (`HistGet`,
`HistSet`, `HistPush`), so that **DefaultHistory** can make a state machine of them (any
calls in any order) and LapelShell can call them within its steps. **HistoryLog** is the
promise: a list of lines, newest first, of which `MaxRecords` are remembered.

**LapelShell** is `Shell` with the built-in commands, the history it writes and the user
list it asks. A step is one call from outside, with everything the call does:

| Action | Code |
|---|---|
| `EditLine`, `IgnoreSymbol`, `Poll`, `PartialByte` | `process(c)` and `process()` with a symbol that edits, that nobody handles, with none, with a byte that completes none |
| `SubmitUsername`, `SubmitPassword`, `LeaveFail` | `process_username`, `process_password`, `process_fail` |
| `Complete`, `HistoryUp`, `HistoryDown`, `ClearLine` | the events of `process_line` other than EXEC |
| `ExecRefused`, `ExecPlain`, `ExecLogout`, `ExecResizeManual`, `ExecResizeQuery`, `ExecUser` | EXEC: history, lookup, authorisation and the handler |
| `YieldInterrupt`, `ResizeReply`, `ResizeWait`, `YieldUser` | `process_yield` with ^C, and the handler called again |
| `OobLogin`, `OobLogout`, `Refresh`, `SetSize` | the public methods |
| `AddUser`, `RemoveUser`, `AddCommand`, `RemoveCommand`, `SetUserCommands` | the user list and the registered commands, as sets |
| `TerminalAnswers` | the terminal's reply to DSR (not in the code) |

`Settle` is the end of `notify()`: the order in which the change of state, the pending
logout and the redraw are looked at. Three variables are not in the code: `shown` (the
state drawn last), `asked` and `answers` (size requests and replies under way).
**Session** is the promise, with no keyboard and no screen.

**Line** has the C buffer with its terminator, what a terminal of `Cols` columns shows of
it, and the state of the Shell that uses it. Every use is an action:

| Action | Code |
|---|---|
| `Insert`, `Backspace`, `Home`, `End`, `Back`, `Forward`, `DeleteFromCursor`, `DeleteLine` | the keys that `Line::process` handles, with the redraw from the cursor |
| `OtherSymbol` | a symbol that changes nothing on the line in the shell's state |
| `Tab`, `FoundMany` | EVENT_COMPLETE_1 and 2: the line drawn again where it is, and drawn below the message that several commands match |
| `EnterName`, `EnterNoName`, `EnterAccepted`, `EnterRefused`, `LeaveFail` | EXEC at the two prompts, with a name and without a word, with a right password and a wrong one, and any symbol after that |
| `EnterLine`, `EnterYields`, `Resume` | EXEC in a session, and a yielding command called again |
| `Write`, `ClearLine`, `Refresh`, `oob_login`, `oob_logout` | history and completion, ^L, and the calls from outside |

The ghosts are `begins`, the row the line was drawn from, counted from where the shell's
output had left the terminal's cursor; `row`, where Line leaves it; `drawn`, the cells
written from that row on; `unshown`, that the line has been cleared and not drawn since;
and `entered`, what `read_buffer` hands to the shell (given room for it: name and password
share one buffer there). What a full drawing finds above the cursor is the shell's affair:
`RefreshBelow` goes up over the output by as many rows as `display_cursor` says,
`RefreshOnCleared` as far up as there are rows behind a banner on a cleared screen.
**LineEditor** is a text and a position in it.

**Decoder** reads bytes; the ghost `run` is the bytes of the sequence being read, or read
last. **ControlSequences** looks at a finished run as a whole and says what it means.

**Tokenizer** turns a line into the strings of `argv` in place, a character a step, with
the buffer the words are written over; **CommandLine** says what the words of a line are,
by the ways to read it from the left. **GetOpt** is `next()` with its index and offset;
**Options** says what a list of arguments means, as a whole. **ResizeCommand** runs the two
one after the other as `process_line` and the handler of `resize` do, to the decision:
an error, the help text, a size, or a query. `Unsigned` is `Decoder::get_uint`.

**SizeQuery** is the query that follows: `cmd_resize` writes with **Encoder** to a line on
which a terminal obeys in order, and the bytes that come back, between those of the keys,
go through Decoder one by one to the command that yields. The terminal (`MoveCursor`,
`SendReport`, `ResizeWindow`, `TypeKey`) is not in the code. LapelShell has the same query
with a reply as one symbol, and everything else that can happen to it.

**DefaultUserList** is the array of records, with a name that fills its field as what
`strcmp` reads (`ReadsOn`, a function of all the records: the name, and behind it the bytes
of the role, the salt, the hash and the next records, up to the first that is zero).
**Directory** is the promise to everybody whose name is shorter. **CommandHeap** is the
linked list, with addresses, in front of the built-in table; **Registry** is a set of
commands.

### Abstractions

* A line of the shell is one value; its first token, its number of tokens and what a prefix
  completes to are tables (`FirstToken`, `ArgCount`, `Completions`): what Tokenizer and
  CommandHeap compute. Editing is any change of the text to a value of `Typed`; a symbol is
  a class of those the shell tells apart.
* `argv` beyond the first token is left out of LapelShell, and `argv0` is looked at only
  where the code reads it: recalling a line overwrites the buffer `argv` points into, and
  nothing reads `argv` between that and the next Enter.
* A registered handler may read its symbol, call `logout` and `clear`, return or yield. It
  does not call `dsr_resize` or `set_size`, which the built-in `resize` does. Out-of-band
  calls come between the calls of the main loop, not from a handler.
* A name and a password fit the line buffer together, a user's name fits its field in
  `User`, and `set_size` is called by the program with some columns.
* Line's width does not change; the prompt is its size, one for each mode. A command that
  logs out when it is called again and then yields is left out of `Line.Resume`, as it is
  of LapelShell's runs (`YieldsAfterLogout`).
* Decoder's tables have a byte or two of each kind, `CSI G` (decoded to the character 5)
  among them. The decoder reads at most `MaxIntermediate` intermediate bytes: the code
  writes the next one behind its array of 32, and what happens then is undefined.
* The keys of SizeQuery send whole sequences, none of which reads as a report (`IsKey`).
* What lies behind the array of user records is read as one string by `ReadsOn`.
* No two hashes collide: a hash is the pair of salt and password. The allocator of
  CommandHeap does not fail, and gives any free address.

## 3. The runs

| Run | Properties | Bounds, and why they are enough |
|---|---|---|
| `history` | `ImplementsLog`, `NeverGarbage`, `EntriesApart` | 4 records and 2^w = 8: the ring goes round and the counter wraps within a few pushes |
| `shell_sessions` | session, screen and query invariants, `ImplementsSession`, `ResizeEnds` | an account with a role, two out-of-band users of whom one has no role, a registered command and one that shadows `logout`; one size request under way |
| `shell_history` | `BrowsingKeepsLines`, `NoGarbageRecalled` | 3 records, 2^w = 6, lines that are empty, complete to a command, or have two tokens |
| `line_screen` | `ScreenShowsLine`, `PasswordHidden`, `NoHole` | 3 columns and 3 characters after a prompt of one or two: the line and its cursor wrap to a second row, and lines begin above the cursor's row too; all keys, and every state of the shell |
| `line_editor` | `ImplementsEditor`, `ReadIsShown` | recalled texts shorter and longer than the buffer; without ^K and ^U |
| `decoder` | `HearsWhatIsMeant`, `StateIsOfRun` | sequences of up to 7 bytes with 4 parameter bytes kept, 2 intermediate ones and integers modulo 16: parameters are cut, numbers overflow |
| `resize_command` | `InputIsAhead`, `WordsOfLine`, `GroupHasLetters`, `TakesNext`, `DoesAsTold`, `ParsingEnds` | all lines of up to four characters of each kind the tokenizer tells apart, and `resize` with one, two or three arguments of every form; more words than the four places of `argv` |
| `size_query` | `LearnsTheSize`, `NoReportLost`, `QueryEnds` | two windows with neither rows nor columns in common, one of them with a number of two digits; two queries under way, so that the report to an interrupted one can come into the next |
| `users` | `OneRecordPerName`, `ImplementsDirectory` | two records for two names and one that fills its field and may read on into another name, by its role, its salt and the next record; two passwords and salts |
| `commands` | `ListIsHeap`, `ImplementsRegistry` | three records: the head, the middle and the end of a list; a name that shadows a built-in and one that is a prefix of two |

`history`, `shell_history`, `line_screen`, `decoder`, `resize_command` and `users` also check the module's `TypeOK`.

**Fairness.** `ResizeEnds` needs that the terminal answers a request (`TerminalAnswers`)
and that the main loop gives the shell the bytes that have come, so that the reply is
processed (`ResizeReply`). `QueryEnds` needs the same of `Obeys` (the terminal carries out
what it is sent) and `ProcessByte` (the main loop reads what comes). Nothing is assumed of the
user or of the transport. Strong fairness is not needed: once a reply is there, it stays
until the waiting command reads it. `ParsingEnds` needs that a handler runs on: it is one
call in the code, and no loop of it waits for anything.

**What limits the size query.** `LearnsTheSize` speaks of a query that begins with no
report under way. The code has no other way to tell whose report it reads: after ^C and a
second `resize`, the first report is taken for the second. A lone ESC before a report eats
its first byte, and the rest of it is typed onto the line: with `<<"ESC">>` in `Typed`
`NoReportLost` fails. So does F3 with a modifier, which many terminals send as `CSI 1;5R`.

### What the code does otherwise

Two runs end in a counterexample; each is a finding in `PROJECT.json`.

| Run | What happens |
|---|---|
| `line_killed` | ^K and ^U move `end` and write no terminator; Enter executes the text that was deleted from the screen |
| `shell_oob_resize` | `oob_login` during a size query leaves `resize_state` at RX; the next `resize` waits for a reply nobody was asked for |

The passing runs keep away from each by a named constant: `Kills` and `OobWhileResizing`.
More is behind constants, or is plain from a definition, and has no run:

* Zero columns: `set_size` accepts them, from `resize -c 0`, from an argument that is no
  number (`Value` is 0, as `get_uint` is) or from the program, and Line divides by them.
* `oob_logout` leaves the mode, the prompt and the text of the session on the line
  (`Line.oob_logout`; `OobLogout` leaves `lineVars` alone): they are what the login prompt
  shows, and what the next Enter reads a user name from. Session and the invariants of the
  shell speak of who is in session and not of the line, and do not rule this out.
* `oob_login` and ^L clear the line and leave `history_index`: after Up, the next Up writes
  the empty line over the entry that was on the line. `BrowsingKeepsLines` counts the clear
  as an edit of that entry.
* A redraw moves up by one row at most (`RowsUp`): with three rows, Home leaves the screen
  wrong. `line_screen` has two.
* A full drawing goes up by `display_cursor`, which neither `clear()` nor a message printed
  in between resets: with the cursor below the first row, an Enter, a second Tab with its
  `found many!` or an `oob_login` has the line drawn that many rows too high, over the
  output (`begins` is then negative; `begins = 0` fails within three steps). It is drawn
  right there: `ScreenShowsLine` is relative to `begins`.
* An Enter without a word at the user name prompt clears the line and draws nothing
  (`EnterNoName`): blanks that an `oob_logout` has left stay on the screen until the next
  full drawing. `ScreenShowsLine` says nothing while this is so (`unshown`), nor while a
  command yields.
* `Unterminated`: DefaultHistory never writes the last byte of a record, and the array is
  not cleared. With a line of `max_line - 1` characters in this set, `NeverGarbage` fails.
* `YieldsAfterLogout`: a handler that is called again, logs out and returns `RETURN_YIELD`
  leaves the login prompt undrawn (`ScreenIsCurrent`).
* A name that fills its record can be added again and again: it is found only as what it
  reads on into. It takes up records, and nobody else's account (`Directory`).
* `EntriesApart` needs 2^w to be a multiple of `max_records`: with 3 records and 2^w = 8
  two lines share a record after the wrap. It takes 2^32 or 2^64 pushes.

## 4. The proofs

TLC checks the instances above; these theorems hold for all constants that satisfy the
named assumptions of their modules (any number of lines, words, users, commands, roles,
records and requests; any size of buffer, prompt and terminal).

### The shell

* `TypeCorrect`: types, `NoGarbageRecalled` and `HistoryIndexExists`. `TypeOK` is not
  inductive: that Up puts a *line* on the line needs every record within the history's size
  to have been written (`Written`) and `history_index` to name one of them; that `answers`
  stays in range needs that a reply was a request before. `TypeInv` is these together. The
  lemmas of `HistoryProofs` carry the ring: `SetKeeps`, `PushKeeps`, `GetReadsLine`. In
  `PushKeeps` the index of every record shifts by one with `append_count`, modulo the word
  (`MinusNext`), and the new draft's record is written in the same call.
* `SessionCorrect`: `SessionIsUsers`, `PasswordIsMasked`, `YieldIsAuthorized` and
  `LoginMayLogout` are inductive together, relative to `TypeInv`. The argument is about how
  a session begins (by password, or out of band in any state) and ends, and about a
  handler, which ends in a session or logs out (`HandlerSession`).
* `ScreenCorrect`: `ScreenIsCurrent`, if no handler logs out and yields.
* `QueryCorrect`: `ResizeHasQuery` and `QueryEndsWithCommand`, if the transport leaves a
  size query alone.
* `Implements`: `Spec => ImplementsSession`. Each action of LapelShell is matched to one of
  Session or to a stutter.

### The line

`Inv` of LineProofs is that the buffer holds a text with the cursor in it and ends in a
terminator (`Text`); that the mode is the one of the shell's state, but at the user name
prompt, where any mode may be left (`ModeInv`); and that the line has been drawn at least
up to the displayed cursor, under a mask if it is a password's, and as it is now unless it
is `unshown` (`DrawnInv`). It is inductive with all keys and uses, on any width: a redraw
from the cursor on redraws all that an insertion, a deletion or an overwritten tail has
changed (`FullShows`, `PartShows`, `CellsRecut`), and even when what stands before it is an
old line it writes nothing that is not masked (`CellsShow`, `UnshownKeeps`). From it follow
`TypeCorrect`, `TextHasNoHole` and `PasswordIsHidden`. Two theorems need more than `Inv`:

* `ScreenIsRight` follows the row the terminal's cursor is on, relative to the one the line
  begins on (`RowInv`, `RowAfterAll`, `RowAfterPart`), and assumes `TwoRows`: that prompt
  and buffer are less than two rows together, which is what the code needs (see above). It
  claims nothing of a line that is `unshown`, and nothing of what the line is drawn over.
* `EnterReadsWhatIsShown` and `Implements` need that the end of the text is where its
  terminator is (`Ended`), which every action but ^K and ^U keeps: they assume `~Kills`.
  The refinement maps the bytes up to `end` to the text; insertion and deletion move a
  tail by one place, which the lemmas `PutIn` and `TakenOut` turn into the concatenations
  of LineEditor.

### Users and commands

* `DefaultUserListProofs`: the records are each free or complete, and no two of them read
  as the same ordinary name (`Good`). Saving writes to the record that is found, or to a
  free one when none is (`AddUserStores`), so that both stay (`StoredIsGood`,
  `ClearedIsGood`). `Implements` maps an ordinary name to the record it is found in and
  the free records to the free places. It uses `ReadsOnAssumption`: whatever the records
  are, what a full field reads as is longer than an ordinary name.
* `CommandHeapProofs`: that the list is sound says that *some* walk along `next` reaches
  every allocated record once and ends (`Walk`), and that the code's walk is that one is
  the uniqueness of walks: two that agree at a place agree at the next, and only the last
  record of one has no next. From it follows `ListHolds`, with a new walk for each way a
  record is put in front, cut out at the head, or cut out behind another. `Implements` adds
  that no two registered records have a name (`NamesApart`), so that the first record found
  is the only one, and a match of a prefix that is counted once is the match of the set.
  It uses the assumption that the built-in commands have different names.

### From the line to the command

All of `ResizeCommandProofs` is about the two loops one after the other, for every line.

* `InputAhead` and `OffsetsInside` follow from `TokenizerInv`: writing is behind reading
  (`out_offset <= in_offset`), but for the terminator of the last word, which is written
  when nothing is left to read; a word that is quoted or escaped has begun; and `argv` has
  room until the tokenizer is done.
* `WordsAsWritten`: CommandLine looks at the line as a whole, the tokenizer at one
  character. `WordsInv` is what ties them: the mode of the loop is how CommandLine reads
  the next character (`HowNext`); inside a word, the buffer holds its letters as far as
  they are read, from `arg` to `out_offset` (`Inside`); and the strings handed over are the
  words that begin before it, all of them below `arg`, where nothing is written any more
  (`Handed`, `HandedStays`). A word that goes on to the end of a line read as quoted or
  escaped is none (`EndStep`), and a mark closes a word only before a space (`CloseStep`).
* `GroupCorrect` adds that the zero at the end of the buffer is only ever replaced by a
  zero (`EndStaysZero`), so that the arguments have a length (`StringIsText`), and that they
  stay as they are while options are taken from them.
* `NextIsTaken`: Options gives a meaning to every rest of the argument list, by a function
  built from its last place to its first (`MeaningsExist`). `ParserInv` says where `next()`
  is in it: inside a group of letters, with `index` within the list. Each way through
  `next()` takes the first part of the meaning of its place and stops at the place where
  the rest begins (`CallTakes`).
* `CommandAsTold`: after `j` turns of the loop, rows, columns and the two flags are what the
  first `j` options say (`After(j)`), and what is left of the meaning is what `next()` will
  hear. `ResizeTypeCorrect` needs what `Value` computes to be less than 2^w (`ValueIs`), and
  that a size never comes without its argument (`SizeHasArgument`): the assumption that the
  table requires one of `r` and of `c` is `lapel_builtin.cpp`'s table.

What CommandLine and Options compute is recursive. That such a function exists and is
what its equation says is proved by a least place at which it is not, or by `Iterates`
and `ClimbsTo`: induction over the places of one line, as a statement about sets.

### The history

* `DefaultHistoryProofs`: `TypeCorrect` and `NothingUnwritten` assume that no line fills a
  record without a terminator (`Unterminated = {}`; the code writes such lines, see above);
  their invariant is that every record within `size` was written (`Written`).
* `LinesApart` and `Implements` also assume `Whole`, that 2^w is a multiple of
  `max_records`. `RecordsApart` of HistoryProofs is the reason: if two indices name one
  record, the distances from `append_count` differ by a multiple of `max_records`, and so
  do the indices, also when one of the distances has wrapped; but the indices are less than
  `max_records` apart. Without `Whole` the wrap adds 2^w to the difference.
* `Implements` maps the ring to the sequence of what its indices read (`Entries`). With
  the records apart, `set` changes one entry (`SetEntry`), and `push` shifts them by one,
  forgets the oldest when the ring is full, and puts a blank in front (`PushedEntries`).
* `BrowsingCorrect` of LapelShellProofs: `BrowsingKeepsLines`, if `Whole`. Up and Down
  write the line back where it came from before they read another; `HeldApart` says that
  no other index loses its line by that, and `HistoryIndexExists` that there was a record
  to write it to.

### The decoder

`DecoderInv` says byte by byte what `run` looks like in the middle of a sequence: ESC, [, n
parameter bytes and then intermediate ones (`Split(n)`), of which the first n, as far as
the array goes, are `parameter`. From it follow `TypeCorrect` (no parameter is written
past the array) and `StateCorrect`: the state is told by `run` as a whole, in the terms of
ControlSequences. That a byte which ends the sequence here also ends it there
(`FinalFinished`), and that one which does not leaves it unfinished (`NotFinished`), is the
uniqueness of that n.

`HearsCorrect` (`HearsWhatIsMeant`) is about what is handed over with the last byte. Keys
are read from the tables by both modules. A report is not: the code looks for digits from
the left, goes on behind a semicolon, and computes modulo 2^w at every digit
(`Value`); ControlSequences cuts the parameters at a semicolon in all ways and takes the
number that a piece spells modulo 2^w at the end (`Number`).

* `Leading` finds the first piece because digits are not semicolons: of all cuts, only one
  leaves digits in front (`Reported` has at most one member, the one the code reads).
* `Value` is `Number` digit by digit: reducing before a multiplication by ten and an
  addition changes nothing modulo 2^w (`ModuloShift`). It is shown by the least place of
  the text at which the two would differ.

### The size query

`ReportsKept` (`NoReportLost`) and `SizeLearnt` (`LearnsTheSize`) follow from one invariant,
`QueryInv`, for all windows, keys, numbers of queries and bounds on what is typed. The
assumptions are SizeQuery's: sizes below 999, which is where `cmd_resize` moves the cursor
to find the corner; numbers as the decoder reads them, of which a report's two fit what it
keeps of the parameters (`parameter[32]` in the code; sizes below 999 need seven); and
keys that send whole sequences (`IsKey`). TLC has checked `QueryInv` on the instance of the run, and
evaluates the assumptions there. `QueryTypeCorrect` (`QueryTypeOK`) comes with it. Neither property is inductive; what is needed beside it is
that a report is a report whatever stands around it:

* `EscBegins`: where there is an escape in what has come and is not read to its end
  (`Unread`), a key press or a report begins. So a report that stands there was sent: the
  keys next to it cannot make one up (`InUnit`), and none is lost when bytes are put
  behind others (`AtBefore`).
* `Begun`: the decoder has not come to the end of the sequence it is in. With
  `DecoderInv` it follows that a byte ends a report for the decoder exactly if it ends one
  in `Unread` (`ByteOutcome`), and then `heard` has the position that was sent, by
  `HearsWhatIsMeant`.
* `CountsAgree`: the queries that are not answered are the requests and the reports under
  way. A request that the terminal obeys becomes one report (`RequestsTail`,
  `ReportsAppended`).
* `Asked`: a request is only ever sent behind a move to the far corner, so that it finds
  the cursor there or, if the window has grown or shrunk since, at rows and columns that
  one window or another had while the query was under way (`MoveKeeps`, `WindowKeeps`).
* `Waits` and `Fresh`: the query under way is the last one asked; if no report was under
  way when it began, all that is under way now was seen since (`had`).

### Only model-checked

* Liveness (`ResizeEnds`, `QueryEnds`, `ParsingEnds`): fairness is out of the prover's reach.
  That a size query ends is proved as far as safety goes: while it waits, a request or a
  report is under way (`ReportsKept`).

## 5. Plan

1. A line whose width changes while it is edited: `set_size` and the redraw after it.
2. LapelShell over DefaultUserList instead of a set of accounts, at the price of its size.

Not modelled, and not planned: Encoder and TTY beyond what they do to the screen, the
banners' text, SHA-256, debug macros, and the example's main loop with its terminal
settings and its signal for a change of the window. The last has two hazards that are
listed: `terminal_example.cpp:271` clears the flag after it has read the size, and line 263
passes rows and columns in the other order than line 239.
