------------------------------ MODULE LapelShell ------------------------------
(***************************************************************************)
(* Lapel::Shell (src/src/lapel_shell.cpp): the state machine that a main   *)
(* loop drives one received character at a time, with the built-in         *)
(* commands (lapel_builtin.cpp), the history it writes and the user list   *)
(* it asks.  A step is one call from outside: process(c) with a character  *)
(* that completes a symbol or does not, process() with none, one of the    *)
(* out-of-band calls, or a call that changes the user list or the command  *)
(* table.  A step contains everything the call does, the redraw included.  *)
(*                                                                         *)
(* Abstracted: the text of a line is one value, with its first token given *)
(* by FirstToken; cursor movement and editing are any change of the text   *)
(* (Line models them); a symbol is one of the classes the shell tells      *)
(* apart.  Three variables are not in the code: shown (what refresh drew   *)
(* last), asked and answers (the terminal's side of DSR).                  *)
(***************************************************************************)
EXTENDS HistoryRing

CONSTANTS
    Words,           \* tokens: names, passwords and commands
    NoWord,          \* the token of a line that has none
    FirstToken,      \* [Lines -> Words \cup {NoWord}]
    ArgCount,        \* [Lines -> Nat], how many tokens tokenize finds
    LineOf,          \* [Words -> Lines], the line that is just that word
    Spaced,          \* the lines that hold a space
    Completions,     \* [Words -> SUBSET Words]: w is a prefix of these
    RoleBits,        \* bits of a Role; a role is a set of them
    UserCommands,    \* commands the program can register
    Accounts,        \* accounts the program can add
    OobUsers,        \* users the transport can log in
    NoUser, NoCommand, NoSymbol,
    Keys,            \* what is typed, of AllKeys
    Typed,           \* bound: the lines that editing can lead to
    Sizes,           \* column counts
    DefaultCols,     \* default_cols
    MaxReplies,      \* bound: size requests and replies under way
    OobWhileResizing,\* the transport may log in or out during a size query
    YieldsAfterLogout\* a handler may log out and return RETURN_YIELD

VARIABLES
    state, user, logout_permitted, refresh_pending,
    mode, prompt, text,              \* of Shell::line
    argv0, command, input, resize_state, cols,
    history_index, hist,
    user_commands,                   \* commands[0]
    accounts,                        \* behind System
    shown, asked, answers

lineVars == <<mode, prompt, text>>
queryVars == <<resize_state, cols, asked>>
historyVars == <<history_index, hist>>
configVars == <<user_commands, accounts>>
screenVars == <<shown, refresh_pending>>

vars == <<state, user, logout_permitted, screenVars, lineVars, argv0, command,
          input, queryVars, answers, historyVars, configVars>>

Roles == SUBSET RoleBits

Builtins ==   \* the table in lapel_builtin.cpp, ROLE_ALL
    {[name |-> f, role |-> RoleBits, fn |-> f] : f \in {"resize", "clear", "logout", "help", "echo"}}

Commands == Builtins \cup UserCommands

\* EDIT stands for every symbol Line turns into a change of its text, OTHER
\* for the ones nobody handles.
AllKeys == {"EDIT", "CR", "HT", "UP", "DOWN", "FF", "ETX", "OTHER"}
Symbols == Keys \cup {"CPR"}

ASSUME ShellAssumption ==
    /\ Unterminated = {}
    /\ FirstToken \in [Lines -> Words \cup {NoWord}]
    /\ LineOf \in [Words -> Lines]
    /\ ArgCount \in [Lines -> Nat]
    /\ \A line \in Lines : FirstToken[line] = NoWord <=> ArgCount[line] = 0
    /\ ArgCount[Blank] = 0
    /\ NoWord \notin Words
    /\ Spaced \subseteq Lines /\ Typed \subseteq Lines
    /\ Completions \in [Words -> SUBSET Words]
    /\ \A c \in Commands : c.name \in Words
    /\ UserCommands \subseteq [name : Words, role : Roles, fn : {"user"}]
    /\ Accounts \subseteq [name : Words, password : Words, role : Roles]
    /\ OobUsers \subseteq [name : Words, role : Roles]
    /\ NoUser \notin [name : Words, role : Roles]
    /\ NoCommand \notin Commands
    /\ Keys \subseteq AllKeys /\ NoSymbol \notin AllKeys \cup {"CPR"}
    /\ Sizes \subseteq Nat /\ DefaultCols \in Nat
    /\ MaxReplies \in Nat
    /\ OobWhileResizing \in BOOLEAN /\ YieldsAfterLogout \in BOOLEAN

States == {"USERNAME", "PASSWORD", "FAIL", "LINE", "YIELD"}

\* "username: ", "password: ", and prepare_prompt's: the user's name at the host's.
UsernamePrompt == [asks |-> "username", name |-> NoWord]
PasswordPrompt == [asks |-> "password", name |-> NoWord]
SessionPrompt(u) == [asks |-> "command", name |-> u.name]

Users == OobUsers \cup {[name |-> a.name, role |-> a.role] : a \in Accounts}

TypeOK ==
    /\ state \in States
    /\ user \in Users \cup {NoUser}
    /\ logout_permitted \in BOOLEAN
    /\ refresh_pending \in BOOLEAN
    /\ mode \in {"USERNAME", "PASSWORD", "SESSION"}
    /\ prompt \in {UsernamePrompt, PasswordPrompt} \cup {SessionPrompt(u) : u \in Users}
    /\ text \in Lines \cup {Garbage}
    /\ argv0 \in Words \cup {NoWord}
    /\ command \in Commands \cup {NoCommand}
    /\ input \in Symbols \cup {NoSymbol}
    /\ resize_state \in {"IDLE", "RX"}
    /\ cols \in Sizes \cup {DefaultCols}
    /\ history_index \in 0 .. MaxRecords
    /\ hist \in HistType
    /\ user_commands \subseteq UserCommands
    /\ accounts \subseteq Accounts
    /\ shown \in States \cup {"NOTHING"}
    /\ asked \in 0 .. MaxReplies
    /\ answers \in 0 .. MaxReplies

Init ==
    /\ state = "USERNAME"
    /\ user = NoUser
    /\ logout_permitted = TRUE
    /\ refresh_pending = TRUE
    /\ mode = "USERNAME"
    /\ prompt = UsernamePrompt
    /\ text = Blank
    /\ argv0 = NoWord
    /\ command = NoCommand
    /\ input = NoSymbol
    /\ resize_state = "IDLE"
    /\ cols = DefaultCols
    /\ history_index = 0
    /\ hist = HistEmpty
    /\ user_commands = {}
    /\ accounts = {}
    /\ shown = "NOTHING"
    /\ asked = 0
    /\ answers = 0

-----------------------------------------------------------------------------
(* Input: process(char), process() and pop_symbol. *)

\* The decoder completes s from received bytes, or process() finds s unread.
\* A symbol that was unread when a new one is complete is lost.
Delivered(s) ==
    \/ /\ s \in Keys
       /\ UNCHANGED answers
    \/ /\ s = "CPR"
       /\ answers > 0
       /\ answers' = answers - 1
    \/ /\ s = input
       /\ UNCHANGED answers

\* What is left for the next call: a symbol that nobody popped.
Unread(s, popped) == IF popped THEN NoSymbol ELSE s

\* A symbol that Line or the state's handler pops.
Popped(s) == Delivered(s) /\ input' = NoSymbol

\* process(c) with a byte that completes no symbol clears the semaphore.
PartialByte ==
    /\ input' = NoSymbol
    /\ UNCHANGED <<state, user, logout_permitted, screenVars, lineVars, argv0,
                   command, queryVars, answers, historyVars, configVars>>

-----------------------------------------------------------------------------
(* The end of notify: next is the state the handler returned, refresh and  *)
(* logout whether it set refresh_pending and logout_pending.               *)

\* (mutant) logout_pending is forgotten.
StateAfterNoLogout(next, logout) == next
StateAfter(next, logout) == IF logout THEN "USERNAME" ELSE next

\* (mutant) A change of state does not ask for a redraw.
RedrawsOnRequest(next, refresh) == refresh_pending \/ refresh
Redraws(next, refresh) == refresh_pending \/ refresh \/ next # state

Settle(next, refresh, logout) ==
    /\ state' = StateAfter(next, logout)
    /\ shown' = IF Redraws(next, refresh) THEN state' ELSE shown
    /\ refresh_pending' = FALSE

\* What character_is_allowed lets through to the line.
Typable(m) == IF m = "SESSION" THEN Typed ELSE Typed \ Spaced

Asks(m, p) == mode' = m /\ prompt' = p

AtKeyboard == state \in {"USERNAME", "PASSWORD", "LINE"}

\* line.process with a symbol that edits: Line redraws itself.
EditLine ==
    /\ AtKeyboard
    /\ Popped("EDIT")
    /\ text' \in Typable(mode)
    /\ Settle(state, FALSE, FALSE)
    /\ UNCHANGED <<user, logout_permitted, mode, prompt, argv0, command,
                   queryVars, historyVars, configVars>>

\* Events that the state's handler ignores.
IgnoreSymbol ==
    /\ \/ state \in {"USERNAME", "PASSWORD"} /\ \E s \in Symbols \ {"EDIT", "CR"} : Popped(s)
       \/ state = "LINE" /\ \E s \in {"ETX", "CPR", "OTHER"} : Popped(s)
    /\ Settle(state, FALSE, FALSE)
    /\ UNCHANGED <<user, logout_permitted, lineVars, argv0, command,
                   queryVars, historyVars, configVars>>

\* process() with nothing to read; in YIELD it calls the handler (below).
Poll ==
    /\ state # "YIELD"
    /\ input = NoSymbol
    /\ Settle(state, FALSE, FALSE)
    /\ UNCHANGED <<user, logout_permitted, lineVars, argv0, command, input,
                   queryVars, answers, historyVars, configVars>>

-----------------------------------------------------------------------------
(* Logging in at the prompt. *)

\* (mutant) An empty name is accepted.
NamedAlways(line) == TRUE
Named(line) == FirstToken[line] # NoWord

SubmitUsername ==
    /\ state = "USERNAME"
    /\ Popped("CR")
    /\ text' = Blank
    /\ argv0' = FirstToken[text]
    /\ IF Named(text)
       THEN Asks("PASSWORD", PasswordPrompt) /\ Settle("PASSWORD", FALSE, FALSE)
       ELSE UNCHANGED <<mode, prompt>> /\ Settle("USERNAME", FALSE, FALSE)
    /\ UNCHANGED <<user, logout_permitted, command, queryVars, historyVars, configVars>>

\* user_authenticate; the whole line is the password.
Matching(name, password) ==
    {a \in accounts : a.name = name /\ LineOf[a.password] = password}

SubmitPassword ==
    /\ state = "PASSWORD"
    /\ Popped("CR")
    /\ \/ /\ Matching(argv0, text) = {}
          /\ user' = NoUser
          /\ Settle("FAIL", FALSE, FALSE)
          /\ UNCHANGED lineVars
       \/ \E a \in Matching(argv0, text) :
          /\ user' = [name |-> a.name, role |-> a.role]
          /\ text' = Blank
          /\ Asks("SESSION", SessionPrompt(user'))
          /\ Settle("LINE", FALSE, FALSE)
    /\ UNCHANGED <<logout_permitted, argv0, command, queryVars, historyVars, configVars>>

LeaveFail ==
    /\ state = "FAIL"
    /\ \E s \in Symbols : Popped(s)
    /\ text' = Blank
    /\ Asks("USERNAME", UsernamePrompt)
    /\ Settle("USERNAME", FALSE, FALSE)
    /\ UNCHANGED <<user, logout_permitted, argv0, command, queryVars, historyVars, configVars>>

-----------------------------------------------------------------------------
(* The command line, other than Enter. *)

\* Names offered for a prefix: both tables are counted, so a registered
\* command that shadows a built-in one counts twice.
Candidates(w) == {c \in Builtins \cup user_commands : c.name \in Completions[w]}

\* Completion replaces a line of one token by the one candidate.
Completed(line) ==
    LET w == FirstToken[line]
    IN  IF ArgCount[line] = 1 /\ \E c \in Candidates(w) : Candidates(w) = {c}
        THEN LineOf[(CHOOSE c \in Candidates(w) : TRUE).name]
        ELSE line

Complete ==
    /\ state = "LINE"
    /\ Popped("HT")
    /\ text' = Completed(text)
    /\ argv0' = FirstToken[text]
    /\ Settle("LINE", TRUE, FALSE)
    /\ UNCHANGED <<user, logout_permitted, mode, prompt, command,
                   queryVars, historyVars, configVars>>

\* (mutant) The edited line is not stored before another one is shown.
StoredNowhere == hist
Stored == HistSet(hist, history_index, text)

\* Both directions: the line is stored where it came from, then i is read.
Browse(i) ==
    IF HistHas(hist, i)
    THEN /\ hist' = Stored
         /\ text' = HistGet(hist', i)
         /\ history_index' = i
         /\ Settle("LINE", TRUE, FALSE)
    ELSE /\ Settle("LINE", FALSE, FALSE)
         /\ UNCHANGED <<text, historyVars>>

HistoryUp ==
    /\ state = "LINE"
    /\ Popped("UP")
    /\ Browse(history_index + 1)
    /\ UNCHANGED <<user, logout_permitted, mode, prompt, argv0, command,
                   queryVars, configVars>>

\* (mutant) Down is not refused on the draft.
CanGoDownAlways == TRUE
CanGoDown == history_index > 0

HistoryDown ==
    /\ state = "LINE"
    /\ Popped("DOWN")
    /\ IF CanGoDown
       THEN Browse(history_index - 1)
       ELSE Settle("LINE", FALSE, FALSE) /\ UNCHANGED <<text, historyVars>>
    /\ UNCHANGED <<user, logout_permitted, mode, prompt, argv0, command,
                   queryVars, configVars>>

ClearLine ==
    /\ state = "LINE"
    /\ Popped("FF")
    /\ text' = Blank
    /\ Settle("LINE", TRUE, FALSE)
    /\ UNCHANGED <<user, logout_permitted, mode, prompt, argv0, command,
                   queryVars, historyVars, configVars>>

-----------------------------------------------------------------------------
(* Enter on the command line. *)

\* The registered commands are searched before the built-in ones.
Found(w) ==
    IF \E c \in user_commands : c.name = w THEN CHOOSE c \in user_commands : c.name = w
    ELSE IF \E c \in Builtins : c.name = w THEN CHOOSE c \in Builtins : c.name = w
    ELSE NoCommand

\* Command::authorize: a bit in common.
Authorized(c, u) == c.role \cap u.role # {}

\* (mutant) The handler of any command that is found is called.
CallableByAnyone(c) == c # NoCommand
Callable(c) == c # NoCommand /\ Authorized(c, user)

Logged(line) == HistPush(HistSet(hist, 0, line))

\* What every EXEC does before it looks at the command.
Enter ==
    /\ state = "LINE"
    /\ Popped("CR")
    /\ text' = Blank
    /\ history_index' = 0
    /\ hist' = Logged(text)
    /\ argv0' = FirstToken[text]
    /\ command' = IF FirstToken[text] = NoWord THEN NoCommand ELSE Found(FirstToken[text])
    /\ UNCHANGED <<user, logout_permitted, configVars>>

\* No token, no such command, or access denied.
ExecRefused ==
    /\ Enter
    /\ ~Callable(command')
    /\ Settle("LINE", TRUE, FALSE)
    /\ UNCHANGED <<mode, prompt, queryVars>>

\* The command whose handler is called, built-in ones told apart by fn.
Runs(fns) ==
    /\ Enter
    /\ Callable(command')
    /\ command'.fn \in fns

\* (mutant) logout_permitted is not looked at.
LeavesAlways == TRUE
Leaves == logout_permitted

\* cmd_logout; it sets logout_pending when the user Leaves.
CmdLogout ==
    IF Leaves THEN Asks("USERNAME", UsernamePrompt) ELSE UNCHANGED <<mode, prompt>>

ExecPlain ==
    /\ Runs({"clear", "help", "echo"})
    /\ Settle("LINE", TRUE, FALSE)
    /\ UNCHANGED <<mode, prompt, queryVars>>

ExecLogout ==
    /\ Runs({"logout"})
    /\ CmdLogout
    /\ Settle("LINE", TRUE, Leaves)
    /\ UNCHANGED queryVars

\* `resize` with a size, or with --help or a wrong option.
ExecResizeManual ==
    /\ Runs({"resize"})
    /\ cols' \in Sizes \cup {DefaultCols, cols}
    /\ Settle("LINE", TRUE, FALSE)
    /\ UNCHANGED <<mode, prompt, resize_state, asked>>

\* cmd_resize with no reply: it asks the terminal once and waits.
AskSize ==
    /\ resize_state' = "RX"
    /\ IF resize_state = "IDLE"
       THEN asked + answers < MaxReplies /\ asked' = asked + 1
       ELSE UNCHANGED asked
    /\ UNCHANGED cols

ExecResizeQuery ==
    /\ Runs({"resize"})
    /\ AskSize
    /\ Settle("YIELD", TRUE, FALSE)
    /\ UNCHANGED <<mode, prompt>>

\* A registered handler: it may read the symbol, call logout, clear and
\* return or yield.
Handler ==
    \E returns \in {"LINE", "YIELD"}, clears, leaves \in BOOLEAN :
    /\ leaves /\ Leaves /\ returns = "YIELD" => YieldsAfterLogout
    /\ IF leaves THEN CmdLogout ELSE UNCHANGED <<mode, prompt>>
    /\ Settle(returns, clears \/ state = "LINE", leaves /\ Leaves)
    /\ UNCHANGED queryVars

ExecUser ==
    /\ Runs({"user"})
    /\ Handler

-----------------------------------------------------------------------------
(* A command that has yielded. *)

\* (mutant) The query of an interrupted command stays open.
DropQueryNot == UNCHANGED resize_state
DropQuery == resize_state' = "IDLE"

YieldInterrupt ==
    /\ state = "YIELD"
    /\ Popped("ETX")
    /\ DropQuery
    /\ Settle("LINE", FALSE, FALSE)
    /\ UNCHANGED <<user, logout_permitted, lineVars, argv0, command, cols, asked,
                   historyVars, configVars>>

\* The yielding command is called with s, or with none.
Resumed(fn) ==
    /\ state = "YIELD"
    /\ command.fn = fn
    /\ UNCHANGED <<user, logout_permitted, text, argv0, command, historyVars, configVars>>

\* (mutant) The answered query stays open.
CloseQueryNot == UNCHANGED resize_state
CloseQuery == resize_state' = "IDLE"

\* The reply has come.
ResizeReply ==
    /\ Resumed("resize")
    /\ Popped("CPR")
    /\ resize_state = "RX"
    /\ cols' \in Sizes
    /\ CloseQuery
    /\ Settle("LINE", TRUE, FALSE)
    /\ UNCHANGED <<mode, prompt, asked>>

\* Any other symbol, or none, is dropped.
ResizeWait ==
    /\ Resumed("resize")
    /\ \E s \in (Symbols \ {"ETX"}) \cup {NoSymbol} :
          /\ s = "CPR" => resize_state = "IDLE"
          /\ Popped(s)
    /\ AskSize
    /\ Settle("YIELD", FALSE, FALSE)
    /\ UNCHANGED <<mode, prompt>>

YieldUser ==
    /\ Resumed("user")
    /\ \E s \in (Symbols \ {"ETX"}) \cup {NoSymbol}, popped \in BOOLEAN :
          /\ Delivered(s)
          /\ input' = Unread(s, popped)
    /\ Handler

-----------------------------------------------------------------------------
(* Calls from outside the input path. *)

OobAllowed == OobWhileResizing \/ resize_state = "IDLE"

OobLogin(u, permitted) ==
    /\ OobAllowed
    /\ user' = u
    /\ logout_permitted' = permitted
    /\ text' = Blank
    /\ Asks("SESSION", SessionPrompt(u))
    /\ state' = "LINE"
    /\ shown' = "LINE"
    /\ refresh_pending' = FALSE
    /\ UNCHANGED <<argv0, command, input, queryVars, answers, historyVars, configVars>>

\* (mutant) The next user inherits what the last one was allowed.
PermitLogoutNot == UNCHANGED logout_permitted
PermitLogout == logout_permitted' = TRUE

OobLogout ==
    /\ OobAllowed
    /\ user' = NoUser
    /\ PermitLogout
    /\ state' = "USERNAME"
    /\ shown' = "USERNAME"
    /\ refresh_pending' = FALSE
    /\ UNCHANGED <<lineVars, argv0, command, input, queryVars, answers, historyVars, configVars>>

\* Shell::refresh and Shell::set_size, called by the program, which does not
\* ask for no columns.
Refresh ==
    /\ shown' = state
    /\ refresh_pending' = FALSE
    /\ UNCHANGED <<state, user, logout_permitted, lineVars, argv0, command, input,
                   queryVars, answers, historyVars, configVars>>

SetSize ==
    /\ cols' \in Sizes \ {0}
    /\ UNCHANGED <<state, user, logout_permitted, screenVars, lineVars, argv0, command,
                   input, resize_state, asked, answers, historyVars, configVars>>

Reconfigure == UNCHANGED <<state, user, logout_permitted, screenVars, lineVars, argv0,
                           command, input, queryVars, answers, historyVars>>

\* add_user replaces the account of that name; a full user list refuses.
AddUser(a) ==
    /\ accounts' = {b \in accounts : b.name # a.name} \cup {a}
    /\ UNCHANGED user_commands
    /\ Reconfigure

RemoveUser(name) ==
    /\ accounts' = {b \in accounts : b.name # name}
    /\ UNCHANGED user_commands
    /\ Reconfigure

\* CommandHeap: the first registration of a name stays.
AddCommand(c) ==
    /\ \A d \in user_commands : d.name # c.name
    /\ user_commands' = user_commands \cup {c}
    /\ UNCHANGED accounts
    /\ Reconfigure

RemoveCommand(name) ==
    /\ user_commands' = {c \in user_commands : c.name # name}
    /\ UNCHANGED accounts
    /\ Reconfigure

\* set_user_commands: another list, in which a name is registered once.
SetUserCommands ==
    /\ user_commands' \in SUBSET UserCommands
    /\ \A c, d \in user_commands' : c.name = d.name => c = d
    /\ UNCHANGED accounts
    /\ Reconfigure

\* The terminal answers a DSR.
TerminalAnswers ==
    /\ asked > 0
    /\ asked' = asked - 1
    /\ answers' = answers + 1
    /\ UNCHANGED <<state, user, logout_permitted, screenVars, lineVars, argv0,
                   command, input, resize_state, cols, historyVars, configVars>>

-----------------------------------------------------------------------------
AtPrompt == EditLine \/ IgnoreSymbol \/ Poll \/ SubmitUsername \/ SubmitPassword \/ LeaveFail

OnLine == Complete \/ HistoryUp \/ HistoryDown \/ ClearLine

Exec == ExecRefused \/ ExecPlain \/ ExecLogout \/ ExecResizeManual \/ ExecResizeQuery \/ ExecUser

Yielding == YieldInterrupt \/ ResizeReply \/ ResizeWait \/ YieldUser

Outside ==
    \/ \E u \in OobUsers, permitted \in BOOLEAN : OobLogin(u, permitted)
    \/ OobLogout \/ Refresh \/ SetSize
    \/ \E a \in Accounts : AddUser(a) \/ RemoveUser(a.name)
    \/ \E c \in UserCommands : AddCommand(c) \/ RemoveCommand(c.name)
    \/ SetUserCommands \/ TerminalAnswers

Next == PartialByte \/ AtPrompt \/ OnLine \/ Exec \/ Yielding \/ Outside

Spec == Init /\ [][Next]_vars

-----------------------------------------------------------------------------
(* Properties. *)

InSession == state \in {"LINE", "YIELD"}

\* While there is a session it is a valid user's, and the line shows that
\* user's prompt and echoes what is typed, whichever way the session began
\* and whatever went on at the login prompt before.
SessionIsUsers ==
    InSession => user # NoUser /\ mode = "SESSION" /\ prompt = SessionPrompt(user)

\* While a password is asked for, or refused, there is a name to check it
\* against and to draw, and the line masks what is typed.
PasswordIsMasked ==
    state \in {"PASSWORD", "FAIL"} =>
        argv0 # NoWord /\ mode = "PASSWORD" /\ prompt = PasswordPrompt

\* A command holds the shell only on behalf of a user with a role in common,
\* and is called again with the arguments it was started with: not with the
\* ones of a line or a login that came in between.
YieldIsAuthorized ==
    state = "YIELD" =>
        command \in Commands /\ Authorized(command, user) /\ argv0 = command.name

\* A shell that waits at the login prompt will let the next user log out, even
\* after a session that could not.
LoginMayLogout == ~InSession => logout_permitted

\* The screen shows the state the shell is in, or is about to be redrawn.
ScreenIsCurrent == shown = state \/ refresh_pending

\* history_index names an entry of the history.
HistoryIndexExists == HistHas(hist, history_index)

\* The line never holds a record of the history that nobody wrote.
NoGarbageRecalled == text # Garbage

\* The history as the user sees it, the line being edited in its place.
View == [k \in 0 .. IF hist.size = 0 THEN 0 ELSE hist.size - 1 |->
            IF k = history_index THEN text ELSE HistGet(hist, k)]

\* Browsing loses nothing: going up or down changes where the user is in the
\* history and no line of it, edited ones included.  A clear is an edit: one by
\* ^L or oob_login is kept too, in place of the entry that was on the line.
BrowsingKeepsLines == [][HistoryUp \/ HistoryDown => View' = View]_vars

Resizing == state = "YIELD" /\ command.fn = "resize"

\* The resize command waits for a reply only while one is on its way.
ResizeHasQuery == Resizing => resize_state = "RX" /\ asked + answers > 0

\* resize_state is left idle whenever the command is over.
QueryEndsWithCommand == resize_state = "RX" => Resizing

\* The shell keeps the promises of Session: nobody is in session who did not
\* present a listed password or come in out of band, a command runs only for
\* a user with a role in common, and a user who may not log out stays.
S == INSTANCE Session WITH
        Users <- OobUsers,
        who <- IF InSession THEN user ELSE NoUser,
        running <- IF state = "YIELD" THEN command ELSE NoCommand,
        mayLogout <- logout_permitted

ImplementsSession == S!Spec

\* The terminal answers and the main loop reads the answer.
Fairness == WF_vars(TerminalAnswers) /\ WF_vars(ResizeReply)

FairSpec == Spec /\ Fairness

\* A size query ends, whatever is typed meanwhile.
ResizeEnds == Resizing ~> ~Resizing
===============================================================================
