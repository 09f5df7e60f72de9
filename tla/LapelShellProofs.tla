--------------------------- MODULE LapelShellProofs ---------------------------
(***************************************************************************)
(* Invariants of LapelShell, and that it implements Session, for every set *)
(* of lines, commands, accounts and users and every size of the history.   *)
(***************************************************************************)
EXTENDS LapelShell, HistoryProofs

\* TypeOK needs more to be inductive: what Browse puts in the line is a line
\* because every record within the history's size was written, and the
\* index it reads exists; a reply was a request before it came.
TypeInv ==
    /\ TypeOK
    /\ NoGarbageRecalled
    /\ Written(hist)
    /\ HistoryIndexExists
    /\ asked + answers <= MaxReplies

\* Delivering a symbol uses up at most a reply.
LEMMA DeliveredType ==
    ASSUME TypeInv, NEW s, Delivered(s)
    PROVE  /\ answers' \in 0 .. MaxReplies
           /\ asked + answers' <= MaxReplies
           /\ s \in Symbols \cup {NoSymbol}
BY ShellAssumption DEF TypeInv, TypeOK, Delivered, Symbols

\* Settle leaves a state that exists.
LEMMA SettleType ==
    ASSUME TypeInv, NEW next \in States, NEW refresh, NEW logout, Settle(next, refresh, logout)
    PROVE  /\ state' \in States
           /\ shown' \in States \cup {"NOTHING"}
           /\ refresh_pending' \in BOOLEAN
BY DEF TypeInv, TypeOK, Settle, StateAfter, States

LEMMA PromptTypes ==
    /\ UsernamePrompt \in {UsernamePrompt, PasswordPrompt} \cup {SessionPrompt(u) : u \in Users}
    /\ PasswordPrompt \in {UsernamePrompt, PasswordPrompt} \cup {SessionPrompt(u) : u \in Users}
OBVIOUS

\* What Found returns is a command of that name, or none.
LEMMA FoundType ==
    ASSUME TypeInv, NEW w \in Words
    PROVE  /\ Found(w) \in Commands \cup {NoCommand}
           /\ Found(w) # NoCommand => Found(w).name = w
<1>1. user_commands \subseteq Commands /\ Builtins \subseteq Commands
  BY DEF TypeInv, TypeOK, Commands
<1>2. CASE \E c \in user_commands : c.name = w
  <2>1. Found(w) \in user_commands /\ Found(w).name = w
    BY <1>2 DEF Found
  <2> QED BY <1>1, <2>1
<1>3. CASE ~(\E c \in user_commands : c.name = w) /\ \E c \in Builtins : c.name = w
  <2>1. Found(w) \in Builtins /\ Found(w).name = w
    BY <1>3 DEF Found
  <2> QED BY <1>1, <2>1
<1>4. CASE ~(\E c \in user_commands : c.name = w) /\ ~(\E c \in Builtins : c.name = w)
  BY <1>4 DEF Found
<1> QED BY <1>2, <1>3, <1>4

\* The line has a first token that is a word, or none.
LEMMA TextType ==
    ASSUME TypeInv
    PROVE  /\ text \in Lines
           /\ FirstToken[text] \in Words \cup {NoWord}
           /\ Completed(text) \in Lines
<1>1. text \in Lines /\ FirstToken[text] \in Words \cup {NoWord}
  BY ShellAssumption DEF TypeInv, TypeOK, NoGarbageRecalled
<1>2. Completed(text) \in Lines
  <2> DEFINE w == FirstToken[text]
             c == CHOOSE d \in Candidates(w) : TRUE
  <2>1. CASE \E d \in Candidates(w) : Candidates(w) = {d}
    <3>1. c \in Candidates(w)
      BY <2>1
    <3>2. c \in Commands
      BY <3>1 DEF Candidates, TypeInv, TypeOK, Commands
    <3>3. LineOf[c.name] \in Lines
      BY <3>2, ShellAssumption
    <3> QED BY <1>1, <3>3 DEF Completed
  <2>2. CASE ~ \E d \in Candidates(w) : Candidates(w) = {d}
    BY <1>1, <2>2 DEF Completed
  <2> QED BY <2>1, <2>2
<1> QED BY <1>1, <1>2

\* Enter leaves the history, the line and the command well typed.
LEMMA EnterType ==
    ASSUME TypeInv, Enter
    PROVE  /\ text' \in Lines /\ argv0' \in Words \cup {NoWord}
           /\ command' \in Commands \cup {NoCommand}
           /\ command' # NoCommand => argv0' = command'.name
           /\ hist' \in HistType /\ Written(hist') /\ history_index' = 0
           /\ input' = NoSymbol
           /\ answers' \in 0 .. MaxReplies
           /\ asked + answers' <= MaxReplies
<1>1. /\ text \in Lines /\ FirstToken[text] \in Words \cup {NoWord}
      /\ hist \in HistType /\ Written(hist) /\ Unterminated = {}
  BY TextType, ShellAssumption DEF TypeInv, TypeOK
<1>2. hist' \in HistType /\ Written(hist')
  <2>1. HistSet(hist, 0, text) \in HistType /\ Written(HistSet(hist, 0, text))
    BY <1>1, SetKeeps
  <2> QED BY <2>1, PushKeeps DEF Enter, Logged
<1>3. /\ command' \in Commands \cup {NoCommand}
      /\ command' # NoCommand => argv0' = command'.name
  BY <1>1, FoundType DEF Enter
<1>4. answers' \in 0 .. MaxReplies /\ asked + answers' <= MaxReplies
  BY DeliveredType DEF Enter, Popped
<1> QED BY <1>1, <1>2, <1>3, <1>4, HistoryAssumption DEF Enter, Popped

\* Browsing to an index above the history, or one below, is well typed.
LEMMA BrowseType ==
    ASSUME TypeInv, NEW i \in Nat, state = "LINE", Browse(i)
    PROVE  /\ text' \in Lines /\ history_index' \in 0 .. MaxRecords
           /\ hist' \in HistType /\ Written(hist') /\ HistHas(hist', history_index')
           /\ state' = "LINE"
           /\ shown' \in States \cup {"NOTHING"}
           /\ refresh_pending' \in BOOLEAN
<1>1. /\ text \in Lines
      /\ hist \in HistType /\ Written(hist) /\ Unterminated = {}
      /\ history_index \in Nat /\ (history_index < hist.size \/ history_index = 0)
  BY TextType, ShellAssumption DEF TypeInv, TypeOK, HistoryIndexExists, HistHas, Holds
<1>2. CASE HistHas(hist, i)
  <2>1. /\ hist' = HistSet(hist, history_index, text)
        /\ hist' \in HistType /\ Written(hist') /\ hist.size <= hist'.size
    BY <1>1, <1>2, SetKeeps DEF Browse, Stored
  <2>2. text' \in Lines
    BY <1>2, <2>1, GetReadsLine DEF Browse
  <2>3. i \in 0 .. MaxRecords /\ HistHas(hist', i)
    BY <1>1, <1>2, <2>1, HistoryAssumption DEF HistHas, Holds, HistType
  <2> QED BY <1>2, <2>1, <2>2, <2>3 DEF Browse, Settle, StateAfter, States, TypeInv, TypeOK
<1>3. CASE ~HistHas(hist, i)
  BY <1>1, <1>3 DEF Browse, Settle, StateAfter, States, TypeInv, TypeOK, historyVars, HistoryIndexExists
<1> QED BY <1>2, <1>3

\* The constants' types, in the form the steps use.
LEMMA ConstantTypes ==
    /\ Blank \in Lines /\ Garbage \notin Lines
    /\ Typed \subseteq Lines
    /\ "CPR" \in Symbols /\ Keys \subseteq Symbols
    /\ \A u \in OobUsers : u \in Users /\ u # NoUser
    /\ \A a \in Accounts :
          [name |-> a.name, role |-> a.role] \in Users
          /\ [name |-> a.name, role |-> a.role] # NoUser
    /\ NoUser \notin Users
<1>1. /\ \A a \in Accounts : [name |-> a.name, role |-> a.role] \in [name : Words, role : Roles]
      /\ \A u \in OobUsers : u \in [name : Words, role : Roles]
  BY ShellAssumption
<1>2. NoUser \notin [name : Words, role : Roles]
  BY ShellAssumption
<1>3. NoUser \notin Users
  BY <1>1, <1>2 DEF Users
<1>4. /\ \A u \in OobUsers : u \in Users
      /\ \A a \in Accounts : [name |-> a.name, role |-> a.role] \in Users
  BY DEF Users
<1> QED BY <1>3, <1>4, HistoryAssumption, ShellAssumption DEF Symbols

LEMMA InitType == Init => TypeInv
<1> SUFFICES ASSUME Init PROVE TypeInv
  OBVIOUS
<1>1. hist \in HistType /\ Written(hist) /\ hist.size = 0
  BY EmptyIsWritten DEF Init, HistEmpty
<1> QED BY <1>1, ConstantTypes, PromptTypes, ShellAssumption, HistoryAssumption
        DEF Init, TypeInv, TypeOK, States, HistoryIndexExists, HistHas, NoGarbageRecalled

\* The steps taken at a prompt: the login prompts and editing.
LEMMA AtPromptType == TypeInv /\ AtPrompt => TypeInv'
<1> SUFFICES ASSUME TypeInv, AtPrompt PROVE TypeInv'
  OBVIOUS
<1> USE DEF TypeInv, TypeOK, NoGarbageRecalled, HistoryIndexExists
<1>1. CASE EditLine
  <2>1. text' \in Lines
    BY <1>1, ConstantTypes DEF EditLine, Typable
  <2> QED BY <1>1, <2>1, ConstantTypes, DeliveredType, SettleType
          DEF EditLine, Popped, queryVars, historyVars, configVars, AtKeyboard, States
<1>2. CASE IgnoreSymbol
  <2>1. PICK s : Popped(s)
    BY <1>2 DEF IgnoreSymbol
  <2> QED BY <1>2, <2>1, DeliveredType, SettleType
          DEF IgnoreSymbol, Popped, lineVars, queryVars, historyVars, configVars, States
<1>3. CASE Poll
  BY <1>3, SettleType DEF Poll, lineVars, queryVars, historyVars, configVars
<1>4. CASE SubmitUsername
  <2>1. text' \in Lines /\ argv0' \in Words \cup {NoWord}
    BY <1>4, TextType, ConstantTypes DEF SubmitUsername
  <2>2. /\ state' \in States
        /\ shown' \in States \cup {"NOTHING"}
        /\ refresh_pending' \in BOOLEAN
        /\ mode' \in {"USERNAME", "PASSWORD", "SESSION"}
        /\ prompt' \in {UsernamePrompt, PasswordPrompt} \cup {SessionPrompt(u) : u \in Users}
    BY <1>4, SettleType, PromptTypes DEF SubmitUsername, Asks, States
  <2> QED BY <1>4, <2>1, <2>2, ConstantTypes, DeliveredType
          DEF SubmitUsername, Popped, queryVars, historyVars, configVars
<1>5. CASE SubmitPassword
  <2>1. /\ text' \in Lines
        /\ user' \in Users \cup {NoUser}
        /\ state' \in States
        /\ shown' \in States \cup {"NOTHING"}
        /\ refresh_pending' \in BOOLEAN
        /\ mode' \in {"USERNAME", "PASSWORD", "SESSION"}
        /\ prompt' \in {UsernamePrompt, PasswordPrompt} \cup {SessionPrompt(u) : u \in Users}
    <3>1. CASE Matching(argv0, text) = {} /\ UNCHANGED lineVars
               /\ user' = NoUser /\ Settle("FAIL", FALSE, FALSE)
      BY <3>1, SettleType, TextType DEF lineVars, States
    <3>2. ASSUME NEW a \in Matching(argv0, text),
                 user' = [name |-> a.name, role |-> a.role],
                 text' = Blank, Asks("SESSION", SessionPrompt(user')),
                 Settle("LINE", FALSE, FALSE)
          PROVE  <2>1!2 /\ <2>1!1 /\ <2>1!3 /\ <2>1!4 /\ <2>1!5 /\ <2>1!6 /\ <2>1!7
      <4>1. user' \in Users
        BY <3>2, ConstantTypes DEF Matching
      <4> QED BY <3>2, <4>1, SettleType, ConstantTypes DEF Asks, States
    <3> QED BY <1>5, <3>1, <3>2 DEF SubmitPassword
  <2> QED BY <1>5, <2>1, ConstantTypes, DeliveredType
          DEF SubmitPassword, Popped, queryVars, historyVars, configVars
<1>6. CASE LeaveFail
  <2>1. PICK s \in Symbols : Popped(s)
    BY <1>6 DEF LeaveFail
  <2> QED BY <1>6, <2>1, ConstantTypes, PromptTypes, DeliveredType, SettleType
          DEF LeaveFail, Popped, Asks, queryVars, historyVars, configVars, States
<1> QED BY <1>1, <1>2, <1>3, <1>4, <1>5, <1>6 DEF AtPrompt

\* The editing events that the command line handles.
LEMMA OnLineType == TypeInv /\ OnLine => TypeInv'
<1> SUFFICES ASSUME TypeInv, OnLine PROVE TypeInv'
  OBVIOUS
<1> USE DEF TypeInv, TypeOK, NoGarbageRecalled, HistoryIndexExists
<1>1. CASE Complete
  <2>1. text' \in Lines /\ argv0' \in Words \cup {NoWord}
    BY <1>1, TextType DEF Complete
  <2> QED BY <1>1, <2>1, ConstantTypes, DeliveredType, SettleType
          DEF Complete, Popped, queryVars, historyVars, configVars, States
<1>2. CASE HistoryUp
  <2>1. history_index + 1 \in Nat
    OBVIOUS
  <2> QED BY <1>2, <2>1, ConstantTypes, DeliveredType, BrowseType
          DEF HistoryUp, Popped, queryVars, configVars, States
<1>3. CASE HistoryDown
  <2>1. CASE CanGoDown
    <3>1. history_index - 1 \in Nat
      BY <2>1 DEF CanGoDown
    <3> QED BY <1>3, <2>1, <3>1, ConstantTypes, DeliveredType, BrowseType
            DEF HistoryDown, Popped, queryVars, configVars, States
  <2>2. CASE ~CanGoDown
    BY <1>3, <2>2, ConstantTypes, DeliveredType, SettleType
       DEF HistoryDown, Popped, queryVars, historyVars, configVars, States
  <2> QED BY <2>1, <2>2
<1>4. CASE ClearLine
  BY <1>4, ConstantTypes, DeliveredType, SettleType
     DEF ClearLine, Popped, queryVars, historyVars, configVars, States
<1> QED BY <1>1, <1>2, <1>3, <1>4 DEF OnLine

\* Enter, and the handlers of the commands.
LEMMA HandlerType ==
    ASSUME TypeInv, Handler, state \in States
    PROVE  /\ state' \in States
           /\ shown' \in States \cup {"NOTHING"}
           /\ refresh_pending' \in BOOLEAN
           /\ mode' \in {"USERNAME", "PASSWORD", "SESSION"}
           /\ prompt' \in {UsernamePrompt, PasswordPrompt} \cup {SessionPrompt(u) : u \in Users}
           /\ UNCHANGED queryVars
<1>1. PICK returns \in {"LINE", "YIELD"}, clears \in BOOLEAN, leaves \in BOOLEAN :
         /\ IF leaves THEN CmdLogout ELSE UNCHANGED <<mode, prompt>>
         /\ Settle(returns, clears \/ state = "LINE", leaves /\ Leaves)
         /\ UNCHANGED queryVars
  BY DEF Handler
<1>2. /\ state' \in States
      /\ shown' \in States \cup {"NOTHING"}
      /\ refresh_pending' \in BOOLEAN
  BY <1>1, SettleType DEF States
<1>3. /\ mode' \in {"USERNAME", "PASSWORD", "SESSION"}
      /\ prompt' \in {UsernamePrompt, PasswordPrompt} \cup {SessionPrompt(u) : u \in Users}
  BY <1>1, PromptTypes DEF CmdLogout, Asks, TypeInv, TypeOK
<1> QED BY <1>1, <1>2, <1>3

LEMMA ExecType == TypeInv /\ Exec => TypeInv'
<1> SUFFICES ASSUME TypeInv, Exec PROVE TypeInv'
  OBVIOUS
<1>1. Enter
  BY DEF Exec, ExecRefused, ExecPlain, ExecLogout, ExecResizeManual, ExecResizeQuery, ExecUser, Runs
<1>2. /\ text' \in Lines /\ argv0' \in Words \cup {NoWord}
      /\ command' \in Commands \cup {NoCommand}
      /\ hist' \in HistType /\ Written(hist') /\ history_index' = 0
      /\ input' = NoSymbol
      /\ answers' \in 0 .. MaxReplies
      /\ asked + answers' <= MaxReplies
  BY <1>1, EnterType
<1>3. /\ user' \in Users \cup {NoUser}
      /\ logout_permitted' \in BOOLEAN
      /\ user_commands' \subseteq UserCommands
      /\ accounts' \subseteq Accounts
      /\ state \in States
  BY <1>1 DEF Enter, configVars, TypeInv, TypeOK
<1>4. /\ state' \in States
      /\ shown' \in States \cup {"NOTHING"}
      /\ refresh_pending' \in BOOLEAN
      /\ mode' \in {"USERNAME", "PASSWORD", "SESSION"}
      /\ prompt' \in {UsernamePrompt, PasswordPrompt} \cup {SessionPrompt(u) : u \in Users}
      /\ resize_state' \in {"IDLE", "RX"}
      /\ cols' \in Sizes \cup {DefaultCols}
      /\ asked' \in 0 .. MaxReplies
      /\ asked' + answers' <= MaxReplies
  <2>1. CASE ExecRefused
    BY <1>2, <2>1, SettleType DEF ExecRefused, queryVars, States, TypeInv, TypeOK
  <2>2. CASE ExecPlain
    BY <1>2, <2>2, SettleType DEF ExecPlain, queryVars, States, TypeInv, TypeOK
  <2>3. CASE ExecLogout
    <3>1. /\ mode' \in {"USERNAME", "PASSWORD", "SESSION"}
          /\ prompt' \in {UsernamePrompt, PasswordPrompt} \cup {SessionPrompt(u) : u \in Users}
      BY <2>3, PromptTypes DEF ExecLogout, CmdLogout, Asks, TypeInv, TypeOK
    <3> QED BY <1>2, <2>3, <3>1, SettleType DEF ExecLogout, queryVars, States, TypeInv, TypeOK
  <2>4. CASE ExecResizeManual
    BY <1>2, <2>4, SettleType DEF ExecResizeManual, States, TypeInv, TypeOK
  <2>5. CASE ExecResizeQuery
    <3>1. /\ resize_state' \in {"IDLE", "RX"}
          /\ cols' \in Sizes \cup {DefaultCols}
          /\ asked' \in 0 .. MaxReplies
          /\ asked' + answers' <= MaxReplies
      <4>1. answers' <= answers
        BY <1>1 DEF Enter, Popped, Delivered, TypeInv, TypeOK
      <4> QED BY <1>2, <2>5, <4>1, ShellAssumption DEF ExecResizeQuery, AskSize, TypeInv, TypeOK
    <3> QED BY <2>5, <3>1, SettleType DEF ExecResizeQuery, States, TypeInv, TypeOK
  <2>6. CASE ExecUser
    BY <1>2, <1>3, <2>6, HandlerType DEF ExecUser, queryVars, TypeInv, TypeOK
  <2> QED BY <2>1, <2>2, <2>3, <2>4, <2>5, <2>6 DEF Exec
<1> QED BY <1>2, <1>3, <1>4, HistoryAssumption, ConstantTypes
        DEF TypeInv, TypeOK, NoGarbageRecalled, HistoryIndexExists, HistHas

LEMMA YieldingType == TypeInv /\ Yielding => TypeInv'
<1> SUFFICES ASSUME TypeInv, Yielding PROVE TypeInv'
  OBVIOUS
<1> USE DEF TypeInv, TypeOK, NoGarbageRecalled, HistoryIndexExists
<1>1. CASE YieldInterrupt
  BY <1>1, DeliveredType, SettleType
     DEF YieldInterrupt, DropQuery, Popped, lineVars, historyVars, configVars, States
<1>2. CASE ResizeReply
  BY <1>2, DeliveredType, SettleType
     DEF ResizeReply, Resumed, CloseQuery, Popped, historyVars, configVars, States
<1>3. CASE ResizeWait
  <2>1. PICK s \in (Symbols \ {"ETX"}) \cup {NoSymbol} : Popped(s)
    BY <1>3 DEF ResizeWait
  <2>2. answers' \in 0 .. MaxReplies /\ asked + answers' <= MaxReplies /\ answers' <= answers
    BY <2>1, DeliveredType DEF Popped, Delivered
  <2>3. asked' \in 0 .. MaxReplies /\ asked' + answers' <= MaxReplies /\ resize_state' \in {"IDLE", "RX"}
    BY <1>3, <2>2, ShellAssumption DEF ResizeWait, AskSize
  <2> QED BY <1>3, <2>1, <2>2, <2>3, SettleType
          DEF ResizeWait, Resumed, AskSize, Popped, historyVars, configVars, States
<1>4. CASE YieldUser
  <2>1. PICK s \in (Symbols \ {"ETX"}) \cup {NoSymbol}, popped \in BOOLEAN :
           Delivered(s) /\ input' = Unread(s, popped)
    BY <1>4 DEF YieldUser
  <2>2. /\ answers' \in 0 .. MaxReplies /\ asked + answers' <= MaxReplies
        /\ input' \in Symbols \cup {NoSymbol}
    BY <2>1, DeliveredType DEF Unread
  <2> QED BY <1>4, <2>2, HandlerType
          DEF YieldUser, Resumed, queryVars, historyVars, configVars
<1> QED BY <1>1, <1>2, <1>3, <1>4 DEF Yielding

LEMMA OutsideType == TypeInv /\ (Outside \/ PartialByte) => TypeInv'
<1> SUFFICES ASSUME TypeInv, Outside \/ PartialByte PROVE TypeInv'
  OBVIOUS
<1> USE DEF TypeInv, TypeOK, NoGarbageRecalled, HistoryIndexExists
<1>1. ASSUME NEW u \in OobUsers, NEW permitted \in BOOLEAN, OobLogin(u, permitted)
      PROVE  TypeInv'
  BY <1>1, ConstantTypes DEF OobLogin, Asks, queryVars, historyVars, configVars, States
<1>2. CASE OobLogout
  BY <1>2 DEF OobLogout, PermitLogout, lineVars, queryVars, historyVars, configVars, States
<1>3. CASE Refresh
  BY <1>3 DEF Refresh, lineVars, queryVars, historyVars, configVars
<1>4. CASE SetSize
  BY <1>4 DEF SetSize, lineVars, screenVars, historyVars, configVars
<1>5. ASSUME NEW a \in Accounts, AddUser(a) \/ RemoveUser(a.name)
      PROVE  TypeInv'
  BY <1>5 DEF AddUser, RemoveUser, Reconfigure, screenVars, lineVars, queryVars, historyVars
<1>6. ASSUME NEW c \in UserCommands, AddCommand(c) \/ RemoveCommand(c.name)
      PROVE  TypeInv'
  BY <1>6 DEF AddCommand, RemoveCommand, Reconfigure, screenVars, lineVars, queryVars, historyVars
<1>9. CASE SetUserCommands
  BY <1>9 DEF SetUserCommands, Reconfigure, screenVars, lineVars, queryVars, historyVars
<1>7. CASE TerminalAnswers
  BY <1>7, ShellAssumption DEF TerminalAnswers, screenVars, lineVars, historyVars, configVars
<1>8. CASE PartialByte
  BY <1>8 DEF PartialByte, screenVars, lineVars, queryVars, historyVars, configVars
<1> QED BY <1>1, <1>2, <1>3, <1>4, <1>5, <1>6, <1>7, <1>8, <1>9 DEF Outside

LEMMA StutterType == TypeInv /\ UNCHANGED vars => TypeInv'
BY DEF TypeInv, TypeOK, NoGarbageRecalled, HistoryIndexExists,
       vars, screenVars, lineVars, queryVars, historyVars, configVars

\* Every state the shell reaches is well typed, the line never holds a record
\* of the history that nobody wrote, and the index it browses at exists.
THEOREM TypeCorrect == Spec => [](TypeOK /\ NoGarbageRecalled /\ HistoryIndexExists)
<1>1. TypeInv /\ [Next]_vars => TypeInv'
  BY AtPromptType, OnLineType, ExecType, YieldingType, OutsideType, StutterType DEF Next
<1>2. TypeInv => TypeOK /\ NoGarbageRecalled /\ HistoryIndexExists
  BY DEF TypeInv
<1>3. Spec => []TypeInv
  BY InitType, <1>1, PTL DEF Spec
<1> QED BY <1>2, <1>3, PTL

\* The shell's variables keep their types.
THEOREM ShellTyped == Spec => []TypeOK
BY TypeCorrect, PTL

-----------------------------------------------------------------------------
(* Browsing.  The line goes back to the record it was read from before     *)
(* another is read, and no other index names that record.                  *)

LEMMA BrowseKeepsView ==
    ASSUME Whole, TypeInv, NEW i \in Nat, i # history_index, Browse(i)
    PROVE  View' = View
<1> DEFINE h == hist
           g == HistSet(h, history_index, text)
<1>1. /\ h \in HistType /\ h.size \in 0 .. MaxRecords /\ MaxRecords \in Nat
      /\ h.slots \in [SlotIndex -> Lines \cup {Garbage}]
      /\ history_index \in Nat /\ (history_index < h.size \/ history_index = 0)
      /\ Unterminated = {}
  BY ShellAssumption, HistoryAssumption DEF TypeInv, TypeOK, HistoryIndexExists, HistHas, Holds, HistType
<1>2. CASE HistHas(h, i)
  <2>1. /\ h.size > 0 /\ history_index \in 0 .. h.size - 1
        /\ hist' = g /\ text' = HistGet(g, i) /\ history_index' = i
    <3>1. i < h.size \/ i = 0
      BY <1>2 DEF HistHas, Holds
    <3>2. h.size > 0 /\ history_index \in 0 .. h.size - 1
      BY <1>1, <3>1
    <3>3. hist' = g /\ text' = HistGet(g, i) /\ history_index' = i
      BY <1>2 DEF Browse, Stored
    <3> QED BY <3>2, <3>3
  <2>2. /\ g.size = h.size /\ g.append_count = h.append_count
        /\ g.slots = [h.slots EXCEPT ![RecordOf(h, history_index)] = text]
    <3>1. h.size # 0 /\ history_index < h.size
      BY <1>1, <2>1
    <3>2. Recorded(text) = text
      BY <1>1 DEF Recorded
    <3>3. g = [size |-> h.size, append_count |-> h.append_count,
               slots |-> [h.slots EXCEPT ![RecordOf(h, history_index)] = text]]
      BY <3>1, <3>2 DEF HistSet
    <3> HIDE DEF g
    <3> QED BY <3>3
  <2>3. ASSUME NEW k \in 0 .. h.size - 1
        PROVE  HistGet(g, k) = IF k = history_index THEN text ELSE HistGet(h, k)
    <3>1. RecordOf(h, k) \in SlotIndex
      <4>1. k \in 0 .. SizeMod - 1 /\ MaxRecords > 0
        BY <1>1, HistoryAssumption
      <4> QED BY <1>1, <4>1, RecordInArray
    <3>2. /\ HistGet(g, k) = g.slots[RecordOf(h, k)]
          /\ HistGet(h, k) = h.slots[RecordOf(h, k)]
      BY <1>1, <2>2 DEF HistGet, Holds, RecordOf
    <3>3. CASE k = history_index
      BY <1>1, <2>2, <3>1, <3>2, <3>3
    <3>4. CASE k # history_index
      <4>1. RecordOf(h, k) # RecordOf(h, history_index)
        BY <1>1, <2>1, <3>4, HeldApart
      <4> QED BY <1>1, <2>2, <3>1, <3>2, <3>4, <4>1
    <3> QED BY <3>3, <3>4
  <2>4. View = [k \in 0 .. h.size - 1 |-> IF k = history_index THEN text ELSE HistGet(h, k)]
    BY <2>1 DEF View
  <2>5. View' = [k \in 0 .. h.size - 1 |-> IF k = i THEN HistGet(g, i) ELSE HistGet(g, k)]
    BY <2>1, <2>2 DEF View
  <2> HIDE DEF g, h
  <2> QED BY <2>3, <2>4, <2>5
<1>3. CASE ~HistHas(h, i)
  BY <1>3 DEF Browse, View, historyVars
<1> QED BY <1>2, <1>3

\* If every line fits its record with its terminator and the counter wraps
\* around at a record's end (Whole), going up or down loses no line of the
\* history and no edit of one.
THEOREM BrowsingCorrect ==
    ASSUME Whole
    PROVE  Spec => BrowsingKeepsLines
<1>1. TypeInv /\ [Next]_vars => TypeInv'
  BY AtPromptType, OnLineType, ExecType, YieldingType, OutsideType, StutterType DEF Next
<1>2. TypeInv /\ [Next]_vars => [HistoryUp \/ HistoryDown => View' = View]_vars
  <2> SUFFICES ASSUME TypeInv, HistoryUp \/ HistoryDown PROVE View' = View
    OBVIOUS
  <2>1. history_index \in Nat
    BY HistoryAssumption DEF TypeInv, TypeOK
  <2>2. CASE HistoryUp
    BY <2>1, <2>2, BrowseKeepsView DEF HistoryUp
  <2>3. CASE HistoryDown /\ history_index > 0
    BY <2>1, <2>3, BrowseKeepsView DEF HistoryDown, CanGoDown
  <2>4. CASE HistoryDown /\ ~(history_index > 0)
    BY <2>4 DEF HistoryDown, CanGoDown, View, historyVars
  <2> QED BY <2>2, <2>3, <2>4
<1> QED BY <1>1, <1>2, InitType, PTL DEF Spec, BrowsingKeepsLines

-----------------------------------------------------------------------------
(* The sessions, and that LapelShell implements Session. *)

\* The four invariants need each other's states only at the moments a session
\* begins; together they are inductive.
SessionInv == SessionIsUsers /\ PasswordIsMasked /\ YieldIsAuthorized /\ LoginMayLogout

LEMMA InitSession == Init => SessionInv
BY DEF Init, SessionInv, SessionIsUsers, PasswordIsMasked, YieldIsAuthorized, LoginMayLogout, InSession

LEMMA AtPromptSession == TypeInv /\ SessionInv /\ AtPrompt => SessionInv'
<1> SUFFICES ASSUME TypeInv, SessionInv, AtPrompt PROVE SessionInv'
  OBVIOUS
<1> USE DEF SessionInv, SessionIsUsers, PasswordIsMasked, YieldIsAuthorized, LoginMayLogout, InSession,
            Settle, StateAfter, Asks, configVars
<1>1. CASE EditLine
  BY <1>1 DEF EditLine, AtKeyboard, Authorized
<1>2. CASE IgnoreSymbol
  BY <1>2 DEF IgnoreSymbol, lineVars, Authorized
<1>3. CASE Poll
  BY <1>3 DEF Poll, lineVars, Authorized
<1>4. CASE SubmitUsername
  BY <1>4 DEF SubmitUsername, Named
<1>5. CASE SubmitPassword
  <2>1. CASE Matching(argv0, text) = {} /\ UNCHANGED lineVars /\ Settle("FAIL", FALSE, FALSE)
    BY <1>5, <2>1 DEF SubmitPassword, lineVars
  <2>2. ASSUME NEW a \in Matching(argv0, text),
               user' = [name |-> a.name, role |-> a.role],
               Asks("SESSION", SessionPrompt(user')), Settle("LINE", FALSE, FALSE)
        PROVE  SessionInv'
    <3>1. user' # NoUser
      BY <2>2, ConstantTypes DEF Matching, TypeInv, TypeOK
    <3> QED BY <2>2, <3>1
  <2> QED BY <1>5, <2>1, <2>2 DEF SubmitPassword
<1>6. CASE LeaveFail
  BY <1>6 DEF LeaveFail
<1> QED BY <1>1, <1>2, <1>3, <1>4, <1>5, <1>6 DEF AtPrompt

LEMMA OnLineSession == TypeInv /\ SessionInv /\ OnLine => SessionInv'
<1> SUFFICES ASSUME TypeInv, SessionInv, OnLine PROVE SessionInv'
  OBVIOUS
<1>1. state = "LINE" /\ state' = "LINE" /\ UNCHANGED <<user, mode, prompt>>
  BY DEF OnLine, Complete, HistoryUp, HistoryDown, ClearLine, Browse, Settle, StateAfter
<1> QED BY <1>1 DEF SessionInv, SessionIsUsers, PasswordIsMasked, YieldIsAuthorized, LoginMayLogout, InSession

\* A handler of a command that may run ends in a session, or logs out.
LEMMA HandlerSession ==
    ASSUME SessionInv, Handler, InSession,
           UNCHANGED <<user, logout_permitted>>,
           command' \in Commands, command'.role \cap user.role # {}, argv0' = command'.name
    PROVE  SessionInv'
<1>1. PICK returns \in {"LINE", "YIELD"}, clears \in BOOLEAN, leaves \in BOOLEAN :
         /\ IF leaves THEN CmdLogout ELSE UNCHANGED <<mode, prompt>>
         /\ Settle(returns, clears \/ state = "LINE", leaves /\ Leaves)
  BY DEF Handler
<1>2. CASE leaves /\ Leaves
  BY <1>1, <1>2 DEF CmdLogout, Settle, StateAfter, Leaves, SessionInv, SessionIsUsers,
     PasswordIsMasked, YieldIsAuthorized, LoginMayLogout, InSession
<1>3. CASE ~(leaves /\ Leaves)
  <2>1. state' = returns /\ UNCHANGED <<mode, prompt>>
    BY <1>1, <1>3 DEF CmdLogout, Settle, StateAfter
  <2> QED BY <2>1 DEF SessionInv, SessionIsUsers, PasswordIsMasked, YieldIsAuthorized,
          LoginMayLogout, InSession, Authorized
<1> QED BY <1>2, <1>3

LEMMA ExecSession == TypeInv /\ SessionInv /\ Exec => SessionInv'
<1> SUFFICES ASSUME TypeInv, SessionInv, Exec PROVE SessionInv'
  OBVIOUS
<1>1. Enter
  BY DEF Exec, ExecRefused, ExecPlain, ExecLogout, ExecResizeManual, ExecResizeQuery, ExecUser, Runs
<1>2. /\ state = "LINE" /\ UNCHANGED <<user, logout_permitted>>
      /\ command' \in Commands \cup {NoCommand}
      /\ command' # NoCommand => argv0' = command'.name
  BY <1>1, EnterType DEF Enter
<1> USE DEF SessionInv, SessionIsUsers, PasswordIsMasked, YieldIsAuthorized, LoginMayLogout, InSession,
            Settle, StateAfter
<1>3. CASE ExecRefused
  BY <1>2, <1>3 DEF ExecRefused
<1>4. CASE ExecPlain
  BY <1>2, <1>4 DEF ExecPlain
<1>5. CASE ExecLogout
  BY <1>2, <1>5 DEF ExecLogout, CmdLogout, Leaves
<1>6. CASE ExecResizeManual
  BY <1>2, <1>6 DEF ExecResizeManual
<1>7. CASE ExecResizeQuery
  <2>1. command' # NoCommand /\ command'.role \cap user.role # {}
    BY <1>7 DEF ExecResizeQuery, Runs, Callable, Authorized
  <2>2. state' = "YIELD" /\ UNCHANGED <<mode, prompt>>
    BY <1>7 DEF ExecResizeQuery
  <2> QED BY <1>2, <2>1, <2>2 DEF Authorized
<1>8. CASE ExecUser
  <2>1. command' # NoCommand /\ command'.role \cap user.role # {} /\ Handler
    BY <1>8 DEF ExecUser, Runs, Callable, Authorized
  <2>2. InSession
    BY <1>2
  <2> HIDE DEF SessionInv, InSession
  <2> QED BY <1>2, <2>1, <2>2, HandlerSession
<1> QED BY <1>3, <1>4, <1>5, <1>6, <1>7, <1>8 DEF Exec

LEMMA YieldingSession == TypeInv /\ SessionInv /\ Yielding => SessionInv'
<1> SUFFICES ASSUME TypeInv, SessionInv, Yielding PROVE SessionInv'
  OBVIOUS
<1>1. state = "YIELD" /\ UNCHANGED <<user, logout_permitted, argv0, command>>
  BY DEF Yielding, YieldInterrupt, ResizeReply, ResizeWait, YieldUser, Resumed
<1>2. CASE YieldUser
  <2>1. command' \in Commands /\ command'.role \cap user.role # {} /\ argv0' = command'.name
    BY <1>1 DEF SessionInv, YieldIsAuthorized, Authorized
  <2> QED BY <1>1, <1>2, <2>1, HandlerSession DEF YieldUser, InSession
<1>3. CASE YieldInterrupt \/ ResizeReply \/ ResizeWait
  <2>1. state' \in {"LINE", "YIELD"} /\ UNCHANGED <<mode, prompt>>
    BY <1>3 DEF YieldInterrupt, ResizeReply, ResizeWait, Settle, StateAfter, lineVars
  <2> QED BY <1>1, <2>1 DEF SessionInv, SessionIsUsers, PasswordIsMasked, YieldIsAuthorized,
          LoginMayLogout, InSession, Authorized
<1> QED BY <1>2, <1>3 DEF Yielding

LEMMA OutsideSession == TypeInv /\ SessionInv /\ (Outside \/ PartialByte \/ UNCHANGED vars) => SessionInv'
<1> SUFFICES ASSUME TypeInv, SessionInv, Outside \/ PartialByte \/ UNCHANGED vars PROVE SessionInv'
  OBVIOUS
<1> USE DEF SessionInv, SessionIsUsers, PasswordIsMasked, YieldIsAuthorized, LoginMayLogout, InSession
<1>1. ASSUME NEW u \in OobUsers, NEW permitted \in BOOLEAN, OobLogin(u, permitted)
      PROVE  SessionInv'
  BY <1>1, ConstantTypes DEF OobLogin, Asks
<1>2. CASE OobLogout
  BY <1>2 DEF OobLogout, PermitLogout
<1>3. ASSUME UNCHANGED <<state, user, logout_permitted, lineVars, argv0, command>>
      PROVE  SessionInv'
  BY <1>3 DEF lineVars, Authorized
<1>4. ASSUME NEW a \in Accounts, AddUser(a) \/ RemoveUser(a.name)
      PROVE  SessionInv'
  BY <1>3, <1>4 DEF AddUser, RemoveUser, Reconfigure
<1>5. ASSUME NEW c \in UserCommands, AddCommand(c) \/ RemoveCommand(c.name)
      PROVE  SessionInv'
  BY <1>3, <1>5 DEF AddCommand, RemoveCommand, Reconfigure
<1>6. CASE SetUserCommands \/ Refresh \/ SetSize \/ TerminalAnswers \/ PartialByte \/ UNCHANGED vars
  BY <1>3, <1>6 DEF SetUserCommands, Reconfigure, Refresh, SetSize, TerminalAnswers, PartialByte, vars
<1> QED BY <1>1, <1>2, <1>4, <1>5, <1>6 DEF Outside

LEMMA StepType == TypeInv /\ [Next]_vars => TypeInv'
BY AtPromptType, OnLineType, ExecType, YieldingType, OutsideType, StutterType DEF Next

LEMMA StepSession == TypeInv /\ SessionInv /\ [Next]_vars => SessionInv'
BY AtPromptSession, OnLineSession, ExecSession, YieldingSession, OutsideSession DEF Next

LEMMA Reached == Spec => [](TypeInv /\ SessionInv)
BY InitType, InitSession, StepType, StepSession, PTL DEF Spec

\* A session is a valid user's, with that user's prompt; a password is asked
\* for only after a name and is masked; a command that has yielded is one its
\* user may run; and whoever comes to the login prompt will be able to log out.
THEOREM SessionCorrect ==
    Spec => [](SessionIsUsers /\ PasswordIsMasked /\ YieldIsAuthorized /\ LoginMayLogout)
BY Reached, PTL DEF SessionInv

\* Said of each on its own.  A session is a valid user's.
THEOREM SessionBelongs == Spec => []SessionIsUsers
BY SessionCorrect, PTL

\* A password is typed under the mask.
THEOREM PasswordUnderMask == Spec => []PasswordIsMasked
BY SessionCorrect, PTL

\* Nobody comes to the login prompt of a shell whose session cannot be left.
THEOREM LogoutIsPermitted == Spec => []LoginMayLogout
BY SessionCorrect, PTL

-----------------------------------------------------------------------------
(* The screen.  A handler that logs out and yields all the same is the one  *)
(* way to an undrawn prompt.                                               *)

\* Settle draws the state it leaves, unless a logout is all that happened.
LEMMA SettleDraws ==
    ASSUME ScreenIsCurrent, NEW next, NEW refresh, NEW logout,
           Settle(next, refresh, logout), logout => refresh \/ next # state
    PROVE  ScreenIsCurrent'
BY DEF ScreenIsCurrent, Settle, StateAfter, Redraws

LEMMA StepScreen ==
    ASSUME ~YieldsAfterLogout, TypeInv, ScreenIsCurrent, [Next]_vars
    PROVE  ScreenIsCurrent'
<1>1. CASE AtPrompt
  BY <1>1, SettleDraws DEF AtPrompt, EditLine, IgnoreSymbol, Poll, SubmitUsername, SubmitPassword, LeaveFail
<1>2. CASE OnLine
  BY <1>2, SettleDraws DEF OnLine, Complete, HistoryUp, HistoryDown, ClearLine, Browse
<1>3. ASSUME Handler PROVE ScreenIsCurrent'
  <2>1. PICK returns \in {"LINE", "YIELD"}, clears \in BOOLEAN, leaves \in BOOLEAN :
           /\ leaves /\ Leaves /\ returns = "YIELD" => YieldsAfterLogout
           /\ Settle(returns, clears \/ state = "LINE", leaves /\ Leaves)
    BY <1>3 DEF Handler
  <2>2. leaves /\ Leaves => (clears \/ state = "LINE") \/ returns # state
    BY <2>1
  <2> QED BY <2>1, <2>2, SettleDraws
<1>4. CASE Exec
  BY <1>3, <1>4, SettleDraws
     DEF Exec, ExecRefused, ExecPlain, ExecLogout, ExecResizeManual, ExecResizeQuery, ExecUser
<1>5. CASE Yielding
  BY <1>3, <1>5, SettleDraws DEF Yielding, YieldInterrupt, ResizeReply, ResizeWait, YieldUser
<1>6. CASE Outside \/ PartialByte \/ UNCHANGED vars
  BY <1>6 DEF ScreenIsCurrent, Outside, OobLogin, OobLogout, Refresh, SetSize, AddUser, RemoveUser,
     AddCommand, RemoveCommand, SetUserCommands, TerminalAnswers, Reconfigure, PartialByte, vars, screenVars
<1> QED BY <1>1, <1>2, <1>4, <1>5, <1>6 DEF Next

\* If no handler yields after it has logged out, the screen always shows the
\* state the shell is in, or the next call redraws it.
THEOREM ScreenCorrect ==
    ASSUME ~YieldsAfterLogout
    PROVE  Spec => []ScreenIsCurrent
<1>1. Init => ScreenIsCurrent
  BY DEF Init, ScreenIsCurrent
<1>2. TypeInv /\ ScreenIsCurrent /\ [Next]_vars => ScreenIsCurrent'
  BY StepScreen
<1> QED BY <1>1, <1>2, InitType, StepType, PTL DEF Spec

-----------------------------------------------------------------------------
(* The size query. *)

\* The query is open exactly while the command that asked is waiting, and an
\* open query has a reply to come.
QueryInv == ResizeHasQuery /\ QueryEndsWithCommand

\* Delivering anything but a reply leaves the replies.
LEMMA OtherSymbol ==
    ASSUME NEW s, Delivered(s), s # "CPR"
    PROVE  UNCHANGED answers
BY DEF Delivered

LEMMA MoreThanNone == \A m, n \in Nat : (m + 1) + n > 0
OBVIOUS

LEMMA StepQuery ==
    ASSUME ~OobWhileResizing, TypeInv, QueryInv, [Next]_vars
    PROVE  QueryInv'
<1> USE DEF QueryInv, ResizeHasQuery, QueryEndsWithCommand, Resizing
<1>1. ASSUME state # "YIELD", state' # "YIELD", UNCHANGED resize_state
      PROVE  QueryInv'
  BY <1>1 DEF TypeInv, TypeOK
<1>2. CASE AtPrompt
  <2>1. UNCHANGED resize_state
    BY <1>2 DEF AtPrompt, EditLine, IgnoreSymbol, Poll, SubmitUsername, SubmitPassword, LeaveFail, queryVars
  <2>2. state # "YIELD" /\ state' # "YIELD"
    BY <1>2 DEF AtPrompt, EditLine, IgnoreSymbol, Poll, SubmitUsername, SubmitPassword, LeaveFail,
       AtKeyboard, Settle, StateAfter
  <2> QED BY <1>1, <2>1, <2>2
<1>3. CASE OnLine
  <2>1. /\ UNCHANGED resize_state
        /\ state = "LINE" /\ state' = "LINE"
    BY <1>3 DEF OnLine, Complete, HistoryUp, HistoryDown, ClearLine, Browse, Settle, StateAfter, queryVars
  <2> QED BY <1>1, <2>1
<1>4. CASE Exec
  <2>1. state = "LINE" /\ resize_state = "IDLE"
    BY <1>4 DEF Exec, ExecRefused, ExecPlain, ExecLogout, ExecResizeManual, ExecResizeQuery, ExecUser,
       Runs, Enter, TypeInv, TypeOK
  <2>2. CASE ExecRefused \/ ExecPlain \/ ExecLogout \/ ExecResizeManual
    <3>1. state' # "YIELD" /\ UNCHANGED resize_state
      BY <2>2 DEF ExecRefused, ExecPlain, ExecLogout, ExecResizeManual, Settle, StateAfter, queryVars
    <3> QED BY <1>1, <2>1, <3>1
  <2>3. CASE ExecResizeQuery
    <3>1. /\ resize_state' = "RX" /\ asked' = asked + 1
          /\ state' = "YIELD" /\ command'.fn = "resize"
      BY <2>1, <2>3 DEF ExecResizeQuery, AskSize, Runs, Settle, StateAfter
    <3>2. answers' \in Nat
      BY <2>3, EnterType DEF ExecResizeQuery, Runs
    <3>3. asked \in Nat
      BY ShellAssumption DEF TypeInv, TypeOK
    <3>4. asked' + answers' > 0
      BY <3>1, <3>2, <3>3, MoreThanNone
    <3> QED BY <3>1, <3>4
  <2>4. CASE ExecUser
    <3>1. command'.fn = "user" /\ UNCHANGED resize_state
      BY <2>4 DEF ExecUser, Runs, Handler, queryVars
    <3> QED BY <2>1, <3>1
  <2> QED BY <1>4, <2>2, <2>3, <2>4 DEF Exec
<1>5. CASE Yielding
  <2>1. CASE YieldInterrupt
    BY <2>1 DEF YieldInterrupt, DropQuery, Settle, StateAfter
  <2>2. CASE ResizeReply
    BY <2>2 DEF ResizeReply, CloseQuery, Settle, StateAfter
  <2>3. CASE ResizeWait
    <3>1. Resizing /\ resize_state = "RX"
      BY <2>3 DEF ResizeWait, Resumed
    <3>2. PICK s \in (Symbols \ {"ETX"}) \cup {NoSymbol} :
             (s = "CPR" => resize_state = "IDLE") /\ Delivered(s)
      BY <2>3 DEF ResizeWait, Popped
    <3>3. UNCHANGED <<asked, answers, resize_state, command>> /\ state' = "YIELD"
      BY <2>3, <3>1, <3>2, OtherSymbol DEF ResizeWait, queryVars, Resumed, AskSize, Settle, StateAfter
    <3> QED BY <3>1, <3>3
  <2>4. CASE YieldUser
    <3>1. /\ command.fn = "user" /\ UNCHANGED <<command, resize_state>>
          /\ state = "YIELD"
      BY <2>4 DEF YieldUser, Resumed, Handler, queryVars
    <3> QED BY <3>1
  <2> QED BY <1>5, <2>1, <2>2, <2>3, <2>4 DEF Yielding
<1>6. CASE Outside \/ PartialByte \/ UNCHANGED vars
  <2>1. ASSUME UNCHANGED <<state, command, resize_state, asked, answers>>
        PROVE  QueryInv'
    BY <2>1
  <2>2. ASSUME NEW u \in OobUsers, NEW permitted \in BOOLEAN, OobLogin(u, permitted)
        PROVE  QueryInv'
    BY <2>2 DEF OobLogin, OobAllowed, queryVars
  <2>3. CASE OobLogout
    BY <2>3 DEF OobLogout, OobAllowed, queryVars
  <2>4. CASE TerminalAnswers
    BY <2>4 DEF TerminalAnswers, TypeInv, TypeOK
  <2>5. ASSUME NEW a \in Accounts, AddUser(a) \/ RemoveUser(a.name)
        PROVE  QueryInv'
    BY <2>1, <2>5 DEF AddUser, RemoveUser, Reconfigure, queryVars
  <2>6. ASSUME NEW c \in UserCommands, AddCommand(c) \/ RemoveCommand(c.name)
        PROVE  QueryInv'
    BY <2>1, <2>6 DEF AddCommand, RemoveCommand, Reconfigure, queryVars
  <2>7. CASE SetUserCommands \/ Refresh \/ SetSize \/ PartialByte \/ UNCHANGED vars
    BY <2>1, <2>7 DEF SetUserCommands, Reconfigure, Refresh, SetSize, PartialByte, vars, queryVars
  <2> QED BY <1>6, <2>2, <2>3, <2>4, <2>5, <2>6, <2>7 DEF Outside
<1> QED BY <1>2, <1>3, <1>4, <1>5, <1>6 DEF Next

\* If the transport does not log in or out during a size query, the resize
\* command never waits without a reply to come, and leaves no query open.
THEOREM QueryCorrect ==
    ASSUME ~OobWhileResizing
    PROVE  Spec => [](ResizeHasQuery /\ QueryEndsWithCommand)
<1>1. Init => QueryInv
  BY DEF Init, QueryInv, ResizeHasQuery, QueryEndsWithCommand, Resizing
<1>2. TypeInv /\ QueryInv /\ [Next]_vars => QueryInv'
  BY StepQuery
<1>3. QueryInv => ResizeHasQuery /\ QueryEndsWithCommand
  BY DEF QueryInv
<1>4. Spec => []QueryInv
  BY <1>1, <1>2, InitType, StepType, PTL DEF Spec
<1> QED BY <1>3, <1>4, PTL

\* No query outlives the command that opened it.
THEOREM QueryIsClosed ==
    ASSUME ~OobWhileResizing
    PROVE  Spec => []QueryEndsWithCommand
BY QueryCorrect, PTL

-----------------------------------------------------------------------------
(* Refinement. *)

\* The session as Session sees it is unchanged when these variables are.
LEMMA SameSession ==
    ASSUME UNCHANGED <<state, user, command, logout_permitted, accounts>>
    PROVE  UNCHANGED S!vars
BY DEF S!vars, InSession

\* A step between states of one kind changes nothing that Session sees.
LEMMA StaysIn ==
    ASSUME UNCHANGED <<user, logout_permitted, accounts>>,
           \/ state \in {"USERNAME", "PASSWORD", "FAIL"} /\ state' \in {"USERNAME", "PASSWORD", "FAIL"}
           \/ state = "LINE" /\ state' = "LINE"
    PROVE  UNCHANGED S!vars
BY DEF S!vars, InSession

\* How a command's handler ends, whether it was just called or called again.
LEMMA HandlerImplements ==
    ASSUME SessionInv, Handler, InSession,
           UNCHANGED <<user, logout_permitted, accounts>>,
           command' \in Commands, command'.role \cap user.role # {},
           state = "YIELD" => command' = command
    PROVE  S!Next \/ UNCHANGED S!vars
<1>1. PICK returns \in {"LINE", "YIELD"}, clears \in BOOLEAN, leaves \in BOOLEAN :
         Settle(returns, clears \/ state = "LINE", leaves /\ Leaves)
  BY DEF Handler
<1>2. state' = IF leaves /\ Leaves THEN "USERNAME" ELSE returns
  BY <1>1 DEF Settle, StateAfter
<1>3. user # NoUser /\ NoCommand \notin Commands
  BY ShellAssumption DEF SessionInv, SessionIsUsers
<1>4. CASE leaves /\ Leaves
  <2>1. S!Logout(command')
    BY <1>2, <1>3, <1>4 DEF S!Logout, S!MayRun, InSession, Leaves
  <2> QED BY <2>1 DEF S!Next
<1>5. CASE ~(leaves /\ Leaves) /\ state = "LINE" /\ returns = "YIELD"
  <2>1. S!Start(command')
    BY <1>2, <1>3, <1>5 DEF S!Start, S!MayRun, InSession
  <2> QED BY <2>1 DEF S!Next
<1>6. CASE ~(leaves /\ Leaves) /\ state = "YIELD" /\ returns = "LINE"
  <2>1. S!Finish
    BY <1>2, <1>3, <1>6 DEF S!Finish, InSession
  <2> QED BY <2>1 DEF S!Next
<1>7. CASE ~(leaves /\ Leaves) /\ state = returns
  BY <1>2, <1>7 DEF S!vars, InSession
<1> QED BY <1>4, <1>5, <1>6, <1>7 DEF InSession

LEMMA StepImplements ==
    ASSUME TypeInv, SessionInv, [Next]_vars
    PROVE  [S!Next]_S!vars
<1>1. CASE AtPrompt
  <2>1. CASE EditLine \/ IgnoreSymbol \/ Poll
    BY <2>1, SameSession, StaysIn
       DEF EditLine, IgnoreSymbol, Poll, AtKeyboard, Settle, StateAfter, configVars, TypeInv, TypeOK, States
  <2>2. CASE SubmitUsername \/ LeaveFail
    BY <2>2, StaysIn DEF SubmitUsername, LeaveFail, Settle, StateAfter, configVars
  <2>3. CASE SubmitPassword
    <3>1. CASE Settle("FAIL", FALSE, FALSE)
      BY <2>3, <3>1 DEF SubmitPassword, Settle, StateAfter, S!vars, InSession, configVars
    <3>2. ASSUME NEW a \in Matching(argv0, text),
                 user' = [name |-> a.name, role |-> a.role], Settle("LINE", FALSE, FALSE)
          PROVE  S!Next
      <4>1. a \in accounts /\ a \in Accounts
        BY DEF Matching, TypeInv, TypeOK
      <4>2. S!Login(a)
        BY <2>3, <3>2, <4>1 DEF SubmitPassword, Settle, StateAfter, S!Login, S!UserOf, InSession, configVars
      <4> QED BY <4>1, <4>2 DEF S!Next
    <3> QED BY <2>3, <3>1, <3>2 DEF SubmitPassword
  <2> QED BY <1>1, <2>1, <2>2, <2>3 DEF AtPrompt
<1>2. CASE OnLine
  BY <1>2, StaysIn DEF OnLine, Complete, HistoryUp, HistoryDown, ClearLine, Browse, Settle, StateAfter, configVars
<1>3. CASE Exec
  <2>1. Enter
    BY <1>3 DEF Exec, ExecRefused, ExecPlain, ExecLogout, ExecResizeManual, ExecResizeQuery, ExecUser, Runs
  <2>2. /\ state = "LINE" /\ UNCHANGED <<user, logout_permitted, accounts>>
        /\ command' \in Commands \cup {NoCommand}
        /\ user # NoUser /\ NoCommand \notin Commands
    BY <2>1, EnterType, ShellAssumption DEF Enter, configVars, SessionInv, SessionIsUsers, InSession
  <2>3. CASE ExecRefused \/ ExecPlain \/ ExecResizeManual
    BY <2>2, <2>3, StaysIn DEF ExecRefused, ExecPlain, ExecResizeManual, Settle, StateAfter
  <2>4. CASE ExecLogout
    <3>1. command' \in Commands /\ command'.role \cap user.role # {}
      BY <2>2, <2>4 DEF ExecLogout, Runs, Callable, Authorized
    <3>2. state' = IF Leaves THEN "USERNAME" ELSE "LINE"
      BY <2>4 DEF ExecLogout, Settle, StateAfter
    <3>3. CASE Leaves
      <4>1. S!Logout(command')
        BY <2>2, <3>1, <3>2, <3>3 DEF S!Logout, S!MayRun, InSession, Leaves
      <4> QED BY <3>1, <4>1 DEF S!Next
    <3>4. CASE ~Leaves
      BY <2>2, <3>2, <3>4, StaysIn
    <3> QED BY <3>3, <3>4
  <2>5. CASE ExecResizeQuery
    <3>1. command' \in Commands /\ command'.role \cap user.role # {}
      BY <2>2, <2>5 DEF ExecResizeQuery, Runs, Callable, Authorized
    <3>2. S!Start(command')
      BY <2>2, <2>5, <3>1 DEF ExecResizeQuery, Settle, StateAfter, S!Start, S!MayRun, InSession
    <3> QED BY <3>1, <3>2 DEF S!Next
  <2>6. CASE ExecUser
    <3>1. command' \in Commands /\ command'.role \cap user.role # {} /\ Handler
      BY <2>2, <2>6 DEF ExecUser, Runs, Callable, Authorized
    <3> QED BY <2>2, <3>1, HandlerImplements DEF InSession
  <2> QED BY <1>3, <2>3, <2>4, <2>5, <2>6 DEF Exec
<1>4. CASE Yielding
  <2>1. /\ state = "YIELD" /\ UNCHANGED <<user, logout_permitted, command, accounts>>
        /\ command \in Commands /\ command.role \cap user.role # {}
        /\ NoCommand \notin Commands
    BY <1>4, ShellAssumption DEF Yielding, YieldInterrupt, ResizeReply, ResizeWait, YieldUser, Resumed,
       configVars, SessionInv, YieldIsAuthorized, Authorized
  <2>2. CASE YieldInterrupt \/ ResizeReply
    <3>1. S!Finish
      BY <2>1, <2>2 DEF YieldInterrupt, ResizeReply, Settle, StateAfter, S!Finish, InSession
    <3> QED BY <3>1 DEF S!Next
  <2>3. CASE ResizeWait
    BY <2>1, <2>3, SameSession DEF ResizeWait, Settle, StateAfter
  <2>4. CASE YieldUser
    BY <2>1, <2>4, HandlerImplements DEF YieldUser, InSession
  <2> QED BY <1>4, <2>2, <2>3, <2>4 DEF Yielding
<1>5. CASE Outside \/ PartialByte \/ UNCHANGED vars
  <2>1. ASSUME NEW u \in OobUsers, NEW permitted \in BOOLEAN, OobLogin(u, permitted)
        PROVE  S!Next
    <3>1. S!OobLogin(u, permitted)
      BY <2>1 DEF OobLogin, S!OobLogin, InSession, configVars
    <3> QED BY <3>1 DEF S!Next
  <2>2. CASE OobLogout
    <3>1. S!OobLogout
      BY <2>2 DEF OobLogout, PermitLogout, S!OobLogout, InSession, configVars
    <3> QED BY <3>1 DEF S!Next
  <2>3. ASSUME NEW a \in Accounts, AddUser(a) \/ RemoveUser(a.name)
        PROVE  S!Next
    <3>1. S!AddUser(a) \/ S!RemoveUser(a.name)
      BY <2>3 DEF AddUser, RemoveUser, Reconfigure, S!AddUser, S!RemoveUser, InSession
    <3> QED BY <3>1 DEF S!Next
  <2>4. ASSUME NEW c \in UserCommands, AddCommand(c) \/ RemoveCommand(c.name)
        PROVE  UNCHANGED S!vars
    BY <2>4, SameSession DEF AddCommand, RemoveCommand, Reconfigure
  <2>5. CASE SetUserCommands \/ Refresh \/ SetSize \/ TerminalAnswers \/ PartialByte \/ UNCHANGED vars
    BY <2>5, SameSession DEF SetUserCommands, Reconfigure, Refresh, SetSize, TerminalAnswers, PartialByte, vars, configVars
  <2> QED BY <1>5, <2>1, <2>2, <2>3, <2>4, <2>5 DEF Outside
<1> QED BY <1>1, <1>2, <1>3, <1>4, <1>5 DEF Next

\* The shell implements Session: whatever is typed, drawn, recalled, added or
\* removed, sessions begin, run commands and end only as Session allows.
THEOREM Implements == Spec => ImplementsSession
<1>1. Init => S!Init
  BY DEF Init, S!Init, InSession
<1>2. TypeInv /\ SessionInv /\ [Next]_vars => [S!Next]_S!vars
  BY StepImplements
<1> QED BY <1>1, <1>2, Reached, PTL DEF ImplementsSession, S!Spec, Spec
================================================================================
