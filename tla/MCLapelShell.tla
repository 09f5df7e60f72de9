----------------------------- MODULE MCLapelShell -----------------------------
(* Values for the constants of LapelShell.  Words are written out; what a      *)
(* prefix completes to and what a line's tokens are is given as a table.       *)
EXTENDS LapelShell

Names == {"alice", "root"}
CommandNames == {"resize", "clear", "logout", "help", "echo", "blink"}

MCWords == Names \cup CommandNames \cup {"pw", "e"}

\* "  " has no token, "logout now" has two.
MCLines == MCWords \cup {"", "  ", "logout now"}

MCSpaced == {"  ", "logout now"}

MCFirstToken == [line \in MCLines |->
    IF line \in {"", "  "} THEN NoWord
    ELSE IF line = "logout now" THEN "logout" ELSE line]

MCArgCount == [line \in MCLines |->
    IF line \in {"", "  "} THEN 0 ELSE IF line = "logout now" THEN 2 ELSE 1]

MCLineOf == [w \in MCWords |-> w]

MCCompletions == [w \in MCWords |-> IF w = "e" THEN {"e", "echo"} ELSE {w}]

MCUserCommands ==
    {[name |-> "blink", role |-> {1}, fn |-> "user"],
     [name |-> "logout", role |-> {2}, fn |-> "user"]}

MCAccounts == {[name |-> "alice", password |-> "pw", role |-> {1}]}

MCOobUsers == {[name |-> "root", role |-> {2}], [name |-> "root", role |-> {}]}

MCRoot == {[name |-> "root", role |-> {1, 2}]}
===============================================================================
