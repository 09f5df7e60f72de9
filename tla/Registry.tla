------------------------------- MODULE Registry -------------------------------
(***************************************************************************)
(* What the shell expects of its commands: those the program registers and *)
(* the built-in ones.  A registered command is found before a built-in one *)
(* of the same name; the first registration of a name stays until it is    *)
(* removed; a prefix is completed when it is the beginning of exactly one  *)
(* command, one of the same name in both places counting as two.           *)
(***************************************************************************)
CONSTANTS Names, Roles, Builtins, Extends, NoRole, NoName

VARIABLES registered, call, answer

vars == <<registered, call, answer>>

Calls == [op : {"add", "remove", "lookup", "complete"}, name : Names, role : Roles]
Nothing == [name |-> NoName, role |-> NoRole]
Found(name, role) == [name |-> name, role |-> role]

Init ==
    /\ registered = {}
    /\ call \in Calls
    /\ answer = Nothing

Called(commands, name) == {c \in commands : c.name = name}

Add ==
    /\ call'.op = "add"
    /\ registered' = IF Called(registered, call'.name) # {} THEN registered
                     ELSE registered \cup {Found(call'.name, call'.role)}
    /\ answer' = Nothing

Remove ==
    /\ call'.op = "remove"
    /\ registered' = registered \ Called(registered, call'.name)
    /\ answer' = Nothing

Lookup ==
    /\ call'.op = "lookup"
    /\ LET found == Called(registered, call'.name)
           builtin == Called(Builtins, call'.name)
       IN  answer' = IF found # {} THEN CHOOSE c \in found : TRUE
                     ELSE IF builtin # {} THEN CHOOSE c \in builtin : TRUE
                     ELSE Nothing
    /\ UNCHANGED registered

Beginning(commands, w) == {c \in commands : Extends[c.name, w]}

\* c is all there is.
Alone(c, found, builtin) == \/ found = {c} /\ builtin = {}
                            \/ found = {} /\ builtin = {c}

Complete ==
    /\ call'.op = "complete"
    /\ LET found == Beginning(registered, call'.name)
           builtin == Beginning(Builtins, call'.name)
       IN  answer' = IF \E c \in found \cup builtin : Alone(c, found, builtin)
                     THEN Found((CHOOSE c \in found \cup builtin : TRUE).name, NoRole)
                     ELSE Nothing
    /\ UNCHANGED registered

Next == call' \in Calls /\ (Add \/ Remove \/ Lookup \/ Complete)

Spec == Init /\ [][Next]_vars
===============================================================================
