------------------------------- MODULE Session -------------------------------
(***************************************************************************)
(* What the shell promises its owner about sessions, with no keyboard, no  *)
(* line and no screen: who is logged in, which command holds the shell,    *)
(* and whether the user may end the session.                               *)
(*                                                                         *)
(* A session is opened by a password that is in the user list, or by the   *)
(* transport (out of band).  A command runs on behalf of the user and only *)
(* with a role in common.  A session that is not a login shell is closed   *)
(* by the transport alone.                                                 *)
(***************************************************************************)
CONSTANTS Accounts,    \* [name, password, role] that can be in the user list
          Users,       \* [name, role] the transport can log in
          Commands,    \* [name, role, fn] that can be run
          NoUser, NoCommand

VARIABLES who,        \* the user in session, or NoUser
          running,    \* the command that has yielded, or NoCommand
          mayLogout,  \* this is a login shell
          accounts    \* the user list

vars == <<who, running, mayLogout, accounts>>

UserOf(a) == [name |-> a.name, role |-> a.role]

MayRun(u, c) == u.role \cap c.role # {}

Init ==
    /\ who = NoUser
    /\ running = NoCommand
    /\ mayLogout = TRUE
    /\ accounts = {}

Login(a) ==
    /\ who = NoUser
    /\ a \in accounts
    /\ who' = UserOf(a)
    /\ UNCHANGED <<running, mayLogout, accounts>>

\* The command runs until it yields: one that returns at once leaves no trace.
Start(c) ==
    /\ who # NoUser
    /\ running = NoCommand
    /\ MayRun(who, c)
    /\ running' = c
    /\ UNCHANGED <<who, mayLogout, accounts>>

Finish ==
    /\ running # NoCommand
    /\ running' = NoCommand
    /\ UNCHANGED <<who, mayLogout, accounts>>

\* The running command, or one that is run for it, ends the session.
Logout(c) ==
    /\ who # NoUser
    /\ MayRun(who, c)
    /\ running \in {NoCommand, c}
    /\ mayLogout
    /\ who' = NoUser
    /\ running' = NoCommand
    /\ UNCHANGED <<mayLogout, accounts>>

OobLogin(u, permitted) ==
    /\ who' = u
    /\ running' = NoCommand
    /\ mayLogout' = permitted
    /\ UNCHANGED accounts

OobLogout ==
    /\ who' = NoUser
    /\ running' = NoCommand
    /\ mayLogout' = TRUE
    /\ UNCHANGED accounts

\* One account for a name.
AddUser(a) ==
    /\ accounts' = {b \in accounts : b.name # a.name} \cup {a}
    /\ UNCHANGED <<who, running, mayLogout>>

RemoveUser(name) ==
    /\ accounts' = {b \in accounts : b.name # name}
    /\ UNCHANGED <<who, running, mayLogout>>

Next ==
    \/ \E a \in Accounts : Login(a) \/ AddUser(a) \/ RemoveUser(a.name)
    \/ \E c \in Commands : Start(c) \/ Logout(c)
    \/ Finish
    \/ \E u \in Users, permitted \in BOOLEAN : OobLogin(u, permitted)
    \/ OobLogout

Spec == Init /\ [][Next]_vars
==============================================================================
