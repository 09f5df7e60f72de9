------------------------------ MODULE Directory ------------------------------
(***************************************************************************)
(* What a list of users promises to those who use it (System's user_*      *)
(* methods in src/include/lapel_system.h): an account per name, with the   *)
(* password and the role it was given last, for as many names as there are *)
(* places.  Names that are not ordinary may use up places and are promised *)
(* nothing else; they never touch anybody else's account.                  *)
(***************************************************************************)
CONSTANTS Names, Ordinary, Passwords, Roles, Places, NoAccount, NoRole

VARIABLES accounts,   \* of the ordinary names
          free,       \* the places nobody has
          call, answer

vars == <<accounts, free, call, answer>>

Calls == [op : {"add", "remove", "login"}, name : Names, password : Passwords, role : Roles]
Answers == [ok : BOOLEAN, role : Roles \cup {NoRole}]

Done == [ok |-> TRUE, role |-> NoRole]
Refused == [ok |-> FALSE, role |-> NoRole]
Welcome(role) == [ok |-> TRUE, role |-> role]

Init ==
    /\ accounts = [name \in Ordinary |-> NoAccount]
    /\ free = Places
    /\ call \in Calls
    /\ answer = Refused

Has(name) == accounts[name] # NoAccount
Given(c) == [password |-> c.password, role |-> c.role]

Takes == \E place \in free : free' = free \ {place}
Gives == \E place \in Places : free' = free \cup {place}

\* An account that is there is replaced, and needs no other place.
Replace ==
    /\ call'.op = "add" /\ call'.name \in Ordinary /\ Has(call'.name)
    /\ accounts' = [accounts EXCEPT ![call'.name] = Given(call')]
    /\ answer' = Done
    /\ UNCHANGED free

Add ==
    /\ call'.op = "add" /\ call'.name \in Ordinary /\ ~Has(call'.name)
    /\ accounts' = [accounts EXCEPT ![call'.name] = Given(call')]
    /\ answer' = Done
    /\ Takes

\* Only the lack of a place is a reason to refuse.
Refuse ==
    /\ call'.op = "add" /\ call'.name \in Ordinary /\ ~Has(call'.name)
    /\ free = {}
    /\ answer' = Refused
    /\ UNCHANGED <<accounts, free>>

Remove ==
    /\ call'.op = "remove" /\ call'.name \in Ordinary /\ Has(call'.name)
    /\ accounts' = [accounts EXCEPT ![call'.name] = NoAccount]
    /\ answer' = Done
    /\ Gives

RemoveNobody ==
    /\ call'.op = "remove" /\ call'.name \in Ordinary /\ ~Has(call'.name)
    /\ answer' = Done
    /\ UNCHANGED <<accounts, free>>

Login ==
    /\ call'.op = "login" /\ call'.name \in Ordinary
    /\ answer' = IF Has(call'.name) /\ accounts[call'.name].password = call'.password
                 THEN Welcome(accounts[call'.name].role) ELSE Refused
    /\ UNCHANGED <<accounts, free>>

Others ==
    /\ call'.name \notin Ordinary
    /\ answer' \in Answers
    /\ UNCHANGED accounts
    /\ UNCHANGED free \/ Takes \/ Gives

Next ==
    /\ call' \in Calls
    /\ Replace \/ Add \/ Refuse \/ Remove \/ RemoveNobody \/ Login \/ Others

Spec == Init /\ [][Next]_vars
==============================================================================
