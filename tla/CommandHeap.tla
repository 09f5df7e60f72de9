----------------------------- MODULE CommandHeap -----------------------------
(***************************************************************************)
(* Lapel::CommandHeap (src/src/lapel_command_heap.cpp), a linked list of   *)
(* allocated records, with Lapel::CommandTable of the built-in commands    *)
(* (lapel_command_table.cpp) and the loops in which the shell asks one and *)
(* then the other (process_line and complete in lapel_shell.cpp).  A step  *)
(* is one call, with its arguments in call and its answer.                 *)
(*                                                                         *)
(* A record holds its name itself: the name is allocated and freed with    *)
(* it.  A prefix is a name, and Extends tells strncmp's result.            *)
(***************************************************************************)
EXTENDS Integers, Sequences, FiniteSets

CONSTANTS
    Addresses, Null,
    Names, Roles,
    Table,          \* the built-in commands, a sequence of [name, role]
    Extends,        \* [Names \X Names -> BOOLEAN]: the second is a prefix of the first
    NoRole, NoName, Unused

ASSUME CommandHeapAssumption ==
    /\ IsFiniteSet(Addresses) /\ Null \notin Addresses
    /\ Extends \in [Names \X Names -> BOOLEAN]
    /\ Table \in Seq([name : Names, role : Roles])
    /\ \A i, j \in 1 .. Len(Table) : Table[i].name = Table[j].name => i = j
    /\ NoRole \notin Roles /\ NoName \notin Names
    /\ Unused \notin [next : Addresses \cup {Null}, name : Names, role : Roles]

VARIABLES head, heap, call, answer

vars == <<head, heap, call, answer>>

Calls == [op : {"add", "remove", "lookup", "complete"}, name : Names, role : Roles]
Nothing == [name |-> NoName, role |-> NoRole]
Found(name, role) == [name |-> name, role |-> role]

TypeOK ==
    /\ head \in Addresses \cup {Null}
    /\ heap \in [Addresses -> [next : Addresses \cup {Null}, name : Names, role : Roles]
                              \cup {Unused}]
    /\ call \in Calls
    /\ answer \in [name : Names \cup {NoName}, role : Roles \cup {NoRole}]

Init ==
    /\ head = Null
    /\ heap = [a \in Addresses |-> Unused]
    /\ call \in Calls
    /\ answer = Nothing

-----------------------------------------------------------------------------
(* The loops over the list and over the table. *)

Free == {a \in Addresses : heap[a] = Unused}
Allocated == Addresses \ Free

\* it = head, then it = it->next, until it is null.
IsWalk(w) ==
    /\ head = IF w = << >> THEN Null ELSE w[1]
    /\ \A i \in 1 .. Len(w) :
          /\ w[i] \in Allocated
          /\ heap[w[i]].next = IF i = Len(w) THEN Null ELSE w[i + 1]

\* No longer than there are records.
Walks == UNION {[1 .. n -> Addresses] : n \in 0 .. Cardinality(Addresses)}
Walk == CHOOSE w \in Walks : IsWalk(w)

Record(a) == Found(heap[a].name, heap[a].role)
Listed == [i \in 1 .. Len(Walk) |-> Record(Walk[i])]

\* Where strcmp and partial_match succeed.
Named(records, name) == {i \in 1 .. Len(records) : records[i].name = name}
Matching(records, w) == {i \in 1 .. Len(records) : Extends[records[i].name, w]}

First(S) == CHOOSE i \in S : \A j \in S : i <= j
Latest(S) == CHOOSE i \in S : \A j \in S : j <= i

Answer(a) == answer' = a

-----------------------------------------------------------------------------
\* (mutant) The name is not looked up.
IsNewAlways(name) == TRUE
IsNew(name) == Named(Listed, name) = {}

\* The allocator gives any free address, and does not fail.
AddCommand ==
    /\ call'.op = "add"
    /\ IF IsNew(call'.name)
       THEN \E a \in Free :
               /\ heap' = [heap EXCEPT ![a] = [next |-> head, name |-> call'.name,
                                               role |-> call'.role]]
               /\ head' = a
       ELSE UNCHANGED <<head, heap>>
    /\ Answer(Nothing)

\* (mutant) The list is closed only in front.
UnlinksHead(i) == heap
\* Everybody but the record before it keeps its successor.
Unlinks(i) == IF i = 1 THEN heap ELSE [heap EXCEPT ![Walk[i - 1]].next = heap[Walk[i]].next]

RemoveCommand ==
    /\ call'.op = "remove"
    /\ LET found == Named(Listed, call'.name)
           i == First(found)
       IN  IF found = {} THEN UNCHANGED <<head, heap>>
           ELSE /\ head' = IF i = 1 THEN heap[Walk[i]].next ELSE head
                /\ heap' = [Unlinks(i) EXCEPT ![Walk[i]] = Unused]
    /\ Answer(Nothing)

\* (mutant) The built-in commands are looked at first.
BuiltinFirst == Table \o Listed
\* The loop over commands[] in process_line stops at the first that is found.
LookedUp == Listed \o Table

Lookup ==
    /\ call'.op = "lookup"
    /\ LET found == Named(LookedUp, call'.name)
       IN  Answer(IF found = {} THEN Nothing ELSE LookedUp[First(found)])
    /\ UNCHANGED <<head, heap>>

\* complete_partial_match(offset): n stays where offset is, so that every
\* further match is written over the one before it.
CompletedBy(records, matching) == records[Latest(matching)].name

\* Shell::complete, with both counts.
Complete ==
    /\ call'.op = "complete"
    /\ LET listed == Matching(Listed, call'.name)
           builtin == Matching(Table, call'.name)
       IN  Answer(IF Cardinality(listed) + Cardinality(builtin) # 1 THEN Nothing
                  ELSE Found(IF listed # {} THEN CompletedBy(Listed, listed)
                             ELSE CompletedBy(Table, builtin), NoRole))
    /\ UNCHANGED <<head, heap>>

Next ==
    /\ call' \in Calls
    /\ AddCommand \/ RemoveCommand \/ Lookup \/ Complete

Spec == Init /\ [][Next]_vars

-----------------------------------------------------------------------------
(* Properties. *)

\* The list goes through every record that is allocated, through each once,
\* and ends: none is leaked, freed while it is linked, or linked in a circle.
ListIsHeap ==
    \E w \in Walks :
        /\ IsWalk(w)
        /\ {w[i] : i \in 1 .. Len(w)} = Allocated
        /\ \A i, j \in 1 .. Len(w) : w[i] = w[j] => i = j

\* The list and the table answer like the registry, in whatever order commands
\* are registered and removed.
R == INSTANCE Registry WITH
        Builtins <- {Table[i] : i \in 1 .. Len(Table)},
        registered <- {Record(a) : a \in Allocated}

ImplementsRegistry == R!Spec
==============================================================================
