---------------------------- MODULE MCCommandHeap ----------------------------
(* Four names, one of them of a built-in command and one a prefix of two     *)
(* others, in a list of at most three records.  Which addresses the          *)
(* allocator gives makes no difference.                                      *)
EXTENDS CommandHeap, TLC

MCTable == <<[name |-> "clear", role |-> 1], [name |-> "echo", role |-> 1]>>

MCExtends == [p \in Names \X Names |-> p[1] = p[2] \/ p \in {<<"clear", "c">>, <<"crash", "c">>}]

AnyAddresses == Permutations(Addresses)
==============================================================================
