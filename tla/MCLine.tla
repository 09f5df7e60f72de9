------------------------------- MODULE MCLine -------------------------------
(* Small lines for Line: prompts of one or two cells and a terminal of a few *)
(* columns, so that a line of MaxSize characters wraps.                      *)
EXTENDS Line

MCPromptSize == [USERNAME |-> 1, PASSWORD |-> 1, SESSION |-> 2]

\* Blank lines: more of them than are entered.
MCWordless == UNION {[1 .. n -> {" "}] : n \in 0 .. 4}

MCRecalled == {<< >>, <<"a">>, <<"a", " ", "a">>, <<"a", "a", " ", "a">>}
=============================================================================
