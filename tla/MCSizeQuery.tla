----------------------------- MODULE MCSizeQuery -----------------------------
(* Two windows that have neither rows nor columns in common, one with a      *)
(* number of two digits; Enter, ^C, and a key that sends a sequence.         *)
EXTENDS SizeQuery

MCDigitOf == [d \in {"1", "2", "3", "5"} |->
                 CASE d = "1" -> 1 [] d = "2" -> 2 [] d = "3" -> 3 [] OTHER -> 5]
MCDecimal == [n \in {1, 2, 3, 5, 23} |->
                 IF n = 23 THEN <<"2", "3">>
                 ELSE <<CHOOSE d \in DOMAIN MCDigitOf : MCDigitOf[d] = n>>]
MCControlOf == [c \in {"CR", "ETX"} |-> c]
MCArrowOf == [c \in {"A"} |-> [type |-> "UP"]]
MCTildeOf == [c \in {} |-> "NONE"]

MCWindows == {[rows |-> 2, cols |-> 5], [rows |-> 3, cols |-> 23]}
MCTyped == {<<"CR">>, <<"ETX">>, <<"ESC", "[", "A">>}
MCDefaultSize == [rows |-> 24, cols |-> 80]
==============================================================================
