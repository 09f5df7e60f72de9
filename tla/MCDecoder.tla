------------------------------ MODULE MCDecoder ------------------------------
(* One or two bytes of every kind: two digits, so that a number of two of    *)
(* them exceeds UintMod, a key of every table and a letter that means nothing *)
(* in a sequence.                                                            *)
EXTENDS Decoder

MCDigitOf == [d \in {"1", "9"} |-> IF d = "1" THEN 1 ELSE 9]
MCControlOf == [c \in {"CR"} |-> "CR"]
MCArrowOf == [c \in {"A", "G"} |->
                 IF c = "A" THEN [type |-> "UP"] ELSE [type |-> "CHAR", c |-> "5"]]
MCTildeOf == [c \in {"1"} |-> "HOME"]
==============================================================================
