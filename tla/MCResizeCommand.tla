--------------------------- MODULE MCResizeCommand ---------------------------
(* All lines of up to four characters of the tokenizer's kinds, and the     *)
(* name of the command (here "x") followed by one or two of the arguments    *)
(* below, by three of the first few, or by more than argv takes: long and    *)
(* short options, with the argument inside, after or missing, groups that    *)
(* end with each kind of option, the end mark, a dash, an empty and a quoted *)
(* argument, and numbers that are none or exceed UintMod.                    *)
EXTENDS ResizeCommand

MCDigitOf == [d \in {"1", "9"} |-> IF d = "1" THEN 1 ELSE 9]

MCTable == <<[s |-> <<"r", "w">>, c |-> "r", arg |-> "REQUIRED"],
             [s |-> <<"c", "l">>, c |-> "c", arg |-> "REQUIRED"],
             [s |-> <<"h", "p">>, c |-> "h", arg |-> "NONE"]>>

Few ==
    {<<"-", "-", "c", "l">>, <<"-", "-", "c", "l", "=", "1", "9">>, <<"-", "-">>,
     <<"-", "h", "c">>, <<"-", "r">>, <<"9">>}

Arguments ==
    Few \cup
    {<<"-", "-", "r", "w", "=">>, <<"-", "-", "h", "p", "=", "1">>, <<"-", "-", "x">>,
     <<"-">>, <<"-", "h", "h">>, <<"-", "h", "x">>, <<"-", "c", "1", "x">>,
     <<"'", "'">>, <<"'", "-", "r", " ", "'", "9">>}

ShortLines == UNION {[1 .. n -> {"x", " ", "esc", "'", "q"}] : n \in 0 .. 4}

Joined(arguments) ==
    LET upTo[n \in 0 .. Len(arguments)] ==
            IF n = 0 THEN <<"x">> ELSE upTo[n - 1] \o <<" ">> \o arguments[n]
    IN  upTo[Len(arguments)]

MCLines ==
    ShortLines \cup
    {Joined(a) : a \in UNION {[1 .. n -> Arguments] : n \in 0 .. 2} \cup [1 .. 3 -> Few]
                         \cup [1 .. MaxArgv -> {<<"9">>}]}
==============================================================================
