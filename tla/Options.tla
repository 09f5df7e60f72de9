------------------------------- MODULE Options -------------------------------
(***************************************************************************)
(* What the options at the head of an argument list mean, said of the list *)
(* as a whole: each argument is a long option, a group of letters, or the  *)
(* end of the options, and some take the argument after them with them.    *)
(***************************************************************************)
EXTENDS Integers, Sequences

CONSTANTS Dash, Equals,   \* '-' and '='
          Table,          \* sequence of [s, c, arg], the options there are
          NoOption, NoArg

Outcome(option, arg) ==
    [option |-> option, arg |-> arg,
     result |-> IF option.arg = "REQUIRED" /\ arg = NoArg THEN "MISSING" ELSE "OK"]
Unknown == [option |-> NoOption, arg |-> NoArg, result |-> "UNKNOWN"]
End == [option |-> NoOption, arg |-> NoArg, result |-> "END"]

\* The first option of the table that is called so.
First(matching) ==
    IF matching = {} THEN NoOption
    ELSE Table[CHOOSE i \in matching : \A j \in matching : i <= j]

Short(letter) == First({i \in 1 .. Len(Table) : Table[i].c = letter})
Long(name) == First({i \in 1 .. Len(Table) : Table[i].s = name})

TakesArg(option) == option # NoOption /\ option.arg # "NONE"
IsFlag(option) == option # NoOption /\ option.arg = "NONE"

IsOption(token) == Len(token) > 1 /\ token[1] = Dash /\ token # <<Dash, Dash>>
IsLong(token) == token[2] = Dash

From(token, i) == SubSeq(token, i, Len(token))

\* Where the name of a long option ends.
Assigned(token) == {i \in 1 .. Len(token) : token[i] = Equals}
NameEnd(token) ==
    IF Assigned(token) = {} THEN Len(token)
    ELSE (CHOOSE i \in Assigned(token) : \A j \in Assigned(token) : i <= j) - 1

\* The first letter of a group that takes what follows, or is unknown.
Stops(token, at) == {k \in at .. Len(token) : ~IsFlag(Short(token[k]))}
Stop(token, at) ==
    IF Stops(token, at) = {} THEN Len(token) + 1
    ELSE CHOOSE k \in Stops(token, at) : \A j \in Stops(token, at) : k <= j
Flags(token, at) ==
    [k \in 1 .. Stop(token, at) - at |-> Outcome(Short(token[at + k - 1]), NoArg)]

\* What the i-th of args means from its character `at` on, the letters of a
\* group one by one, with the meaning of what comes behind it and behind the
\* argument after it.
MeaningAt(args, i, at, rest, afterNext) ==
    LET token == args[i]
        \* The option o, its argument in this token from k on or in the next.
        taking(o, k) ==
            IF k <= Len(token) THEN <<Outcome(o, From(token, k))>> \o rest
            ELSE IF i < Len(args) THEN <<Outcome(o, args[i + 1])>> \o afterNext
            ELSE <<Outcome(o, NoArg)>> \o rest
        name == SubSeq(token, 3, NameEnd(token))
        stop == Stop(token, at)
    IN  IF ~IsOption(token) THEN <<End>>
        ELSE IF IsLong(token)
        THEN IF Long(name) = NoOption THEN <<Unknown>>
             ELSE IF TakesArg(Long(name))
             THEN IF Assigned(token) = {} THEN taking(Long(name), Len(token) + 1)
                  ELSE <<Outcome(Long(name), From(token, NameEnd(token) + 2))>> \o rest
             ELSE <<Outcome(Long(name), NoArg)>> \o rest
        ELSE IF Stops(token, at) = {} THEN Flags(token, at) \o rest
        ELSE IF Short(token[stop]) = NoOption THEN Flags(token, at) \o <<Unknown>>
        ELSE Flags(token, at) \o taking(Short(token[stop]), stop + 1)

\* What the options of args mean, from each argument on.
Meanings(args) ==
    LET meaning[i \in 1 .. Len(args) + 2] ==
            IF i > Len(args) THEN <<End>>
            ELSE MeaningAt(args, i, 2, meaning[i + 1], meaning[i + 2])
    IN  meaning

\* What they mean from the character `at` of the first-th argument on.
Meaning(args, first, at) ==
    IF first > Len(args) THEN <<End>>
    ELSE MeaningAt(args, first, at, Meanings(args)[first + 1], Meanings(args)[first + 2])
==============================================================================
