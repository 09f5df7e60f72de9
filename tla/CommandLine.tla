---------------------------- MODULE CommandLine ----------------------------
(***************************************************************************)
(* What the words of a command line are, said of the line as a whole: the  *)
(* parts of it between spaces that are neither quoted nor escaped, without *)
(* the marks that quote and escape.  There is nothing of a buffer here.    *)
(***************************************************************************)
EXTENDS Integers, Sequences

CONSTANTS Space, Escape, Marks

\* How the next character is read after c: "plain", "escaped", or as part of
\* what a mark quotes.
Reading(before, c) ==
    IF before = "escaped" THEN "plain"
    ELSE IF before # "plain" THEN IF c = before THEN "plain" ELSE before
    ELSE IF c = Escape THEN "escaped"
    ELSE IF c \in Marks THEN c ELSE "plain"

\* How every character of the line is read, and one that came after it.
Readings(line) ==
    LET reading[i \in 1 .. Len(line) + 1] ==
            IF i = 1 THEN "plain" ELSE Reading(reading[i - 1], line[i - 1])
    IN  reading

\* The ends of the line count as spaces.
Spaces(line) ==
    {0, Len(line) + 1} \cup
    {i \in 1 .. Len(line) : Readings(line)[i] = "plain" /\ line[i] = Space}

\* What quotes or escapes, and closes a quotation.
Syntax(line) ==
    {i \in 1 .. Len(line) :
        \/ Readings(line)[i] = "plain" /\ line[i] \in Marks \cup {Escape}
        \/ Readings(line)[i] = line[i]}

Starts(line) == {i \in (1 .. Len(line)) \ Spaces(line) : i - 1 \in Spaces(line)}
WordFrom(line, i) == {j \in i .. Len(line) : (i .. j) \cap Spaces(line) = {}}

\* A word has to be finished.
Finished(line) ==
    {i \in Starts(line) : Len(line) \in WordFrom(line, i)
                             => Readings(line)[Len(line) + 1] = "plain"}

\* The places of S that are not behind a place, in order.
InOrder(S, n) ==
    LET upTo[i \in 0 .. n] ==
            IF i = 0 THEN << >>
            ELSE IF i \in S THEN Append(upTo[i - 1], i) ELSE upTo[i - 1]
    IN  upTo

Letters(line, places) == [k \in 1 .. Len(places) |-> line[places[k]]]

Text(line, i) ==
    Letters(line, InOrder(WordFrom(line, i) \ Syntax(line), Len(line))[Len(line)])

WordsOf(line) ==
    LET starts == InOrder(Finished(line), Len(line))[Len(line)]
    IN  [k \in 1 .. Len(starts) |-> Text(line, starts[k])]
============================================================================
