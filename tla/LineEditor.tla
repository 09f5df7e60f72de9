----------------------------- MODULE LineEditor -----------------------------
(***************************************************************************)
(* What a user expects of a command line: a text of at most MaxSize        *)
(* characters and a position in it; Enter hands over the text that is      *)
(* there.                                                                  *)
(***************************************************************************)
EXTENDS Integers, Sequences

CONSTANTS Chars, MaxSize, Modes, Recalled, Allowed(_, _)

VARIABLES text, pos, mode, entered

vars == <<text, pos, mode, entered>>

Init ==
    /\ text = << >>
    /\ pos = 0
    /\ mode = "USERNAME"
    /\ entered = << >>

Insert(c) ==
    /\ Allowed(mode, c)
    /\ Len(text) < MaxSize
    /\ text' = SubSeq(text, 1, pos) \o <<c>> \o SubSeq(text, pos + 1, Len(text))
    /\ pos' = pos + 1
    /\ UNCHANGED <<mode, entered>>

Backspace ==
    /\ pos > 0
    /\ text' = SubSeq(text, 1, pos - 1) \o SubSeq(text, pos + 1, Len(text))
    /\ pos' = pos - 1
    /\ UNCHANGED <<mode, entered>>

MoveTo(p) ==
    /\ p \in {0, pos - 1, pos + 1, Len(text)} \cap 0 .. Len(text)
    /\ pos' = p
    /\ UNCHANGED <<text, mode, entered>>

KillToEnd ==
    /\ text' = SubSeq(text, 1, pos)
    /\ UNCHANGED <<pos, mode, entered>>

\* ^L, ^U, and the shell when it begins a session: a new, empty line.
NewLine(m) ==
    /\ text' = << >>
    /\ pos' = 0
    /\ mode' = m
    /\ UNCHANGED entered

\* A line from the history or a completed name.
Replace(line) ==
    /\ text' = SubSeq(line, 1, IF Len(line) < MaxSize THEN Len(line) ELSE MaxSize)
    /\ pos' = Len(text')
    /\ UNCHANGED <<mode, entered>>

Enter(m) ==
    /\ entered' = text
    /\ text' = << >>
    /\ pos' = 0
    /\ mode' = m

\* A refused password stays on the line.
Read ==
    /\ entered' = text
    /\ UNCHANGED <<text, pos, mode>>

Next ==
    \/ \E c \in Chars : Insert(c)
    \/ Backspace
    \/ \E p \in 0 .. MaxSize : MoveTo(p)
    \/ KillToEnd \/ Read
    \/ \E m \in Modes : NewLine(m) \/ Enter(m)
    \/ \E line \in Recalled : Replace(line)

Spec == Init /\ [][Next]_vars
=============================================================================
