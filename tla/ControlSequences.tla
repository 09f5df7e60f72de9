-------------------------- MODULE ControlSequences --------------------------
(***************************************************************************)
(* What a terminal means by the bytes it sends: a key is one byte, or an   *)
(* escape, or a control sequence  ESC [ parameters intermediates final.    *)
(* Nothing is known here of how a decoder remembers where it is: a         *)
(* sequence is looked at as a whole when its last byte has come.           *)
(***************************************************************************)
EXTENDS Integers, Sequences, FiniteSetsExt

CONSTANTS Bytes, Esc, Bracket, Semicolon,
          DigitOf,        \* [digits -> 0 .. 9]
          Params,         \* bytes '0' to '?': the digits and the semicolon among them
          Intermediates,
          ControlOf,      \* [control bytes -> types]
          ArrowOf,        \* [final bytes -> symbols]
          TildeOf,        \* [parameter bytes -> types], before a final '~'
          Report,         \* 'R', the final byte of a cursor position report
          Tilde,
          MaxParameter,   \* parameters remembered
          UintMod,        \* 2^32
          MaxRun          \* bound on an unfinished sequence

VARIABLES run, heard

vars == <<run, heard>>

Nothing == [type |-> "NONE"]
Key(type) == [type |-> type]
Char(c) == [type |-> "CHAR", c |-> c]
Position(row, col) == [type |-> "CPR", row |-> row, col |-> col]

AreAll(s, bytes) == \A i \in 1 .. Len(s) : s[i] \in bytes

\* b is parameters and then intermediates, either of them perhaps none.
Unfinished(b) ==
    \E n \in 0 .. Len(b) : AreAll(SubSeq(b, 1, n), Params)
                           /\ AreAll(SubSeq(b, n + 1, Len(b)), Intermediates)

\* s is not empty.
Finished(s) ==
    IF Len(s) = 1 THEN s # <<Esc>>
    ELSE s[2] = Bracket => ~Unfinished(SubSeq(s, 3, Len(s)))

\* The parameters of a body: those before its first other byte.
Parameters(b) ==
    LET n == Max({k \in 0 .. Len(b) : AreAll(SubSeq(b, 1, k), Params)})
    IN  SubSeq(b, 1, IF n < MaxParameter THEN n ELSE MaxParameter)

Digits == DOMAIN DigitOf

\* The number that s spells, as much of it as an integer holds.
Number(s) ==
    LET spelt[n \in 0 .. Len(s)] ==
            IF n = 0 THEN 0 ELSE spelt[n - 1] * 10 + DigitOf[s[n]]
    IN  spelt[Len(s)] % UintMod

\* The numbers before and after the first semicolon.
Positions(p) ==
    {<<SubSeq(p, 1, k - 1), SubSeq(p, k + 1, n)>> :
        k \in {i \in 1 .. Len(p) : p[i] = Semicolon},
        n \in 0 .. Len(p)}

\* Rows and columns are digits; what follows the columns is not looked at.
Reported(p) ==
    {Position(Number(r[1]), Number(r[2])) : r \in {s \in Positions(p) :
        /\ s[1] # << >> /\ AreAll(s[1], Digits)
        /\ s[2] # << >> /\ AreAll(s[2], Digits)
        /\ LET rest == Len(s[1]) + 1 + Len(s[2]) + 1
           IN  rest <= Len(p) => p[rest] \notin Digits}}

Meaning(s) ==
    LET b == SubSeq(s, 3, Len(s))
        f == s[Len(s)]
        p == Parameters(b)
    IN  IF Len(s) = 1 THEN IF f \in DOMAIN ControlOf THEN Key(ControlOf[f]) ELSE Char(f)
        ELSE IF s[2] # Bracket THEN Nothing
        ELSE IF f \in DOMAIN ArrowOf THEN ArrowOf[f]
        ELSE IF f = Tilde /\ Len(p) = 1 /\ p[1] \in DOMAIN TildeOf THEN Key(TildeOf[p[1]])
        ELSE IF f = Report /\ Reported(p) # {} THEN CHOOSE r \in Reported(p) : TRUE
        ELSE Nothing

Init ==
    /\ run = << >>
    /\ heard = Nothing

\* run is the sequence being sent, or the last one that was.
Read(c) ==
    /\ run' = IF run = << >> \/ Finished(run) THEN <<c>> ELSE Append(run, c)
    /\ heard' = IF Finished(run') THEN Meaning(run') ELSE Nothing

Next == \E c \in Bytes : Read(c)

Spec == Init /\ [][Next]_vars
=============================================================================
