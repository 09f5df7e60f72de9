------------------------------- MODULE Decoder -------------------------------
(***************************************************************************)
(* Lapel::Decoder (src/src/lapel_decoder.cpp): bytes in, symbols out.  A   *)
(* step is one call of process(c).  Within a call the decoder may go       *)
(* through CSI_P, CSI_I and CSI_F with the same byte (process_pending),    *)
(* so CSI_F is never the state between calls.                              *)
(*                                                                         *)
(* Abstracted: which byte is which key is given by tables.  The            *)
(* intermediate bytes are counted and not kept: nobody reads them.  One    *)
(* more than their array holds is written past its end: what follows is    *)
(* undefined and left out.  Of a symbol the fields that go with its type   *)
(* are kept.                                                               *)
(*                                                                         *)
(* Not in the code: run, the bytes of the sequence that is being read or   *)
(* was read last, and heard, what the last call handed back.               *)
(***************************************************************************)
EXTENDS Unsigned

CONSTANTS Bytes, Esc, Bracket, Semicolon, Params, Intermediates,
          ControlOf, ArrowOf, TildeOf, Report, Tilde,
          MaxParameter,
          MaxIntermediate, \* sizeof(intermediate)
          MaxRun

ASSUME DecoderAssumption ==
    /\ Params \subseteq Bytes /\ Intermediates \subseteq Bytes
    /\ Digits \subseteq Params /\ Semicolon \in Params \ Digits
    /\ Params \cap Intermediates = {}
    /\ Esc \in Bytes \ (Params \cup Intermediates \cup {Bracket} \cup DOMAIN ControlOf)
    /\ Bracket \in Bytes \ (Params \cup Intermediates)
    /\ (DOMAIN ArrowOf \cup {Report, Tilde}) \cap (Params \cup Intermediates) = {}
    /\ Report \notin DOMAIN ArrowOf /\ Tilde \notin DOMAIN ArrowOf \cup {Report}
    /\ DOMAIN TildeOf \subseteq Params
    /\ MaxParameter \in Nat \ {0}
    /\ MaxIntermediate \in Nat /\ MaxRun \in Nat

VARIABLES state, parameter, intermediate_len, run, heard

vars == <<state, parameter, intermediate_len, run, heard>>

Nothing == [type |-> "NONE"]
Key(type) == [type |-> type]
Char(c) == [type |-> "CHAR", c |-> c]
Position(row, col) == [type |-> "CPR", row |-> row, col |-> col]

TypeOK ==
    /\ state \in {"IDLE", "ESCAPE", "CSI_P", "CSI_I"}
    /\ parameter \in Seq(Params) /\ Len(parameter) <= MaxParameter
    /\ intermediate_len \in 0 .. MaxIntermediate
    /\ run \in Seq(Bytes) /\ Len(run) <= MaxRun + 1

Init ==
    /\ state = "IDLE"
    /\ parameter = << >>
    /\ intermediate_len = 0
    /\ run = << >>
    /\ heard = Nothing

-----------------------------------------------------------------------------
(* How a call ends. *)

\* The bytes of the sequence that c belongs to, with c.
RunWith(c) == IF state = "IDLE" THEN <<c>> ELSE Append(run, c)

Waiting(c, next) ==
    /\ state' = next
    /\ heard' = Nothing
    /\ run' = RunWith(c)
    /\ Len(run') <= MaxRun

\* Back to idle: symbol_ready with a symbol, or with Nothing to hand over.
Hands(c, symbol) ==
    /\ state' = "IDLE"
    /\ heard' = symbol
    /\ run' = RunWith(c)

-----------------------------------------------------------------------------
(* process_idle and process_escape. *)

ReadKey(c) ==
    /\ state = "IDLE"
    /\ c # Esc
    /\ Hands(c, IF c \in DOMAIN ControlOf THEN Key(ControlOf[c]) ELSE Char(c))
    /\ UNCHANGED <<parameter, intermediate_len>>

ReadEscape ==
    /\ state = "IDLE"
    /\ Waiting(Esc, "ESCAPE")
    /\ UNCHANGED <<parameter, intermediate_len>>

\* (mutant) The parameters of the last sequence are kept.
ForgottenNot(p) == p
Forgotten(p) == << >>

ReadBracket ==
    /\ state = "ESCAPE"
    /\ Waiting(Bracket, "CSI_P")
    /\ parameter' = Forgotten(parameter)
    /\ intermediate_len' = 0

\* The byte after an escape is lost, whatever it is.
ReadEscaped(c) ==
    /\ state = "ESCAPE"
    /\ c # Bracket
    /\ Hands(c, Nothing)
    /\ UNCHANGED <<parameter, intermediate_len>>

-----------------------------------------------------------------------------
(* process_csi_p and process_csi_i. *)

\* (mutant) A parameter is written past the array's end.
RememberedAlways(p, c) == Append(p, c)
Remembered(p, c) == IF Len(p) < MaxParameter THEN Append(p, c) ELSE p

ReadParameter(c) ==
    /\ state = "CSI_P"
    /\ c \in Params
    /\ Waiting(c, "CSI_P")
    /\ parameter' = Remembered(parameter, c)
    /\ UNCHANGED intermediate_len

ReadIntermediate(c) ==
    /\ state \in {"CSI_P", "CSI_I"}
    /\ c \in Intermediates
    /\ intermediate_len < MaxIntermediate
    /\ Waiting(c, "CSI_I")
    /\ intermediate_len' = intermediate_len + 1
    /\ UNCHANGED parameter

-----------------------------------------------------------------------------
(* process_csi_f. *)

\* (mutant) The columns are read from the semicolon on.
RestFromSemicolon(p, n) == SubSeq(p, n + 1, Len(p))
Rest(p, n) == SubSeq(p, n + 2, Len(p))

ReadReport ==
    LET n == Leading(parameter)
        rest == Rest(parameter, n)
    IN  Hands(Report, IF /\ n > 0 /\ Len(parameter) > n
                         /\ parameter[n + 1] = Semicolon
                         /\ Leading(rest) > 0
                      THEN Position(Value(parameter), Value(rest))
                      ELSE Nothing)

\* A final byte; after an intermediate one a parameter byte is one too.
Final(c) == c \notin Intermediates /\ (state = "CSI_P" => c \notin Params)

ReadFinal(c) ==
    /\ state \in {"CSI_P", "CSI_I"}
    /\ Final(c)
    /\ \/ c \in DOMAIN ArrowOf /\ Hands(c, ArrowOf[c])
       \/ c = Report /\ ReadReport
       \/ /\ c = Tilde
          /\ Hands(c, IF Len(parameter) = 1 /\ parameter[1] \in DOMAIN TildeOf
                      THEN Key(TildeOf[parameter[1]]) ELSE Nothing)
       \/ c \notin DOMAIN ArrowOf \cup {Report, Tilde} /\ Hands(c, Nothing)
    /\ UNCHANGED <<parameter, intermediate_len>>

-----------------------------------------------------------------------------
Process(c) ==
    \/ c = Esc /\ ReadEscape
    \/ c = Bracket /\ ReadBracket
    \/ ReadKey(c) \/ ReadEscaped(c)
    \/ ReadParameter(c) \/ ReadIntermediate(c) \/ ReadFinal(c)

Next == \E c \in Bytes : Process(c)

Spec == Init /\ [][Next]_vars

-----------------------------------------------------------------------------
(* Properties. *)

\* The decoder hands over what the terminal meant by the bytes of a
\* sequence, and nothing for a sequence that means nothing, whatever came
\* before: no parameter of an earlier sequence leaks into it.
Sent == INSTANCE ControlSequences

HearsWhatIsMeant == Sent!Spec

\* Where the decoder is in a sequence is told by the bytes of it, and what it
\* remembers is the beginning of the parameters it was sent.
StateIsOfRun ==
    /\ state = "IDLE" <=> run = << >> \/ Sent!Finished(run)
    /\ state = "ESCAPE" <=> run = <<Esc>>
    /\ state \in {"CSI_P", "CSI_I"} =>
           /\ SubSeq(run, 1, 2) = <<Esc, Bracket>>
           /\ parameter = Sent!Parameters(SubSeq(run, 3, Len(run)))
           /\ state = "CSI_I" <=> run[Len(run)] \in Intermediates
==============================================================================
