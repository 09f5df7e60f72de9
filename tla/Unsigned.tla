------------------------------ MODULE Unsigned ------------------------------
(***************************************************************************)
(* Decoder::get_uint (src/src/lapel_decoder.cpp): decimal digits read into *)
(* a uint32_t.  The decoder reads a cursor report with it, the resize      *)
(* command its options.                                                    *)
(***************************************************************************)
EXTENDS Integers, Sequences

CONSTANTS DigitOf,   \* the digit that a character is
          UintMod    \* 2^32

Digits == DOMAIN DigitOf

ASSUME UnsignedAssumption ==
    /\ DigitOf \in [Digits -> 0 .. 9]
    /\ UintMod \in Nat \ {0}

\* How many digits s begins with, and their value.
Leading(s) ==
    CHOOSE n \in 0 .. Len(s) :
        /\ \A i \in 1 .. n : s[i] \in Digits
        /\ n < Len(s) => s[n + 1] \notin Digits

Value(s) ==
    LET u[n \in 0 .. Leading(s)] ==
            IF n = 0 THEN 0 ELSE (u[n - 1] * 10 + DigitOf[s[n]]) % UintMod
    IN  u[Leading(s)]
==============================================================================
