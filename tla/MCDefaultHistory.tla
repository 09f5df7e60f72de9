--------------------------- MODULE MCDefaultHistory ---------------------------
(* Small instances of DefaultHistory: a size_t of three bits, so that        *)
(* append_count wraps within a few pushes.                                   *)
EXTENDS DefaultHistory

MCLines == {"", "a", "b"}
===============================================================================
