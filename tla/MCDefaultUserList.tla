-------------------------- MODULE MCDefaultUserList --------------------------
(* Two ordinary names and one that fills the field of a record.  No byte of   *)
(* the role "x" is zero, nor of the salt "s": the field reads on through them *)
(* to the next record, and with the salt "z" only as far as a name of its own. *)
EXTENDS DefaultUserList

MCReadsOn(rs, i) ==
    IF rs[i].role = "zero" THEN rs[i].name
    ELSE IF rs[i].salt = "z" \/ i = MaxRecords \/ rs[i + 1].name = Empty THEN "fullx"
    ELSE "longer"
==============================================================================
