--------------------------- MODULE DefaultUserList ---------------------------
(***************************************************************************)
(* Lapel::DefaultUserList (src/src/lapel_default_user_list.cpp): accounts  *)
(* in a fixed array of records.  A record with the empty name is free.  A  *)
(* step is one call, with its arguments in call and its answer.            *)
(*                                                                         *)
(* A name that fills the field of a record is stored without a terminator: *)
(* ReadsOn is what strcmp then reads, on through the bytes of the role,    *)
(* the salt, the hash and the next records up to the first that is zero.   *)
(* When none is, what lies behind the array is read as one string, which   *)
(* nothing here writes.  The hash of a password is the pair of salt and    *)
(* password: no two of them collide.                                       *)
(***************************************************************************)
EXTENDS Integers

CONSTANTS
    Names,        \* the names that are passed, Empty among them
    Empty,
    Ordinary,     \* the names shorter than a record's field
    TooLong,      \* the names longer than it
    Passwords, Roles, Salts,
    MaxRecords,   \* max_records
    ReadsOn(_, _),  \* what a full field reads as, by the records and its place
    NoSalt, NoHash, NoRole, NoAccount

ASSUME DefaultUserListAssumption ==
    /\ Ordinary \subseteq Names \ {Empty}
    /\ TooLong \subseteq Names \ Ordinary
    /\ Empty \in Names \ TooLong
    /\ MaxRecords \in Nat
    /\ NoSalt \notin Salts /\ NoRole \notin Roles
    /\ NoHash \notin Salts \X Passwords
    /\ NoAccount \notin [password : Passwords, role : Roles]

Slots == 1 .. MaxRecords

\* All zeros.
NoRecord == [name |-> Empty, role |-> NoRole, salt |-> NoSalt, hash |-> NoHash]
Record == [name : Names \ {Empty}, role : Roles, salt : Salts, hash : Salts \X Passwords]
Records == [Slots -> Record \cup {NoRecord}]

\* It is longer than any ordinary name.
ASSUME ReadsOnAssumption ==
    \A rs \in Records, i \in Slots :
        rs[i].name \notin Ordinary \cup {Empty} => ReadsOn(rs, i) \notin Ordinary \cup {Empty}

VARIABLES records, call, answer

vars == <<records, call, answer>>

Calls == [op : {"add", "remove", "login"}, name : Names, password : Passwords, role : Roles]
Answers == [ok : BOOLEAN, role : Roles \cup {NoRole}]

Done == [ok |-> TRUE, role |-> NoRole]
Refused == [ok |-> FALSE, role |-> NoRole]
Welcome(role) == [ok |-> TRUE, role |-> role]

TypeOK ==
    /\ records \in Records
    /\ call \in Calls
    /\ answer \in Answers

Init ==
    /\ records = [i \in Slots |-> NoRecord]
    /\ call \in Calls
    /\ answer = Refused

-----------------------------------------------------------------------------
hash_password(password, salt) == <<salt, password>>

\* The string at the name of record i.
NameOf(rs, i) == IF rs[i].name \in Ordinary \cup {Empty} THEN rs[i].name ELSE ReadsOn(rs, i)

\* lookup_record: whether i is the record it finds, and whether it finds none.
Finds(i, name) ==
    /\ NameOf(records, i) = name
    /\ \A j \in Slots : j < i => NameOf(records, j) # name
FindsNone(name) == \A i \in Slots : NameOf(records, i) # name

Answer(a) == answer' = a

-----------------------------------------------------------------------------
(* add_user, with save_user. *)

\* (mutant) A free record is taken before the name is looked up.
FreeFirst(i, name) == IF FindsNone(Empty) THEN Finds(i, name) ELSE Finds(i, Empty)
SavesIn(i, name) == IF FindsNone(name) THEN Finds(i, Empty) ELSE Finds(i, name)

AddUser ==
    /\ call'.op = "add"
    /\ call'.name \notin TooLong \cup {Empty}
    /\ \E i \in Slots, salt \in Salts :
          /\ SavesIn(i, call'.name)
          /\ records' = [records EXCEPT ![i] =
                [name |-> call'.name, role |-> call'.role, salt |-> salt,
                 hash |-> hash_password(call'.password, salt)]]
    /\ Answer(Done)

AddUserRefused ==
    /\ call'.op = "add"
    /\ \/ call'.name \in TooLong \cup {Empty}
       \/ FindsNone(call'.name) /\ FindsNone(Empty)
    /\ Answer(Refused)
    /\ UNCHANGED records

(* remove_user: delete_user has nothing to say. *)

\* (mutant) The hash stays behind.
ForgetsName(record) == [record EXCEPT !.name = Empty]
Cleared(record) == NoRecord

RemoveUser ==
    /\ call'.op = "remove"
    /\ IF call'.name = Empty \/ FindsNone(call'.name)
       THEN UNCHANGED records
       ELSE \E i \in Slots : /\ Finds(i, call'.name)
                             /\ records' = [records EXCEPT ![i] = Cleared(@)]
    /\ Answer(Done)

(* authenticate, with the three restore methods. *)

\* (mutant) The password is hashed with a salt of the present.
SaltAnew(record) == CHOOSE salt \in Salts : TRUE
SaltOf(record) == record.salt

Accepts(record, password) == hash_password(password, SaltOf(record)) = record.hash

Authenticate ==
    /\ call'.op = "login"
    /\ IF call'.name = Empty \/ FindsNone(call'.name)
       THEN Answer(Refused)
       ELSE \E i \in Slots :
               /\ Finds(i, call'.name)
               /\ Answer(IF Accepts(records[i], call'.password)
                         THEN Welcome(records[i].role) ELSE Refused)
    /\ UNCHANGED records

Next ==
    /\ call' \in Calls
    /\ AddUser \/ AddUserRefused \/ RemoveUser \/ Authenticate

Spec == Init /\ [][Next]_vars

-----------------------------------------------------------------------------
(* Properties. *)

\* No ordinary name has two records: the one that is found when it logs in is
\* the one that was written last, and removing it leaves none behind.
OneRecordPerName ==
    \A i, j \in Slots :
        records[i].name \in Ordinary /\ records[i].name = records[j].name => i = j

\* What the records rs say of a name.
AccountIn(rs, name) ==
    IF \A i \in Slots : NameOf(rs, i) # name THEN NoAccount
    ELSE LET i == CHOOSE k \in Slots : NameOf(rs, k) = name
         IN  [password |-> rs[i].hash[2], role |-> rs[i].role]

AccountsIn(rs) == [name \in Ordinary |-> AccountIn(rs, name)]

FreeIn(rs) == {i \in Slots : rs[i].name = Empty}

D == INSTANCE Directory WITH
        Places <- Slots, accounts <- AccountsIn(records), free <- FreeIn(records)

\* Whatever the calls, and whatever happens to names that fill the field, the
\* array keeps the promises of the directory to every ordinary name.
ImplementsDirectory == D!Spec
==============================================================================
