------------------------ MODULE DefaultUserListProofs ------------------------
(***************************************************************************)
(* DefaultUserList implements Directory, for every set of names and every  *)
(* number of records, whatever a name that fills its field reads as.       *)
(***************************************************************************)
EXTENDS DefaultUserList, TLAPS

\* The records rs, at any moment: an ordinary name has one of them, and what
\* is stored with a salt is the hash made with it.
Good(rs) ==
    /\ rs \in Records
    /\ \A i, j \in Slots : rs[i].name \in Ordinary /\ rs[i].name = rs[j].name => i = j
    /\ \A i \in Slots : rs[i] # NoRecord => rs[i].hash[1] = rs[i].salt

Inv == Good(records) /\ call \in Calls /\ answer \in Answers

LEMMA EmptyApart == NoRecord.name = Empty /\ Empty \notin Ordinary
<1>1. Empty \notin Ordinary
  BY DefaultUserListAssumption
<1> QED BY <1>1 DEF NoRecord

\* An ordinary name is what its own record reads as, and nothing else does.
LEMMA NameRead ==
    ASSUME NEW rs \in Records, NEW i \in Slots
    PROVE  /\ NameOf(rs, i) \in Ordinary \cup {Empty} <=> rs[i].name \in Ordinary \cup {Empty}
           /\ rs[i].name \in Ordinary \cup {Empty} => NameOf(rs, i) = rs[i].name
           /\ rs[i].name = Empty <=> rs[i] = NoRecord
<1>1. rs[i].name \notin Ordinary \cup {Empty} => ReadsOn(rs, i) \notin Ordinary \cup {Empty}
  BY ReadsOnAssumption
<1>2. rs[i] \in Record \cup {NoRecord}
  BY DEF Records
<1>3. rs[i].name = Empty <=> rs[i] = NoRecord
  BY <1>2 DEF Record, NoRecord
<1> QED BY <1>1, <1>3 DEF NameOf

LEMMA NameIs ==
    ASSUME NEW rs \in Records, NEW i \in Slots, NEW n \in Ordinary \cup {Empty}
    PROVE  NameOf(rs, i) = n <=> rs[i].name = n
BY NameRead

\* The account of a name that has a record.
LEMMA AccountFound ==
    ASSUME NEW rs, Good(rs), NEW i \in Slots, NEW n \in Ordinary, rs[i].name = n
    PROVE  /\ AccountIn(rs, n) = [password |-> rs[i].hash[2], role |-> rs[i].role]
           /\ AccountIn(rs, n) \in [password : Passwords, role : Roles]
<1>1. \A k \in Slots : NameOf(rs, k) = n <=> k = i
  <2>1. \A k \in Slots : NameOf(rs, k) = n <=> rs[k].name = n
    BY NameIs DEF Good, Records
  <2> QED BY <2>1 DEF Good, Records
<1>2. AccountIn(rs, n) = [password |-> rs[i].hash[2], role |-> rs[i].role]
  BY <1>1 DEF AccountIn
<1>3. rs[i] \in Record
  <2>1. rs[i] \in Record \cup {NoRecord}
    BY DEF Good, Records
  <2>2. rs[i].name # Empty
    BY DefaultUserListAssumption
  <2> QED BY <2>1, <2>2 DEF NoRecord
<1> QED BY <1>2, <1>3 DEF Record

LEMMA AccountNone ==
    ASSUME NEW rs, Good(rs), NEW n \in Ordinary, \A i \in Slots : rs[i].name # n
    PROVE  AccountIn(rs, n) = NoAccount
<1>1. \A k \in Slots : NameOf(rs, k) # n
  BY NameIs DEF Good, Records
<1> QED BY <1>1 DEF AccountIn

\* A record that is written over is not another name's account.
LEMMA OthersKeep ==
    ASSUME NEW rs, Good(rs), NEW i \in Slots, NEW r, Good([rs EXCEPT ![i] = r]),
           NEW n \in Ordinary, rs[i].name # n, r.name # n
    PROVE  AccountIn([rs EXCEPT ![i] = r], n) = AccountIn(rs, n)
<1> DEFINE after == [rs EXCEPT ![i] = r]
<1>1. after[i] = r /\ \A k \in Slots \ {i} : after[k] = rs[k]
  BY DEF Good, Records
<1>2. CASE \E k \in Slots : rs[k].name = n
  <2>1. PICK k \in Slots : rs[k].name = n
    BY <1>2
  <2>2. k # i /\ after[k] = rs[k]
    BY <1>1, <2>1
  <2>3. AccountIn(rs, n) = [password |-> rs[k].hash[2], role |-> rs[k].role]
    BY <2>1, AccountFound
  <2>4. AccountIn(after, n) = [password |-> after[k].hash[2], role |-> after[k].role]
    <3> HIDE DEF after
    <3>1. Good(after)
      BY DEF after
    <3> QED BY <2>1, <2>2, <3>1, AccountFound
  <2> QED BY <2>2, <2>3, <2>4
<1>3. CASE \A k \in Slots : rs[k].name # n
  <2>1. \A k \in Slots : after[k].name # n
    BY <1>1, <1>3
  <2>2. AccountIn(after, n) = NoAccount
    <3> HIDE DEF after
    <3>1. Good(after)
      BY DEF after
    <3> QED BY <2>1, <3>1, AccountNone
  <2> QED BY <1>3, <2>2, AccountNone
<1> QED BY <1>2, <1>3

-----------------------------------------------------------------------------
(* The invariant. *)

LEMMA InvInit == Init => Inv
<1> SUFFICES ASSUME Init PROVE Inv
  OBVIOUS
<1>1. \A i \in Slots : records[i] = NoRecord
  BY DEF Init
<1>2. \A i \in Slots : records[i].name \notin Ordinary
  BY <1>1, EmptyApart
<1> QED BY <1>1, <1>2 DEF Inv, Good, Records, Init, Answers, Refused

\* What add_user stores: one record changes, to a record of the name, and no
\* other record had it.
LEMMA StoredIsGood ==
    ASSUME NEW rs, Good(rs), NEW i \in Slots, NEW r \in Record,
           r.hash[1] = r.salt,
           \A k \in Slots \ {i} : r.name \in Ordinary => rs[k].name # r.name
    PROVE  Good([rs EXCEPT ![i] = r])
<1> DEFINE after == [rs EXCEPT ![i] = r]
<1>1. rs \in [Slots -> Record \cup {NoRecord}]
  BY DEF Good, Records
<1>2. after \in [Slots -> Record \cup {NoRecord}]
  BY <1>1
<1>3. after[i] = r /\ \A k \in Slots \ {i} : after[k] = rs[k]
  BY <1>1
<1> HIDE DEF after
<1>4. ASSUME NEW j \in Slots, NEW k \in Slots,
             after[j].name \in Ordinary, after[j].name = after[k].name
      PROVE  j = k
  <2>1. CASE j = i \/ k = i
    BY <1>3, <1>4, <2>1
  <2>2. CASE j # i /\ k # i
    BY <1>3, <1>4, <2>2 DEF Good, Records
  <2> QED BY <2>1, <2>2
<1>5. ASSUME NEW k \in Slots, after[k] # NoRecord PROVE after[k].hash[1] = after[k].salt
  BY <1>3, <1>5 DEF Good, Records
<1>6. Good(after)
  BY <1>2, <1>4, <1>5 DEF Good, Records
<1> QED BY <1>6 DEF after

LEMMA ClearedIsGood ==
    ASSUME NEW rs, Good(rs), NEW i \in Slots
    PROVE  Good([rs EXCEPT ![i] = NoRecord])
<1> DEFINE after == [rs EXCEPT ![i] = NoRecord]
<1>1. rs \in [Slots -> Record \cup {NoRecord}]
  BY DEF Good, Records
<1>2. after \in [Slots -> Record \cup {NoRecord}]
  BY <1>1
<1>3. after[i] = NoRecord /\ \A k \in Slots \ {i} : after[k] = rs[k]
  BY <1>1
<1>4. after[i].name \notin Ordinary
  BY <1>3, EmptyApart
<1> HIDE DEF after
<1>5. ASSUME NEW j \in Slots, NEW k \in Slots,
             after[j].name \in Ordinary, after[j].name = after[k].name
      PROVE  j = k
  <2>1. j # i /\ k # i
    BY <1>4, <1>5
  <2> QED BY <1>3, <1>5, <2>1 DEF Good, Records
<1>6. ASSUME NEW k \in Slots, after[k] # NoRecord PROVE after[k].hash[1] = after[k].salt
  BY <1>3, <1>6 DEF Good, Records
<1>7. Good(after)
  BY <1>2, <1>5, <1>6 DEF Good, Records
<1> QED BY <1>7 DEF after

\* The record add_user writes, and where: a free one if the name has none.
LEMMA AddUserStores ==
    ASSUME Inv, call' \in Calls, AddUser
    PROVE  \E i \in Slots, r \in Record :
              /\ records' = [records EXCEPT ![i] = r]
              /\ r.name = call'.name /\ r.role = call'.role
              /\ r.hash[1] = r.salt /\ r.hash[2] = call'.password
              /\ \A k \in Slots \ {i} : r.name \in Ordinary => records[k].name # r.name
              /\ \/ NameOf(records, i) = r.name
                 \/ records[i] = NoRecord /\ FindsNone(r.name)
<1>1. PICK i \in Slots, salt \in Salts :
          /\ SavesIn(i, call'.name)
          /\ records' = [records EXCEPT ![i] =
                [name |-> call'.name, role |-> call'.role, salt |-> salt,
                 hash |-> hash_password(call'.password, salt)]]
  BY DEF AddUser
<1> DEFINE r == [name |-> call'.name, role |-> call'.role, salt |-> salt,
                 hash |-> hash_password(call'.password, salt)]
<1>2. call'.name \in Names \ {Empty} /\ call'.role \in Roles /\ call'.password \in Passwords
  BY DEF AddUser, Calls
<1>3. r \in Record /\ r.hash[1] = r.salt /\ r.hash[2] = call'.password
  BY <1>2 DEF Record, hash_password
<1>4. records \in Records
  BY DEF Inv, Good
<1>5. CASE FindsNone(call'.name)
  <2>1. NameOf(records, i) = Empty
    BY <1>1, <1>5 DEF SavesIn, Finds
  <2>2. records[i] = NoRecord
    BY <1>4, <2>1, NameRead
  <2>3. ASSUME NEW k \in Slots, call'.name \in Ordinary PROVE records[k].name # call'.name
    BY <1>4, <1>5, <2>3, NameIs DEF FindsNone
  <2> QED BY <1>1, <1>3, <1>5, <2>2, <2>3
<1>6. CASE ~FindsNone(call'.name)
  <2>1. NameOf(records, i) = call'.name
    BY <1>1, <1>6 DEF SavesIn, Finds
  <2>2. ASSUME NEW k \in Slots \ {i}, call'.name \in Ordinary PROVE records[k].name # call'.name
    <3>1. records[i].name = call'.name
      BY <1>4, <2>1, <2>2, NameIs
    <3> QED BY <2>2, <3>1 DEF Inv, Good, Records
  <2> QED BY <1>1, <1>3, <2>1, <2>2
<1> QED BY <1>5, <1>6

LEMMA StepInv == Inv /\ [Next]_vars => Inv'
<1> SUFFICES ASSUME Inv, [Next]_vars PROVE Inv'
  OBVIOUS
<1>1. CASE UNCHANGED vars
  BY <1>1 DEF vars, Inv
<1>2. CASE Next
  <2>1. call' \in Calls
    BY <1>2 DEF Next
  <2>2. CASE AddUser
    <3>1. PICK i \in Slots, r \in Record :
              /\ records' = [records EXCEPT ![i] = r]
              /\ r.hash[1] = r.salt
              /\ \A k \in Slots \ {i} : r.name \in Ordinary => records[k].name # r.name
      BY <2>1, <2>2, AddUserStores
    <3>2. Good(records')
      BY <3>1, StoredIsGood DEF Inv
    <3>3. answer' \in Answers
      BY <2>2 DEF AddUser, Answer, Done, Answers
    <3> QED BY <2>1, <3>2, <3>3 DEF Inv
  <2>3. CASE AddUserRefused
    <3>1. records' = records /\ answer' \in Answers
      BY <2>3 DEF AddUserRefused, Answer, Refused, Answers
    <3> QED BY <2>1, <3>1 DEF Inv
  <2>4. CASE RemoveUser
    <3>1. Good(records')
      <4>1. CASE UNCHANGED records
        BY <4>1 DEF Inv
      <4>2. CASE \E i \in Slots : records' = [records EXCEPT ![i] = NoRecord]
        BY <4>2, ClearedIsGood DEF Inv
      <4> QED BY <2>4, <4>1, <4>2 DEF RemoveUser, Cleared
    <3>2. answer' \in Answers
      BY <2>4 DEF RemoveUser, Answer, Done, Answers
    <3> QED BY <2>1, <3>1, <3>2 DEF Inv
  <2>5. CASE Authenticate
    <3>1. records' = records
      BY <2>5 DEF Authenticate
    <3>2. ASSUME NEW i \in Slots, NameOf(records, i) = call'.name, call'.name # Empty,
                 answer' = Welcome(records[i].role)
          PROVE  answer' \in Answers
      <4>1. records[i] \in Record \cup {NoRecord}
        BY DEF Inv, Good, Records
      <4>2. records[i] # NoRecord
        BY <3>2, EmptyApart DEF NameOf
      <4>3. records[i].role \in Roles
        BY <4>1, <4>2 DEF Record
      <4> QED BY <3>2, <4>3 DEF Welcome, Answers
    <3>3. answer' \in Answers
      <4>1. Refused \in Answers
        BY DEF Refused, Answers
      <4> QED BY <2>5, <3>2, <4>1 DEF Authenticate, Answer, Finds
    <3> QED BY <2>1, <3>1, <3>3 DEF Inv
  <2> QED BY <1>2, <2>2, <2>3, <2>4, <2>5 DEF Next
<1> QED BY <1>1, <1>2

\* The array holds records and zeros, and every call is answered.
THEOREM TypeCorrect == Spec => []TypeOK
<1>1. Inv => TypeOK
  BY DEF Inv, Good, Records, TypeOK
<1> QED BY InvInit, StepInv, <1>1, PTL DEF Spec

\* No ordinary name ever has two records, whatever the names that fill a field
\* and read on into the role are taken for.
THEOREM NoTwoRecords == Spec => []OneRecordPerName
<1>1. Inv => OneRecordPerName
  BY DEF Inv, Good, Records, OneRecordPerName
<1> QED BY InvInit, StepInv, <1>1, PTL DEF Spec

-----------------------------------------------------------------------------
(* The refinement. *)

\* Whether a name has an account is whether it is found.
LEMMA HasIsFound ==
    ASSUME Inv, NEW n \in Ordinary
    PROVE  AccountsIn(records)[n] # NoAccount <=> ~FindsNone(n)
<1>1. \A k \in Slots : NameOf(records, k) = n <=> records[k].name = n
  BY NameIs DEF Inv, Good, Records
<1>2. CASE FindsNone(n)
  BY <1>1, <1>2, AccountNone DEF FindsNone, Inv, AccountsIn
<1>3. CASE ~FindsNone(n)
  <2>1. PICK k \in Slots : records[k].name = n
    BY <1>1, <1>3 DEF FindsNone
  <2>2. AccountIn(records, n) \in [password : Passwords, role : Roles]
    BY <2>1, AccountFound DEF Inv
  <2> QED BY <1>3, <2>2, DefaultUserListAssumption DEF AccountsIn
<1> QED BY <1>2, <1>3

\* Writing the record r of the ordinary name n, over its own or a free one.
LEMMA AccountsStored ==
    ASSUME NEW rs, Good(rs), NEW i \in Slots, NEW r \in Record,
           Good([rs EXCEPT ![i] = r]), NEW n \in Ordinary, r.name = n,
           rs[i].name = n \/ rs[i] = NoRecord
    PROVE  AccountsIn([rs EXCEPT ![i] = r]) =
             [AccountsIn(rs) EXCEPT ![n] = [password |-> r.hash[2], role |-> r.role]]
<1> DEFINE after == [rs EXCEPT ![i] = r]
<1>1. after[i] = r
  BY DEF Good, Records
<1>2. AccountIn(after, n) = [password |-> r.hash[2], role |-> r.role]
  <2> HIDE DEF after
  <2>1. Good(after)
    BY DEF after
  <2> QED BY <1>1, <2>1, AccountFound
<1>3. ASSUME NEW m \in Ordinary \ {n} PROVE AccountIn(after, m) = AccountIn(rs, m)
  <2>1. rs[i].name # m /\ r.name # m
    BY EmptyApart
  <2> QED BY <2>1, OthersKeep
<1> HIDE DEF after
<1>4. AccountsIn(after) = [AccountsIn(rs) EXCEPT ![n] = [password |-> r.hash[2], role |-> r.role]]
  BY <1>2, <1>3 DEF AccountsIn
<1> QED BY <1>4 DEF after

LEMMA AccountsCleared ==
    ASSUME NEW rs, Good(rs), NEW i \in Slots, NEW n \in Ordinary, rs[i].name = n
    PROVE  AccountsIn([rs EXCEPT ![i] = NoRecord]) = [AccountsIn(rs) EXCEPT ![n] = NoAccount]
<1> DEFINE after == [rs EXCEPT ![i] = NoRecord]
<1>1. Good(after)
  BY ClearedIsGood
<1>2. after[i] = NoRecord /\ \A k \in Slots \ {i} : after[k] = rs[k]
  BY DEF Good, Records
<1>3. AccountIn(after, n) = NoAccount
  <2> HIDE DEF after
  <2>1. \A k \in Slots : after[k].name # n
    BY <1>2, EmptyApart DEF Good, Records
  <2> QED BY <1>1, <2>1, AccountNone
<1>4. ASSUME NEW m \in Ordinary \ {n} PROVE AccountIn(after, m) = AccountIn(rs, m)
  <2>1. rs[i].name # m /\ NoRecord.name # m
    BY EmptyApart
  <2> QED BY <1>1, <2>1, OthersKeep
<1> HIDE DEF after
<1>5. AccountsIn(after) = [AccountsIn(rs) EXCEPT ![n] = NoAccount]
  BY <1>3, <1>4 DEF AccountsIn
<1> QED BY <1>5 DEF after

\* What happens to the record of a name that is not ordinary is nobody else's business.
LEMMA AccountsKept ==
    ASSUME NEW rs, Good(rs), NEW i \in Slots, NEW r, Good([rs EXCEPT ![i] = r]),
           rs[i].name \notin Ordinary, r.name \notin Ordinary
    PROVE  AccountsIn([rs EXCEPT ![i] = r]) = AccountsIn(rs)
<1>1. \A m \in Ordinary : AccountIn([rs EXCEPT ![i] = r], m) = AccountIn(rs, m)
  BY OthersKeep
<1> QED BY <1>1 DEF AccountsIn

\* The places: one is taken when a record is written over zeros, and given back
\* when it is cleared.
LEMMA FreeTaken ==
    ASSUME NEW rs, Good(rs), NEW i \in Slots, NEW r \in Record, rs[i] = NoRecord
    PROVE  i \in FreeIn(rs) /\ FreeIn([rs EXCEPT ![i] = r]) = FreeIn(rs) \ {i}
<1>1. r.name # Empty /\ rs[i].name = Empty
  BY EmptyApart DEF Record
<1>2. rs \in [Slots -> Record \cup {NoRecord}]
  BY DEF Good, Records
<1> QED BY <1>1, <1>2 DEF FreeIn

LEMMA FreeKept ==
    ASSUME NEW rs, Good(rs), NEW i \in Slots, NEW r \in Record, rs[i].name # Empty
    PROVE  FreeIn([rs EXCEPT ![i] = r]) = FreeIn(rs)
<1>1. r.name # Empty
  BY DEF Record
<1>2. rs \in [Slots -> Record \cup {NoRecord}]
  BY DEF Good, Records
<1> QED BY <1>1, <1>2 DEF FreeIn

LEMMA FreeGiven ==
    ASSUME NEW rs, Good(rs), NEW i \in Slots
    PROVE  FreeIn([rs EXCEPT ![i] = NoRecord]) = FreeIn(rs) \cup {i}
<1>1. rs \in [Slots -> Record \cup {NoRecord}]
  BY DEF Good, Records
<1> QED BY <1>1, EmptyApart DEF FreeIn

\* The array is a directory of the ordinary names: each call answers and changes
\* what the directory says, whatever happens to names that fill a field.
THEOREM Implements == Spec => ImplementsDirectory
<1>1. Init => D!Init
  <2> SUFFICES ASSUME Init PROVE D!Init
    OBVIOUS
  <2>1. Good(records) /\ \A i \in Slots : records[i] = NoRecord
    BY InvInit DEF Inv, Init
  <2>2. \A n \in Ordinary : AccountIn(records, n) = NoAccount
    BY <2>1, AccountNone, EmptyApart
  <2>3. AccountsIn(records) = [name \in Ordinary |-> NoAccount]
    BY <2>2 DEF AccountsIn
  <2>4. FreeIn(records) = Slots
    BY <2>1, EmptyApart DEF FreeIn
  <2> QED BY <2>3, <2>4 DEF D!Init, D!Calls, D!Refused, Init, Calls, Refused
<1>2. Inv /\ Inv' /\ [Next]_vars => [D!Next]_(D!vars)
  <2> SUFFICES ASSUME Inv, Inv', [Next]_vars PROVE [D!Next]_(D!vars)
    OBVIOUS
  <2>0. CASE UNCHANGED vars
    BY <2>0 DEF vars, D!vars, AccountsIn, AccountIn, FreeIn, NameOf
  <2> SUFFICES ASSUME Next PROVE D!Next
    BY <2>0
  <2>1. call' \in D!Calls
    BY DEF Next, Calls, D!Calls
  <2>a. \A n \in Ordinary : D!Has(n) <=> ~FindsNone(n)
    BY HasIsFound DEF D!Has
  <2>2. ASSUME UNCHANGED records PROVE UNCHANGED <<AccountsIn(records), FreeIn(records)>>
    BY <2>2
  <2>3. answer' \in D!Answers
    BY DEF Inv, Answers, D!Answers
  <2>4. CASE AddUser
    <3>1. PICK i \in Slots, r \in Record :
              /\ records' = [records EXCEPT ![i] = r]
              /\ r.name = call'.name /\ r.role = call'.role
              /\ r.hash[2] = call'.password
              /\ \/ NameOf(records, i) = r.name
                 \/ records[i] = NoRecord /\ FindsNone(r.name)
      BY <2>4, AddUserStores DEF Next
    <3>2. /\ records \in Records /\ records[i] \in Record \cup {NoRecord}
          /\ Good(records) /\ Good([records EXCEPT ![i] = r])
      BY <3>1 DEF Inv, Good, Records
    <3>a. /\ AccountsIn(records)' = AccountsIn([records EXCEPT ![i] = r])
          /\ FreeIn(records)' = FreeIn([records EXCEPT ![i] = r])
      BY <3>1
    <3>b. /\ records[i] = NoRecord => i \in FreeIn(records) /\ FreeIn(records)' = FreeIn(records) \ {i}
          /\ records[i].name # Empty => FreeIn(records)' = FreeIn(records)
      <4>1. records[i] = NoRecord => i \in FreeIn(records) /\ FreeIn([records EXCEPT ![i] = r]) = FreeIn(records) \ {i}
        BY <3>2, FreeTaken
      <4>2. records[i].name # Empty => FreeIn([records EXCEPT ![i] = r]) = FreeIn(records)
        BY <3>2, FreeKept
      <4> QED BY <3>a, <4>1, <4>2
    <3>3. CASE call'.name \in Ordinary
      <4>1. records[i].name = call'.name \/ records[i] = NoRecord
        BY <3>1, <3>2, <3>3, NameIs
      <4>2. AccountsIn(records)' = [AccountsIn(records) EXCEPT ![call'.name] = D!Given(call')]
        <5>1. D!Given(call') = [password |-> r.hash[2], role |-> r.role]
          BY <3>1 DEF D!Given
        <5>2. AccountsIn([records EXCEPT ![i] = r]) =
                [AccountsIn(records) EXCEPT ![r.name] = [password |-> r.hash[2], role |-> r.role]]
          <6>1. r.name \in Ordinary /\ (records[i].name = r.name \/ records[i] = NoRecord)
            BY <3>1, <3>3, <4>1
          <6> QED BY <3>2, <6>1, AccountsStored
        <5> QED BY <3>1, <3>a, <5>1, <5>2
      <4>3. CASE NameOf(records, i) = r.name
        <5>1. D!Has(call'.name)
          BY <2>a, <3>1, <3>3, <4>3 DEF FindsNone
        <5>2. records[i].name # Empty
          BY <3>1, <3>2, <3>3, <4>3, NameIs, EmptyApart
        <5>3. FreeIn(records)' = FreeIn(records)
          BY <3>b, <5>2
        <5> QED BY <2>1, <2>4, <3>3, <4>2, <5>1, <5>3
              DEF AddUser, Answer, Done, D!Next, D!Replace, D!Done
      <4>4. CASE records[i] = NoRecord /\ FindsNone(r.name)
        <5>1. ~D!Has(call'.name)
          BY <2>a, <3>1, <3>3, <4>4
        <5>2. D!Takes
          BY <3>b, <4>4 DEF D!Takes
        <5> QED BY <2>1, <2>4, <3>3, <4>2, <5>1, <5>2
              DEF AddUser, Answer, Done, D!Next, D!Add, D!Done
      <4> QED BY <3>1, <4>3, <4>4
    <3>4. CASE call'.name \notin Ordinary
      <4>1. r.name \notin Ordinary \cup {Empty}
        BY <3>1, <3>4 DEF Record
      <4>2. records[i].name \notin Ordinary /\ (records[i] # NoRecord => records[i].name # Empty)
        BY <3>1, <3>2, <4>1, NameRead, EmptyApart
      <4>3. UNCHANGED AccountsIn(records)
        BY <3>2, <3>a, <4>1, <4>2, AccountsKept
      <4>4. UNCHANGED FreeIn(records) \/ D!Takes
        BY <3>b, <4>2 DEF D!Takes
      <4> QED BY <2>1, <2>3, <3>4, <4>3, <4>4 DEF D!Next, D!Others
    <3> QED BY <3>3, <3>4
  <2>5. CASE AddUserRefused
    <3>1. UNCHANGED <<AccountsIn(records), FreeIn(records)>>
      BY <2>2, <2>5 DEF AddUserRefused
    <3>2. CASE call'.name \in Ordinary
      <4>1. FindsNone(call'.name) /\ FindsNone(Empty)
        BY <2>5, <3>2, DefaultUserListAssumption DEF AddUserRefused
      <4>2. FreeIn(records) = {}
        BY <4>1, NameIs DEF FindsNone, FreeIn, Inv, Good, Records
      <4> QED BY <2>1, <2>a, <2>5, <3>1, <3>2, <4>1, <4>2
            DEF AddUserRefused, Answer, Refused, D!Next, D!Refuse, D!Refused
    <3>3. CASE call'.name \notin Ordinary
      BY <2>1, <2>3, <3>1, <3>3 DEF D!Next, D!Others
    <3> QED BY <3>2, <3>3
  <2>6. CASE RemoveUser
    <3>1. CASE call'.name = Empty \/ FindsNone(call'.name)
      <4>1. UNCHANGED <<AccountsIn(records), FreeIn(records)>>
        BY <2>2, <2>6, <3>1 DEF RemoveUser
      <4>2. CASE call'.name \in Ordinary
        <5>1. ~D!Has(call'.name)
          BY <2>a, <3>1, <4>2, EmptyApart
        <5> QED BY <2>1, <2>6, <4>1, <4>2, <5>1
              DEF RemoveUser, Answer, Done, D!Next, D!RemoveNobody, D!Done
      <4>3. CASE call'.name \notin Ordinary
        BY <2>1, <2>3, <4>1, <4>3 DEF D!Next, D!Others
      <4> QED BY <4>2, <4>3
    <3>2. CASE ~(call'.name = Empty \/ FindsNone(call'.name))
      <4>1. PICK i \in Slots : /\ NameOf(records, i) = call'.name
                               /\ records' = [records EXCEPT ![i] = NoRecord]
        BY <2>6, <3>2 DEF RemoveUser, Finds, Cleared
      <4>2. records \in Records /\ records[i] \in Record
            /\ Good(records) /\ Good([records EXCEPT ![i] = NoRecord])
        BY <3>2, <4>1, EmptyApart DEF Inv, Good, Records, NameOf
      <4>3. D!Gives
        BY <4>1, <4>2, FreeGiven DEF D!Gives
      <4>4. CASE call'.name \in Ordinary
        <5>1. records[i].name = call'.name
          BY <4>1, <4>2, <4>4, NameIs
        <5>2. AccountsIn(records)' = [AccountsIn(records) EXCEPT ![call'.name] = NoAccount]
          BY <4>1, <4>2, <4>4, <5>1, AccountsCleared
        <5>3. D!Has(call'.name)
          BY <2>a, <3>2, <4>4
        <5> QED BY <2>1, <2>6, <4>3, <4>4, <5>2, <5>3
              DEF RemoveUser, Answer, Done, D!Next, D!Remove, D!Done
      <4>5. CASE call'.name \notin Ordinary
        <5>1. records[i].name \notin Ordinary /\ NoRecord.name \notin Ordinary
          BY <3>2, <4>1, <4>2, <4>5, NameRead, EmptyApart
        <5>2. UNCHANGED AccountsIn(records)
          BY <4>1, <4>2, <5>1, AccountsKept
        <5> QED BY <2>1, <2>3, <4>3, <4>5, <5>2 DEF D!Next, D!Others
      <4> QED BY <4>4, <4>5
    <3> QED BY <3>1, <3>2
  <2>7. CASE Authenticate
    <3>1. UNCHANGED <<AccountsIn(records), FreeIn(records)>>
      BY <2>2, <2>7 DEF Authenticate
    <3>2. CASE call'.name \in Ordinary
      <4>1. answer' = IF D!Has(call'.name) /\ AccountsIn(records)[call'.name].password = call'.password
                      THEN D!Welcome(AccountsIn(records)[call'.name].role) ELSE D!Refused
        <5>1. CASE FindsNone(call'.name)
          BY <2>7, <2>a, <3>2, <5>1 DEF Authenticate, Answer, Refused, D!Refused
        <5>2. CASE ~FindsNone(call'.name)
          <6>1. call'.name # Empty
            BY <3>2, EmptyApart
          <6>2. PICK i \in Slots : /\ NameOf(records, i) = call'.name
                                   /\ answer' = IF Accepts(records[i], call'.password)
                                                THEN Welcome(records[i].role) ELSE Refused
            BY <2>7, <5>2, <6>1 DEF Authenticate, Answer, Finds
          <6>3. Good(records) /\ records \in Records /\ records[i] \in Record
            BY <6>1, <6>2, EmptyApart DEF Inv, Good, Records, NameOf
          <6>4. records[i].name = call'.name
            BY <3>2, <6>2, <6>3, NameIs
          <6>5. AccountsIn(records)[call'.name] = [password |-> records[i].hash[2], role |-> records[i].role]
            BY <3>2, <6>3, <6>4, AccountFound DEF AccountsIn
          <6>6. Accepts(records[i], call'.password) <=> records[i].hash[2] = call'.password
            <7>1. records[i].hash[1] = records[i].salt
              BY <6>3, <6>1, <6>4, EmptyApart DEF Good, Records
            <7>2. records[i].hash = <<records[i].hash[1], records[i].hash[2]>>
              BY <6>3 DEF Record
            <7> QED BY <7>1, <7>2 DEF Accepts, hash_password, SaltOf
          <6> QED BY <2>a, <3>2, <5>2, <6>2, <6>5, <6>6 DEF Welcome, Refused, D!Welcome, D!Refused
        <5> QED BY <5>1, <5>2
      <4> QED BY <2>1, <2>7, <3>1, <3>2, <4>1 DEF Authenticate, D!Next, D!Login
    <3>3. CASE call'.name \notin Ordinary
      BY <2>1, <2>3, <3>1, <3>3 DEF D!Next, D!Others
    <3> QED BY <3>2, <3>3
  <2> QED BY <2>4, <2>5, <2>6, <2>7 DEF Next
<1> QED BY InvInit, StepInv, <1>1, <1>2, PTL DEF Spec, ImplementsDirectory, D!Spec
==============================================================================
