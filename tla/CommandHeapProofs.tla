-------------------------- MODULE CommandHeapProofs --------------------------
(***************************************************************************)
(* The list of commands stays a list of the allocated records, and with    *)
(* the table it answers like the registry, for every set of addresses,     *)
(* names and roles and every table of built-in commands.                   *)
(***************************************************************************)
EXTENDS CommandHeap, FiniteSetTheorems, WellFoundedInduction, TLAPS

\* add_command looks a name up before it registers it.
NamesApart == \A a, b \in Allocated : heap[a].name = heap[b].name => a = b

\* Unlinking a record leaves the others only if the list has no circle, and
\* the first of a name is the only one only if names are apart.
IInv == TypeOK /\ ListIsHeap /\ NamesApart

Apart(s) == \A i, j \in 1 .. Len(s) : s[i].name = s[j].name => i = j
Entries(s) == {s[i] : i \in 1 .. Len(s)}

\* A set of numbers that is not empty has a least one.
LEMMA LeastNumber ==
    ASSUME NEW S \in SUBSET Nat, S # {}
    PROVE  \E m \in S : \A k \in S : ~(k < m)
<1>1. PICK m \in S : \A k \in S : <<k, m>> \notin OpToRel(<, Nat)
  BY WFMin, NatLessThanWellFounded
<1> QED BY <1>1, Zenon DEF OpToRel

LEMMA FirstIs ==
    ASSUME NEW S \in SUBSET Nat, S # {}
    PROVE  First(S) \in S /\ \A j \in S : First(S) <= j
<1>1. PICK m \in S : \A k \in S : ~(k < m)
  BY LeastNumber
<1>2. \A k \in S : m <= k
  BY <1>1
<1> QED BY <1>2 DEF First

-----------------------------------------------------------------------------
(* There is one walk through a list. *)

LEMMA WalkType ==
    ASSUME NEW w \in Walks
    PROVE  Len(w) \in Nat /\ w \in [1 .. Len(w) -> Addresses]
<1>1. Cardinality(Addresses) \in Nat
  BY FS_CardinalityType, CommandHeapAssumption
<1>2. PICK n \in 0 .. Cardinality(Addresses) : w \in [1 .. n -> Addresses]
  BY DEF Walks
<1> QED BY <1>1, <1>2

\* Where a walk begins and how it goes on.
LEMMA WalkGoes ==
    ASSUME NEW w \in Walks, IsWalk(w)
    PROVE  /\ Len(w) = 0 => head = Null
           /\ Len(w) # 0 => head = w[1]
           /\ \A i \in 1 .. Len(w) : heap[w[i]].next = IF i = Len(w) THEN Null ELSE w[i + 1]
<1>1. CASE Len(w) = 0
  <2>1. w = << >>
    BY <1>1, WalkType
  <2> QED BY <1>1, <2>1 DEF IsWalk
<1>2. CASE Len(w) # 0
  <2>1. w # << >>
    BY <1>2
  <2> QED BY <1>2, <2>1 DEF IsWalk
<1> QED BY <1>1, <1>2

\* As far as both go, two walks come to the same addresses.
LEMMA WalksAgree ==
    ASSUME NEW v \in Walks, NEW w \in Walks, IsWalk(v), IsWalk(w)
    PROVE  \A i \in (1 .. Len(v)) \cap (1 .. Len(w)) : v[i] = w[i]
<1> DEFINE n == Len(v)
           m == Len(w)
           S == {i \in (1 .. n) \cap (1 .. m) : v[i] # w[i]}
<1>1. n \in Nat /\ m \in Nat /\ v \in [1 .. n -> Addresses] /\ w \in [1 .. m -> Addresses]
  BY WalkType
<1>2. /\ \A i \in 1 .. n : heap[v[i]].next = IF i = n THEN Null ELSE v[i + 1]
      /\ \A i \in 1 .. m : heap[w[i]].next = IF i = m THEN Null ELSE w[i + 1]
      /\ n # 0 => head = v[1]
      /\ m # 0 => head = w[1]
  BY <1>1, WalkGoes
<1> HIDE DEF n, m
<1>3. ASSUME S # {} PROVE FALSE
  <2>1. PICK k \in S : \A j \in S : ~(j < k)
    <3>1. S \in SUBSET Nat
      BY <1>1
    <3> HIDE DEF S
    <3> QED BY <1>3, <3>1, LeastNumber
  <2>2. k # 1
    BY <1>1, <1>2, <2>1
  <2>3. /\ k - 1 \in (1 .. n) \cap (1 .. m) /\ k - 1 # n /\ k - 1 # m
        /\ (k - 1) + 1 = k /\ k - 1 < k
    BY <1>1, <2>1, <2>2
  <2>4. v[k - 1] = w[k - 1]
    BY <2>1, <2>3
  <2>5. heap[v[k - 1]].next = v[k] /\ heap[w[k - 1]].next = w[k]
    BY <1>2, <2>3
  <2> QED BY <2>1, <2>4, <2>5
<1> QED BY <1>3 DEF n, m

LEMMA WalkNotShorter ==
    ASSUME NEW v \in Walks, NEW w \in Walks, IsWalk(v), IsWalk(w), Len(v) < Len(w)
    PROVE  FALSE
<1> DEFINE n == Len(v)
           m == Len(w)
<1>1. n \in Nat /\ m \in Nat /\ v \in [1 .. n -> Addresses] /\ w \in [1 .. m -> Addresses]
  BY WalkType
<1>2. n < m /\ Null \notin Addresses /\ w[n + 1] \in Addresses
  BY <1>1, CommandHeapAssumption
<1>3. CASE n = 0
  <2>1. head = Null /\ head = w[1]
    BY <1>1, <1>2, <1>3, WalkGoes
  <2> QED BY <1>2, <1>3, <2>1
<1>4. CASE n # 0
  <2>1. n \in (1 .. n) \cap (1 .. m)
    BY <1>1, <1>2, <1>4
  <2>2. v[n] = w[n]
    BY <2>1, WalksAgree
  <2>3. heap[v[n]].next = Null
    BY <2>1, WalkGoes
  <2>4. heap[w[n]].next = w[n + 1]
    BY <1>1, <1>2, <2>1, WalkGoes
  <2> QED BY <1>2, <2>2, <2>3, <2>4
<1> QED BY <1>3, <1>4

LEMMA NeitherLess == \A m, n \in Nat : ~(m < n) /\ ~(n < m) => m = n
OBVIOUS

LEMMA WalkUnique ==
    ASSUME NEW v \in Walks, NEW w \in Walks, IsWalk(v), IsWalk(w)
    PROVE  v = w
<1>1. /\ Len(v) \in Nat /\ v \in [1 .. Len(v) -> Addresses]
      /\ Len(w) \in Nat /\ w \in [1 .. Len(w) -> Addresses]
  BY WalkType
<1>2. ~(Len(v) < Len(w)) /\ ~(Len(w) < Len(v))
  BY WalkNotShorter
<1>3. Len(v) = Len(w)
  BY <1>1, <1>2, NeitherLess
<1>4. \A i \in 1 .. Len(v) : v[i] = w[i]
  BY <1>3, WalksAgree
<1> QED BY <1>1, <1>3, <1>4

\* So Walk is the one of ListIsHeap.
LEMMA WalkIs ==
    ASSUME ListIsHeap
    PROVE  /\ Len(Walk) \in Nat /\ Walk \in [1 .. Len(Walk) -> Addresses]
           /\ IsWalk(Walk)
           /\ {Walk[i] : i \in 1 .. Len(Walk)} = Allocated
           /\ \A i, j \in 1 .. Len(Walk) : Walk[i] = Walk[j] => i = j
<1>1. PICK w \in Walks :
         /\ IsWalk(w)
         /\ {w[i] : i \in 1 .. Len(w)} = Allocated
         /\ \A i, j \in 1 .. Len(w) : w[i] = w[j] => i = j
  BY DEF ListIsHeap
<1>2. Walk \in Walks /\ IsWalk(Walk)
  BY <1>1 DEF Walk
<1>3. Walk = w
  BY <1>1, <1>2, WalkUnique
<1> QED BY <1>1, <1>3, WalkType

\* A sequence of different addresses is short enough for Walks.
LEMMA WalkFits ==
    ASSUME NEW n \in Nat, NEW w \in [1 .. n -> Addresses],
           \A i, j \in 1 .. n : w[i] = w[j] => i = j
    PROVE  w \in Walks /\ Len(w) = n
<1>1. w \in Injection(1 .. n, Addresses)
  BY DEF Injection, IsInjective
<1>2. Cardinality(1 .. n) <= Cardinality(Addresses)
  BY <1>1, FS_Injection, CommandHeapAssumption
<1>3. Cardinality(1 .. n) = n
  BY FS_Interval
<1>4. Cardinality(Addresses) \in Nat
  BY FS_CardinalityType, CommandHeapAssumption
<1>5. n \in 0 .. Cardinality(Addresses)
  BY <1>2, <1>3, <1>4
<1> QED BY <1>5 DEF Walks

-----------------------------------------------------------------------------
(* Sequences of commands whose names differ. *)

Command == [name : Names, role : Roles]

LEMMA AllocatedType ==
    ASSUME TypeOK, NEW a \in Allocated
    PROVE  /\ a \in Addresses
           /\ heap[a] \in [next : Addresses \cup {Null}, name : Names, role : Roles]
           /\ Record(a) \in Command
BY DEF TypeOK, Allocated, Free, Record, Found, Command

\* The list in order: every allocated record's command, each once.
LEMMA ListedIs ==
    ASSUME IInv
    PROVE  /\ Listed \in Seq(Command) /\ Len(Listed) = Len(Walk)
           /\ Apart(Listed)
           /\ Entries(Listed) = {Record(a) : a \in Allocated}
<1> DEFINE n == Len(Walk)
<1>1. /\ n \in Nat /\ Walk \in [1 .. n -> Addresses]
      /\ {Walk[i] : i \in 1 .. n} = Allocated
      /\ \A i, j \in 1 .. n : Walk[i] = Walk[j] => i = j
  BY WalkIs DEF IInv
<1>2. \A i \in 1 .. n : Walk[i] \in Allocated
  BY <1>1
<1>3. Listed = [i \in 1 .. n |-> Record(Walk[i])]
  BY DEF Listed
<1> HIDE DEF n
<1>4. \A i \in 1 .. n : Record(Walk[i]) \in Command
  BY <1>2, AllocatedType DEF IInv
<1>5. Listed \in Seq(Command) /\ Len(Listed) = n /\ \A i \in 1 .. n : Listed[i] = Record(Walk[i])
  BY <1>1, <1>3, <1>4
<1>6. Apart(Listed)
  <2> SUFFICES ASSUME NEW i \in 1 .. n, NEW j \in 1 .. n, Listed[i].name = Listed[j].name
               PROVE  i = j
    BY <1>5 DEF Apart
  <2>1. heap[Walk[i]].name = heap[Walk[j]].name
    BY <1>5 DEF Record, Found
  <2>2. Walk[i] = Walk[j]
    BY <1>2, <2>1 DEF IInv, NamesApart
  <2> QED BY <1>1, <2>2
<1>7. Entries(Listed) = {Record(a) : a \in Allocated}
  <2>1. Entries(Listed) = {Record(Walk[i]) : i \in 1 .. n}
    BY <1>5 DEF Entries
  <2> QED BY <1>1, <2>1
<1> QED BY <1>5, <1>6, <1>7 DEF n

\* The loops that compare names find the only command of that name.
LEMMA NamedIs ==
    ASSUME NEW s \in Seq(Command), Apart(s), NEW name
    PROVE  /\ Named(s, name) = {} => R!Called(Entries(s), name) = {}
           /\ \A i \in Named(s, name) : R!Called(Entries(s), name) = {s[i]}
BY DEF Named, R!Called, Entries, Apart

\* partial_match succeeds for exactly one record if the registry has exactly one
\* such command, and for none if it has none.
LEMMA MatchingIs ==
    ASSUME NEW s \in Seq(Command), Apart(s), NEW w
    PROVE  LET M == Matching(s, w)
               B == R!Beginning(Entries(s), w)
           IN  /\ IsFiniteSet(M) /\ Cardinality(M) \in Nat
               /\ M = {} <=> B = {}
               /\ \A i : M = {i} => B = {s[i]}
               /\ \A c : B = {c} => \E i \in M : M = {i}
<1> DEFINE M == Matching(s, w)
           B == R!Beginning(Entries(s), w)
<1>1. B = {s[i] : i \in M}
  BY DEF R!Beginning, Matching, Entries
<1>2. IsFiniteSet(M)
  <2>1. M \in SUBSET (1 .. Len(s))
    BY DEF Matching
  <2>2. IsFiniteSet(1 .. Len(s))
    BY FS_Interval
  <2> HIDE DEF M
  <2> QED BY <2>1, <2>2, FS_Subset
<1>3. \A i, j \in M : s[i] = s[j] => i = j
  BY DEF Matching, Apart
<1> HIDE DEF M, B
<1>4. ASSUME NEW c, B = {c} PROVE \E i \in M : M = {i}
  <2>1. PICK i \in M : s[i] = c
    BY <1>1, <1>4
  <2>2. \A j \in M : j = i
    BY <1>1, <1>3, <1>4, <2>1
  <2> QED BY <2>1, <2>2
<1>5. Cardinality(M) \in Nat
  BY <1>2, FS_CardinalityType
<1>6. M = {} <=> B = {}
  BY <1>1
<1>7. \A i : M = {i} => B = {s[i]}
  BY <1>1
<1> QED BY <1>2, <1>4, <1>5, <1>6, <1>7 DEF M, B

-----------------------------------------------------------------------------
(* The invariant. *)

\* A list that becomes w is a list of what is allocated then.
LEMMA BecomesList ==
    ASSUME NEW n \in Nat, NEW w \in [1 .. n -> Addresses],
           \A i, j \in 1 .. n : w[i] = w[j] => i = j,
           {w[i] : i \in 1 .. n} = Allocated',
           head' = IF n = 0 THEN Null ELSE w[1],
           \A i \in 1 .. n : heap'[w[i]].next = IF i = n THEN Null ELSE w[i + 1]
    PROVE  ListIsHeap'
<1>1. w \in Walks /\ Len(w) = n
  BY WalkFits
<1>2. n = 0 <=> w = << >>
  BY <1>1
<1>3. IsWalk(w)'
  BY <1>1, <1>2 DEF IsWalk
<1> QED BY <1>1, <1>3 DEF ListIsHeap

LEMMA AddKeeps ==
    ASSUME IInv, call' \in Calls, AddCommand
    PROVE  IInv'
<1>1. CASE ~IsNew(call'.name)
  BY <1>1 DEF AddCommand, Answer, IInv, TypeOK, Nothing, ListIsHeap, IsWalk, NamesApart, Allocated, Free
<1>2. CASE IsNew(call'.name)
  <2> DEFINE n == Len(Walk)
             record == [next |-> head, name |-> call'.name, role |-> call'.role]
  <2>1. PICK a \in Free : heap' = [heap EXCEPT ![a] = record] /\ head' = a
    BY <1>2 DEF AddCommand
  <2>2. record \in [next : Addresses \cup {Null}, name : Names, role : Roles]
    BY DEF IInv, TypeOK, Calls
  <2>3. a \in Addresses /\ record # Unused /\ a \notin Allocated
    BY <2>1, <2>2, CommandHeapAssumption DEF Free, Allocated
  <2>4. Allocated' = Allocated \cup {a}
    BY <2>1, <2>3 DEF Allocated, Free, IInv, TypeOK
  <2>5. /\ n \in Nat /\ Walk \in [1 .. n -> Addresses] /\ IsWalk(Walk)
        /\ {Walk[i] : i \in 1 .. n} = Allocated
        /\ \A i, j \in 1 .. n : Walk[i] = Walk[j] => i = j
    BY WalkIs DEF IInv
  <2>6. /\ n = 0 => head = Null
        /\ n # 0 => head = Walk[1]
        /\ \A i \in 1 .. n : heap[Walk[i]].next = IF i = n THEN Null ELSE Walk[i + 1]
    BY <2>5, WalkFits, WalkGoes
  <2>7. TypeOK'
    BY <2>1, <2>2, <2>3 DEF AddCommand, Answer, Nothing, IInv, TypeOK
  <2>8. ListIsHeap'
    <3> DEFINE w == [i \in 1 .. n + 1 |-> IF i = 1 THEN a ELSE Walk[i - 1]]
    <3> HIDE DEF n, record
    <3>1. n + 1 \in Nat /\ w \in [1 .. n + 1 -> Addresses]
      BY <2>3, <2>5
    <3>2. w[1] = a /\ \A i \in 1 .. n : w[i + 1] = Walk[i] /\ w[i + 1] # a
      BY <2>3, <2>5
    <3>3. \A i \in 1 .. n + 1 : i = 1 \/ (i - 1 \in 1 .. n /\ i = (i - 1) + 1)
      BY <2>5
    <3>4. \A i, j \in 1 .. n + 1 : w[i] = w[j] => i = j
      <4> HIDE DEF w
      <4> SUFFICES ASSUME NEW i \in 1 .. n + 1, NEW j \in 1 .. n + 1, w[i] = w[j] PROVE i = j
        OBVIOUS
      <4>1. CASE i = 1 \/ j = 1
        BY <3>2, <3>3, <4>1
      <4>2. CASE i # 1 /\ j # 1
        <5>1. i - 1 \in 1 .. n /\ j - 1 \in 1 .. n /\ Walk[i - 1] = Walk[j - 1]
          BY <3>2, <3>3, <4>2
        <5>2. i - 1 = j - 1
          BY <2>5, <5>1
        <5> QED BY <5>2
      <4> QED BY <4>1, <4>2
    <3>5. {w[i] : i \in 1 .. n + 1} = Allocated'
      <4>1. \A i \in 1 .. n + 1 : w[i] \in Allocated \cup {a}
        BY <2>5
      <4>2. \A b \in Allocated : \E i \in 1 .. n : w[i + 1] = b
        BY <2>5, <3>2
      <4>3. \A i \in 1 .. n : i + 1 \in 1 .. n + 1
        BY <2>5
      <4>4. 1 \in 1 .. n + 1
        BY <2>5
      <4> HIDE DEF w
      <4> QED BY <2>4, <3>2, <4>1, <4>2, <4>3, <4>4
    <3>6. \A i \in 1 .. n + 1 : heap'[w[i]].next = IF i = n + 1 THEN Null ELSE w[i + 1]
      <4> SUFFICES ASSUME NEW i \in 1 .. n + 1
                   PROVE  heap'[w[i]].next = IF i = n + 1 THEN Null ELSE w[i + 1]
        OBVIOUS
      <4>1. CASE i = 1
        <5>1. heap'[w[i]].next = head
          BY <2>1, <2>3, <3>2, <4>1 DEF record, IInv, TypeOK
        <5>2. n # 0 => 1 \in 1 .. n /\ w[1 + 1] = Walk[1]
          BY <2>5, <3>2
        <5> HIDE DEF w
        <5> QED BY <2>5, <2>6, <4>1, <5>1, <5>2
      <4>2. CASE i # 1
        <5>1. i - 1 \in 1 .. n /\ i = (i - 1) + 1
          BY <3>3, <4>2
        <5>2. w[i] = Walk[i - 1] /\ w[i] # a /\ w[i] \in Addresses
          BY <3>1, <3>2, <5>1
        <5>3. heap'[w[i]].next = heap[Walk[i - 1]].next
          BY <2>1, <5>2 DEF IInv, TypeOK
        <5>4. i # n + 1 => i - 1 # n /\ i \in 1 .. n /\ w[i + 1] = Walk[i]
          BY <2>5, <3>2
        <5>5. i = n + 1 => i - 1 = n
          BY <2>5
        <5> HIDE DEF w
        <5> QED BY <2>6, <5>1, <5>3, <5>4, <5>5
      <4> QED BY <4>1, <4>2
    <3>7. head' = IF n + 1 = 0 THEN Null ELSE w[1]
      BY <2>1, <2>5, <3>2
    <3> HIDE DEF w
    <3> QED BY <3>1, <3>4, <3>5, <3>6, <3>7, BecomesList
  <2>9. NamesApart'
    <3>1. \A b \in Allocated : heap[b].name # call'.name
      <4>1. \A i \in 1 .. n : Listed[i].name = heap[Walk[i]].name
        BY <2>5 DEF Listed, Record, Found
      <4>2. \A i \in 1 .. n : Listed[i].name # call'.name
        BY <1>2, ListedIs DEF IsNew, Named
      <4> QED BY <2>5, <4>1, <4>2
    <3>2. heap'[a].name = call'.name
      BY <2>1, <2>3 DEF IInv, TypeOK
    <3>3. \A b \in Allocated : heap'[b] = heap[b]
      BY <2>1, <2>3 DEF IInv, TypeOK, Allocated
    <3> QED BY <2>4, <3>1, <3>2, <3>3 DEF NamesApart, IInv
  <2> QED BY <2>7, <2>8, <2>9 DEF IInv
<1> QED BY <1>1, <1>2

\* Closing the list over the record at k leaves a list of the others.
LEMMA RemoveKeeps ==
    ASSUME IInv, call' \in Calls, RemoveCommand
    PROVE  IInv'
<1> DEFINE n == Len(Walk)
           found == Named(Listed, call'.name)
           k == First(found)
<1>1. CASE found = {}
  BY <1>1 DEF RemoveCommand, Answer, IInv, TypeOK, Nothing, ListIsHeap, IsWalk, NamesApart, Allocated, Free
<1>2. CASE found # {}
  <2>1. /\ n \in Nat /\ Walk \in [1 .. n -> Addresses] /\ IsWalk(Walk)
        /\ {Walk[i] : i \in 1 .. n} = Allocated
        /\ \A i, j \in 1 .. n : Walk[i] = Walk[j] => i = j
    BY WalkIs DEF IInv
  <2>2. /\ n # 0 => head = Walk[1]
        /\ \A i \in 1 .. n : heap[Walk[i]].next = IF i = n THEN Null ELSE Walk[i + 1]
    BY <2>1, WalkFits, WalkGoes
  <2>3. k \in 1 .. n
    <3>1. found \in SUBSET Nat /\ found \subseteq 1 .. n
      BY ListedIs DEF Named
    <3> HIDE DEF found, n
    <3> QED BY <1>2, <3>1, FirstIs
  <2>4. /\ head' = IF k = 1 THEN heap[Walk[k]].next ELSE head
        /\ heap' = [Unlinks(k) EXCEPT ![Walk[k]] = Unused]
        /\ answer' = Nothing
    BY <1>2 DEF RemoveCommand, Answer
  <2> HIDE DEF n, found, k
  <2>5. \A i \in 1 .. n : Walk[i] \in Allocated
    BY <2>1
  <2>6. \A i \in 1 .. n : heap[Walk[i]] \in [next : Addresses \cup {Null}, name : Names, role : Roles]
    BY <2>5, AllocatedType DEF IInv
  <2>7. heap \in [Addresses -> [next : Addresses \cup {Null}, name : Names, role : Roles] \cup {Unused}]
    BY DEF IInv, TypeOK
  <2>8. k # 1 => k - 1 \in 1 .. n /\ k - 1 # n /\ (k - 1) + 1 = k /\ Walk[k - 1] # Walk[k]
    BY <2>1, <2>3
  <2>9. /\ Unlinks(k) \in [Addresses -> [next : Addresses \cup {Null}, name : Names, role : Roles] \cup {Unused}]
        /\ \A a \in Addresses :
              /\ Unlinks(k)[a] = Unused <=> heap[a] = Unused
              /\ Unlinks(k)[a].name = heap[a].name
              /\ Unlinks(k)[a].next = IF k # 1 /\ a = Walk[k - 1] THEN heap[Walk[k]].next ELSE heap[a].next
    <3>1. CASE k = 1
      BY <2>7, <3>1 DEF Unlinks
    <3>2. CASE k # 1
      <4> DEFINE b == Walk[k - 1]
                 next == heap[Walk[k]].next
                 joined == [heap[b] EXCEPT !.next = next]
      <4>1. b \in Addresses /\ heap[b] \in [next : Addresses \cup {Null}, name : Names, role : Roles]
        BY <2>1, <2>6, <2>8, <3>2
      <4>2. next \in Addresses \cup {Null}
        BY <2>3, <2>6
      <4>3. Unlinks(k) = [heap EXCEPT ![b] = joined]
        BY <3>2 DEF Unlinks
      <4> HIDE DEF b, next
      <4>4. /\ joined \in [next : Addresses \cup {Null}, name : Names, role : Roles]
            /\ joined.next = next /\ joined.name = heap[b].name
        BY <4>1, <4>2
      <4>5. joined # Unused /\ heap[b] # Unused
        BY <4>1, <4>4, CommandHeapAssumption
      <4> HIDE DEF joined
      <4>6. /\ Unlinks(k) \in [Addresses -> [next : Addresses \cup {Null}, name : Names, role : Roles] \cup {Unused}]
            /\ Unlinks(k)[b] = joined
            /\ \A a \in Addresses : a # b => Unlinks(k)[a] = heap[a]
        BY <2>7, <4>1, <4>3, <4>4
      <4> QED BY <3>2, <4>1, <4>4, <4>5, <4>6 DEF b, next
    <3> QED BY <3>1, <3>2
  <2>10. /\ heap' \in [Addresses -> [next : Addresses \cup {Null}, name : Names, role : Roles] \cup {Unused}]
         /\ heap'[Walk[k]] = Unused
         /\ \A a \in Addresses : a # Walk[k] => heap'[a] = Unlinks(k)[a]
    BY <2>1, <2>3, <2>4, <2>9
  <2>11. Allocated' = Allocated \ {Walk[k]}
    BY <2>9, <2>10 DEF Allocated, Free
  <2>12. TypeOK'
    BY <2>3, <2>4, <2>6, <2>10 DEF IInv, TypeOK, Nothing
  <2>13. ListIsHeap'
    <3> DEFINE w == [i \in 1 .. n - 1 |-> IF i < k THEN Walk[i] ELSE Walk[i + 1]]
    <3>1. /\ n - 1 \in Nat
          /\ \A i \in 1 .. n - 1 : i \in 1 .. n /\ i + 1 \in 1 .. n
      BY <2>1, <2>3
    <3>2. w \in [1 .. n - 1 -> Addresses]
      BY <2>1, <3>1
    <3>3. \A i, j \in 1 .. n - 1 : w[i] = w[j] => i = j
      <4> SUFFICES ASSUME NEW i \in 1 .. n - 1, NEW j \in 1 .. n - 1, w[i] = w[j] PROVE i = j
        OBVIOUS
      <4> DEFINE p == IF i < k THEN i ELSE i + 1
                 q == IF j < k THEN j ELSE j + 1
      <4>1. w[i] = Walk[p] /\ w[j] = Walk[q] /\ p \in 1 .. n /\ q \in 1 .. n
        BY <3>1
      <4>2. p = q
        BY <2>1, <4>1
      <4> QED BY <2>3, <4>2
    <3>4. {w[i] : i \in 1 .. n - 1} = Allocated'
      <4>1. ASSUME NEW i \in 1 .. n - 1 PROVE w[i] \in Allocated /\ w[i] # Walk[k]
        <5> DEFINE p == IF i < k THEN i ELSE i + 1
        <5>1. w[i] = Walk[p] /\ p \in 1 .. n /\ p # k
          BY <2>3, <3>1
        <5> QED BY <2>1, <2>3, <2>5, <5>1
      <4>2. ASSUME NEW a \in Allocated, a # Walk[k] PROVE \E i \in 1 .. n - 1 : w[i] = a
        <5>1. PICK p \in 1 .. n : Walk[p] = a
          BY <2>1
        <5> DEFINE i == IF p < k THEN p ELSE p - 1
        <5>2. p # k
          BY <4>2, <5>1
        <5>3. i \in 1 .. n - 1 /\ (IF i < k THEN i ELSE i + 1) = p
          BY <2>1, <2>3, <5>2
        <5> HIDE DEF i
        <5>4. w[i] = Walk[p]
          BY <5>3
        <5> QED BY <5>1, <5>3, <5>4
      <4> HIDE DEF w
      <4> QED BY <2>11, <4>1, <4>2
    <3>5. \A i \in 1 .. n - 1 : heap'[w[i]].next = IF i = n - 1 THEN Null ELSE w[i + 1]
      <4> SUFFICES ASSUME NEW i \in 1 .. n - 1
                   PROVE  heap'[w[i]].next = IF i = n - 1 THEN Null ELSE w[i + 1]
        OBVIOUS
      <4> DEFINE p == IF i < k THEN i ELSE i + 1
      <4>1. w[i] = Walk[p] /\ p \in 1 .. n /\ p # k
        BY <2>3, <3>1
      <4>2. Walk[p] # Walk[k] /\ Walk[p] \in Addresses
        BY <2>1, <2>3, <4>1
      <4>3. heap'[w[i]].next = IF k # 1 /\ Walk[p] = Walk[k - 1] THEN heap[Walk[k]].next ELSE heap[Walk[p]].next
        BY <2>9, <2>10, <4>1, <4>2
      <4>4. k # 1 /\ Walk[p] = Walk[k - 1] <=> p = k - 1
        BY <2>1, <2>3, <2>8, <4>1
      <4>5. heap'[w[i]].next = IF p = k - 1 THEN heap[Walk[k]].next ELSE heap[Walk[p]].next
        BY <4>3, <4>4
      <4>6. i # n - 1 => w[i + 1] = IF i + 1 < k THEN Walk[i + 1] ELSE Walk[(i + 1) + 1]
        BY <3>1
      <4>7. CASE p = k - 1
        <5>1. i = k - 1 /\ i + 1 = k /\ (i + 1) + 1 = k + 1 /\ (i = n - 1 <=> k = n)
          BY <2>1, <2>3, <4>7
        <5> HIDE DEF w
        <5> QED BY <2>2, <2>3, <4>5, <4>6, <4>7, <5>1
      <4>8. CASE p # k - 1
        <5>1. CASE i < k
          <6>1. p = i /\ i + 1 < k /\ i # n /\ i # n - 1
            BY <2>1, <2>3, <4>8, <5>1
          <6> HIDE DEF w
          <6> QED BY <2>2, <4>1, <4>5, <4>6, <4>8, <6>1
        <5>2. CASE ~(i < k)
          <6>1. p = i + 1 /\ ~(i + 1 < k) /\ (i = n - 1 <=> p = n)
            BY <2>1, <2>3, <5>2
          <6> HIDE DEF w
          <6> QED BY <2>2, <4>1, <4>5, <4>6, <4>8, <6>1
        <5> QED BY <5>1, <5>2
      <4> QED BY <4>7, <4>8
    <3>6. head' = IF n - 1 = 0 THEN Null ELSE w[1]
      <4>1. CASE k = 1
        <5>1. head' = IF n = 1 THEN Null ELSE Walk[1 + 1]
          BY <2>2, <2>3, <2>4, <4>1
        <5>2. n # 1 => w[1] = Walk[1 + 1]
          BY <2>1, <2>3, <4>1
        <5>3. n - 1 = 0 <=> n = 1
          BY <2>1
        <5> HIDE DEF w
        <5> QED BY <5>1, <5>2, <5>3
      <4>2. CASE k # 1
        <5>1. n # 0 /\ n - 1 # 0 /\ w[1] = Walk[1]
          BY <2>1, <2>3, <4>2
        <5> HIDE DEF w
        <5> QED BY <2>2, <2>4, <4>2, <5>1
      <4> QED BY <4>1, <4>2
    <3> HIDE DEF w
    <3> QED BY <3>1, <3>2, <3>3, <3>4, <3>5, <3>6, BecomesList
  <2>14. NamesApart'
    <3>1. \A a \in Allocated' : a \in Allocated /\ a \in Addresses /\ heap'[a].name = heap[a].name
      BY <2>9, <2>10, <2>11 DEF Allocated
    <3> QED BY <3>1 DEF IInv, NamesApart
  <2> QED BY <2>12, <2>13, <2>14 DEF IInv
<1> QED BY <1>1, <1>2

\* What is looked up first is the registered command of that name, or, without
\* one, the built-in one.
LEMMA LookedUpIs ==
    ASSUME IInv, NEW name \in Names
    PROVE  LET found == Named(LookedUp, name)
               registered == R!Called({Record(a) : a \in Allocated}, name)
               builtin == R!Called(Entries(Table), name)
           IN  /\ found = {} => registered = {} /\ builtin = {}
               /\ found # {} =>
                     /\ LookedUp[First(found)] \in Command
                     /\ \/ registered = {LookedUp[First(found)]}
                        \/ registered = {} /\ builtin = {LookedUp[First(found)]}
<1> DEFINE n == Len(Listed)
           m == Len(Table)
           found == Named(LookedUp, name)
           k == First(found)
<1>1. /\ Listed \in Seq(Command) /\ Apart(Listed) /\ Entries(Listed) = {Record(a) : a \in Allocated}
      /\ Table \in Seq(Command) /\ Apart(Table)
  BY ListedIs, CommandHeapAssumption DEF Command, Apart
<1>2. /\ n \in Nat /\ m \in Nat
      /\ \A i \in 1 .. n : Listed[i] \in Command
      /\ \A i \in 1 .. m : Table[i] \in Command
  BY <1>1
<1>3. /\ Len(LookedUp) = n + m
      /\ \A i \in 1 .. n + m : LookedUp[i] = IF i <= n THEN Listed[i] ELSE Table[i - n]
  BY <1>1 DEF LookedUp
<1>4. found = {i \in 1 .. n + m : (IF i <= n THEN Listed[i] ELSE Table[i - n]).name = name}
  BY <1>3 DEF Named
<1>5. /\ Named(Listed, name) = {i \in 1 .. n : Listed[i].name = name}
      /\ Named(Table, name) = {i \in 1 .. m : Table[i].name = name}
  BY DEF Named
<1> HIDE DEF n, m, found
<1>6. \A i \in 1 .. n : i \in 1 .. n + m /\ i <= n
  BY <1>2
<1>7. \A i \in 1 .. m : n + i \in 1 .. n + m /\ ~(n + i <= n) /\ (n + i) - n = i
  BY <1>2
<1>8. CASE found = {}
  <2>1. Named(Listed, name) = {}
    BY <1>4, <1>5, <1>6, <1>8
  <2>2. Named(Table, name) = {}
    BY <1>4, <1>5, <1>7, <1>8
  <2> QED BY <1>1, <1>8, <2>1, <2>2, NamedIs DEF found
<1>9. CASE found # {}
  <2>1. k \in found /\ \A j \in found : k <= j
    <3>1. found \in SUBSET Nat
      BY <1>2, <1>4
    <3> QED BY <1>9, <3>1, FirstIs
  <2> HIDE DEF k
  <2>2. k \in 1 .. n + m
    BY <1>4, <2>1
  <2>3. CASE k <= n
    <3>1. k \in Named(Listed, name) /\ LookedUp[k] = Listed[k]
      BY <1>2, <1>3, <1>4, <1>5, <2>1, <2>2, <2>3
    <3>2. R!Called(Entries(Listed), name) = {LookedUp[k]}
      BY <1>1, <3>1, NamedIs
    <3>3. LookedUp[k] \in Command
      BY <1>2, <1>5, <3>1
    <3> QED BY <1>1, <1>9, <3>2, <3>3 DEF k, found
  <2>4. CASE ~(k <= n)
    <3>1. k - n \in Named(Table, name) /\ LookedUp[k] = Table[k - n]
      BY <1>2, <1>3, <1>4, <1>5, <2>1, <2>2, <2>4
    <3>2. R!Called(Entries(Table), name) = {LookedUp[k]}
      BY <1>1, <3>1, NamedIs
    <3>3. Named(Listed, name) = {}
      <4> SUFFICES ASSUME NEW i \in Named(Listed, name) PROVE FALSE
        OBVIOUS
      <4>1. i \in 1 .. n /\ i \in found
        BY <1>4, <1>5, <1>6
      <4>2. k <= i
        BY <2>1, <4>1
      <4> QED BY <1>2, <2>2, <2>4, <4>1, <4>2
    <3>4. R!Called(Entries(Listed), name) = {}
      BY <1>1, <3>3, NamedIs
    <3>5. LookedUp[k] \in Command
      BY <1>2, <1>5, <3>1
    <3> QED BY <1>1, <1>9, <3>2, <3>4, <3>5 DEF k, found
  <2> QED BY <2>3, <2>4
<1> QED BY <1>8, <1>9

LEMMA LatestOfOne == \A i \in Nat : Latest({i}) = i
BY DEF Latest

LEMMA AddsUpToOne ==
    \A m, n \in Nat : m + n = 1 => (m = 1 /\ n = 0) \/ (m = 0 /\ n = 1)
OBVIOUS

\* A completion is the one command, registered or built in, that begins so.
LEMMA CompletedIs ==
    ASSUME IInv, NEW w
    PROVE  LET listed == Matching(Listed, w)
               builtin == Matching(Table, w)
               names == R!Beginning({Record(a) : a \in Allocated}, w)
               builtins == R!Beginning(Entries(Table), w)
               it == IF listed # {} THEN CompletedBy(Listed, listed) ELSE CompletedBy(Table, builtin)
           IN  /\ Cardinality(listed) + Cardinality(builtin) = 1 =>
                     \E c \in Command : R!Alone(c, names, builtins) /\ it = c.name
               /\ (\E c : R!Alone(c, names, builtins)) => Cardinality(listed) + Cardinality(builtin) = 1
<1> DEFINE listed == Matching(Listed, w)
           builtin == Matching(Table, w)
           names == R!Beginning(Entries(Listed), w)
           builtins == R!Beginning(Entries(Table), w)
           it == IF listed # {} THEN CompletedBy(Listed, listed) ELSE CompletedBy(Table, builtin)
<1>1. /\ Listed \in Seq(Command) /\ Apart(Listed) /\ Entries(Listed) = {Record(a) : a \in Allocated}
      /\ Table \in Seq(Command) /\ Apart(Table)
  BY ListedIs, CommandHeapAssumption DEF Command, Apart
<1>2. ASSUME NEW s \in Seq(Command), NEW i, Matching(s, w) = {i}
      PROVE  s[i] \in Command /\ CompletedBy(s, Matching(s, w)) = s[i].name
  <2>1. i \in 1 .. Len(s)
    BY <1>2 DEF Matching
  <2>2. Latest(Matching(s, w)) = i
    BY <1>2, <2>1, LatestOfOne
  <2> QED BY <2>1, <2>2 DEF CompletedBy
<1>3. /\ IsFiniteSet(listed) /\ Cardinality(listed) \in Nat
      /\ listed = {} <=> names = {}
      /\ \A i : listed = {i} => names = {Listed[i]}
      /\ \A c : names = {c} => \E i : listed = {i}
  BY <1>1, MatchingIs
<1>4. /\ IsFiniteSet(builtin) /\ Cardinality(builtin) \in Nat
      /\ builtin = {} <=> builtins = {}
      /\ \A i : builtin = {i} => builtins = {Table[i]}
      /\ \A c : builtins = {c} => \E i : builtin = {i}
  BY <1>1, MatchingIs
<1>5. Cardinality(listed) + Cardinality(builtin) = 1 <=>
         \/ (\E i : listed = {i}) /\ builtin = {}
         \/ listed = {} /\ \E i : builtin = {i}
  <2> HIDE DEF listed, builtin
  <2>1. /\ Cardinality(listed) = 1 <=> \E i : listed = {i}
        /\ Cardinality(builtin) = 1 <=> \E i : builtin = {i}
    BY <1>3, <1>4, FS_Singleton
  <2>2. /\ Cardinality(listed) = 0 <=> listed = {}
        /\ Cardinality(builtin) = 0 <=> builtin = {}
    BY <1>3, <1>4, FS_EmptySet
  <2>3. Cardinality(listed) + Cardinality(builtin) = 1 <=>
           \/ Cardinality(listed) = 1 /\ Cardinality(builtin) = 0
           \/ Cardinality(listed) = 0 /\ Cardinality(builtin) = 1
    BY <1>3, <1>4, AddsUpToOne
  <2> QED BY <2>1, <2>2, <2>3
<1>6. ASSUME NEW i, listed = {i}, builtin = {}
      PROVE  \E c \in Command : R!Alone(c, names, builtins) /\ it = c.name
  <2>1. Listed[i] \in Command /\ CompletedBy(Listed, listed) = Listed[i].name
    BY <1>1, <1>2, <1>6
  <2>2. names = {Listed[i]} /\ builtins = {}
    BY <1>3, <1>4, <1>6
  <2> HIDE DEF names, builtins
  <2> QED BY <1>6, <2>1, <2>2 DEF R!Alone
<1>7. ASSUME NEW i, listed = {}, builtin = {i}
      PROVE  \E c \in Command : R!Alone(c, names, builtins) /\ it = c.name
  <2>1. Table[i] \in Command /\ CompletedBy(Table, builtin) = Table[i].name
    BY <1>1, <1>2, <1>7
  <2>2. names = {} /\ builtins = {Table[i]}
    BY <1>3, <1>4, <1>7
  <2> HIDE DEF names, builtins
  <2> QED BY <1>7, <2>1, <2>2 DEF R!Alone
<1>8. ASSUME NEW c, R!Alone(c, names, builtins)
      PROVE  \/ (\E i : listed = {i}) /\ builtin = {}
             \/ listed = {} /\ \E i : builtin = {i}
  BY <1>3, <1>4, <1>8 DEF R!Alone
<1> HIDE DEF listed, builtin, names, builtins, it
<1>9. /\ Cardinality(listed) + Cardinality(builtin) = 1 =>
            \E c \in Command : R!Alone(c, names, builtins) /\ it = c.name
      /\ (\E c : R!Alone(c, names, builtins)) => Cardinality(listed) + Cardinality(builtin) = 1
  BY <1>5, <1>6, <1>7, <1>8
<1> QED BY <1>1, <1>9 DEF listed, builtin, names, builtins, it

LEMMA AskKeeps ==
    ASSUME IInv, call' \in Calls, Lookup \/ Complete
    PROVE  IInv'
<1>1. ListIsHeap' /\ NamesApart'
  BY DEF Lookup, Complete, IInv, ListIsHeap, IsWalk, NamesApart, Allocated, Free
<1>2. head' \in Addresses \cup {Null} /\ heap' = heap
  BY DEF Lookup, Complete, IInv, TypeOK
<1>3. answer' \in [name : Names \cup {NoName}, role : Roles \cup {NoRole}]
  <2>1. Nothing \in [name : Names \cup {NoName}, role : Roles \cup {NoRole}]
    BY DEF Nothing
  <2>2. CASE Lookup
    <3>1. call'.name \in Names
      BY DEF Calls
    <3>2. answer' = Nothing \/ answer' \in Command
      BY <2>2, <3>1, LookedUpIs DEF Lookup, Answer
    <3> QED BY <2>1, <3>2 DEF Command
  <2>3. CASE Complete
    <3>1. answer' = Nothing \/ \E c \in Command : answer' = Found(c.name, NoRole)
      BY <2>3, CompletedIs DEF Complete, Answer
    <3> QED BY <2>1, <3>1 DEF Command, Found
  <2> QED BY <2>2, <2>3
<1> QED BY <1>1, <1>2, <1>3 DEF IInv, TypeOK

LEMMA InitKeeps == Init => IInv
<1> SUFFICES ASSUME Init PROVE IInv
  OBVIOUS
<1>1. Allocated = {}
  BY DEF Init, Allocated, Free
<1>2. << >> \in Walks
  <2>1. << >> \in [1 .. 0 -> Addresses]
    OBVIOUS
  <2>2. 0 \in 0 .. Cardinality(Addresses)
    BY FS_CardinalityType, CommandHeapAssumption
  <2> QED BY <2>1, <2>2 DEF Walks
<1>3. IsWalk(<< >>)
  BY DEF Init, IsWalk
<1>4. {<< >>[i] : i \in 1 .. Len(<< >>)} = {}
  OBVIOUS
<1>5. ListIsHeap
  BY <1>1, <1>2, <1>3, <1>4 DEF ListIsHeap
<1>6. TypeOK
  BY DEF Init, TypeOK, Nothing
<1> QED BY <1>1, <1>5, <1>6 DEF IInv, NamesApart

LEMMA StepKeeps == IInv /\ [Next]_vars => IInv'
<1>1. CASE UNCHANGED vars
  BY <1>1 DEF vars, IInv, TypeOK, ListIsHeap, IsWalk, NamesApart, Allocated, Free
<1> QED BY <1>1, AddKeeps, RemoveKeeps, AskKeeps DEF Next

LEMMA Reached == Spec => []IInv
BY InitKeeps, StepKeeps, PTL DEF Spec

\* The links of the allocated records are one list, without a circle, a leak or
\* a link to a freed record, after any calls of add_command and remove_command.
THEOREM ListHolds == Spec => []ListIsHeap
<1>1. IInv => ListIsHeap
  BY DEF IInv
<1> QED BY <1>1, Reached, PTL

-----------------------------------------------------------------------------
(* Refinement. *)

LEMMA InitImplements == Init => R!Init
BY DEF Init, R!Init, Allocated, Free, Calls, R!Calls, Nothing, R!Nothing

LEMMA NothingIs == R!Nothing = Nothing /\ R!Calls = Calls
BY DEF Nothing, R!Nothing, Calls, R!Calls

\* What is registered is unchanged when the records are.
LEMMA SameRecords ==
    ASSUME UNCHANGED heap
    PROVE  UNCHANGED {Record(a) : a \in Allocated}
BY DEF Record, Allocated, Free

\* The names looked up are those of the records.
LEMMA CalledIs ==
    ASSUME IInv, NEW name
    PROVE  /\ IsNew(name) <=> R!Called({Record(a) : a \in Allocated}, name) = {}
           /\ \A i \in Named(Listed, name) : R!Called({Record(a) : a \in Allocated}, name) = {Listed[i]}
BY ListedIs, NamedIs DEF IsNew

LEMMA AddImplements ==
    ASSUME IInv, call' \in Calls, AddCommand
    PROVE  R!Add
<1> DEFINE registered == {Record(a) : a \in Allocated}
<1>1. CASE ~IsNew(call'.name)
  <2>1. R!Called(registered, call'.name) # {}
    BY <1>1, CalledIs
  <2>2. UNCHANGED registered
    BY <1>1, SameRecords DEF AddCommand
  <2> HIDE DEF registered
  <2>3. answer' = R!Nothing /\ call'.op = "add"
    BY NothingIs DEF AddCommand, Answer
  <2> QED BY <2>1, <2>2, <2>3 DEF R!Add, registered
<1>2. CASE IsNew(call'.name)
  <2> DEFINE new == [next |-> head, name |-> call'.name, role |-> call'.role]
  <2>1. PICK a \in Free : heap' = [heap EXCEPT ![a] = new] /\ head' = a
    BY <1>2 DEF AddCommand
  <2>2. new \in [next : Addresses \cup {Null}, name : Names, role : Roles]
    BY DEF IInv, TypeOK, Calls
  <2>3. a \in Addresses /\ new # Unused /\ a \notin Allocated
    BY <2>1, <2>2, CommandHeapAssumption DEF Free, Allocated
  <2>4. Allocated' = Allocated \cup {a}
    BY <2>1, <2>3 DEF Allocated, Free, IInv, TypeOK
  <2>5. \A b \in Allocated : heap'[b] = heap[b]
    BY <2>1, <2>3 DEF IInv, TypeOK, Allocated
  <2>6. heap'[a].name = call'.name /\ heap'[a].role = call'.role
    BY <2>1, <2>3 DEF IInv, TypeOK
  <2>7. registered' = registered \cup {Found(call'.name, call'.role)}
    BY <2>4, <2>5, <2>6 DEF Record
  <2>8. R!Found(call'.name, call'.role) = Found(call'.name, call'.role)
    BY DEF R!Found, Found
  <2>9. R!Called(registered, call'.name) = {}
    BY <1>2, CalledIs
  <2> HIDE DEF registered
  <2>10. answer' = R!Nothing /\ call'.op = "add"
    BY NothingIs DEF AddCommand, Answer
  <2> QED BY <2>7, <2>8, <2>9, <2>10 DEF R!Add, registered
<1> QED BY <1>1, <1>2

\* Unlinking changes no name and no role.
LEMMA UnlinkedRecord ==
    ASSUME IInv, NEW k \in 1 .. Len(Walk),
           heap' = [Unlinks(k) EXCEPT ![Walk[k]] = Unused]
    PROVE  {Record(a) : a \in Allocated}' = {Record(a) : a \in Allocated \ {Walk[k]}}
<1> DEFINE n == Len(Walk)
<1>1. n \in Nat /\ Walk \in [1 .. n -> Addresses] /\ {Walk[i] : i \in 1 .. n} = Allocated
  BY WalkIs DEF IInv
<1>2. heap \in [Addresses -> [next : Addresses \cup {Null}, name : Names, role : Roles] \cup {Unused}]
  BY DEF IInv, TypeOK
<1> HIDE DEF n
<1>3. /\ Unlinks(k) \in [Addresses -> [next : Addresses \cup {Null}, name : Names, role : Roles] \cup {Unused}]
      /\ \A a \in Allocated :
            Unlinks(k)[a] # Unused /\ Unlinks(k)[a].name = heap[a].name /\ Unlinks(k)[a].role = heap[a].role
      /\ \A a \in Addresses \ Allocated : Unlinks(k)[a] = heap[a]
  <2>1. CASE k = 1
    BY <1>2, <2>1 DEF Unlinks, Allocated, Free
  <2>2. CASE k # 1
    <3> DEFINE b == Walk[k - 1]
               next == heap[Walk[k]].next
               joined == [heap[b] EXCEPT !.next = next]
    <3>1. b \in Allocated /\ Walk[k] \in Allocated
      <4>1. k - 1 \in 1 .. n /\ k \in 1 .. n
        BY <1>1, <2>2 DEF n
      <4> QED BY <1>1, <4>1
    <3>2. /\ heap[b] \in [next : Addresses \cup {Null}, name : Names, role : Roles]
          /\ next \in Addresses \cup {Null}
      BY <3>1, AllocatedType DEF IInv
    <3>3. Unlinks(k) = [heap EXCEPT ![b] = joined]
      BY <2>2 DEF Unlinks
    <3>4. b \in Addresses /\ \A a \in Allocated : a \in Addresses /\ heap[a] # Unused
      BY <3>1 DEF Allocated, Free
    <3> HIDE DEF b, next
    <3>5. /\ joined \in [next : Addresses \cup {Null}, name : Names, role : Roles]
          /\ joined.role = heap[b].role /\ joined.name = heap[b].name
      BY <3>2
    <3>6. joined # Unused
      BY <3>5, CommandHeapAssumption
    <3> HIDE DEF joined
    <3>7. /\ Unlinks(k) \in [Addresses -> [next : Addresses \cup {Null}, name : Names, role : Roles] \cup {Unused}]
          /\ Unlinks(k)[b] = joined
          /\ \A a \in Addresses : a # b => Unlinks(k)[a] = heap[a]
      BY <1>2, <3>3, <3>4, <3>5
    <3> QED BY <3>1, <3>4, <3>5, <3>6, <3>7
  <2> QED BY <2>1, <2>2
<1>4. Walk[k] \in Allocated /\ Walk[k] \in Addresses
  BY <1>1 DEF n
<1>5. heap'[Walk[k]] = Unused /\ \A a \in Addresses : a # Walk[k] => heap'[a] = Unlinks(k)[a]
  BY <1>3, <1>4
<1>6. Allocated' = Allocated \ {Walk[k]}
  BY <1>3, <1>5 DEF Allocated, Free
<1>7. \A a \in Allocated' : Record(a)' = Record(a)
  BY <1>3, <1>5, <1>6 DEF Record, Found, Allocated
<1> QED BY <1>6, <1>7

LEMMA RemoveImplements ==
    ASSUME IInv, call' \in Calls, RemoveCommand
    PROVE  R!Remove
<1> DEFINE registered == {Record(a) : a \in Allocated}
           found == Named(Listed, call'.name)
           k == First(found)
<1>1. answer' = R!Nothing /\ call'.op = "remove"
  BY NothingIs DEF RemoveCommand, Answer
<1>2. CASE found = {}
  <2>1. R!Called(registered, call'.name) = {}
    BY <1>2, CalledIs DEF IsNew
  <2>2. UNCHANGED registered
    BY <1>2, SameRecords DEF RemoveCommand
  <2> HIDE DEF registered
  <2> QED BY <1>1, <2>1, <2>2 DEF R!Remove, registered
<1>3. CASE found # {}
  <2>1. k \in found
    <3>1. found \in SUBSET Nat
      BY DEF Named
    <3> HIDE DEF found
    <3> QED BY <1>3, <3>1, FirstIs
  <2>2. heap' = [Unlinks(k) EXCEPT ![Walk[k]] = Unused]
    BY <1>3 DEF RemoveCommand
  <2> HIDE DEF k
  <2>3. k \in 1 .. Len(Walk) /\ Listed[k] = Record(Walk[k])
    <3>1. k \in 1 .. Len(Listed) /\ Len(Listed) = Len(Walk)
      BY <2>1, ListedIs DEF Named
    <3> QED BY <3>1 DEF Listed
  <2>4. R!Called(registered, call'.name) = {Record(Walk[k])}
    BY <2>1, <2>3, CalledIs
  <2>5. registered' = {Record(a) : a \in Allocated \ {Walk[k]}}
    BY <2>2, <2>3, UnlinkedRecord
  <2>6. \A a \in Allocated : Record(a) = Record(Walk[k]) => a = Walk[k]
    <3>1. Walk[k] \in Allocated
      BY <2>3, WalkIs DEF IInv
    <3> QED BY <3>1 DEF Record, Found, IInv, NamesApart
  <2>7. registered' = registered \ {Record(Walk[k])}
    BY <2>5, <2>6
  <2> HIDE DEF registered
  <2> QED BY <1>1, <2>4, <2>7 DEF R!Remove, registered
<1> QED BY <1>2, <1>3

LEMMA LookupImplements ==
    ASSUME IInv, call' \in Calls, Lookup
    PROVE  R!Lookup
<1>1. call'.name \in Names /\ call'.op = "lookup" /\ UNCHANGED {Record(a) : a \in Allocated}
  BY SameRecords DEF Calls, Lookup
<1> DEFINE registered == R!Called({Record(a) : a \in Allocated}, call'.name)
           builtin == R!Called(Entries(Table), call'.name)
           found == Named(LookedUp, call'.name)
           it == LookedUp[First(found)]
<1>2. answer' = IF found = {} THEN Nothing ELSE Found(it.name, it.role)
  <2>1. answer' = IF found = {} THEN Nothing ELSE it
    BY DEF Lookup, Answer
  <2>2. found # {} => it \in Command
    BY <1>1, LookedUpIs
  <2> QED BY <2>1, <2>2 DEF Command, Found
<1>3. /\ found = {} => registered = {} /\ builtin = {}
      /\ found # {} => registered = {it} \/ (registered = {} /\ builtin = {it})
      /\ found # {} => it \in Command
  BY <1>1, LookedUpIs
<1> HIDE DEF registered, builtin, found, it
<1>4. found # {} => Found(it.name, it.role) = it
  BY <1>3 DEF Command, Found
<1>5. answer' = IF registered # {} THEN CHOOSE c \in registered : TRUE
                ELSE IF builtin # {} THEN CHOOSE c \in builtin : TRUE
                ELSE R!Nothing
  BY <1>2, <1>3, <1>4, NothingIs
<1> QED BY <1>1, <1>5 DEF R!Lookup, registered, builtin, Entries

LEMMA CompleteImplements ==
    ASSUME IInv, call' \in Calls, Complete
    PROVE  R!Complete
<1>1. call'.op = "complete" /\ UNCHANGED {Record(a) : a \in Allocated}
  BY SameRecords DEF Complete
<1> DEFINE listed == Matching(Listed, call'.name)
           builtin == Matching(Table, call'.name)
           names == R!Beginning({Record(a) : a \in Allocated}, call'.name)
           builtins == R!Beginning({Table[i] : i \in 1 .. Len(Table)}, call'.name)
           it == IF listed # {} THEN CompletedBy(Listed, listed) ELSE CompletedBy(Table, builtin)
           one == Cardinality(listed) + Cardinality(builtin) = 1
<1>2. answer' = IF one THEN Found(it, NoRole) ELSE Nothing
  BY DEF Complete, Answer
<1>3. /\ one => \E c \in Command : R!Alone(c, names, builtins) /\ it = c.name
      /\ (\E c : R!Alone(c, names, builtins)) => one
  BY CompletedIs DEF Entries
<1> HIDE DEF listed, builtin, names, builtins, it, one
<1>4. one <=> \E c \in names \cup builtins : R!Alone(c, names, builtins)
  BY <1>3 DEF R!Alone
<1>5. one => it = (CHOOSE c \in names \cup builtins : TRUE).name
  BY <1>3 DEF R!Alone
<1>6. answer' = IF \E c \in names \cup builtins : R!Alone(c, names, builtins)
                THEN R!Found((CHOOSE c \in names \cup builtins : TRUE).name, NoRole)
                ELSE R!Nothing
  BY <1>2, <1>4, <1>5, NothingIs DEF R!Found, Found
<1> QED BY <1>1, <1>6 DEF R!Complete, names, builtins

LEMMA StepImplements ==
    ASSUME IInv, [Next]_vars
    PROVE  [R!Next]_R!vars
<1>1. CASE UNCHANGED vars
  BY <1>1, SameRecords DEF vars, R!vars
<1>2. CASE Next
  <2>1. call' \in R!Calls
    BY <1>2, NothingIs DEF Next
  <2>2. R!Add \/ R!Remove \/ R!Lookup \/ R!Complete
    BY <1>2, AddImplements, RemoveImplements, LookupImplements, CompleteImplements DEF Next
  <2> QED BY <2>1, <2>2 DEF R!Next
<1> QED BY <1>1, <1>2

\* The list and the table answer every call like a set of registered commands
\* in front of a set of built-in ones.
THEOREM Implements == Spec => ImplementsRegistry
<1>1. IInv /\ [Next]_vars => [R!Next]_R!vars
  BY StepImplements
<1> QED BY <1>1, InitImplements, Reached, PTL DEF ImplementsRegistry, R!Spec, Spec
===============================================================================
