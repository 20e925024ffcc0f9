--------------------------- MODULE HashMap_proofs ---------------------------
(***************************************************************************)
(* Proofs about HashMap, for any keys, values and hashes, and a table that *)
(* may grow to any size.  The inductive invariant IInv says that there is  *)
(* no gap between the place a key hashes to and the place it is at, that   *)
(* no key is there twice, and that the count leaves an entry unused.       *)
(***************************************************************************)
EXTENDS HashMap, FiniteSetTheorems, FunctionTheorems, TLAPS

(***************************************************************************)
(* Numbers.                                                                *)
(***************************************************************************)
\* Less than, as a relation.
LessThan == {pair \in Nat \X Nat : pair[1] < pair[2]}

\* A set of natural numbers that is not empty has a least element.
LEMMA LeastNumber ==
  ASSUME NEW S \in SUBSET Nat, S # {}
  PROVE  \E n \in S : \A m \in S : n <= m
<1>1. IsWellFoundedOn(LessThan, Nat)
  <2>1. OpToRel(<, Nat) = LessThan
    BY Zenon DEF OpToRel, LessThan
  <2> QED BY <2>1, NatLessThanWellFounded, Zenon
<1>2. PICK n \in S : \A m \in S : ~ (<<m, n>> \in LessThan)
  BY <1>1, WFMin, Zenon
<1>3. ASSUME NEW m \in S PROVE n <= m
  <2>1. ~ (<<m, n>> \in LessThan)
    BY <1>2
  <2>2. m \in Nat /\ n \in Nat
    OBVIOUS
  <2> QED BY <2>1, <2>2 DEF LessThan
<1> QED BY <1>3

\* The subsets of 1..n, counted, are the powers of two.
LEMMA PowersOfTwo ==
  /\ 2^0 = 1
  /\ \A n \in Nat : 2^n \in Nat /\ 2^(n + 1) = 2 * 2^n
<1>1. 2^0 = 1
  <2>1. Cardinality(SUBSET {}) = 2^Cardinality({})
    BY FS_EmptySet, FS_SUBSET, Zenon
  <2>2. SUBSET {} = {{}}
    OBVIOUS
  <2>3. Cardinality({{}}) = 1
    BY FS_Singleton
  <2> QED BY <2>1, <2>2, <2>3, FS_EmptySet
<1>2. ASSUME NEW n \in Nat PROVE 2^n \in Nat /\ 2^(n + 1) = 2 * 2^n
  <2> DEFINE Small == SUBSET (1..n)
             Large == {T \in SUBSET (1..(n + 1)) : n + 1 \in T}
             add == [T \in Small |-> T \cup {n + 1}]
  <2>1. /\ IsFiniteSet(1..n) /\ Cardinality(1..n) = n
        /\ IsFiniteSet(1..(n + 1)) /\ Cardinality(1..(n + 1)) = n + 1
    BY FS_Interval
  <2>2. /\ IsFiniteSet(Small) /\ Cardinality(Small) = 2^n
        /\ Cardinality(SUBSET (1..(n + 1))) = 2^(n + 1)
    <3>1. /\ IsFiniteSet(SUBSET (1..n))
          /\ Cardinality(SUBSET (1..n)) = 2^Cardinality(1..n)
      BY <2>1, FS_SUBSET
    <3>2. Cardinality(SUBSET (1..(n + 1))) = 2^Cardinality(1..(n + 1))
      BY <2>1, FS_SUBSET
    <3> QED BY <3>1, <3>2, <2>1
  <2>3. add \in Bijection(Small, Large)
    <3>1. add \in [Small -> Large]
      <4>1. ASSUME NEW T \in Small PROVE T \cup {n + 1} \in Large
        OBVIOUS
      <4> QED BY <4>1
    <3>2. ASSUME NEW T \in Small, NEW U \in Small, add[T] = add[U]
          PROVE  T = U
      <4>1. T \cup {n + 1} = U \cup {n + 1}
        BY <3>2
      <4>2. n + 1 \notin T /\ n + 1 \notin U
        OBVIOUS
      <4>3. T = (T \cup {n + 1}) \ {n + 1} /\ U = (U \cup {n + 1}) \ {n + 1}
        BY <4>2
      <4> QED BY <4>1, <4>3
    <3>3. ASSUME NEW U \in Large PROVE \E T \in Small : add[T] = U
      <4>1. U \ {n + 1} \in Small
        OBVIOUS
      <4>2. (U \ {n + 1}) \cup {n + 1} = U
        OBVIOUS
      <4> QED BY <4>1, <4>2
    <3> HIDE DEF add, Small, Large
    <3>4. add \in Injection(Small, Large)
      BY <3>1, <3>2, Fun_IsInj
    <3>5. add \in Surjection(Small, Large)
      BY <3>1, <3>3, Fun_IsSurj
    <3> QED BY <3>4, <3>5 DEF Bijection
  <2>4. IsFiniteSet(Large) /\ Cardinality(Large) = Cardinality(Small)
    <3> HIDE DEF add, Small, Large
    <3>1. ExistsBijection(Small, Large)
      BY <2>3 DEF ExistsBijection
    <3> QED BY <3>1, <2>2, FS_Bijection
  <2>5. Small \cup Large = SUBSET (1..(n + 1)) /\ Small \cap Large = {}
    <3>1. ASSUME NEW T \in SUBSET (1..(n + 1)) PROVE T \in Small \/ T \in Large
      <4>1. CASE n + 1 \in T
        BY <4>1
      <4>2. CASE n + 1 \notin T
        <5>1. ASSUME NEW i \in T PROVE i \in 1..n
          BY <4>2
        <5> QED BY <5>1
      <4> QED BY <4>1, <4>2
    <3>2. Small \subseteq SUBSET (1..(n + 1))
      <4>1. 1..n \subseteq 1..(n + 1)
        OBVIOUS
      <4> QED BY <4>1
    <3>3. Small \cap Large = {}
      <4>1. ASSUME NEW T \in Small, T \in Large PROVE FALSE
        <5>1. n + 1 \in 1..n
          BY <4>1
        <5> QED BY <5>1
      <4> QED BY <4>1
    <3> QED BY <3>1, <3>2, <3>3
  <2>6. Cardinality(Small \cup Large) = Cardinality(Small) + Cardinality(Large)
    <3> HIDE DEF Small, Large
    <3>1. Cardinality(Small \cup Large)
            = Cardinality(Small) + Cardinality(Large) - Cardinality(Small \cap Large)
      BY <2>2, <2>4, FS_Union
    <3>2. Cardinality(Small \cap Large) = 0
      BY <2>5, FS_EmptySet
    <3>3. Cardinality(Small) \in Nat /\ Cardinality(Large) \in Nat
      BY <2>2, <2>4, FS_CardinalityType
    <3> QED BY <3>1, <3>2, <3>3
  <2>7. 2^n \in Nat
    <3> HIDE DEF Small
    <3> QED BY <2>2, FS_CardinalityType
  <2> HIDE DEF Small, Large
  <2> QED BY <2>2, <2>4, <2>5, <2>6, <2>7
<1> QED BY <1>1, <1>2

(***************************************************************************)
(* The inductive invariant.                                                *)
(***************************************************************************)
Slots == 0..(capacity - 1)
Pairs == [key : Key, val : Val]

\* How far from the place it hashes to k is, when it is at i.
Dist(k, i) == IF Home(k) <= i THEN i - Home(k) ELSE i + capacity - Home(k)

\* An entry was left unused, or the table is empty.
CountInv ==
  /\ CountExact
  /\ capacity > 0 => count < capacity

NoGap ==
  \A i \in Live(slots) : \A e \in 0..(Dist(slots[i].key, i) - 1) :
    ~IsEnd(Probe(slots[i].key, e))

KeysDiffer(table) ==
  \A i, j \in Live(table) : table[i].key = table[j].key => i = j

\* While the table grows: what is counted was moved, there is room for twice
\* as much, nothing was erased from the new table, and no key is both in it
\* and still to be moved.
GrowInv ==
  /\ job # "set" => old = NoEntries /\ pending = NoEntries
  /\ job = "set" =>
       /\ pending \in Pairs
       /\ capacity >= MIN_CAPACITY
       /\ count <= next /\ next <= capacity \div 2
       /\ IF DOMAIN old = {} THEN next = 0 ELSE capacity >= 2 * MIN_CAPACITY
       /\ \A i \in DOMAIN slots : IsEmpty(slots[i]) => IsEnd(i)
       /\ \A i \in Live(slots), j \in Live(old) :
            j >= next => slots[i].key # old[j].key

\* An iterator is at an entry that is in use, or at the end.
IterateInv ==
  job = "iterate" =>
    /\ next <= capacity
    /\ next < capacity => ~IsEmpty(slots[next])

IInv ==
  /\ TypeOK /\ CountInv
  /\ NoGap /\ KeysDiffer(slots) /\ KeysDiffer(old)
  /\ GrowInv /\ IterateInv

-----------------------------------------------------------------------------
\* An entry is a pair, a tombstone or was never used.
LEMMA EntryKinds ==
  ASSUME NEW x \in Entries
  PROVE  /\ x \in Pairs \/ x = Virgin \/ x = Tombstone
         /\ ~IsEmpty(x) <=> x \in Pairs
         /\ IsEmpty(x) /\ ~IsTombstone(x) <=> x = Virgin
BY KeysAssumption DEF Entries, Pairs, Virgin, Tombstone, Entry, IsEmpty, IsTombstone

LEMMA VirginEntry ==
  /\ Virgin \in Entries /\ Tombstone \in Entries /\ Virgin # Tombstone
  /\ IsEmpty(Virgin) /\ IsEmpty(Tombstone)
BY KeysAssumption DEF Entries, Virgin, Tombstone, Entry, IsEmpty

LEMMA PairEntry ==
  ASSUME NEW k \in Key, NEW v \in Val
  PROVE  /\ Entry(k, v) \in Pairs /\ Entry(k, v) \in Entries
         /\ Entry(k, v).key = k /\ Entry(k, v).val = v
         /\ ~IsEmpty(Entry(k, v)) /\ Entry(k, v) # Virgin
BY KeysAssumption DEF Entries, Pairs, Virgin, Tombstone, Entry, IsEmpty

LEMMA SlotAt ==
  ASSUME TypeOK, NEW i \in Slots
  PROVE  /\ slots[i] \in Entries
         /\ i \in Live(slots) <=> slots[i] \in Pairs
         /\ IsEnd(i) <=> slots[i] = Virgin
<1>1. slots[i] \in Entries /\ DOMAIN slots = Slots
  BY DEF TypeOK, Slots
<1> QED BY <1>1, EntryKinds DEF Live, IsEnd

LEMMA LiveSlot ==
  ASSUME TypeOK, NEW i \in Live(slots)
  PROVE  /\ i \in Slots /\ slots[i] \in Pairs /\ ~IsEnd(i)
         /\ slots[i].key \in Key /\ slots[i].val \in Val
<1>1. i \in Slots
  BY DEF TypeOK, Live, Slots
<1>2. slots[i] \in Pairs
  BY <1>1, SlotAt
<1> QED BY <1>1, <1>2, SlotAt, KeysAssumption DEF Pairs, Virgin, Entry

\* Probing comes to every entry once.
LEMMA Probing ==
  ASSUME capacity \in Nat, capacity > 0, NEW k \in Key
  PROVE  /\ Home(k) \in Slots
         /\ \A d \in Slots : Probe(k, d) \in Slots /\ Dist(k, Probe(k, d)) = d
         /\ \A i \in Slots : Dist(k, i) \in Slots /\ Probe(k, Dist(k, i)) = i
<1>1. HashOf[k] \in Nat
  BY KeysAssumption
<1>2. Home(k) \in Slots
  BY <1>1 DEF Home, Slots
<1> QED BY <1>2 DEF Probe, Dist, Slots

\* An entry was never used.
LEMMA SomeEnd ==
  ASSUME TypeOK, CountInv, capacity > 0
  PROVE  \E i \in Slots : IsEnd(i)
<1> DEFINE Used == {i \in DOMAIN slots : ~IsEnd(i)}
<1>1. SUFFICES ASSUME \A i \in Slots : ~IsEnd(i) PROVE FALSE
  OBVIOUS
<1>2. capacity \in Nat /\ DOMAIN slots = Slots
  BY DEF TypeOK, Slots
<1>3. Used = Slots
  BY <1>1, <1>2
<1>4. Cardinality(Slots) = capacity
  BY <1>2, FS_Interval DEF Slots
<1> QED BY <1>2, <1>3, <1>4 DEF CountInv, CountExact

\* A search ends, and stops nowhere before.
LEMMA Searching ==
  ASSUME TypeOK, CountInv, capacity > 0, NEW k \in Key
  PROVE  /\ SearchLength(k) \in Slots
         /\ Stops(k, Probe(k, SearchLength(k)))
         /\ \A e \in 0..(SearchLength(k) - 1) : ~Stops(k, Probe(k, e))
<1> DEFINE S == {d \in Slots : Stops(k, Probe(k, d))}
<1>1. capacity \in Nat
  BY DEF TypeOK
<1>2. PICK i \in Slots : IsEnd(i)
  BY SomeEnd
<1>3. Dist(k, i) \in S
  BY <1>1, <1>2, Probing DEF Stops
<1>4. S \in SUBSET Nat
  BY <1>1 DEF Slots
<1>5. PICK d \in S : \A e \in S : d <= e
  BY <1>3, <1>4, LeastNumber
<1>6. \A e \in 0..(d - 1) : ~Stops(k, Probe(k, e))
  <2>1. ASSUME NEW e \in 0..(d - 1) PROVE e \in Slots /\ ~ (d <= e)
    BY <1>1, <1>5 DEF Slots
  <2> QED BY <2>1, <1>5
<1>7. \E x \in 0..(capacity - 1) :
        /\ Stops(k, Probe(k, x))
        /\ \A e \in 0..(x - 1) : ~Stops(k, Probe(k, e))
  BY <1>5, <1>6 DEF Slots
<1> QED BY <1>7 DEF SearchLength, Slots

\* The search for a key that is in the table finds it.
LEMMA Found ==
  ASSUME TypeOK, CountInv, NoGap, KeysDiffer(slots), NEW i \in Live(slots)
  PROVE  FindEntry(slots[i].key) = i
<1> DEFINE k == slots[i].key
           n == SearchLength(k)
<1>1. /\ i \in Slots /\ k \in Key /\ ~IsEmpty(slots[i])
      /\ capacity \in Nat /\ capacity > 0
  BY LiveSlot DEF TypeOK, Slots, Live
<1>2. /\ n \in Slots /\ Stops(k, Probe(k, n)) /\ Probe(k, n) \in Slots
      /\ \A e \in 0..(n - 1) : ~Stops(k, Probe(k, e))
      /\ Dist(k, Probe(k, n)) = n
      /\ Dist(k, i) \in Slots /\ Probe(k, Dist(k, i)) = i
  BY <1>1, Searching, Probing
<1>3. n <= Dist(k, i)
  <2>1. Stops(k, i)
    BY DEF Stops
  <2>2. ~ (Dist(k, i) \in 0..(n - 1))
    BY <2>1, <1>2
  <2> HIDE DEF n
  <2> QED BY <2>2, <1>2 DEF Slots
<1>4. Probe(k, n) = i
  <2>1. CASE n = Dist(k, i)
    BY <2>1, <1>2
  <2>2. CASE n < Dist(k, i)
    <3>1. n \in 0..(Dist(k, i) - 1)
      <4> HIDE DEF n
      <4> QED BY <2>2, <1>2 DEF Slots
    <3>2. ~IsEnd(Probe(k, n))
      BY <3>1 DEF NoGap
    <3>3. slots[Probe(k, n)].key = k
      BY <3>2, <1>2 DEF Stops
    <3>4. ~IsEmpty(slots[Probe(k, n)])
      BY <3>3, <1>1, KeysAssumption DEF IsEmpty
    <3>5. Probe(k, n) \in Live(slots)
      BY <3>4, <1>2 DEF Live, TypeOK, Slots
    <3> QED BY <3>3, <3>5 DEF KeysDiffer
  <2> HIDE DEF n
  <2> QED BY <2>1, <2>2, <1>2, <1>3 DEF Slots
<1> QED BY <1>4 DEF FindEntry

\* The search for a key that is not in the table comes to an entry that is
\* free, and on the way to it there is none that was never used.
LEMMA NotFound ==
  ASSUME TypeOK, CountInv, capacity > 0, NEW k \in Key,
         \A i \in Live(slots) : slots[i].key # k
  PROVE  /\ FindEntry(k) \in Slots
         /\ IsEmpty(slots[FindEntry(k)])
         /\ \A e \in 0..(Dist(k, FindEntry(k)) - 1) : ~IsEnd(Probe(k, e))
<1> DEFINE n == SearchLength(k)
           free == {d \in 0..(n - 1) : IsEmpty(slots[Probe(k, d)])}
           first == CHOOSE d \in free : \A e \in free : d <= e
<1>1. capacity \in Nat /\ DOMAIN slots = Slots
  BY DEF TypeOK, Slots
<1>2. /\ n \in Slots /\ Stops(k, Probe(k, n))
      /\ \A e \in 0..(n - 1) : ~Stops(k, Probe(k, e))
  BY Searching
<1>3. /\ Probe(k, n) \in Slots
      /\ \A d \in Slots : Probe(k, d) \in Slots /\ Dist(k, Probe(k, d)) = d
  BY <1>1, <1>2, Probing
<1>4. IsEmpty(slots[Probe(k, n)]) /\ slots[Probe(k, n)].key # k
  <2>1. slots[Probe(k, n)].key # k
    <3>1. SUFFICES ASSUME slots[Probe(k, n)].key = k PROVE FALSE
      OBVIOUS
    <3>2. Probe(k, n) \in Live(slots)
      BY <3>1, <1>1, <1>3, KeysAssumption DEF Live, IsEmpty
    <3> QED BY <3>1, <3>2
  <2> QED BY <2>1, <1>2 DEF Stops, IsEnd
<1>5. CASE free = {}
  <2>1. FindEntry(k) = Probe(k, n)
    BY <1>5 DEF FindEntry
  <2>2. \A e \in 0..(n - 1) : ~IsEnd(Probe(k, e))
    BY <1>2 DEF Stops
  <2> QED BY <2>1, <2>2, <1>2, <1>3, <1>4
<1>6. CASE free # {}
  <2>1. free \in SUBSET Nat
    BY <1>2 DEF Slots
  <2>2. first \in free
    <3>1. \E d \in free : \A e \in free : d <= e
      BY <1>6, <2>1, LeastNumber
    <3> HIDE DEF free
    <3> QED BY <3>1
  <2>3. FindEntry(k) = Probe(k, first)
    BY <1>4, <1>6 DEF FindEntry
  <2>4. first \in 0..(n - 1) /\ IsEmpty(slots[Probe(k, first)])
    <3> HIDE DEF first
    <3> QED BY <2>2
  <2> HIDE DEF first, n
  <2>5. first \in Slots /\ Dist(k, Probe(k, first)) = first
    BY <2>4, <1>1, <1>2, <1>3 DEF Slots
  <2>6. \A e \in 0..(first - 1) : ~IsEnd(Probe(k, e))
    <3>1. \A e \in 0..(first - 1) : e \in 0..(n - 1)
      BY <2>4, <1>2 DEF Slots
    <3> QED BY <3>1, <1>2 DEF Stops
  <2> QED BY <2>3, <2>4, <2>5, <2>6, <1>3
<1> QED BY <1>5, <1>6

\* In either case: where a search leads, and what is there.
LEMMA Searched ==
  ASSUME TypeOK, CountInv, NoGap, KeysDiffer(slots), capacity > 0, NEW k \in Key
  PROVE  /\ FindEntry(k) \in Slots
         /\ IsEmpty(slots[FindEntry(k)]) <=> \A j \in Live(slots) : slots[j].key # k
         /\ \A j \in Live(slots) : slots[j].key = k => FindEntry(k) = j
         /\ \/ slots[FindEntry(k)].key = k
            \/ /\ \A j \in Live(slots) : slots[j].key # k
               /\ \A e \in 0..(Dist(k, FindEntry(k)) - 1) : ~IsEnd(Probe(k, e))
<1>1. CASE \A j \in Live(slots) : slots[j].key # k
  BY <1>1, NotFound
<1>2. CASE \E j \in Live(slots) : slots[j].key = k
  <2>1. PICK j \in Live(slots) : slots[j].key = k
    BY <1>2
  <2>2. FindEntry(k) = j
    BY <2>1, Found
  <2> QED BY <2>1, <2>2, LiveSlot, Found DEF Live
<1> QED BY <1>1, <1>2

-----------------------------------------------------------------------------
\* What becomes of the table when entry i is replaced by x: x marks what was
\* erased, or has the key of the entry it replaces, or has a new key and is
\* put where the search for that key comes without passing an unused entry.
LEMMA Replaced ==
  ASSUME TypeOK, NoGap, KeysDiffer(slots),
         NEW i \in Slots, NEW x \in Entries, x # Virgin,
         slots' = [slots EXCEPT ![i] = x], capacity' = capacity,
         \/ IsEmpty(x)
         \/ slots[i].key = x.key
         \/ /\ \A j \in Live(slots) : slots[j].key # x.key
            /\ \A e \in 0..(Dist(x.key, i) - 1) : ~IsEnd(Probe(x.key, e))
  PROVE  /\ slots' \in [0..(capacity' - 1) -> Entries]
         /\ Live(slots') = IF IsEmpty(x) THEN Live(slots) \ {i}
                                         ELSE Live(slots) \cup {i}
         /\ NoGap' /\ KeysDiffer(slots')
<1>1. capacity \in Nat /\ capacity > 0 /\ slots \in [Slots -> Entries]
  BY DEF TypeOK, Slots
<1>2. /\ slots' \in [Slots -> Entries]
      /\ slots'[i] = x
      /\ \A j \in Slots : j # i => slots'[j] = slots[j]
  BY <1>1
<1>3. slots' \in [0..(capacity' - 1) -> Entries]
  BY <1>2 DEF Slots
<1>4. Live(slots') = IF IsEmpty(x) THEN Live(slots) \ {i}
                                   ELSE Live(slots) \cup {i}
  BY <1>1, <1>2 DEF Live
<1>5. KeysDiffer(slots')
  <2>1. SUFFICES ASSUME NEW a \in Live(slots'), NEW b \in Live(slots'),
                        slots'[a].key = slots'[b].key, a # b
                 PROVE  FALSE
    BY DEF KeysDiffer
  <2>2. a \in Slots /\ b \in Slots
    BY <1>1, <1>4 DEF Live
  <2>3. ASSUME NEW c \in Live(slots'), NEW d \in Live(slots'),
               slots'[c].key = slots'[d].key, c # d, c = i
        PROVE  FALSE
    <3>1. ~IsEmpty(x) /\ d \in Live(slots) /\ slots[d].key = x.key /\ d \in Slots
      BY <2>3, <1>1, <1>2, <1>4 DEF Live
    <3>2. slots[i].key = x.key
      BY <3>1
    <3>3. i \in Live(slots)
      BY <3>1, <3>2, <1>1 DEF Live, IsEmpty
    <3> QED BY <3>1, <3>2, <3>3, <2>3 DEF KeysDiffer
  <2>4. CASE a # i /\ b # i
    <3>1. /\ a \in Live(slots) /\ b \in Live(slots)
          /\ slots[a].key = slots[b].key
      BY <2>1, <2>2, <2>4, <1>2, <1>4
    <3> QED BY <3>1, <2>1 DEF KeysDiffer
  <2>5. CASE a = i
    BY <2>1, <2>3, <2>5
  <2>6. CASE b = i
    BY <2>1, <2>3, <2>6
  <2> QED BY <2>4, <2>5, <2>6
<1>6. NoGap'
  <2>1. ASSUME NEW j \in Slots, IsEmpty(slots'[j]), ~IsTombstone(slots'[j])
        PROVE  IsEnd(j)
    <3>1. j # i
      BY <2>1, <1>2, EntryKinds
    <3> QED BY <3>1, <2>1, <1>2 DEF IsEnd
  <2>2. SUFFICES ASSUME NEW j \in Live(slots'), NEW k, k = slots'[j].key,
                        NEW e \in 0..(Dist(k, j) - 1)
                 PROVE  ~ (/\ IsEmpty(slots'[Probe(k, e)])
                           /\ ~IsTombstone(slots'[Probe(k, e)]))
    <3>1. SUFFICES ASSUME NEW j \in Live(slots)',
                          NEW e \in (0..(Dist(slots[j].key, j) - 1))'
                   PROVE  ~IsEnd(Probe(slots[j].key, e))'
      BY DEF NoGap
    <3>2. PICK k : k = slots'[j].key
      OBVIOUS
    <3>3. j \in Live(slots')
      BY DEF Live
    <3>4. e \in 0..(Dist(k, j) - 1)
      BY <3>2 DEF Dist, Home
    <3>5. ~ (/\ IsEmpty(slots'[Probe(k, e)])
             /\ ~IsTombstone(slots'[Probe(k, e)]))
      BY <3>2, <3>3, <3>4, <2>2
    <3>6. Probe(slots[j].key, e)' = Probe(k, e)
      BY <3>2 DEF Probe, Home
    <3> QED BY <3>5, <3>6 DEF IsEnd, IsEmpty, IsTombstone
  <2>3. j \in Slots /\ slots'[j] \in Entries /\ ~IsEmpty(slots'[j])
    BY <1>1, <1>2 DEF Live
  <2>4. k \in Key
    BY <2>2, <2>3, EntryKinds DEF Pairs
  <2>8. Probe(k, e) \in Slots
    <3>1. Dist(k, j) \in Slots
      BY <1>1, <2>3, <2>4, Probing
    <3>2. e \in Slots
      BY <3>1, <2>2, <1>1 DEF Slots
    <3> QED BY <3>2, <1>1, <2>4, Probing
  <2>9. ~IsEnd(Probe(k, e))
    <3>1. CASE j \in Live(slots) /\ slots[j].key = k
      BY <3>1, <2>2 DEF NoGap
    <3>2. CASE ~ (j \in Live(slots) /\ slots[j].key = k)
      <4>1. j = i /\ ~IsEmpty(x) /\ x.key = k
        BY <3>2, <2>2, <2>3, <1>1, <1>2 DEF Live
      <4>2. slots[i].key # x.key
        BY <4>1, <3>2, <2>3, <1>1 DEF Live, IsEmpty
      <4> QED BY <4>1, <4>2, <2>2
    <3> QED BY <3>1, <3>2
  <2> QED BY <2>1, <2>8, <2>9
<1> QED BY <1>3, <1>4, <1>5, <1>6

\* The count stays exact when it goes up with each entry used first.
LEMMA Counted ==
  ASSUME TypeOK, CountExact, NEW i \in Slots, NEW x \in Entries, x # Virgin,
         slots' = [slots EXCEPT ![i] = x], capacity' = capacity,
         count' = IF IsEnd(i) THEN count + 1 ELSE count
  PROVE  CountExact'
<1> DEFINE Used == {j \in DOMAIN slots : ~IsEnd(j)}
<1>1. capacity \in Nat /\ slots \in [Slots -> Entries]
  BY DEF TypeOK, Slots
<1>2. IsFiniteSet(Used)
  <2>1. IsFiniteSet(Slots)
    BY <1>1, FS_Interval DEF Slots
  <2>2. Used \in SUBSET Slots
    BY <1>1
  <2> HIDE DEF Used
  <2> QED BY <2>1, <2>2, FS_Subset
<1>3. {j \in DOMAIN slots' : ~IsEnd(j)'} = Used \cup {i}
  <2>1. DOMAIN slots' = Slots /\ DOMAIN slots = Slots
    BY <1>1
  <2>2. ~IsEnd(i)'
    BY <1>1, EntryKinds DEF IsEnd
  <2>3. \A j \in Slots : j # i => (IsEnd(j)' <=> IsEnd(j))
    BY <1>1 DEF IsEnd
  <2> QED BY <2>1, <2>2, <2>3
<1>4. Cardinality(Used \cup {i}) = IF i \in Used THEN count ELSE count + 1
  <2>1. Cardinality(Used) = count
    BY DEF CountExact
  <2> HIDE DEF Used
  <2> QED BY <1>2, <2>1, FS_AddElement
<1>5. i \in Used <=> ~IsEnd(i)
  BY <1>1
<1> HIDE DEF Used
<1> QED BY <1>3, <1>4, <1>5 DEF CountExact

\* An entry that is used does not free another.
LEMMA Erased ==
  ASSUME TypeOK, CountInv, NoGap, KeysDiffer(slots), NEW i \in Live(slots),
         EraseEntry(i), capacity' = capacity
  PROVE  /\ slots' \in [0..(capacity' - 1) -> Entries] /\ count' \in Nat
         /\ Live(slots') = Live(slots) \ {i}
         /\ CountInv' /\ NoGap' /\ KeysDiffer(slots')
<1>1. i \in Slots /\ ~IsEnd(i)
  BY LiveSlot
<1>2. slots' = [slots EXCEPT ![i] = Tombstone] /\ count' = count
  BY DEF EraseEntry
<1>3. CountExact'
  BY <1>1, <1>2, Counted, VirginEntry DEF CountInv
<1>4. /\ slots' \in [0..(capacity' - 1) -> Entries]
      /\ Live(slots') = Live(slots) \ {i}
      /\ NoGap' /\ KeysDiffer(slots')
  BY <1>1, <1>2, Replaced, VirginEntry
<1> QED BY <1>2, <1>3, <1>4 DEF TypeOK, CountInv

\* A key is set where the search for it leads.
LEMMA Placed ==
  ASSUME TypeOK, CountInv, NoGap, KeysDiffer(slots), capacity > 0,
         NEW k \in Key, NEW v \in Val, capacity' = capacity,
         slots' = [slots EXCEPT ![FindEntry(k)] = Entry(k, v)],
         count' = IF IsEnd(FindEntry(k)) THEN count + 1 ELSE count
  PROVE  /\ FindEntry(k) \in Slots
         /\ slots' \in [0..(capacity' - 1) -> Entries]
         /\ count' \in Nat /\ count' <= count + 1
         /\ Live(slots') = Live(slots) \cup {FindEntry(k)}
         /\ CountExact' /\ NoGap' /\ KeysDiffer(slots')
<1> DEFINE i == FindEntry(k)
<1>1. /\ i \in Slots
      /\ \/ slots[i].key = k
         \/ /\ \A j \in Live(slots) : slots[j].key # k
            /\ \A e \in 0..(Dist(k, i) - 1) : ~IsEnd(Probe(k, e))
  BY Searched
<1>2. /\ Entry(k, v) \in Entries /\ Entry(k, v) # Virgin
      /\ Entry(k, v).key = k /\ ~IsEmpty(Entry(k, v))
  BY PairEntry
<1> HIDE DEF i
<1>4. slots' = [slots EXCEPT ![i] = Entry(k, v)]
  BY DEF i
<1>5. /\ slots' \in [0..(capacity' - 1) -> Entries]
      /\ Live(slots') = Live(slots) \cup {i}
      /\ NoGap' /\ KeysDiffer(slots')
  BY <1>1, <1>2, <1>4, Replaced
<1>6. CountExact'
  BY <1>1, <1>2, <1>4, Counted DEF CountInv, i
<1>7. count' \in Nat /\ count' <= count + 1
  BY DEF TypeOK
<1> QED BY <1>1, <1>5, <1>6, <1>7 DEF i

LEMMA EmptyTable ==
  ASSUME TypeOK, CountExact, capacity = 0
  PROVE  count = 0 /\ Live(slots) = {}
<1>1. DOMAIN slots = {}
  BY DEF TypeOK
<1> QED BY <1>1, FS_EmptySet DEF CountExact, Live

\* An iterator is moved on to an entry that is in use, or to the end.
LEMMA Advanced ==
  ASSUME TypeOK, NEW i \in 0..capacity
  PROVE  /\ Advance(i) \in i..capacity
         /\ Advance(i) < capacity => ~IsEmpty(slots[Advance(i)])
         /\ \A e \in i..(Advance(i) - 1) : IsEmpty(slots[e])
<1> DEFINE S == {j \in i..capacity : j < capacity => ~IsEmpty(slots[j])}
<1>1. capacity \in Nat /\ S \in SUBSET Nat /\ capacity \in S
  BY DEF TypeOK
<1>2. PICK j \in S : \A m \in S : j <= m
  BY <1>1, LeastNumber
<1>3. ASSUME NEW e \in i..(j - 1) PROVE IsEmpty(slots[e])
  <2>1. e \notin S
    BY <1>1, <1>2
  <2>2. e \in i..capacity /\ e < capacity
    BY <1>1, <1>2
  <2> QED BY <2>1, <2>2
<1>4. \E x \in i..capacity :
        /\ x < capacity => ~IsEmpty(slots[x])
        /\ \A e \in i..(x - 1) : IsEmpty(slots[e])
  BY <1>2, <1>3
<1> QED BY <1>4 DEF Advance

-----------------------------------------------------------------------------
(* What the actions preserve. *)

LEMMA SameTable ==
  ASSUME UNCHANGED <<slots, capacity, count>>
  PROVE  /\ CountInv' <=> CountInv
         /\ NoGap' <=> NoGap
         /\ \A i : IsEnd(i)' <=> IsEnd(i)
BY DEF CountInv, CountExact, NoGap, Live, IsEnd, IsEmpty, IsTombstone, Dist,
       Probe, Home

LEMMA InitIInv == Init => IInv
<1> SUFFICES ASSUME Init PROVE IInv
  OBVIOUS
<1>1. /\ slots = <<>> /\ capacity = 0 /\ count = 0 /\ old = <<>> /\ next = 0
      /\ job = "idle" /\ pending = <<>> /\ result = Absent
  BY DEF Init, NoEntries
<1>2. Live(slots) = {} /\ Live(old) = {}
  BY <1>1 DEF Live
<1>3. TypeOK
  BY <1>1 DEF TypeOK, NoEntries
<1>4. CountInv
  <2>1. {i \in DOMAIN slots : ~IsEnd(i)} = {}
    BY <1>1
  <2> QED BY <2>1, <1>1, FS_EmptySet DEF CountInv, CountExact
<1>5. NoGap /\ KeysDiffer(slots) /\ KeysDiffer(old)
  BY <1>2 DEF NoGap, KeysDiffer
<1> QED BY <1>1, <1>3, <1>4, <1>5 DEF IInv, GrowInv, IterateInv, NoEntries

LEMMA GetPreserves ==
  ASSUME IInv, NEW k \in Key, Get(k)
  PROVE  IInv'
<1>1. /\ UNCHANGED <<slots, capacity, count, old, next, job, pending>>
      /\ result' = IF count = 0 THEN Absent
                   ELSE IF IsEmpty(slots[FindEntry(k)]) THEN Absent
                        ELSE slots[FindEntry(k)].val
  BY DEF Get
<1>2. result' \in Val \cup BOOLEAN \cup {Absent}
  <2>1. CASE count # 0 /\ ~IsEmpty(slots[FindEntry(k)])
    <3>1. capacity > 0
      BY <2>1, EmptyTable DEF IInv, CountInv, TypeOK
    <3>2. FindEntry(k) \in Slots
      BY <3>1, Searched DEF IInv
    <3>3. slots[FindEntry(k)] \in Pairs
      BY <3>2, <2>1, SlotAt, EntryKinds DEF IInv
    <3> QED BY <3>3, <2>1, <1>1 DEF Pairs
  <2> QED BY <2>1, <1>1
<1>3. TypeOK'
  BY <1>1, <1>2 DEF IInv, TypeOK
<1> QED BY <1>1, <1>3, SameTable DEF IInv, KeysDiffer, GrowInv, IterateInv, Live

\* What Place does to the entries and the count.
LEMMA PlaceIsReplacing ==
  ASSUME NEW k, NEW v, Place(k, v)
  PROVE  /\ slots' = [slots EXCEPT ![FindEntry(k)] = Entry(k, v)]
         /\ count' = IF IsEnd(FindEntry(k)) THEN count + 1 ELSE count
         /\ result' \in BOOLEAN
BY DEF Place, IsEnd, IsEmpty

LEMMA SetPreserves ==
  ASSUME IInv, NEW k \in Key, NEW v \in Val, Set(k, v)
  PROVE  IInv'
<1>1. /\ job = "idle" /\ count + 1 <= MaxLoad(capacity) /\ Place(k, v)
      /\ UNCHANGED <<capacity, old, next, job, pending>>
  BY DEF Set, Idle, HasRoom
<1>2. capacity \in Nat /\ count \in Nat
  BY DEF IInv, TypeOK
<1>3. count + 1 < capacity /\ capacity > 0
  BY <1>1, <1>2 DEF MaxLoad
<1>4. /\ slots' \in [0..(capacity' - 1) -> Entries]
      /\ count' \in Nat /\ count' <= count + 1
      /\ CountExact' /\ NoGap' /\ KeysDiffer(slots')
      /\ result' \in BOOLEAN
  BY <1>1, <1>3, Placed, PlaceIsReplacing DEF IInv
<1>5. CountInv'
  BY <1>1, <1>2, <1>3, <1>4 DEF CountInv
<1>6. TypeOK'
  BY <1>1, <1>4 DEF IInv, TypeOK
<1>7. KeysDiffer(old') /\ GrowInv' /\ IterateInv'
  BY <1>1 DEF IInv, GrowInv, IterateInv, KeysDiffer
<1> QED BY <1>4, <1>5, <1>6, <1>7 DEF IInv

\* A capacity is zero or at least MIN_CAPACITY, and is doubled.
LEMMA Capacities ==
  ASSUME TypeOK, NEW c, c = GrowCapacity(capacity)
  PROVE  /\ c \in Nat /\ c >= MIN_CAPACITY /\ c >= 2
         /\ \E e \in 0..c : c = MIN_CAPACITY * 2^e
         /\ capacity = 0 => c = MIN_CAPACITY
         /\ capacity # 0 => /\ capacity >= MIN_CAPACITY
                            /\ c = 2 * capacity /\ c >= 2 * MIN_CAPACITY
         /\ capacity \div 2 >= 0
<1>1. capacity \in Nat /\ MIN_CAPACITY \in Nat /\ MIN_CAPACITY >= 2
  BY CapacitiesAssumption DEF TypeOK
<1>2. CASE capacity = 0
  <2>1. c = MIN_CAPACITY
    BY <1>1, <1>2 DEF GrowCapacity
  <2>2. c = MIN_CAPACITY * 2^0
    BY <1>1, <2>1, PowersOfTwo
  <2>3. 0 \in 0..c
    BY <1>1, <2>1
  <2>4. \E e \in 0..c : c = MIN_CAPACITY * 2^e
    BY <2>2, <2>3, Zenon
  <2> QED BY <1>1, <1>2, <2>1, <2>4
<1>3. CASE capacity # 0
  <2>1. PICK e \in 0..capacity : capacity = MIN_CAPACITY * 2^e
    BY <1>3 DEF TypeOK
  <2>2. e \in Nat /\ 2^e \in Nat /\ 2^(e + 1) = 2 * 2^e
    BY <1>1, <2>1, PowersOfTwo
  <2> DEFINE p == 2^e
             q == 2^(e + 1)
  <2>3. capacity = MIN_CAPACITY * p /\ p \in Nat /\ q = 2 * p
    BY <2>1, <2>2
  <2> HIDE DEF p, q
  <2>4. p >= 1
    BY <1>1, <1>3, <2>3
  <2>5. capacity >= MIN_CAPACITY
    BY <1>1, <2>3, <2>4
  <2>6. c = 2 * capacity
    BY <1>1, <2>5 DEF GrowCapacity
  <2>7. c = MIN_CAPACITY * q
    BY <1>1, <2>3, <2>6
  <2>8. e + 1 \in 0..c
    BY <1>1, <1>3, <2>1, <2>6
  <2>9. c = MIN_CAPACITY * 2^(e + 1)
    BY <2>7 DEF q
  <2>10. \E x \in 0..c : c = MIN_CAPACITY * 2^x
    BY <2>8, <2>9
  <2> QED BY <1>1, <1>3, <2>5, <2>6, <2>10
<1> QED BY <1>2, <1>3

LEMMA BeginSetPreserves ==
  ASSUME IInv, NEW k \in Key, NEW v \in Val, BeginSet(k, v)
  PROVE  IInv'
<1> DEFINE c == GrowCapacity(capacity)
<1>1. PICK white \in SUBSET (Key \ {k}) :
        old' = [i \in DOMAIN slots |->
                  IF slots[i].key \in white THEN Tombstone ELSE slots[i]]
  BY DEF BeginSet
<1>2. /\ job = "idle" /\ capacity' = c /\ slots' = Virgins(c) /\ count' = 0
      /\ next' = 0 /\ job' = "set" /\ pending' = Entry(k, v) /\ result' = result
  BY DEF BeginSet, Idle
<1>3. /\ c \in Nat /\ c >= MIN_CAPACITY /\ c >= 2
      /\ \E e \in 0..c : c = MIN_CAPACITY * 2^e
      /\ capacity = 0 => c = MIN_CAPACITY
      /\ capacity # 0 => /\ capacity >= MIN_CAPACITY
                         /\ c = 2 * capacity /\ c >= 2 * MIN_CAPACITY
      /\ capacity \in Nat /\ MIN_CAPACITY \in Nat
  BY Capacities, CapacitiesAssumption DEF IInv, TypeOK
<1> HIDE DEF c
<1>4. /\ slots' \in [0..(capacity' - 1) -> Entries]
      /\ \A i \in DOMAIN slots' : slots'[i] = Virgin
  BY <1>2, <1>3, VirginEntry DEF Virgins
<1>5. Live(slots') = {}
  BY <1>4, VirginEntry DEF Live
<1>6. DOMAIN old' = 0..(capacity - 1) /\ \A i \in DOMAIN old' : old'[i] \in Entries
  <2>1. DOMAIN slots = 0..(capacity - 1) /\ \A i \in DOMAIN slots : slots[i] \in Entries
    BY DEF IInv, TypeOK
  <2> QED BY <1>1, <2>1, VirginEntry
<1>7. Live(old') \subseteq Live(slots) /\ \A i \in Live(old') : old'[i] = slots[i]
  BY <1>1, VirginEntry DEF Live
<1>8. CountInv'
  <2>1. {i \in DOMAIN slots' : ~IsEnd(i)'} = {}
    BY <1>4, VirginEntry, EntryKinds DEF IsEnd
  <2>2. CountExact'
    BY <2>1, <1>2, FS_EmptySet DEF CountExact
  <2> QED BY <2>2, <1>2, <1>3 DEF CountInv
<1>9. NoGap' /\ KeysDiffer(slots')
  BY <1>5 DEF NoGap, KeysDiffer, Live
<1>10. KeysDiffer(old')
  BY <1>7 DEF IInv, KeysDiffer
<1>11. DOMAIN old' \in {{}, 0..(capacity' \div 2 - 1)}
  <2>1. CASE capacity = 0
    BY <2>1, <1>6
  <2>2. CASE capacity # 0
    BY <2>2, <1>2, <1>3, <1>6
  <2> QED BY <2>1, <2>2
<1>12. pending' \in Pairs
  BY <1>2, PairEntry
<1>13. TypeOK'
  BY <1>2, <1>3, <1>4, <1>6, <1>11, <1>12 DEF IInv, TypeOK, Pairs
<1>14. GrowInv'
  <2>1. DOMAIN old' # {} => capacity' >= 2 * MIN_CAPACITY
    BY <1>2, <1>3, <1>6
  <2>2. capacity' \div 2 >= 0
    BY <1>2, <1>3
  <2>3. \A i \in Live(slots)' : FALSE
    BY <1>5 DEF Live
  <2>4. (\A i \in DOMAIN slots : IsEmpty(slots[i]) => IsEnd(i))'
    BY <1>4, VirginEntry, EntryKinds DEF IsEnd
  <2>5. (\A i \in Live(slots), j \in Live(old) :
           j >= next => slots[i].key # old[j].key)'
    BY <2>3
  <2>6. (IF DOMAIN old = {} THEN next = 0 ELSE capacity >= 2 * MIN_CAPACITY)'
    BY <2>1, <1>2
  <2>7. count' <= next' /\ next' <= capacity' \div 2 /\ capacity' >= MIN_CAPACITY
    BY <2>2, <1>2, <1>3
  <2> QED BY <2>4, <2>5, <2>6, <2>7, <1>2, <1>12 DEF GrowInv
<1>15. IterateInv'
  BY <1>2 DEF IterateInv
<1> QED BY <1>8, <1>9, <1>10, <1>13, <1>14, <1>15 DEF IInv

LEMMA SkipEmptyPreserves ==
  ASSUME IInv, SkipEmpty
  PROVE  IInv'
<1>1. /\ job = "set" /\ next \in DOMAIN old /\ IsEmpty(old[next])
      /\ next' = next + 1
      /\ UNCHANGED <<slots, capacity, count, old, job, pending, result>>
  BY DEF SkipEmpty, Growing
<1>2. capacity \in Nat /\ next \in Nat /\ count \in Nat
  BY DEF IInv, TypeOK
<1>3. next \in 0..(capacity \div 2 - 1)
  BY <1>1 DEF IInv, TypeOK
<1>4. next' \in Nat /\ next' <= capacity \div 2
  BY <1>1, <1>2, <1>3
<1>5. TypeOK'
  BY <1>1, <1>4 DEF IInv, TypeOK
<1>6. GrowInv'
  <2>1. \A j \in Live(old) : j \in Int
    BY DEF IInv, TypeOK, Live
  <2>2. \A i \in Live(slots), j \in Live(old) :
          j >= next + 1 => slots[i].key # old[j].key
    BY <1>1, <1>2, <2>1 DEF IInv, GrowInv
  <2>3. Live(slots)' = Live(slots) /\ Live(old)' = Live(old)
    BY <1>1 DEF Live
  <2>4. \A i \in DOMAIN slots' : IsEmpty(slots'[i]) => IsEnd(i)'
    BY <1>1 DEF IInv, GrowInv, IsEnd
  <2> QED BY <1>1, <1>2, <1>4, <2>2, <2>3, <2>4 DEF IInv, GrowInv
<1>7. IterateInv'
  BY <1>1 DEF IterateInv
<1> QED BY <1>1, <1>5, <1>6, <1>7, SameTable DEF IInv, KeysDiffer, Live

LEMMA MovePreserves ==
  ASSUME IInv, Move
  PROVE  IInv'
<1>1. /\ job = "set" /\ next \in DOMAIN old /\ ~IsEmpty(old[next])
      /\ slots' = [slots EXCEPT ![FindEntry(old[next].key)] = old[next]]
      /\ count' = count + 1 /\ next' = next + 1
      /\ UNCHANGED <<capacity, old, job, pending, result>>
  BY DEF Move, Growing
<1>2. /\ capacity \in Nat /\ next \in Nat /\ count \in Nat
      /\ old[next] \in Entries /\ next \in Live(old)
      /\ next \in 0..(capacity \div 2 - 1)
  BY <1>1 DEF IInv, TypeOK, Live
<1>3. PICK k \in Key, v \in Val : old[next] = Entry(k, v)
  BY <1>1, <1>2, EntryKinds DEF Pairs, Entry
<1>4. /\ Entry(k, v).key = k /\ Entry(k, v) \in Entries
      /\ ~IsEmpty(Entry(k, v)) /\ Entry(k, v) # Virgin
  BY PairEntry
<1> DEFINE i == FindEntry(k)
<1>5. slots' = [slots EXCEPT ![i] = Entry(k, v)]
  BY <1>1, <1>3, <1>4
<1>6. \A j \in Live(slots) : slots[j].key # k
  BY <1>1, <1>2, <1>3, <1>4 DEF IInv, GrowInv
<1>7. capacity > 0
  BY <1>2
<1>8. i \in Slots /\ IsEmpty(slots[i])
  BY <1>6, <1>7, NotFound DEF IInv
<1>9. IsEnd(i)
  BY <1>1, <1>8 DEF IInv, GrowInv, TypeOK, Slots
<1>10. /\ slots' \in [0..(capacity' - 1) -> Entries] /\ count' \in Nat
       /\ Live(slots') = Live(slots) \cup {i}
       /\ CountExact' /\ NoGap' /\ KeysDiffer(slots')
  BY <1>1, <1>5, <1>7, <1>9, Placed DEF IInv
<1> HIDE DEF i
<1>11. next' \in Nat /\ count' <= next' /\ next' <= capacity \div 2
  BY <1>1, <1>2 DEF IInv, GrowInv
<1>12. TypeOK'
  BY <1>1, <1>10, <1>11 DEF IInv, TypeOK
<1>13. CountInv'
  BY <1>1, <1>2, <1>7, <1>10, <1>11 DEF CountInv
<1>14. GrowInv'
  <2>1. \A j \in DOMAIN slots' : IsEmpty(slots'[j]) => IsEnd(j)'
    <3>1. ASSUME NEW j \in DOMAIN slots', IsEmpty(slots'[j]) PROVE IsEnd(j)'
      <4>1. j \in Slots /\ DOMAIN slots = Slots /\ slots \in [Slots -> Entries]
        BY <1>1, <1>10 DEF IInv, TypeOK, Slots
      <4>2. j # i
        BY <3>1, <4>1, <1>4, <1>5
      <4>3. slots'[j] = slots[j]
        BY <4>1, <4>2, <1>5
      <4> QED BY <3>1, <4>1, <4>3, <1>1 DEF IInv, GrowInv, IsEnd
    <3> QED BY <3>1
  <2>2. \A l \in Live(slots'), j \in Live(old) :
          j >= next + 1 => slots'[l].key # old[j].key
    <3>1. SUFFICES ASSUME NEW l \in Live(slots'), NEW j \in Live(old),
                          j >= next + 1
                   PROVE  slots'[l].key # old[j].key
      OBVIOUS
    <3>2. j \in Int /\ j >= next /\ j # next
      BY <3>1, <1>2 DEF IInv, TypeOK, Live
    <3>3. CASE l = i
      <4>1. slots'[l].key = k
        BY <3>3, <1>4, <1>5, <1>8 DEF IInv, TypeOK, Slots
      <4>2. old[j].key # old[next].key
        BY <3>1, <3>2, <1>2 DEF IInv, KeysDiffer
      <4> QED BY <4>1, <4>2, <1>3, <1>4
    <3>4. CASE l # i
      <4>1. l \in Live(slots) /\ slots'[l] = slots[l]
        BY <3>4, <1>5, <1>10 DEF IInv, TypeOK, Live
      <4> QED BY <4>1, <3>1, <3>2, <1>1 DEF IInv, GrowInv
    <3> QED BY <3>3, <3>4
  <2>3. Live(old)' = Live(old) /\ Live(slots)' = Live(slots')
    BY <1>1 DEF Live
  <2>4. DOMAIN old # {}
    BY <1>1
  <2>5. /\ pending \in Pairs /\ capacity >= MIN_CAPACITY
        /\ capacity >= 2 * MIN_CAPACITY
    BY <1>1, <2>4 DEF IInv, GrowInv
  <2>6. /\ job' = "set" /\ pending' \in Pairs /\ capacity' >= MIN_CAPACITY
        /\ count' <= next' /\ next' <= capacity' \div 2
        /\ DOMAIN old' # {} /\ capacity' >= 2 * MIN_CAPACITY
    BY <1>1, <1>11, <2>4, <2>5
  <2>7. \A l \in Live(slots)', j \in Live(old)' :
          j >= next' => slots'[l].key # old'[j].key
    BY <1>1, <2>2, <2>3
  <2> QED BY <2>1, <2>6, <2>7 DEF GrowInv
<1>15. IterateInv' /\ KeysDiffer(old')
  BY <1>1 DEF IInv, IterateInv
<1> QED BY <1>10, <1>12, <1>13, <1>14, <1>15 DEF IInv

LEMMA EndSetPreserves ==
  ASSUME IInv, EndSet
  PROVE  IInv'
<1>1. /\ job = "set" /\ Place(pending.key, pending.val)
      /\ old' = <<>> /\ next' = 0 /\ job' = "idle" /\ pending' = <<>>
      /\ capacity' = capacity
  BY DEF EndSet, NoEntries
<1>2. /\ pending.key \in Key /\ pending.val \in Val
      /\ capacity \in Nat /\ count \in Nat /\ next \in Nat
      /\ MIN_CAPACITY \in Nat /\ MIN_CAPACITY >= 2
  BY <1>1, CapacitiesAssumption DEF IInv, TypeOK, GrowInv, Pairs
<1>3. count + 1 < capacity /\ capacity > 0
  BY <1>1, <1>2 DEF IInv, GrowInv
<1>4. /\ slots' \in [0..(capacity' - 1) -> Entries]
      /\ count' \in Nat /\ count' <= count + 1
      /\ CountExact' /\ NoGap' /\ KeysDiffer(slots')
      /\ result' \in BOOLEAN
  BY <1>1, <1>2, <1>3, Placed, PlaceIsReplacing DEF IInv
<1>5. CountInv'
  BY <1>1, <1>2, <1>3, <1>4 DEF CountInv
<1>6. TypeOK'
  BY <1>1, <1>4 DEF IInv, TypeOK, NoEntries
<1>7. KeysDiffer(old') /\ GrowInv' /\ IterateInv'
  BY <1>1 DEF GrowInv, IterateInv, KeysDiffer, NoEntries, Live
<1> QED BY <1>4, <1>5, <1>6, <1>7 DEF IInv

LEMMA ErasePreserves ==
  ASSUME IInv, NEW k \in Key, Erase(k)
  PROVE  IInv'
<1>1. job = "idle" /\ UNCHANGED <<capacity, old, next, job, pending>>
  BY DEF Erase, Idle
<1>2. CASE count = 0 \/ IsEmpty(slots[FindEntry(k)])
  <2>1. result' = FALSE /\ UNCHANGED <<slots, count>>
    BY <1>2 DEF Erase
  <2>2. TypeOK'
    BY <1>1, <2>1 DEF IInv, TypeOK
  <2> QED BY <1>1, <2>1, <2>2, SameTable
          DEF IInv, KeysDiffer, GrowInv, IterateInv, Live
<1>3. CASE ~ (count = 0 \/ IsEmpty(slots[FindEntry(k)]))
  <2>1. result' = TRUE /\ EraseEntry(FindEntry(k))
    BY <1>3 DEF Erase
  <2>2. capacity > 0
    BY <1>3, EmptyTable DEF IInv, CountInv, TypeOK
  <2>3. FindEntry(k) \in Live(slots)
    BY <1>3, <2>2, Searched DEF IInv, Live, TypeOK, Slots
  <2>4. /\ slots' \in [0..(capacity' - 1) -> Entries] /\ count' \in Nat
        /\ CountInv' /\ NoGap' /\ KeysDiffer(slots')
    BY <1>1, <2>1, <2>3, Erased DEF IInv
  <2>5. TypeOK'
    BY <1>1, <2>1, <2>4 DEF IInv, TypeOK
  <2> QED BY <1>1, <2>4, <2>5 DEF IInv, KeysDiffer, GrowInv, IterateInv
<1> QED BY <1>2, <1>3

LEMMA BeginIterationPreserves ==
  ASSUME IInv, BeginIteration
  PROVE  IInv'
<1>1. /\ job = "idle" /\ job' = "iterate" /\ next' = Advance(0)
      /\ UNCHANGED <<slots, capacity, count, old, pending, result>>
  BY DEF BeginIteration, Idle
<1>2. /\ Advance(0) \in 0..capacity
      /\ Advance(0) < capacity => ~IsEmpty(slots[Advance(0)])
  BY Advanced DEF IInv, TypeOK
<1>3. TypeOK'
  BY <1>1, <1>2 DEF IInv, TypeOK
<1>4. GrowInv'
  BY <1>1 DEF IInv, GrowInv
<1>5. IterateInv'
  BY <1>1, <1>2 DEF IterateInv
<1> QED BY <1>1, <1>3, <1>4, <1>5, SameTable DEF IInv, KeysDiffer

\* A visit may erase the entry the iterator is at, and no other.
LEMMA VisitedEntry ==
  ASSUME IInv, Visit
  PROVE  /\ next \in Live(slots) /\ FindEntry(slots[next].key) = next
         /\ next + 1 \in 0..capacity
<1>1. next \in 0..(capacity - 1) /\ ~IsEmpty(slots[next])
  BY DEF Visit, IInv, IterateInv, TypeOK
<1>2. next \in Live(slots)
  BY <1>1 DEF IInv, TypeOK, Live
<1> QED BY <1>1, <1>2, Found DEF IInv, TypeOK

LEMMA VisitPreserves ==
  ASSUME IInv, Visit
  PROVE  IInv'
<1>1. /\ job = "iterate" /\ next < capacity /\ next' = Advance(next + 1)
      /\ UNCHANGED <<capacity, old, job, pending, result>>
      /\ UNCHANGED <<slots, count>> \/ EraseEntry(FindEntry(slots[next].key))
  BY DEF Visit
<1>2. /\ next \in Live(slots) /\ FindEntry(slots[next].key) = next
      /\ next + 1 \in 0..capacity /\ next \in Nat /\ capacity \in Nat
  BY VisitedEntry DEF IInv, TypeOK
<1>3. /\ next' \in (next + 1)..capacity
      /\ next' < capacity => ~IsEmpty(slots[next'])
  BY <1>1, <1>2, Advanced DEF IInv
<1>4. /\ slots' \in [0..(capacity' - 1) -> Entries] /\ count' \in Nat
      /\ CountInv' /\ NoGap' /\ KeysDiffer(slots')
      /\ \A i \in 0..(capacity - 1) : i # next => slots'[i] = slots[i]
  <2>1. CASE UNCHANGED <<slots, count>>
    BY <1>1, <2>1, SameTable DEF IInv, TypeOK
  <2>2. CASE EraseEntry(next)
    <3>1. /\ slots' \in [0..(capacity' - 1) -> Entries] /\ count' \in Nat
          /\ CountInv' /\ NoGap' /\ KeysDiffer(slots')
      BY <1>1, <1>2, <2>2, Erased DEF IInv
    <3>2. \A i \in 0..(capacity - 1) : i # next => slots'[i] = slots[i]
      BY <2>2 DEF EraseEntry, IInv, TypeOK
    <3> QED BY <3>1, <3>2
  <2> QED BY <1>1, <1>2, <2>1, <2>2
<1>5. TypeOK'
  BY <1>1, <1>2, <1>3, <1>4 DEF IInv, TypeOK
<1>6. GrowInv' /\ KeysDiffer(old')
  BY <1>1 DEF IInv, GrowInv, KeysDiffer
<1>7. IterateInv'
  BY <1>1, <1>2, <1>3, <1>4 DEF IterateInv
<1> QED BY <1>4, <1>5, <1>6, <1>7 DEF IInv

LEMMA EndIterationPreserves ==
  ASSUME IInv, EndIteration
  PROVE  IInv'
<1>1. /\ job = "iterate" /\ job' = "idle" /\ next' = 0
      /\ UNCHANGED <<slots, capacity, count, old, pending, result>>
  BY DEF EndIteration
<1>2. TypeOK' /\ GrowInv' /\ IterateInv'
  BY <1>1 DEF IInv, TypeOK, GrowInv, IterateInv
<1> QED BY <1>1, <1>2, SameTable DEF IInv, KeysDiffer

LEMMA DestroyPreserves ==
  ASSUME IInv, Destroy
  PROVE  IInv'
<1>1. /\ job = "idle" /\ slots' = <<>> /\ capacity' = 0 /\ count' = 0
      /\ UNCHANGED <<old, next, job, pending, result>>
  BY DEF Destroy, Idle, NoEntries
<1>2. Live(slots') = {} /\ Live(slots)' = {}
  BY <1>1 DEF Live
<1>3. CountInv'
  <2>1. {i \in DOMAIN slots' : ~IsEnd(i)'} = {}
    BY <1>1
  <2> QED BY <2>1, <1>1, FS_EmptySet DEF CountInv, CountExact
<1>4. TypeOK'
  BY <1>1 DEF IInv, TypeOK
<1>5. NoGap' /\ KeysDiffer(slots') /\ KeysDiffer(old')
  BY <1>1, <1>2 DEF IInv, NoGap, KeysDiffer
<1>6. GrowInv' /\ IterateInv'
  BY <1>1 DEF IInv, GrowInv, IterateInv
<1> QED BY <1>3, <1>4, <1>5, <1>6 DEF IInv

LEMMA StutterPreserves ==
  ASSUME IInv, UNCHANGED vars
  PROVE  IInv'
<1>1. TypeOK' /\ GrowInv' /\ IterateInv'
  BY DEF vars, IInv, TypeOK, GrowInv, IterateInv, Live, IsEnd
<1> QED BY <1>1, SameTable DEF vars, IInv, KeysDiffer

LEMMA NextPreserves == IInv /\ [Next]_vars => IInv'
<1> SUFFICES ASSUME IInv, [Next]_vars PROVE IInv'
  OBVIOUS
<1>1. ASSUME NEW k \in Key, Get(k) \/ Erase(k) PROVE IInv'
  BY <1>1, GetPreserves, ErasePreserves
<1>2. ASSUME NEW k \in Key, NEW v \in Val, Set(k, v) \/ BeginSet(k, v)
      PROVE  IInv'
  BY <1>2, SetPreserves, BeginSetPreserves
<1>3. CASE Loops
  BY <1>3, SkipEmptyPreserves, MovePreserves, EndSetPreserves, VisitPreserves,
     EndIterationPreserves DEF Loops
<1> QED BY <1>1, <1>2, <1>3, BeginIterationPreserves, DestroyPreserves,
           StutterPreserves DEF Next

LEMMA Invariance == Spec => []IInv
BY InitIInv, NextPreserves, PTL DEF Spec

\* The type invariant holds: capacities stay powers of two times the first,
\* and what a loop of the table has come to is within it.
THEOREM TypeCorrect == Spec => []TypeOK
BY Invariance, PTL DEF IInv

\* Every search ends, in a table of any capacity: the count, which decides
\* when the table grows, never lets tombstones and keys fill the last entry.
THEOREM SearchesEnd == Spec => []SearchEnds
<1>1. IInv => SearchEnds
  BY SomeEnd DEF IInv, SearchEnds, CountInv, Slots
<1> QED BY <1>1, Invariance, PTL

\* A key that is in the table is found, whatever was erased or moved before,
\* for any hash function.
THEOREM KeysFound == Spec => []EveryKeyFound
<1>1. IInv => EveryKeyFound
  BY Found DEF IInv, EveryKeyFound
<1> QED BY <1>1, Invariance, PTL

-----------------------------------------------------------------------------
(* The table implements a dictionary. *)

\* The pairs of key and value that the table holds, those still to be moved
\* included: the graph of its contents.
Held ==
  {slots[i] : i \in Live(slots)} \cup {old[j] : j \in {x \in Live(old) : x >= next}}

LEMMA HeldPairs ==
  ASSUME IInv
  PROVE  /\ Held \subseteq Pairs
         /\ \A e, f \in Held : e.key = f.key => e = f
<1>1. \A i \in Live(slots) : slots[i] \in Pairs
  BY LiveSlot DEF IInv
<1>2. \A j \in Live(old) : old[j] \in Pairs
  BY EntryKinds DEF IInv, TypeOK, Live
<1>3. Live(old) # {} => job = "set"
  BY DEF IInv, GrowInv, NoEntries, Live
<1>4. \A i \in Live(slots), j \in Live(old) : j >= next => slots[i].key # old[j].key
  BY <1>3 DEF IInv, GrowInv
<1> QED BY <1>1, <1>2, <1>4 DEF Held, IInv, KeysDiffer

LEMMA Graph ==
  ASSUME IInv
  PROVE  /\ Contents = [k \in {e.key : e \in Held} |-> Contents[k]]
         /\ \A e \in Held : Contents[e.key] = e.val
<1> DEFINE Both == {x \in Key : KeyIn(slots, x) \/ KeyIn(ToMove, x)}
<1>1. DOMAIN ToMove = {j \in DOMAIN old : j >= next}
      /\ \A j \in DOMAIN ToMove : ToMove[j] = old[j]
  BY DEF ToMove
<1>2. Live(ToMove) = {j \in Live(old) : j >= next}
  BY <1>1 DEF Live
<1>3. \A k : KeyIn(slots, k) \/ KeyIn(ToMove, k) <=> \E e \in Held : e.key = k
  BY <1>1, <1>2 DEF KeyIn, Held, Live
<1>4. Both = {e.key : e \in Held}
  BY <1>3, HeldPairs DEF Pairs
<1>5. ASSUME NEW e \in Held PROVE Contents[e.key] = e.val
  <2>1. e \in Pairs /\ \A f \in Held : e.key = f.key => e = f
    BY HeldPairs
  <2>2. Contents[e.key] = IF KeyIn(slots, e.key) THEN ValueIn(slots, e.key)
                                                 ELSE ValueIn(ToMove, e.key)
    BY <1>4, <1>5 DEF Contents
  <2>3. CASE KeyIn(slots, e.key)
    <3>1. \E i \in Live(slots) : slots[i].key = e.key
      BY <2>3 DEF KeyIn
    <3> DEFINE i == CHOOSE i \in Live(slots) : slots[i].key = e.key
    <3>2. i \in Live(slots) /\ slots[i].key = e.key
      BY <3>1
    <3>3. slots[i] \in Held
      BY <3>2 DEF Held
    <3>4. ValueIn(slots, e.key) = slots[i].val
      BY DEF ValueIn
    <3> QED BY <2>1, <2>2, <2>3, <3>2, <3>3, <3>4
  <2>4. CASE ~KeyIn(slots, e.key)
    <3>1. \E j \in Live(ToMove) : ToMove[j].key = e.key
      BY <2>4, <1>3, <1>5 DEF KeyIn
    <3> DEFINE j == CHOOSE j \in Live(ToMove) : ToMove[j].key = e.key
    <3>2. j \in Live(ToMove) /\ ToMove[j].key = e.key
      BY <3>1
    <3>3. ToMove[j] \in Held
      <4> HIDE DEF j
      <4>1. j \in Live(old) /\ j >= next /\ ToMove[j] = old[j]
        BY <3>2, <1>1, <1>2 DEF Live
      <4> QED BY <4>1 DEF Held
    <3>4. ValueIn(ToMove, e.key) = ToMove[j].val
      BY DEF ValueIn
    <3> QED BY <2>1, <2>2, <2>4, <3>2, <3>3, <3>4
  <2> QED BY <2>3, <2>4
<1>6. DOMAIN Contents = Both /\ Contents = [k \in Both |-> Contents[k]]
  BY DEF Contents
<1> QED BY <1>4, <1>5, <1>6

LEMMA GraphAfter ==
  ASSUME IInv'
  PROVE  /\ Contents' = [k \in {e.key : e \in Held'} |-> Contents'[k]]
         /\ \A e \in Held' : Contents'[e.key] = e.val
<1>1. (/\ Contents = [k \in {e.key : e \in Held} |-> Contents[k]]
       /\ \A e \in Held : Contents[e.key] = e.val)'
  BY Graph, PTL
<1> QED BY <1>1

\* The pairs held are what the contents are made of.
LEMMA ContentsOf ==
  ASSUME IInv, NEW k
  PROVE  /\ k \in DOMAIN Contents <=> \E e \in Held : e.key = k
         /\ k \in DOMAIN Contents => k \in Key /\ Entry(k, Contents[k]) \in Held
<1>1. DOMAIN Contents = {e.key : e \in Held}
  BY Graph, Zenon
<1>2. ASSUME NEW e \in Held
      PROVE  e.key \in Key /\ Entry(e.key, Contents[e.key]) = e
  <2>1. e \in Pairs /\ Contents[e.key] = e.val
    BY Graph, HeldPairs
  <2> QED BY <2>1 DEF Pairs, Entry
<1> QED BY <1>1, <1>2

\* Two states that hold the same pairs have the same contents.
LEMMA SameContents ==
  ASSUME IInv, IInv', Held' = Held
  PROVE  Contents' = Contents
<1> DEFINE D == {e.key : e \in Held}
<1>1. Contents = [k \in D |-> Contents[k]] /\ \A e \in Held : Contents[e.key] = e.val
  BY Graph
<1>2. Contents' = [k \in D |-> Contents'[k]] /\ \A e \in Held : Contents'[e.key] = e.val
  BY GraphAfter
<1>3. \A k \in D : Contents'[k] = Contents[k]
  BY <1>1, <1>2
<1> QED BY <1>1, <1>2, <1>3

LEMMA ContentsWithout ==
  ASSUME IInv, IInv', NEW W, Held' = {e \in Held : e.key \notin W}
  PROVE  Contents' = Dict!Without(Contents, W)
<1> DEFINE D == {e.key : e \in Held}
           E == {e.key : e \in Held'}
<1>1. Contents = [k \in D |-> Contents[k]] /\ \A e \in Held : Contents[e.key] = e.val
  BY Graph
<1>2. Contents' = [k \in E |-> Contents'[k]] /\ \A e \in Held' : Contents'[e.key] = e.val
  BY GraphAfter
<1>3. E = D \ W /\ \A k \in E : Contents'[k] = Contents[k]
  BY <1>1, <1>2
<1>4. DOMAIN Contents = D
  BY <1>1
<1> QED BY <1>1, <1>2, <1>3, <1>4 DEF Dict!Without, Dict!Restrict

LEMMA ContentsWith ==
  ASSUME IInv, IInv', NEW k \in Key, NEW v \in Val,
         Held' = {e \in Held : e.key # k} \cup {Entry(k, v)}
  PROVE  Contents' = Dict!With(Contents, k, v)
<1> DEFINE D == {e.key : e \in Held}
           E == {e.key : e \in Held'}
<1>1. Contents = [x \in D |-> Contents[x]] /\ \A e \in Held : Contents[e.key] = e.val
  BY Graph
<1>2. Contents' = [x \in E |-> Contents'[x]] /\ \A e \in Held' : Contents'[e.key] = e.val
  BY GraphAfter
<1>3. Entry(k, v).key = k /\ Entry(k, v).val = v
  BY PairEntry
<1>4. E = D \cup {k}
  BY <1>3
<1>5. Contents'[k] = v /\ \A x \in E : x # k => Contents'[x] = Contents[x]
  <2>1. Entry(k, v) \in Held'
    OBVIOUS
  <2>2. ASSUME NEW x \in E, x # k PROVE Contents'[x] = Contents[x]
    <3>1. PICK e \in Held : e.key = x /\ e \in Held'
      BY <1>3, <2>2
    <3> QED BY <3>1, <1>1, <1>2
  <2> QED BY <1>2, <1>3, <2>1, <2>2
<1>6. DOMAIN Contents = D
  BY <1>1
<1> QED BY <1>2, <1>4, <1>5, <1>6 DEF Dict!With

\* What the entries of a table that changed in one place hold.
LEMMA HeldReplaced ==
  ASSUME IInv, job # "set", NEW i \in Slots, NEW x \in Entries,
         slots' = [slots EXCEPT ![i] = x], old' = old,
         Live(slots') = IF IsEmpty(x) THEN Live(slots) \ {i}
                                      ELSE Live(slots) \cup {i}
  PROVE  Held' = {slots[j] : j \in Live(slots) \ {i}}
                   \cup (IF IsEmpty(x) THEN {} ELSE {x})
<1>1. old = <<>> /\ Live(old) = {} /\ (Live(old))' = {}
  BY DEF IInv, GrowInv, NoEntries, Live
<1>2. Held' = {slots'[j] : j \in Live(slots')}
  BY <1>1 DEF Held, Live
<1>3. slots \in [Slots -> Entries] /\ Live(slots) \subseteq Slots
  BY DEF IInv, TypeOK, Slots, Live
<1>4. slots'[i] = x /\ \A j \in Live(slots) \ {i} : slots'[j] = slots[j]
  BY <1>3
<1>5. CASE IsEmpty(x)
  BY <1>2, <1>4, <1>5
<1>6. CASE ~IsEmpty(x)
  BY <1>2, <1>4, <1>6
<1> QED BY <1>5, <1>6

\* While nothing is being set, the table alone holds the pairs.
LEMMA HeldAtRest ==
  ASSUME IInv, job # "set"
  PROVE  Held = {slots[j] : j \in Live(slots)}
BY DEF IInv, GrowInv, NoEntries, Live, Held

LEMMA AtRest ==
  ASSUME job # "set"
  PROVE  Setting = <<>> /\ (job # "iterate" => Dict!Idle /\ ToVisit = {})
BY DEF Setting, ToVisit, Dict!Idle, Dict!NoPending

LEMMA InitImplements == Init => Dict!Init
<1> SUFFICES ASSUME Init PROVE Dict!Init
  OBVIOUS
<1>1. job = "idle" /\ slots = <<>> /\ old = <<>> /\ result = Absent
  BY DEF Init, NoEntries
<1>2. Contents = <<>>
  <2>1. \A x : ~KeyIn(slots, x) /\ ~KeyIn(ToMove, x)
    BY <1>1 DEF KeyIn, ToMove, Live
  <2>2. {x \in Key : KeyIn(slots, x) \/ KeyIn(ToMove, x)} = {}
    BY <2>1
  <2> QED BY <2>2 DEF Contents
<1> QED BY <1>1, <1>2 DEF Dict!Init, Setting, ToVisit, Dict!NoPending

\* Whether the entry a search leads to is empty tells whether the key is there.
LEMMA Looked ==
  ASSUME IInv, job # "set", capacity > 0, NEW k \in Key
  PROVE  /\ IsEmpty(slots[FindEntry(k)]) <=> k \notin DOMAIN Contents
         /\ ~IsEmpty(slots[FindEntry(k)]) =>
              /\ FindEntry(k) \in Live(slots) /\ slots[FindEntry(k)].key = k
              /\ Contents[k] = slots[FindEntry(k)].val
<1>1. k \in DOMAIN Contents <=> \E j \in Live(slots) : slots[j].key = k
  BY ContentsOf, HeldAtRest
<1>2. /\ FindEntry(k) \in Slots
      /\ IsEmpty(slots[FindEntry(k)]) <=> \A j \in Live(slots) : slots[j].key # k
      /\ \A j \in Live(slots) : slots[j].key = k => FindEntry(k) = j
  BY Searched DEF IInv
<1>3. ASSUME ~IsEmpty(slots[FindEntry(k)])
      PROVE  /\ FindEntry(k) \in Live(slots) /\ slots[FindEntry(k)].key = k
             /\ Contents[k] = slots[FindEntry(k)].val
  <2>1. PICK j \in Live(slots) : slots[j].key = k
    BY <1>2, <1>3
  <2>2. FindEntry(k) = j
    BY <1>2, <2>1
  <2>3. slots[j] \in Held
    BY HeldAtRest
  <2> QED BY <2>1, <2>2, <2>3, Graph
<1> QED BY <1>1, <1>2, <1>3

LEMMA NothingHeld ==
  ASSUME IInv, job # "set", count = 0 \/ capacity = 0, NEW k \in Key
  PROVE  k \notin DOMAIN Contents
<1>1. Live(slots) = {}
  <2> DEFINE Used == {i \in DOMAIN slots : ~IsEnd(i)}
  <2>1. count = 0
    BY EmptyTable DEF IInv, CountInv
  <2>2. IsFiniteSet(Used)
    <3>1. IsFiniteSet(DOMAIN slots)
      BY FS_Interval DEF IInv, TypeOK
    <3>2. Used \in SUBSET DOMAIN slots
      OBVIOUS
    <3> HIDE DEF Used
    <3> QED BY <3>1, <3>2, FS_Subset
  <2>3. Cardinality(Used) = 0
    BY <2>1 DEF IInv, CountInv, CountExact
  <2>4. Used = {}
    <3> HIDE DEF Used
    <3> QED BY <2>2, <2>3, FS_EmptySet
  <2>5. \A i \in Live(slots) : i \in Used
    BY LiveSlot DEF IInv, Live
  <2> QED BY <2>4, <2>5
<1> QED BY <1>1, ContentsOf, HeldAtRest

LEMMA GetImplements ==
  ASSUME IInv, IInv', NEW k \in Key, Get(k)
  PROVE  Dict!Get(k)
<1>1. /\ job = "idle" /\ UNCHANGED <<slots, capacity, count, old, next, job, pending>>
      /\ result' = IF count = 0 THEN Absent
                   ELSE IF IsEmpty(slots[FindEntry(k)]) THEN Absent
                        ELSE slots[FindEntry(k)].val
  BY DEF Get, Idle
<1>2. Held' = Held
  BY <1>1 DEF Held, Live
<1>3. Contents' = Contents /\ Setting' = Setting /\ ToVisit' = ToVisit
  BY <1>1, <1>2, SameContents DEF Setting, ToVisit, Live
<1>4. result' = IF k \in DOMAIN Contents THEN Contents[k] ELSE Absent
  <2>1. CASE count = 0
    BY <1>1, <2>1, NothingHeld
  <2>2. CASE count # 0
    <3>1. capacity > 0
      BY <2>2, EmptyTable DEF IInv, CountInv, TypeOK
    <3> QED BY <1>1, <2>2, <3>1, Looked
  <2> QED BY <2>1, <2>2
<1>5. Dict!Idle
  BY <1>1, AtRest
<1> QED BY <1>1, <1>3, <1>4, <1>5 DEF Dict!Get

LEMMA EraseImplements ==
  ASSUME IInv, IInv', NEW k \in Key, Erase(k)
  PROVE  Dict!Erase(k)
<1>1. job = "idle" /\ UNCHANGED <<capacity, old, next, job, pending>>
  BY DEF Erase, Idle
<1>2. /\ Held' = {e \in Held : e.key \notin {k}}
      /\ result' = (k \in DOMAIN Contents)
  <2>1. CASE count = 0 \/ IsEmpty(slots[FindEntry(k)])
    <3>1. result' = FALSE /\ UNCHANGED <<slots, count>>
      BY <2>1 DEF Erase
    <3>2. k \notin DOMAIN Contents
      <4>1. CASE count = 0 \/ capacity = 0
        BY <4>1, <1>1, NothingHeld
      <4>2. CASE count # 0 /\ capacity # 0
        BY <4>2, <1>1, <2>1, Looked DEF IInv, TypeOK
      <4> QED BY <4>1, <4>2
    <3>3. Held' = Held
      BY <1>1, <3>1 DEF Held, Live
    <3>4. \A e \in Held : e.key # k
      BY <3>2, ContentsOf
    <3>5. Held' = {e \in Held : e.key \notin {k}}
      BY <3>3, <3>4
    <3>6. (k \in DOMAIN Contents) = FALSE
      BY <3>2
    <3>7. result' = (k \in DOMAIN Contents)
      BY <3>1, <3>6, Zenon
    <3> QED BY <3>5, <3>7, Zenon
  <2>2. CASE ~ (count = 0 \/ IsEmpty(slots[FindEntry(k)]))
    <3>1. result' = TRUE /\ EraseEntry(FindEntry(k))
      BY <2>2 DEF Erase
    <3>2. capacity > 0
      BY <2>2, EmptyTable DEF IInv, CountInv, TypeOK
    <3>3. /\ FindEntry(k) \in Live(slots) /\ slots[FindEntry(k)].key = k
          /\ k \in DOMAIN Contents
      BY <1>1, <2>2, <3>2, Looked
    <3>4. FindEntry(k) \in Slots /\ Live(slots') = Live(slots) \ {FindEntry(k)}
      BY <1>1, <3>1, <3>3, Erased, LiveSlot DEF IInv
    <3>5. Held' = {slots[j] : j \in Live(slots) \ {FindEntry(k)}}
      BY <1>1, <3>1, <3>4, HeldReplaced, VirginEntry DEF EraseEntry
    <3>6. \A j \in Live(slots) : slots[j].key = k <=> j = FindEntry(k)
      BY <3>3 DEF IInv, KeysDiffer
    <3>7. Held = {slots[j] : j \in Live(slots)}
      BY <1>1, HeldAtRest
    <3> QED BY <3>1, <3>3, <3>5, <3>6, <3>7
  <2> QED BY <2>1, <2>2
<1>3. Contents' = Dict!Without(Contents, {k})
  BY <1>2, ContentsWithout
<1>4. Setting' = Setting /\ ToVisit' = ToVisit
  BY <1>1 DEF Setting, ToVisit
<1>5. Dict!Idle
  BY <1>1, AtRest
<1> QED BY <1>1, <1>2, <1>3, <1>4, <1>5 DEF Dict!Erase

\* Placing a pair in the table is setting it in the dictionary.
LEMMA PlaceImplements ==
  ASSUME IInv, IInv', capacity > 0, capacity' = capacity,
         NEW k \in Key, NEW v \in Val, Place(k, v),
         Held = {slots[i] : i \in Live(slots)}, job' # "set",
         k \in DOMAIN Contents <=> \E j \in Live(slots) : slots[j].key = k
  PROVE  /\ Contents' = Dict!With(Contents, k, v)
         /\ result' = (k \notin DOMAIN Contents)
<1> DEFINE i == FindEntry(k)
<1>1. /\ slots' = [slots EXCEPT ![i] = Entry(k, v)]
      /\ count' = IF IsEnd(i) THEN count + 1 ELSE count
      /\ result' = IsEmpty(slots[i])
  BY PlaceIsReplacing DEF Place
<1>2. /\ i \in Slots
      /\ IsEmpty(slots[i]) <=> \A j \in Live(slots) : slots[j].key # k
      /\ \A j \in Live(slots) : slots[j].key = k => i = j
      /\ ~IsEmpty(slots[i]) => slots[i].key = k
  <2>1. i \in Slots
        /\ (IsEmpty(slots[i]) <=> \A j \in Live(slots) : slots[j].key # k)
        /\ \A j \in Live(slots) : slots[j].key = k => i = j
    BY Searched DEF IInv
  <2> HIDE DEF i
  <2> QED BY <2>1
<1>3. Live(slots') = Live(slots) \cup {i}
  BY <1>1, Placed DEF IInv
<1> HIDE DEF i
<1>4. Entry(k, v).key = k
  BY PairEntry
<1>5. Held' = {e \in Held : e.key # k} \cup {Entry(k, v)}
  <2>1. Held' = {slots'[j] : j \in Live(slots')}
    <3>1. old' = <<>>
      BY DEF IInv, GrowInv, NoEntries
    <3>2. Live(old)' = {}
      BY <3>1 DEF Live
    <3> QED BY <3>2 DEF Held, Live
  <2>2. slots \in [Slots -> Entries] /\ Live(slots) \subseteq Slots
    BY DEF IInv, TypeOK, Slots, Live
  <2>3. slots'[i] = Entry(k, v) /\ \A j \in Live(slots) \ {i} : slots'[j] = slots[j]
    BY <1>1, <1>2, <2>2
  <2>4. \A j \in Live(slots) : j # i <=> slots[j].key # k
    BY <1>2 DEF Live
  <2> QED BY <2>1, <2>3, <2>4, <1>3
<1>6. Contents' = Dict!With(Contents, k, v)
  BY <1>5, ContentsWith
<1>7. result' = (k \notin DOMAIN Contents)
  <2>1. IsEmpty(slots[i]) <=> k \notin DOMAIN Contents
    BY <1>2
  <2> QED BY <1>1, <2>1 DEF IsEmpty
<1> QED BY <1>6, <1>7

LEMMA SetImplements ==
  ASSUME IInv, IInv', NEW k \in Key, NEW v \in Val, Set(k, v)
  PROVE  Dict!Set(k, v)
<1>1. /\ job = "idle" /\ count + 1 <= MaxLoad(capacity) /\ Place(k, v)
      /\ UNCHANGED <<capacity, old, next, job, pending>>
  BY DEF Set, Idle, HasRoom
<1>2. capacity > 0
  BY <1>1 DEF MaxLoad, IInv, TypeOK
<1>3. k \in DOMAIN Contents <=> \E j \in Live(slots) : slots[j].key = k
  BY <1>1, ContentsOf, HeldAtRest
<1>4. /\ Contents' = Dict!With(Contents, k, v)
      /\ result' = (k \notin DOMAIN Contents)
  BY <1>1, <1>2, <1>3, PlaceImplements, HeldAtRest
<1>5. Setting' = <<>> /\ Setting = <<>> /\ ToVisit' = ToVisit
  BY <1>1 DEF Setting, ToVisit
<1> QED BY <1>1, <1>4, <1>5 DEF Dict!Set, Dict!NoPending

\* A table that begins to grow has lost the keys that were garbage.
LEMMA BeginSetImplements ==
  ASSUME IInv, IInv', NEW k \in Key, NEW v \in Val, BeginSet(k, v)
  PROVE  Dict!BeginSet(k, v)
<1>1. PICK white \in SUBSET (Key \ {k}) :
        old' = [i \in DOMAIN slots |->
                  IF slots[i].key \in white THEN Tombstone ELSE slots[i]]
  BY DEF BeginSet
<1>2. /\ job = "idle" /\ next' = 0 /\ job' = "set" /\ pending' = Entry(k, v)
      /\ result' = result /\ slots' = Virgins(GrowCapacity(capacity))
  BY DEF BeginSet, Idle
<1>3. Live(slots)' = {}
  BY <1>2, VirginEntry DEF Live, Virgins, IsEmpty
<1>4. Live(old)' = {i \in Live(slots) : slots[i].key \notin white}
  BY <1>1, VirginEntry DEF Live, IsEmpty
<1>5. Held' = {e \in Held : e.key \notin white}
  <2>1. Held = {slots[i] : i \in Live(slots)}
    BY <1>2, HeldAtRest
  <2>2. \A j \in Live(old)' : j >= next' /\ old'[j] = slots[j]
    <3>1. \A j \in Live(slots) : j >= 0 /\ j \in DOMAIN slots
      BY DEF IInv, TypeOK, Live
    <3> QED BY <3>1, <1>1, <1>2, <1>4
  <2> QED BY <2>1, <2>2, <1>3, <1>4 DEF Held
<1>6. Contents' = Dict!Without(Contents, white)
  BY <1>5, ContentsWithout
<1>7. Setting' = <<k, v>> /\ ToVisit' = ToVisit
  BY <1>2, PairEntry DEF Setting, ToVisit
<1>8. Dict!Idle
  BY <1>2, AtRest
<1> QED BY <1>1, <1>2, <1>6, <1>7, <1>8 DEF Dict!BeginSet

\* Moving the entries changes nothing that can be seen.
LEMMA SkipEmptyImplements ==
  ASSUME IInv, IInv', SkipEmpty
  PROVE  UNCHANGED Dict!vars
<1>1. /\ job = "set" /\ IsEmpty(old[next]) /\ next' = next + 1
      /\ UNCHANGED <<slots, capacity, count, old, job, pending, result>>
  BY DEF SkipEmpty, Growing
<1>2. {j \in Live(old) : j >= next + 1} = {j \in Live(old) : j >= next}
  <2>1. \A j \in Live(old) : j \in Int /\ j # next
    BY <1>1 DEF IInv, TypeOK, Live
  <2>2. next \in Int
    BY DEF IInv, TypeOK
  <2> QED BY <2>1, <2>2
<1>3. Held' = Held
  BY <1>1, <1>2 DEF Held, Live, IsEmpty
<1>4. Setting' = Setting /\ ToVisit' = ToVisit
  BY <1>1 DEF Setting, ToVisit
<1> QED BY <1>1, <1>3, <1>4, SameContents DEF Dict!vars

LEMMA MoveImplements ==
  ASSUME IInv, IInv', Move
  PROVE  UNCHANGED Dict!vars
<1>1. /\ job = "set" /\ next \in Live(old) /\ ~IsEmpty(old[next])
      /\ slots' = [slots EXCEPT ![FindEntry(old[next].key)] = old[next]]
      /\ next' = next + 1
      /\ UNCHANGED <<capacity, old, job, pending, result>>
  BY DEF Move, Growing, Live
<1>2. /\ old[next] \in Pairs /\ old[next] \in Entries
      /\ \A j \in Live(slots) : slots[j].key # old[next].key
  BY <1>1, EntryKinds DEF IInv, TypeOK, GrowInv, Live
<1> DEFINE i == FindEntry(old[next].key)
<1>3. i \in Slots /\ IsEmpty(slots[i])
  <2>1. capacity > 0
    BY <1>1 DEF IInv, TypeOK, Live
  <2> QED BY <1>2, <2>1, NotFound DEF IInv, Pairs
<1> HIDE DEF i
<1>4. /\ Live(slots)' = Live(slots) \cup {i}
      /\ \A j \in Live(slots) : slots'[j] = slots[j]
      /\ slots'[i] = old[next]
  <2>1. slots \in [Slots -> Entries]
    BY DEF IInv, TypeOK, Slots
  <2>2. slots' = [slots EXCEPT ![i] = old[next]]
    BY <1>1 DEF i
  <2> QED BY <2>1, <2>2, <1>1, <1>3 DEF Live, IsEmpty
<1>5. \A j \in Live(old) : j >= next <=> j >= next + 1 \/ j = next
  <2>1. next \in Int /\ \A j \in Live(old) : j \in Int
    BY DEF IInv, TypeOK, Live
  <2> QED BY <2>1
<1>6. Held' = Held
  <2> DEFINE Later == {old[j] : j \in {x \in Live(old) : x >= next + 1}}
  <2>1. Live(old)' = Live(old)
    BY <1>1 DEF Live
  <2>2. {old[j] : j \in {x \in Live(old) : x >= next}} = Later \cup {old[next]}
    BY <1>1, <1>5
  <2>3. {slots'[j] : j \in Live(slots)'} = {slots[j] : j \in Live(slots)} \cup {old[next]}
    BY <1>4
  <2>4. Held' = {slots'[j] : j \in Live(slots)'} \cup Later
    BY <1>1, <2>1 DEF Held
  <2> HIDE DEF Later
  <2> QED BY <2>2, <2>3, <2>4 DEF Held
<1>7. Setting' = Setting /\ ToVisit' = ToVisit
  BY <1>1 DEF Setting, ToVisit
<1> QED BY <1>1, <1>6, <1>7, SameContents DEF Dict!vars

LEMMA EndSetImplements ==
  ASSUME IInv, IInv', EndSet
  PROVE  Dict!Set(pending.key, pending.val)
<1>1. /\ job = "set" /\ next \notin DOMAIN old
      /\ Place(pending.key, pending.val)
      /\ job' = "idle" /\ capacity' = capacity
  BY DEF EndSet
<1>2. /\ pending.key \in Key /\ pending.val \in Val
      /\ capacity \in Nat /\ next \in Nat
      /\ next <= capacity \div 2 /\ MIN_CAPACITY \in Nat /\ MIN_CAPACITY >= 2
      /\ capacity >= MIN_CAPACITY
      /\ DOMAIN old \in {{}, 0..(capacity \div 2 - 1)}
  BY <1>1, CapacitiesAssumption DEF IInv, TypeOK, GrowInv, Pairs
<1>3. {j \in Live(old) : j >= next} = {}
  BY <1>1, <1>2 DEF Live
<1>4. Held = {slots[i] : i \in Live(slots)}
  BY <1>3 DEF Held
<1>5. pending.key \in DOMAIN Contents
        <=> \E j \in Live(slots) : slots[j].key = pending.key
  BY <1>4, ContentsOf
<1>6. capacity > 0 /\ job' # "set"
  BY <1>1, <1>2
<1>7. /\ Contents' = Dict!With(Contents, pending.key, pending.val)
      /\ result' = (pending.key \notin DOMAIN Contents)
  BY <1>1, <1>2, <1>4, <1>5, <1>6, PlaceImplements
<1>8. /\ Setting = <<pending.key, pending.val>> /\ Setting' = <<>>
      /\ ToVisit' = ToVisit
  BY <1>1 DEF Setting, ToVisit
<1> QED BY <1>1, <1>7, <1>8 DEF Dict!Set, Dict!NoPending

\* The iteration has all the keys ahead of it.
LEMMA BeginIterationImplements ==
  ASSUME IInv, IInv', BeginIteration
  PROVE  Dict!BeginIteration
<1>1. /\ job = "idle" /\ job' = "iterate" /\ next' = Advance(0)
      /\ UNCHANGED <<slots, capacity, count, old, pending, result>>
  BY DEF BeginIteration, Idle
<1>2. \A i \in Live(slots) : i >= Advance(0)
  <2>1. /\ Advance(0) \in 0..capacity
        /\ \A e \in 0..(Advance(0) - 1) : IsEmpty(slots[e])
    BY Advanced DEF IInv, TypeOK
  <2>2. \A i \in Live(slots) : i \in Nat /\ ~IsEmpty(slots[i])
    BY DEF IInv, TypeOK, Live
  <2> QED BY <2>1, <2>2
<1>3. Live(slots)' = Live(slots)
  BY <1>1 DEF Live
<1>4. Live(old) = {} /\ Live(old)' = {}
  BY <1>1 DEF IInv, GrowInv, NoEntries, Live
<1>5. Contents' = Contents
  <2>1. Held' = Held
    BY <1>1, <1>3, <1>4 DEF Held
  <2> QED BY <2>1, SameContents
<1>6. DOMAIN Contents = {slots[i].key : i \in Live(slots)}
  <2>1. Held = {slots[i] : i \in Live(slots)}
    BY <1>1, HeldAtRest
  <2>2. DOMAIN Contents = {e.key : e \in Held}
    BY Graph, Zenon
  <2> QED BY <2>1, <2>2
<1>7. ToVisit' = DOMAIN Contents
  <2>1. ToVisit' = {slots[i].key : i \in {j \in Live(slots)' : j >= Advance(0)}}
    BY <1>1 DEF ToVisit, Live
  <2>2. {j \in Live(slots)' : j >= Advance(0)} = Live(slots)
    BY <1>2, <1>3
  <2> QED BY <2>1, <2>2, <1>6
<1>8. Setting = <<>> /\ Setting' = <<>> /\ Dict!Idle
  BY <1>1, AtRest DEF Setting
<1> QED BY <1>1, <1>5, <1>7, <1>8 DEF Dict!BeginIteration

\* A visit is to a key that is ahead, and leaves the others there.
LEMMA VisitImplements ==
  ASSUME IInv, IInv', Visit
  PROVE  slots[next].key \in Key /\ Dict!Visit(slots[next].key)
<1> DEFINE k == slots[next].key
           m == Advance(next + 1)
<1>1. /\ job = "iterate" /\ job' = "iterate" /\ next' = m
      /\ UNCHANGED <<capacity, old, pending, result>>
      /\ UNCHANGED <<slots, count>> \/ EraseEntry(next)
  BY VisitedEntry DEF Visit
<1>2. next \in Live(slots) /\ next \in Slots /\ next + 1 \in 0..capacity
  BY VisitedEntry, LiveSlot DEF IInv
<1>3. k \in Key
  BY <1>2, LiveSlot DEF IInv
<1>4. /\ m \in (next + 1)..capacity
      /\ \A e \in (next + 1)..(m - 1) : IsEmpty(slots[e])
  BY <1>2, Advanced DEF IInv
<1> HIDE DEF m
<1>5. next \in Nat /\ \A i \in Live(slots) : i \in Nat /\ ~IsEmpty(slots[i])
  BY DEF IInv, TypeOK, Live
<1>6. \A i \in Live(slots) : i >= next <=> i = next \/ i >= m
  BY <1>4, <1>5
<1>7. \A i \in Live(slots) : slots[i].key = k <=> i = next
  BY <1>2 DEF IInv, KeysDiffer
<1> DEFINE Ahead == {slots[i].key : i \in {j \in Live(slots) : j >= m}}
<1>8. ToVisit = Ahead \cup {k} /\ k \notin Ahead
  <2>1. ToVisit = {slots[i].key : i \in {j \in Live(slots) : j >= next}}
    BY <1>1 DEF ToVisit
  <2>2. {j \in Live(slots) : j >= next} = {j \in Live(slots) : j >= m} \cup {next}
    BY <1>2, <1>6
  <2>3. ~ (next >= m)
    BY <1>4, <1>5
  <2>4. k \notin Ahead
    BY <1>7, <2>3
  <2> QED BY <2>1, <2>2, <2>4
<1>9. /\ Held = {slots[i] : i \in Live(slots)}
      /\ Setting = <<>> /\ Setting' = <<>>
  BY <1>1, HeldAtRest DEF Setting
<1>10. CASE UNCHANGED <<slots, count>>
  <2>1. Live(slots)' = Live(slots) /\ Live(old)' = Live(old)
    BY <1>1, <1>10 DEF Live
  <2>2. Live(old) = {}
    BY <1>1 DEF IInv, GrowInv, NoEntries, Live
  <2>3. Contents' = Contents
    <3>1. Held' = Held
      BY <1>10, <2>1, <2>2 DEF Held
    <3> QED BY <3>1, SameContents
  <2>4. ToVisit' = Ahead
    BY <1>1, <1>10, <2>1 DEF ToVisit
  <2> HIDE DEF Ahead, k
  <2>5. ToVisit' = ToVisit \ {k} /\ k \in ToVisit
    BY <1>8, <2>4
  <2> QED BY <1>1, <1>3, <1>9, <2>3, <2>5 DEF Dict!Visit, k
<1>11. CASE EraseEntry(next)
  <2>1. Live(slots') = Live(slots) \ {next}
    BY <1>1, <1>2, <1>11, Erased DEF IInv
  <2>2. Held' = {slots[j] : j \in Live(slots) \ {next}}
    BY <1>1, <1>2, <1>11, <2>1, HeldReplaced, VirginEntry DEF EraseEntry
  <2>3. Held' = {e \in Held : e.key \notin {k}}
    BY <2>2, <1>7, <1>9
  <2>4. Contents' = Dict!Without(Contents, {k})
    BY <2>3, ContentsWithout
  <2>5. ToVisit' = Ahead
    <3>1. ToVisit' = {slots'[i].key : i \in {j \in Live(slots') : j >= m}}
      BY <1>1 DEF ToVisit, Live
    <3>2. {j \in Live(slots') : j >= m} = {j \in Live(slots) : j >= m}
      BY <2>1, <1>4, <1>5
    <3>3. \A j \in Live(slots) \ {next} : slots'[j] = slots[j]
      BY <1>11 DEF EraseEntry, IInv, TypeOK, Live
    <3>4. \A j \in {x \in Live(slots) : x >= m} : slots'[j] = slots[j]
      BY <3>3, <1>4, <1>5
    <3> QED BY <3>1, <3>2, <3>4
  <2> HIDE DEF Ahead, k
  <2>6. ToVisit' = ToVisit \ {k} /\ k \in ToVisit
    BY <1>8, <2>5
  <2> QED BY <1>1, <1>3, <1>9, <2>4, <2>6 DEF Dict!Visit, k
<1> QED BY <1>1, <1>10, <1>11

LEMMA EndIterationImplements ==
  ASSUME IInv, IInv', EndIteration
  PROVE  Dict!EndIteration
<1>1. /\ job = "iterate" /\ next = capacity /\ job' = "idle"
      /\ UNCHANGED <<slots, capacity, count, old, pending, result>>
  BY DEF EndIteration
<1>2. ToVisit = {} /\ ToVisit' = {}
  <2>1. \A i \in Live(slots) : ~ (i >= next)
    BY <1>1 DEF IInv, TypeOK, Live
  <2> QED BY <1>1, <2>1 DEF ToVisit
<1>3. Contents' = Contents
  <2>1. Live(old) = {} /\ Live(old)' = {} /\ Live(slots)' = Live(slots)
    BY <1>1 DEF IInv, GrowInv, NoEntries, Live
  <2>2. Held' = Held
    BY <1>1, <2>1 DEF Held
  <2> QED BY <2>2, SameContents
<1>4. Setting' = Setting
  BY <1>1 DEF Setting
<1> QED BY <1>1, <1>2, <1>3, <1>4 DEF Dict!EndIteration

LEMMA DestroyImplements ==
  ASSUME IInv, IInv', Destroy
  PROVE  Dict!Destroy
<1>1. /\ job = "idle" /\ slots' = <<>>
      /\ UNCHANGED <<old, next, job, pending, result>>
  BY DEF Destroy, Idle, NoEntries
<1>2. Held' = {}
  <2>1. Live(old)' = {} /\ Live(slots)' = {}
    BY <1>1 DEF IInv, GrowInv, NoEntries, Live
  <2> QED BY <2>1 DEF Held
<1>3. Contents' = <<>>
  <2>1. Contents' = [k \in {e.key : e \in Held'} |-> Contents'[k]]
    BY GraphAfter
  <2>2. {e.key : e \in Held'} = {}
    BY <1>2
  <2> HIDE DEF Held
  <2>3. DOMAIN Contents' = {}
    BY <2>1, <2>2
  <2> QED BY <2>1, <2>2, <2>3
<1>4. Setting' = Setting /\ ToVisit' = ToVisit /\ Dict!Idle
  BY <1>1, AtRest DEF Setting, ToVisit
<1> QED BY <1>1, <1>3, <1>4 DEF Dict!Destroy

LEMMA StutterImplements ==
  ASSUME IInv, IInv', UNCHANGED vars
  PROVE  UNCHANGED Dict!vars
<1>1. Held' = Held /\ Setting' = Setting /\ ToVisit' = ToVisit
  BY DEF vars, Held, Live, Setting, ToVisit
<1> QED BY <1>1, SameContents DEF vars, Dict!vars

LEMMA StepImplements == IInv /\ IInv' /\ [Next]_vars => [Dict!Next]_(Dict!vars)
<1> SUFFICES ASSUME IInv, IInv', [Next]_vars PROVE [Dict!Next]_(Dict!vars)
  OBVIOUS
<1>1. ASSUME NEW k \in Key, Get(k) \/ Erase(k) PROVE Dict!Next
  BY <1>1, GetImplements, EraseImplements DEF Dict!Next
<1>2. ASSUME NEW k \in Key, NEW v \in Val, Set(k, v) \/ BeginSet(k, v)
      PROVE  Dict!Next
  BY <1>2, SetImplements, BeginSetImplements DEF Dict!Next
<1>3. CASE SkipEmpty \/ Move
  BY <1>3, SkipEmptyImplements, MoveImplements
<1>4. CASE EndSet
  <2>1. pending.key \in Key /\ pending.val \in Val
    BY <1>4 DEF EndSet, IInv, GrowInv, Pairs
  <2> QED BY <1>4, <2>1, EndSetImplements DEF Dict!Next
<1>5. CASE Visit
  BY <1>5, VisitImplements DEF Dict!Next
<1>6. CASE BeginIteration \/ EndIteration \/ Destroy
  BY <1>6, BeginIterationImplements, EndIterationImplements, DestroyImplements
     DEF Dict!Next
<1> QED BY <1>1, <1>2, <1>3, <1>4, <1>5, <1>6, StutterImplements DEF Next, Loops

\* The table gives what a dictionary would, for any hash: lookups, insertions
\* that make it grow while a collection erases keys, removals, and iterations
\* that erase as they go.
THEOREM TableIsDictionary == Spec => ImplementsDictionary
BY InitImplements, StepImplements, Invariance, PTL
   DEF Spec, ImplementsDictionary, Dict!Spec
=============================================================================
