------------------------------ MODULE HashMap ------------------------------
(***************************************************************************)
(* The hash table of tx-runtime/include/tx/hash_map.hxx: open addressing   *)
(* with linear probing, erased entries left as tombstones.  A search runs  *)
(* until it finds its key or an entry that was never used, so it is the    *)
(* load factor, counted with the tombstones, that makes it end.            *)
(*                                                                         *)
(* Growing is a loop that may be preceded by a garbage collection, which   *)
(* erases entries of the very table that grows (the interned strings); it  *)
(* is modelled one iteration at a time, and so is iterating over the table *)
(* while erasing entries (table_remove_white).                             *)
(***************************************************************************)
EXTENDS Integers, FiniteSets

CONSTANTS
  Key,              \* the keys, without EMPTY_KEY
  Val,              \* the values stored, which may be the two below
  EMPTY_KEY,
  EMPTY_VALUE,
  TOMBSTONE_VALUE,
  HashOf,           \* the hash of a key
  MIN_CAPACITY,     \* the first capacity of a table (8)
  Absent,           \* get() returns nullptr
  MaxCapacity       \* bound of the model: the table does not outgrow it

ASSUME KeysAssumption ==
  /\ EMPTY_KEY \notin Key
  /\ EMPTY_VALUE # TOMBSTONE_VALUE
  /\ HashOf \in [Key -> Nat]

ASSUME CapacitiesAssumption ==
  /\ MIN_CAPACITY \in Nat /\ MIN_CAPACITY >= 2
  /\ MaxCapacity \in Nat

VARIABLES
  slots,     \* the entries, from 0
  capacity,
  count,     \* the entries in use, tombstones included
  old,       \* while the table grows, the entries it had
  next,      \* the entry a loop has come to
  job,       \* "idle", "set" or "iterate"
  pending,   \* the entry to be set once the table has grown
  result     \* what the last operation returned

vars == <<slots, capacity, count, old, next, job, pending, result>>

-----------------------------------------------------------------------------
Entry(k, v) == [key |-> k, val |-> v]
Virgin == Entry(EMPTY_KEY, EMPTY_VALUE)
Tombstone == Entry(EMPTY_KEY, TOMBSTONE_VALUE)
IsEmpty(entry) == entry.key = EMPTY_KEY
IsTombstone(entry) == entry.val = TOMBSTONE_VALUE

NoEntries == <<>>
Virgins(n) == [i \in 0..(n - 1) |-> Virgin]

GrowByHalf(c) == IF c < MIN_CAPACITY THEN MIN_CAPACITY ELSE c + c \div 2  \* a mutant
GrowCapacity(c) == IF c < MIN_CAPACITY THEN MIN_CAPACITY ELSE 2 * c
MaxLoad(c) == (3 * c) \div 4

\* The entry a search for k looks at after d others.
Home(k) == HashOf[k] % capacity
Probe(k, d) ==
  IF Home(k) + d < capacity THEN Home(k) + d ELSE Home(k) + d - capacity

IsEnd(i) == IsEmpty(slots[i]) /\ ~IsTombstone(slots[i])
Stops(k, i) == IsEnd(i) \/ slots[i].key = k

\* How many entries it looks at before it ends.
SearchLength(k) ==
  CHOOSE d \in 0..(capacity - 1) :
    /\ Stops(k, Probe(k, d))
    /\ \A e \in 0..(d - 1) : ~Stops(k, Probe(k, e))

\* Mutant: the first tombstone is taken for the end of the bucket.
FindFree(k) ==
  Probe(k, CHOOSE d \in 0..(capacity - 1) :
             /\ IsEmpty(slots[Probe(k, d)]) \/ slots[Probe(k, d)].key = k
             /\ \A e \in 0..(d - 1) : /\ ~IsEmpty(slots[Probe(k, e)])
                                      /\ slots[Probe(k, e)].key # k)

\* find_entry(): the entry of k, else the first tombstone on the way, else
\* the end of the bucket.
FindEntry(k) ==
  LET found == Probe(k, SearchLength(k))
      free  == {d \in 0..(SearchLength(k) - 1) : IsEmpty(slots[Probe(k, d)])}
  IN  IF slots[found].key = k \/ free = {}
      THEN found
      ELSE Probe(k, CHOOSE d \in free : \A e \in free : d <= e)

-----------------------------------------------------------------------------
Init ==
  /\ slots = NoEntries
  /\ capacity = 0
  /\ count = 0
  /\ old = NoEntries
  /\ next = 0
  /\ job = "idle"
  /\ pending = NoEntries
  /\ result = Absent

Idle == job = "idle"

Get(k) ==
  /\ Idle
  /\ result' = IF count = 0 THEN Absent
               ELSE LET entry == slots[FindEntry(k)]
                    IN  IF IsEmpty(entry) THEN Absent ELSE entry.val
  /\ UNCHANGED <<slots, capacity, count, old, next, job, pending>>

\* Mutant: every new key counts, also in the place of a tombstone.
PlaceCountingAll(k, v) ==
  LET i == FindEntry(k)
  IN  /\ slots' = [slots EXCEPT ![i] = Entry(k, v)]
      /\ count' = IF IsEmpty(slots[i]) THEN count + 1 ELSE count
      /\ result' = IsEmpty(slots[i])

\* The rest of set(), once there is room.
Place(k, v) ==
  LET i == FindEntry(k)
  IN  /\ slots' = [slots EXCEPT ![i] = Entry(k, v)]
      /\ count' = IF IsEmpty(slots[i]) /\ ~IsTombstone(slots[i])
                  THEN count + 1 ELSE count
      /\ result' = IsEmpty(slots[i])

HasRoom == count + 1 <= MaxLoad(capacity)

Set(k, v) ==
  /\ Idle /\ HasRoom
  /\ Place(k, v)
  /\ UNCHANGED <<capacity, old, next, job, pending>>

\* The start of rehash_impl(): the memory is allocated, and the garbage that
\* the collection finds is erased, before the table is replaced.
BeginSet(k, v) ==
  /\ Idle /\ ~HasRoom
  /\ GrowCapacity(capacity) <= MaxCapacity
  /\ \E white \in SUBSET (Key \ {k}) :
       old' = [i \in DOMAIN slots |->
                 IF slots[i].key \in white THEN Tombstone ELSE slots[i]]
  /\ capacity' = GrowCapacity(capacity)
  /\ slots' = Virgins(GrowCapacity(capacity))
  /\ count' = 0
  /\ next' = 0
  /\ job' = "set"
  /\ pending' = Entry(k, v)
  /\ UNCHANGED result

Growing == job = "set" /\ next \in DOMAIN old

\* Mutant: the loop does not go on after an empty entry.
StayAtEmpty == Growing /\ IsEmpty(old[next]) /\ UNCHANGED vars

SkipEmpty ==
  /\ Growing
  /\ IsEmpty(old[next])
  /\ next' = next + 1
  /\ UNCHANGED <<slots, capacity, count, old, job, pending, result>>

Move ==
  /\ Growing
  /\ ~IsEmpty(old[next])
  /\ slots' = [slots EXCEPT ![FindEntry(old[next].key)] = old[next]]
  /\ count' = count + 1
  /\ next' = next + 1
  /\ UNCHANGED <<capacity, old, job, pending, result>>

EndSet ==
  /\ job = "set" /\ next \notin DOMAIN old
  /\ Place(pending.key, pending.val)
  /\ old' = NoEntries
  /\ next' = 0
  /\ job' = "idle"
  /\ pending' = NoEntries
  /\ UNCHANGED capacity

\* Mutants: no tombstone is left; the count goes down with the entry.
ClearEntry(i) ==
  /\ slots' = [slots EXCEPT ![i] = Virgin]
  /\ count' = count - 1

UncountEntry(i) ==
  /\ slots' = [slots EXCEPT ![i] = Tombstone]
  /\ count' = count - 1

EraseEntry(i) ==
  /\ slots' = [slots EXCEPT ![i] = Tombstone]
  /\ UNCHANGED count

Erase(k) ==
  /\ Idle
  /\ IF count = 0 \/ IsEmpty(slots[FindEntry(k)])
     THEN result' = FALSE /\ UNCHANGED <<slots, count>>
     ELSE result' = TRUE /\ EraseEntry(FindEntry(k))
  /\ UNCHANGED <<capacity, old, next, job, pending>>

\* The iterator at position i moves on to the first entry from there.
Advance(i) ==
  CHOOSE j \in i..capacity :
    /\ j < capacity => ~IsEmpty(slots[j])
    /\ \A e \in i..(j - 1) : IsEmpty(slots[e])

BeginIteration ==
  /\ Idle
  /\ job' = "iterate"
  /\ next' = Advance(0)
  /\ UNCHANGED <<slots, capacity, count, old, pending, result>>

\* The body of the loop may erase the entry it is given.
Visit ==
  /\ job = "iterate" /\ next < capacity
  /\ \/ UNCHANGED <<slots, count>>
     \/ EraseEntry(FindEntry(slots[next].key))
  /\ next' = Advance(next + 1)
  /\ UNCHANGED <<capacity, old, job, pending, result>>

EndIteration ==
  /\ job = "iterate" /\ next = capacity
  /\ job' = "idle"
  /\ next' = 0
  /\ UNCHANGED <<slots, capacity, count, old, pending, result>>

Destroy ==
  /\ Idle
  /\ slots' = NoEntries
  /\ capacity' = 0
  /\ count' = 0
  /\ UNCHANGED <<old, next, job, pending, result>>

\* The steps of the loops, which nothing interrupts.
Loops == SkipEmpty \/ Move \/ EndSet \/ Visit \/ EndIteration

Next ==
  \/ \E k \in Key : Get(k) \/ Erase(k)
  \/ \E k \in Key, v \in Val : Set(k, v) \/ BeginSet(k, v)
  \/ BeginIteration
  \/ Loops
  \/ Destroy

Spec == Init /\ [][Next]_vars

\* A loop that has begun is run to its end.
FairSpec == Spec /\ WF_vars(Loops)

-----------------------------------------------------------------------------
Entries == [key : Key, val : Val] \cup {Virgin, Tombstone}
Live(table) == {i \in DOMAIN table : ~IsEmpty(table[i])}

\* Type invariant; a capacity is a power of two, as masking the hash requires.
TypeOK ==
  /\ capacity \in Nat
  /\ capacity = 0 \/ \E e \in 0..capacity : capacity = MIN_CAPACITY * 2^e
  /\ slots \in [0..(capacity - 1) -> Entries]
  /\ count \in Nat
  /\ DOMAIN old \in {{}, 0..(capacity \div 2 - 1)}
  /\ \A i \in DOMAIN old : old[i] \in Entries
  /\ next \in Nat
  /\ job \in {"idle", "set", "iterate"}
  /\ pending = NoEntries \/ pending \in [key : Key, val : Val]
  /\ result \in Val \cup BOOLEAN \cup {Absent}

\* count is what the load factor is about: entries and tombstones.
CountExact == count = Cardinality({i \in DOMAIN slots : ~IsEnd(i)})

\* Every search ends, for some entry was never used; neither tombstones nor
\* an entry set without growing may use up the last one (the loop of
\* find_in_bucket_impl has no other way out).  The table grows by its count.
SearchEnds ==
  /\ CountExact
  /\ capacity > 0 => \E i \in 0..(capacity - 1) : IsEnd(i)

\* A search for a key that is in the table finds it: erasing others and moving
\* to a larger table leave no gap on its way, and no key is there twice.
EveryKeyFound == \A i \in Live(slots) : FindEntry(slots[i].key) = i

\* What has been started returns.
Returns == (job # "idle") ~> (job = "idle")

\* The table implements a dictionary.  Entries not yet moved still count.
KeyIn(table, k) == \E i \in Live(table) : table[i].key = k
ValueIn(table, k) ==
  table[CHOOSE i \in Live(table) : table[i].key = k].val
ToMove == [i \in {j \in DOMAIN old : j >= next} |-> old[i]]
Contents == [k \in {x \in Key : KeyIn(slots, x) \/ KeyIn(ToMove, x)} |->
               IF KeyIn(slots, k) THEN ValueIn(slots, k) ELSE ValueIn(ToMove, k)]

Setting == IF job = "set" THEN <<pending.key, pending.val>> ELSE <<>>
ToVisit == IF job = "iterate"
           THEN {slots[i].key : i \in {j \in Live(slots) : j >= next}}
           ELSE {}

Dict == INSTANCE Dictionary WITH
  map     <- Contents,
  pending <- Setting,
  busy    <- job = "iterate",
  todo    <- ToVisit

\* Lookups, insertions, removals and iterations give what a dictionary would.
ImplementsDictionary == Dict!Spec
=============================================================================
