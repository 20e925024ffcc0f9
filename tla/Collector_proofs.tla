-------------------------- MODULE Collector_proofs --------------------------
(***************************************************************************)
(* The proofs about the collector: whenever it runs, and however the       *)
(* program uses its objects, nothing that can be reached is freed, nothing *)
(* else is left, and the program cannot tell that it runs.                 *)
(***************************************************************************)
EXTENDS Collector, FiniteSetTheorems, SequenceTheorems, TLAPS

-----------------------------------------------------------------------------
(***************************************************************************)
(* What can be reached, and when that stays the same.                      *)
(***************************************************************************)
LEMMA ObjectKinds ==
  ASSUME NEW object \in Object
  PROVE  /\ object.type \in {"string", "function", "upvalue", "closure", "native"}
         /\ object.type = "string" <=> object \in Strings
         /\ object.type = "function" <=> object \in Functions
         /\ object.type = "upvalue" <=> object \in Upvalues
         /\ object.type = "closure" <=> object \in Closures
         /\ object.type = "native" <=> object \in Natives
BY DEF Object, Strings, Functions, Upvalues, Closures, Natives

LEMMA ReferencesAreAddresses ==
  ASSUME NEW object \in Object
  PROVE  References(object) \subseteq Address
<1>1. CASE object.type = "function"
  BY <1>1, ObjectKinds DEF References, Functions
<1>2. CASE object.type = "upvalue"
  BY <1>2, ObjectKinds DEF References, Upvalues
<1>3. CASE object.type = "closure"
  BY <1>3, ObjectKinds DEF References, Closures
<1>4. CASE object.type \in {"string", "native"}
  BY <1>4 DEF References
<1> QED BY <1>1, <1>2, <1>3, <1>4, ObjectKinds

LEMMA ObjectAt ==
  ASSUME NEW h, IsHeap(h), NEW a \in DOMAIN h
  PROVE  a \in Address /\ h[a] \in Object /\ References(h[a]) \subseteq Address
BY ReferencesAreAddresses DEF IsHeap

\* What can be reached is the least set that has the roots and is closed.
LEMMA ReachableIsClosed ==
  ASSUME NEW h, NEW from \in SUBSET Address, IsHeap(h)
  PROVE  /\ Reachable(h, from) \subseteq Address
         /\ from \subseteq Reachable(h, from)
         /\ ClosedUnder(h, Reachable(h, from))
<1>1. /\ Reachable(h, from) \subseteq Address
      /\ from \subseteq Reachable(h, from)
  BY DEF Reachable
<1>2. ASSUME NEW a \in Reachable(h, from) \cap DOMAIN h,
             NEW r \in References(h[a])
      PROVE  r \in Reachable(h, from)
  <2>1. r \in Address
    BY <1>2, ObjectAt
  <2>2. ASSUME NEW A \in SUBSET Address, from \subseteq A, ClosedUnder(h, A)
        PROVE  r \in A
    <3>1. a \in A
      BY <2>2, <1>2 DEF Reachable
    <3> QED BY <3>1, <2>2, <1>2 DEF ClosedUnder
  <2> QED BY <2>1, <2>2 DEF Reachable
<1> QED BY <1>1, <1>2 DEF ClosedUnder

LEMMA ReachableIsLeast ==
  ASSUME NEW h, NEW from, NEW A \in SUBSET Address,
         from \subseteq A, ClosedUnder(h, A)
  PROVE  Reachable(h, from) \subseteq A
BY DEF Reachable

LEMMA NothingReachable ==
  ASSUME NEW h
  PROVE  Reachable(h, {}) = {}
<1>1. ClosedUnder(h, {})
  BY DEF ClosedUnder
<1>2. Reachable(h, {}) \subseteq {}
  BY <1>1, ReachableIsLeast
<1> QED BY <1>2

\* From roots that can be reached no more can be reached.
LEMMA ReachableFromReachable ==
  ASSUME NEW h, IsHeap(h), NEW from \in SUBSET Address,
         NEW R \in SUBSET Reachable(h, from)
  PROVE  Reachable(h, R) \subseteq Reachable(h, from)
BY ReachableIsClosed, ReachableIsLeast

\* A heap in which all that can be reached is as it was.
LEMMA ReachableUnchanged ==
  ASSUME NEW h, NEW other, NEW from \in SUBSET Address,
         IsHeap(h), IsHeap(other),
         \A a \in Reachable(h, from) :
            /\ a \in DOMAIN h <=> a \in DOMAIN other
            /\ a \in DOMAIN h => other[a] = h[a]
  PROVE  Reachable(other, from) = Reachable(h, from)
<1> DEFINE R == Reachable(h, from)
           S == Reachable(other, from)
<1>1. /\ R \subseteq Address /\ from \subseteq R /\ ClosedUnder(h, R)
      /\ S \subseteq Address /\ from \subseteq S /\ ClosedUnder(other, S)
  BY ReachableIsClosed
<1>2. S \subseteq R
  <2>1. ClosedUnder(other, R)
    BY <1>1 DEF ClosedUnder
  <2> QED BY <1>1, <2>1, ReachableIsLeast
<1>3. R \subseteq S
  <2>1. ClosedUnder(h, S)
    BY <1>1, <1>2 DEF ClosedUnder
  <2> QED BY <1>1, <2>1, ReachableIsLeast
<1> QED BY <1>2, <1>3

LEMMA PartIsHeap ==
  ASSUME NEW h, IsHeap(h), NEW A
  PROVE  /\ IsHeap(Part(h, A))
         /\ DOMAIN Part(h, A) = A \cap DOMAIN h
         /\ \A a \in A \cap DOMAIN h : Part(h, A)[a] = h[a]
BY DEF IsHeap, Part

LEMMA PlaceIsHeap ==
  ASSUME NEW h, IsHeap(h), NEW a \in Address, NEW object \in Object
  PROVE  /\ IsHeap(Place(h, a, object))
         /\ DOMAIN Place(h, a, object) = DOMAIN h \cup {a}
         /\ Place(h, a, object)[a] = object
         /\ \A b \in DOMAIN h : b # a => Place(h, a, object)[b] = h[b]
<1>1. DOMAIN Place(h, a, object) = DOMAIN h \cup {a}
  BY DEF Place
<1>2. Place(h, a, object)[a] = object
  BY DEF Place
<1>3. \A b \in DOMAIN h : b # a => Place(h, a, object)[b] = h[b]
  BY DEF Place
<1>4. IsHeap(Place(h, a, object))
  BY DEF IsHeap, Place
<1> QED BY <1>1, <1>2, <1>3, <1>4

\* What can be reached, on its own, is a heap in which the same is reached.
LEMMA ReachableInPart ==
  ASSUME NEW h, IsHeap(h), NEW from \in SUBSET Address,
         NEW R \in SUBSET Reachable(h, from)
  PROVE  Reachable(Part(h, Reachable(h, from)), R) = Reachable(h, R)
<1>1. Reachable(h, R) \subseteq Reachable(h, from)
  BY ReachableFromReachable
<1>2. R \in SUBSET Address
  BY ReachableIsClosed
<1> DEFINE part == Part(h, Reachable(h, from))
<1>3. IsHeap(part)
  BY PartIsHeap
<1>4. ASSUME NEW a \in Reachable(h, R)
      PROVE  /\ a \in DOMAIN h <=> a \in DOMAIN part
             /\ a \in DOMAIN h => part[a] = h[a]
  <2>1. a \in Reachable(h, from)
    BY <1>1
  <2> QED BY <2>1, PartIsHeap
<1> HIDE DEF part
<1>5. Reachable(part, R) = Reachable(h, R)
  BY <1>2, <1>3, <1>4, ReachableUnchanged
<1> QED BY <1>5 DEF part

\* An object that refers to what can be reached makes nothing else reachable.
LEMMA ReachableAfterPlacing ==
  ASSUME NEW h, IsHeap(h), NEW from \in SUBSET Address,
         NEW a \in Address, NEW object \in Object,
         References(object) \subseteq Reachable(h, from) \cup {a},
         NEW others \in SUBSET (from \cup {a})
  PROVE  Reachable(Place(h, a, object), others)
           \subseteq Reachable(h, from) \cup {a}
<1> DEFINE A == Reachable(h, from) \cup {a}
<1>1. A \in SUBSET Address /\ others \subseteq A
  BY ReachableIsClosed
<1>0. /\ DOMAIN Place(h, a, object) = DOMAIN h \cup {a}
      /\ Place(h, a, object)[a] = object
      /\ \A b \in DOMAIN h : b # a => Place(h, a, object)[b] = h[b]
  <2>1. DOMAIN Place(h, a, object) = DOMAIN h \cup {a}
    BY DEF Place
  <2>2. Place(h, a, object)[a] = object
    BY DEF Place
  <2>3. \A b \in DOMAIN h : b # a => Place(h, a, object)[b] = h[b]
    BY DEF Place
  <2> QED BY <2>1, <2>2, <2>3
<1>2. ASSUME NEW b \in A \cap DOMAIN Place(h, a, object)
      PROVE  References(Place(h, a, object)[b]) \subseteq A
  <2>1. CASE b = a
    BY <1>0, <2>1
  <2>2. CASE b # a
    <3>1. b \in Reachable(h, from) /\ b \in DOMAIN h
      BY <1>0, <2>2
    <3>2. References(h[b]) \subseteq Reachable(h, from)
      BY <3>1, ReachableIsClosed DEF ClosedUnder
    <3> QED BY <1>0, <2>2, <3>1, <3>2
  <2> QED BY <2>1, <2>2
<1> HIDE DEF A
<1>3. Reachable(Place(h, a, object), others) \subseteq A
  <2>1. ClosedUnder(Place(h, a, object), A)
    BY <1>2 DEF ClosedUnder
  <2> QED BY <1>1, <2>1, ReachableIsLeast
<1> QED BY <1>3 DEF A

\* Writing an object does not make it unreachable.
LEMMA WrittenStaysReachable ==
  ASSUME NEW h, IsHeap(h), NEW from \in SUBSET Address,
         NEW a \in Reachable(h, from), NEW object \in Object
  PROVE  a \in Reachable(Place(h, a, object), from)
<1> DEFINE after == Place(h, a, object)
<1>1. a \in Address
  BY ReachableIsClosed
<1>0. /\ DOMAIN Place(h, a, object) = DOMAIN h \cup {a}
      /\ Place(h, a, object)[a] = object
      /\ \A b \in DOMAIN h : b # a => Place(h, a, object)[b] = h[b]
  BY <1>1, PlaceIsHeap
<1>2. ASSUME NEW A \in SUBSET Address, from \subseteq A, ClosedUnder(after, A),
             a \notin A
      PROVE  FALSE
  <2>1. ASSUME NEW b \in A \cap DOMAIN h
        PROVE  References(h[b]) \subseteq A
    <3>1. b # a
      BY <1>2
    <3>2. b \in DOMAIN after /\ after[b] = h[b]
      BY <1>0, <3>1
    <3> QED BY <1>2, <3>2 DEF ClosedUnder
  <2>2. ClosedUnder(h, A)
    BY <2>1 DEF ClosedUnder
  <2>3. Reachable(h, from) \subseteq A
    BY <1>2, <2>2, ReachableIsLeast
  <2> QED BY <1>2, <2>3
<1> QED BY <1>1, <1>2 DEF Reachable

\* With more roots no less can be reached.
LEMMA ReachableFromMore ==
  ASSUME NEW h, IsHeap(h), NEW more \in SUBSET Address, NEW from \in SUBSET more
  PROVE  Reachable(h, from) \subseteq Reachable(h, more)
<1>1. from \subseteq Reachable(h, more) /\ ClosedUnder(h, Reachable(h, more))
  BY ReachableIsClosed
<1>2. Reachable(h, more) \in SUBSET Address
  BY ReachableIsClosed
<1> QED BY <1>1, <1>2, ReachableIsLeast

\* An object becomes a root.
LEMMA ReachableAfterRooting ==
  ASSUME NEW h, IsHeap(h), NEW from \in SUBSET Address,
         NEW a \in DOMAIN h, References(h[a]) \subseteq Reachable(h, from)
  PROVE  Reachable(h, from \cup {a}) = Reachable(h, from) \cup {a}
<1> DEFINE R == Reachable(h, from)
           S == Reachable(h, from \cup {a})
<1>0. a \in Address
  BY DEF IsHeap
<1>1. R \subseteq Address /\ from \subseteq R /\ ClosedUnder(h, R)
  BY ReachableIsClosed
<1>2. from \cup {a} \subseteq S
  BY <1>0, ReachableIsClosed
<1>3. R \subseteq S
  BY <1>0, ReachableFromMore
<1>4. S \subseteq R \cup {a}
  <2>1. ClosedUnder(h, R \cup {a})
    BY <1>1 DEF ClosedUnder
  <2> QED BY <1>0, <1>1, <2>1, ReachableIsLeast
<1> QED BY <1>2, <1>3, <1>4

\* A new object, at an address not in use, becomes a root.
LEMMA ReachableAfterMaking ==
  ASSUME NEW h, IsHeap(h), NEW from \in SUBSET Address,
         NEW a \in Address \ DOMAIN h, NEW object \in Object,
         References(object) \subseteq Reachable(h, from)
  PROVE  Reachable(Place(h, a, object), from \cup {a})
           = Reachable(h, from) \cup {a}
<1> DEFINE after == Place(h, a, object)
           S == Reachable(after, from \cup {a})
<1>1. /\ IsHeap(after)
      /\ \A b \in DOMAIN h : b \in DOMAIN after /\ after[b] = h[b]
  <2>1. /\ IsHeap(after) /\ DOMAIN after = DOMAIN h \cup {a}
        /\ \A b \in DOMAIN h : b # a => after[b] = h[b]
    BY PlaceIsHeap
  <2> QED BY <2>1
<1>2. from \cup {a} \subseteq S /\ S \subseteq Address /\ ClosedUnder(after, S)
  BY <1>1, ReachableIsClosed
<1>3. S \subseteq Reachable(h, from) \cup {a}
  BY ReachableAfterPlacing
<1> HIDE DEF S
<1>4. ClosedUnder(h, S)
  BY <1>1, <1>2 DEF ClosedUnder
<1>5. Reachable(h, from) \subseteq S
  BY <1>2, <1>4, ReachableIsLeast
<1> QED BY <1>2, <1>3, <1>5 DEF S

\* An object stays well typed while what it refers to stays of its type.
LEMMA WellTypedThrough ==
  ASSUME NEW h, NEW other, NEW object \in Object, WellTyped(h, object),
         \A a \in References(object) \cap DOMAIN h :
            a \in DOMAIN other /\ other[a].type = h[a].type
  PROVE  WellTyped(other, object)
<1>1. \A a \in References(object) : \A type : IsA(h, a, type) => IsA(other, a, type)
  BY DEF IsA
<1>2. CASE object.type = "closure"
  <2>1. /\ References(object) = {object.function} \cup object.upvalues
        /\ IsA(h, object.function, "function")
        /\ \A u \in object.upvalues : IsA(h, u, "upvalue")
    BY <1>2 DEF References, WellTyped
  <2>2. /\ IsA(other, object.function, "function")
        /\ \A u \in object.upvalues : IsA(other, u, "upvalue")
    BY <1>1, <2>1
  <2> QED BY <1>2, <2>2 DEF WellTyped
<1>3. CASE object.type = "function"
  <2>1. /\ References(object) = ({object.name} \ {Null}) \cup object.constants
        /\ object.name # Null => IsA(h, object.name, "string")
        /\ \A c \in object.constants : IsA(h, c, "string") \/ IsA(h, c, "function")
    BY <1>3 DEF References, WellTyped
  <2>2. /\ object.name # Null => IsA(other, object.name, "string")
        /\ \A c \in object.constants : IsA(other, c, "string") \/ IsA(other, c, "function")
    BY <1>1, <2>1
  <2> QED BY <1>3, <2>2 DEF WellTyped
<1>4. CASE object.type = "upvalue"
  <2>1. /\ References(object) = {object.closed} \ {Null}
        /\ object.closed # Null => \E type \in {"string", "closure", "native"} :
                                     IsA(h, object.closed, type)
    BY <1>4 DEF References, WellTyped
  <2>2. object.closed # Null => \E type \in {"string", "closure", "native"} :
                                  IsA(other, object.closed, type)
    BY <1>1, <2>1
  <2> QED BY <1>4, <2>2 DEF WellTyped
<1>5. CASE object.type \in {"string", "native"}
  BY <1>5 DEF WellTyped
<1> QED BY <1>2, <1>3, <1>4, <1>5, ObjectKinds

-----------------------------------------------------------------------------

\* What sweep() has passed, and kept.
Swept == {objects[i] : i \in 1 .. at - 1}

(***************************************************************************)
(* What TypeOK, NothingDangles, StringsUnique and NoBlackToWhite need to   *)
(* be inductive.  While tracing, the tricolor invariant; while sweeping,   *)
(* what can be reached is what sweep() has kept and what is still marked,  *)
(* none of it twice, and the table has been cleared of everything else.    *)
(* Outside of it, sweep() has left its place in the list.                  *)
(***************************************************************************)
MarkInv ==
  /\ phase \in {"program", "destroy"} => marked = {} /\ gray = {}
  /\ phase \in {"trace", "table"} =>
       /\ roots \subseteq marked /\ marked \subseteq Live
       /\ \A a \in marked \ gray : References(heap[a]) \subseteq marked
  /\ phase \in {"table", "sweep"} => gray = {}

SweepInv ==
  /\ phase = "sweep" =>
       /\ marked \cup Swept = Live
       /\ marked \cap Swept = {}
       /\ strings \subseteq Live
  /\ phase # "sweep" => at = 1

DestroyInv == phase = "destroy" => roots = {} /\ strings = {}

IInv ==
  /\ TypeOK
  /\ NothingDangles
  /\ StringsUnique
  /\ MarkInv
  /\ SweepInv
  /\ DestroyInv

-----------------------------------------------------------------------------
(* The list of all objects. *)

Distinct(s) == \A i, j \in DOMAIN s : s[i] = s[j] => i = j

With(s, a) == <<a>> \o s

\* A new object at the head of the list.
LEMMA Linked ==
  ASSUME NEW D, NEW s \in Seq(D), Elements(s) = D, NEW a, a \notin D,
         Distinct(s)
  PROVE  /\ With(s, a) \in Seq(D \cup {a})
         /\ Elements(With(s, a)) = D \cup {a}
         /\ Distinct(With(s, a))
         /\ Len(With(s, a)) = Len(s) + 1
<1> DEFINE t == With(s, a)
<1>1. /\ Len(s) \in Nat /\ DOMAIN s = 1 .. Len(s)
      /\ \A i \in 1 .. Len(s) : s[i] \in D
  OBVIOUS
<1>2. /\ t \in Seq(D \cup {a})
      /\ Len(t) = Len(s) + 1
      /\ DOMAIN t = 1 .. Len(s) + 1
      /\ t[1] = a
      /\ \A i \in 1 .. Len(s) : t[i + 1] = s[i]
  BY DEF With
<1> HIDE DEF t
<1>3. \A i \in 2 .. Len(s) + 1 : i - 1 \in 1 .. Len(s) /\ t[i] = s[i - 1] /\ t[i] \in D
  <2>1. ASSUME NEW i \in 2 .. Len(s) + 1
        PROVE  i - 1 \in 1 .. Len(s) /\ t[i] = s[i - 1] /\ t[i] \in D
    <3>1. i - 1 \in 1 .. Len(s) /\ (i - 1) + 1 = i
      BY <1>1
    <3> QED BY <1>1, <1>2, <3>1
  <2> QED BY <2>1
<1>4. ASSUME NEW i \in DOMAIN t, NEW j \in DOMAIN t, t[i] = t[j] PROVE i = j
  <2>1. CASE i = 1 \/ j = 1
    BY <1>1, <1>2, <1>3, <1>4, <2>1
  <2>2. CASE i \in 2 .. Len(s) + 1 /\ j \in 2 .. Len(s) + 1
    <3>1. i - 1 = j - 1
      BY <1>1, <1>3, <1>4, <2>2 DEF Distinct
    <3> QED BY <1>1, <2>2, <3>1
  <2> QED BY <1>1, <1>2, <2>1, <2>2
<1>5. Elements(t) = D \cup {a}
  <2>1. Elements(t) \subseteq D \cup {a}
    BY <1>1, <1>2, <1>3 DEF Elements
  <2>2. a \in Elements(t)
    BY <1>1, <1>2 DEF Elements
  <2>3. ASSUME NEW d \in D PROVE d \in Elements(t)
    <3>1. PICK i \in 1 .. Len(s) : s[i] = d
      BY <1>1 DEF Elements
    <3>2. i + 1 \in DOMAIN t /\ t[i + 1] = d
      BY <1>1, <1>2, <3>1
    <3> QED BY <3>2 DEF Elements
  <2> QED BY <2>1, <2>2, <2>3
<1> QED BY <1>2, <1>4, <1>5 DEF t, Distinct

Without(s, n) == SubSeq(s, 1, n - 1) \o SubSeq(s, n + 1, Len(s))

\* One object unlinked.
LEMMA Unlinked ==
  ASSUME NEW D, NEW s \in Seq(D), Elements(s) = D, NEW n \in 1 .. Len(s),
         Distinct(s)
  PROVE  /\ Without(s, n) \in Seq(D \ {s[n]})
         /\ Elements(Without(s, n)) = D \ {s[n]}
         /\ Distinct(Without(s, n))
         /\ Len(Without(s, n)) = Len(s) - 1
<1>0. \A m, k \in Nat : m <= k => m + 1 <= k \/ k - m = 0
  OBVIOUS
<1> DEFINE t == Without(s, n)
           from(i) == IF i < n THEN i ELSE i + 1
<1>1. /\ Len(s) \in Nat /\ DOMAIN s = 1 .. Len(s)
      /\ \A i \in 1 .. Len(s) : s[i] \in D
  OBVIOUS
<1>2. /\ t \in Seq(D)
      /\ Len(t) = Len(s) - 1
      /\ \A i \in 1 .. Len(s) - 1 : t[i] = s[from(i)]
  <2> DEFINE u == SubSeq(s, 1, n - 1)
             v == SubSeq(s, n + 1, Len(s))
  <2>1. /\ u \in Seq(D) /\ Len(u) = n - 1
        /\ \A i \in 1 .. n - 1 : u[i] = s[i]
    BY <1>1, SubSeqProperties
  <2>2. /\ v \in Seq(D) /\ Len(v) = Len(s) - n
        /\ \A i \in 1 .. Len(s) - n : v[i] = s[n + i]
    <3>1. /\ v \in Seq(D)
          /\ Len(v) = IF n + 1 <= Len(s) THEN Len(s) - (n + 1) + 1 ELSE 0
          /\ \A i \in 1 .. Len(s) - (n + 1) + 1 : v[i] = s[(n + 1) + i - 1]
      <4>1. n + 1 \in Int /\ Len(s) \in Int
        BY <1>1
      <4>2. \A i \in n + 1 .. Len(s) : s[i] \in D
        BY <1>1
      <4> QED BY <4>1, <4>2, SubSeqProperties
    <3> HIDE DEF v
    <3>2. Len(s) - (n + 1) + 1 = Len(s) - n
      BY <1>1
    <3>3. Len(v) = Len(s) - n
      <4>1. n \in Nat /\ n <= Len(s)
        BY <1>1
      <4>2. CASE n + 1 <= Len(s)
        BY <1>1, <3>1, <3>2, <4>2
      <4>3. CASE ~ (n + 1 <= Len(s))
        <5>1. Len(s) - n = 0
          BY <1>0, <1>1, <4>1, <4>3
        <5> QED BY <3>1, <4>3, <5>1
      <4> QED BY <4>2, <4>3
    <3>4. ASSUME NEW i \in 1 .. Len(s) - n PROVE v[i] = s[n + i]
      <4>1. i \in 1 .. Len(s) - (n + 1) + 1 /\ (n + 1) + i - 1 = n + i
        BY <1>1
      <4>2. v[i] = s[(n + 1) + i - 1]
        BY <3>1, <4>1
      <4> QED BY <4>1, <4>2, Zenon
    <3> QED BY <3>1, <3>3, <3>4
  <2> HIDE DEF u, v
  <2>3. /\ u \o v \in Seq(D) /\ Len(u \o v) = Len(s) - 1
        /\ \A i \in 1 .. Len(s) - 1 :
             (u \o v)[i] = IF i < n THEN u[i] ELSE v[i - (n - 1)]
    <3>1. /\ u \o v \in Seq(D) /\ Len(u \o v) = Len(u) + Len(v)
          /\ \A i \in 1 .. Len(u) + Len(v) :
               (u \o v)[i] = IF i <= Len(u) THEN u[i] ELSE v[i - Len(u)]
      BY <2>1, <2>2, ConcatProperties
    <3>2. /\ Len(u) + Len(v) = Len(s) - 1
          /\ \A i \in 1 .. Len(s) - 1 : i <= n - 1 <=> i < n
      BY <1>1, <2>1, <2>2
    <3> QED BY <2>1, <3>1, <3>2
  <2>4. ASSUME NEW i \in 1 .. Len(s) - 1 PROVE (u \o v)[i] = s[from(i)]
    <3>1. CASE i < n
      BY <1>1, <2>1, <2>3, <3>1
    <3>2. CASE ~ (i < n)
      <4>1. i - (n - 1) \in 1 .. Len(s) - n /\ n + (i - (n - 1)) = i + 1
        BY <1>1, <3>2
      <4> QED BY <2>2, <2>3, <3>2, <4>1
    <3> QED BY <3>1, <3>2
  <2> QED BY <2>3, <2>4 DEF u, v, Without
<1> HIDE DEF t
<1>3. DOMAIN t = 1 .. Len(s) - 1
  BY <1>2
<1>4. \A i \in 1 .. Len(s) - 1 : from(i) \in 1 .. Len(s) /\ from(i) # n
  BY <1>1
<1>6. \A i, j \in 1 .. Len(s) - 1 : from(i) = from(j) => i = j
  BY <1>1
<1>7. \A i \in 1 .. Len(s) : i # n => \E j \in 1 .. Len(s) - 1 : from(j) = i
  <2>1. ASSUME NEW i \in 1 .. Len(s), i # n
        PROVE  \E j \in 1 .. Len(s) - 1 : from(j) = i
    <3>1. CASE i < n
      <4>1. i \in 1 .. Len(s) - 1 /\ from(i) = i
        BY <1>1, <3>1
      <4> QED BY <4>1
    <3>2. CASE i > n
      <4>1. i - 1 \in 1 .. Len(s) - 1 /\ from(i - 1) = i
        BY <1>1, <3>2
      <4> QED BY <4>1
    <3> QED BY <1>1, <2>1, <3>1, <3>2
  <2> QED BY <2>1
<1> HIDE DEF from
<1>9. Distinct(t)
  BY <1>1, <1>2, <1>3, <1>4, <1>6 DEF Distinct
<1>10. Elements(t) = D \ {s[n]}
  <2>1. ASSUME NEW i \in DOMAIN t PROVE t[i] \in D \ {s[n]}
    BY <1>1, <1>2, <1>3, <1>4 DEF Distinct
  <2>2. ASSUME NEW d \in D \ {s[n]} PROVE d \in Elements(t)
    <3>1. PICK i \in 1 .. Len(s) : s[i] = d
      BY <1>1 DEF Elements
    <3>2. PICK j \in 1 .. Len(s) - 1 : from(j) = i
      BY <1>7, <3>1, <2>2
    <3> QED BY <1>2, <1>3, <3>1, <3>2 DEF Elements
  <2> QED BY <2>1, <2>2 DEF Elements
<1>11. t \in Seq(D \ {s[n]})
  <2>1. \A i \in 1 .. Len(t) : t[i] \in D \ {s[n]}
    BY <1>2, <1>3, <1>10 DEF Elements
  <2> QED BY <1>2, <2>1
<1> QED BY <1>2, <1>9, <1>10, <1>11 DEF t

\* What comes before it stays where it is.
LEMMA UnlinkedBehind ==
  ASSUME NEW D, NEW s \in Seq(D), NEW n \in 1 .. Len(s), NEW i \in Nat, 1 <= i, i < n
  PROVE  Without(s, n)[i] = s[i]
<1> DEFINE u == SubSeq(s, 1, n - 1)
           v == SubSeq(s, n + 1, Len(s))
<1>1. /\ u \in Seq(D) /\ v \in Seq(D) /\ Len(u) = n - 1 /\ u[i] = s[i]
  OBVIOUS
<1> HIDE DEF u, v
<1>2. (u \o v)[i] = u[i]
  BY <1>1, ConcatProperties
<1> QED BY <1>1, <1>2 DEF Without, u, v

\* The head is unlinked.
LEMMA UnlinkedHead ==
  ASSUME NEW D, NEW s \in Seq(D), Elements(s) = D, s # <<>>,
         Distinct(s)
  PROVE  /\ Tail(s) \in Seq(D \ {Head(s)})
         /\ Elements(Tail(s)) = D \ {Head(s)}
         /\ Distinct(Tail(s))
<1>1. /\ Len(s) \in Nat /\ DOMAIN s = 1 .. Len(s) /\ 1 \in 1 .. Len(s)
      /\ Head(s) = s[1] /\ Tail(s) \in Seq(D)
      /\ Len(Tail(s)) = Len(s) - 1 /\ DOMAIN Tail(s) = 1 .. Len(s) - 1
      /\ \A i \in 1 .. Len(s) - 1 : Tail(s)[i] = s[i + 1]
  OBVIOUS
<1> DEFINE t == SubSeq(s, 1, 0) \o SubSeq(s, 2, Len(s))
<1>2. t = Tail(s)
  <2>1. t \in Seq(D) /\ Len(t) = Len(s) - 1
        /\ \A i \in 1 .. Len(s) - 1 : t[i] = s[i + 1]
    BY <1>1
  <2> HIDE DEF t
  <2> QED BY <1>1, <2>1
<1>3. PICK n \in 1 .. Len(s) : n = 1
  BY <1>1
<1>4. /\ t \in Seq(D \ {s[1]})
      /\ Elements(t) = D \ {s[1]}
      /\ Distinct(t)
  <2>1. n - 1 = 0 /\ n + 1 = 2
    BY <1>3
  <2>2. t = Without(s, n)
    BY <2>1, Zenon DEF Without
  <2> HIDE DEF t
  <2>3. /\ t \in Seq(D \ {s[n]})
        /\ Elements(t) = D \ {s[n]}
        /\ Distinct(t)
    BY <2>2, Unlinked
  <2> QED BY <1>3, <2>3
<1> QED BY <1>1, <1>2, <1>4
-----------------------------------------------------------------------------
(* What can be reached. *)

LEMMA LiveFacts ==
  ASSUME IInv
  PROVE  /\ roots \in SUBSET Address
         /\ roots \subseteq Live /\ Live \subseteq Address
         /\ Live \subseteq DOMAIN heap
         /\ \A a \in Live : /\ heap[a] \in Object
                            /\ References(heap[a]) \subseteq Live
                            /\ WellTyped(heap, heap[a])
<1>1. IsHeap(heap) /\ roots \in SUBSET Address
  BY DEF IInv, TypeOK, IsHeap
<1>2. roots \subseteq Live /\ Live \subseteq Address /\ ClosedUnder(heap, Live)
  BY <1>1, ReachableIsClosed DEF Live
<1>3. \A a \in Live : a \in DOMAIN heap /\ WellTyped(heap, heap[a])
  BY DEF IInv, NothingDangles
<1> QED BY <1>1, <1>2, <1>3 DEF ClosedUnder, IsHeap

\* What nobody has written is as well typed as it was.
LEMMA StillWellTyped ==
  ASSUME IInv, IsHeap(heap'), NEW object \in Object, WellTyped(heap, object),
         \A a \in References(object) : a \in DOMAIN heap' /\ heap'[a].type = heap[a].type
  PROVE  WellTyped(heap', object)
BY WellTypedThrough

-----------------------------------------------------------------------------
(* A new object. *)

Allocates(a, object) ==
  /\ Running
  /\ AllocateObject(a, object)
  /\ IF object.type = "string"
       THEN Interned(object.text) = {} /\ strings' = strings \cup {a}
       ELSE UNCHANGED strings

LEMMA AllocatedLive ==
  ASSUME IInv, NEW a, NEW object \in Object, Allocates(a, object),
         References(object) \subseteq Live, WellTyped(heap, object)
  PROVE  /\ a \in Address /\ a \notin DOMAIN heap
         /\ IsHeap(heap') /\ DOMAIN heap' = DOMAIN heap \cup {a}
         /\ heap'[a] = object
         /\ \A b \in DOMAIN heap : b # a /\ heap'[b] = heap[b]
         /\ roots' = roots \cup {a}
         /\ Live' = Live \cup {a}
<1>1. /\ a \in Address /\ a \notin DOMAIN heap /\ roots' = roots \cup {a}
      /\ heap' = Place(heap, a, object)
  BY DEF Allocates, AllocateObject
<1>2. IsHeap(heap) /\ roots \in SUBSET Address
  BY LiveFacts DEF IInv, TypeOK
<1>3. /\ IsHeap(heap') /\ DOMAIN heap' = DOMAIN heap \cup {a}
      /\ heap'[a] = object
      /\ \A b \in DOMAIN heap : b # a => heap'[b] = heap[b]
  <2> DEFINE after == Place(heap, a, object)
  <2>1. /\ IsHeap(after) /\ DOMAIN after = DOMAIN heap \cup {a}
        /\ after[a] = object
        /\ \A b \in DOMAIN heap : b # a => after[b] = heap[b]
    <3>1. IsHeap(heap) /\ a \in Address
      BY <1>1, <1>2
    <3> QED BY <3>1, PlaceIsHeap, Zenon
  <2>2. heap' = after
    BY <1>1
  <2> HIDE DEF after
  <2> QED BY <2>1, <2>2
<1>4. Reachable(Place(heap, a, object), roots \cup {a}) = Reachable(heap, roots) \cup {a}
  BY <1>1, <1>2, ReachableAfterMaking DEF Live
<1>5. Live' = Live \cup {a}
  BY <1>1, <1>4 DEF Live
<1> QED BY <1>1, <1>3, <1>5

LEMMA AllocatedType ==
  ASSUME IInv, NEW a, NEW object \in Object, Allocates(a, object),
         References(object) \subseteq Live, WellTyped(heap, object)
  PROVE  TypeOK'
<1>1. /\ a \notin DOMAIN heap
      /\ IsHeap(heap') /\ DOMAIN heap' = DOMAIN heap \cup {a}
      /\ roots' = roots \cup {a}
  BY AllocatedLive
<1>2. objects' = <<a>> \o objects
  BY DEF Allocates, AllocateObject
<1>3. /\ objects \in Seq(DOMAIN heap) /\ Elements(objects) = DOMAIN heap
      /\ Distinct(objects)
  BY DEF IInv, TypeOK, ListIsHeap, Distinct
<1>4. /\ objects' \in Seq(DOMAIN heap')
      /\ Elements(objects') = DOMAIN heap'
      /\ Distinct(objects')
      /\ Len(objects') = Len(objects) + 1
  <2> DEFINE t == With(objects, a)
  <2>1. /\ t \in Seq(DOMAIN heap \cup {a})
        /\ Elements(t) = DOMAIN heap \cup {a}
        /\ Distinct(t)
        /\ Len(t) = Len(objects) + 1
    BY <1>1, <1>3, Linked
  <2>2. objects' = t
    BY <1>2 DEF With
  <2> HIDE DEF t
  <2> QED BY <1>1, <2>1, <2>2
<1>5. ListIsHeap'
  BY <1>4 DEF ListIsHeap, Distinct, Elements
<1>6. strings' \subseteq strings \cup {a}
  BY DEF Allocates
<1>7. at' \in 1 .. Len(objects') + 1
  <2>1. at' = at /\ at \in 1 .. Len(objects) + 1 /\ Len(objects) \in Nat
    BY <1>3 DEF Allocates, Running, IInv, TypeOK
  <2> QED BY <2>1, <1>4
<1>8. marked' = marked /\ gray' = gray /\ phase' = phase
  BY DEF Allocates, Running
<1>9. /\ strings \subseteq DOMAIN heap /\ roots \subseteq DOMAIN heap
      /\ marked \subseteq DOMAIN heap /\ gray \subseteq marked /\ phase \in Phase
  BY DEF IInv, TypeOK
<1> QED BY <1>1, <1>4, <1>5, <1>6, <1>7, <1>8, <1>9 DEF TypeOK

LEMMA AllocatedSafe ==
  ASSUME IInv, NEW a, NEW object \in Object, Allocates(a, object),
         References(object) \subseteq Live, WellTyped(heap, object)
  PROVE  IInv'
<1>1. /\ a \in Address /\ a \notin DOMAIN heap
      /\ IsHeap(heap') /\ DOMAIN heap' = DOMAIN heap \cup {a}
      /\ heap'[a] = object
      /\ \A b \in DOMAIN heap : b # a /\ heap'[b] = heap[b]
      /\ Live' = Live \cup {a}
  BY AllocatedLive
<1>2. TypeOK'
  BY AllocatedType
<1>3. /\ phase = "program" /\ phase' = "program" /\ marked' = marked /\ gray' = gray
      /\ at' = at
  BY DEF Allocates, Running
<1>4. ASSUME NEW b \in Live' PROVE b \in DOMAIN heap' /\ WellTyped(heap', heap'[b])
  <2>1. PICK o \in Object : /\ o = heap'[b] /\ WellTyped(heap, o)
                           /\ References(o) \subseteq Live
    BY <1>1, LiveFacts
  <2>2. \A r \in References(o) : r \in DOMAIN heap' /\ heap'[r].type = heap[r].type
    BY <1>1, <2>1, LiveFacts
  <2>3. WellTyped(heap', o)
    BY <1>1, <2>1, <2>2, StillWellTyped
  <2>4. b \in DOMAIN heap'
    BY <1>1, LiveFacts
  <2> QED BY <2>1, <2>3, <2>4
<1>5. /\ strings' \subseteq strings \cup {a}
      /\ strings \subseteq strings'
      /\ a \in strings' => object.type = "string" /\ Interned(object.text) = {}
      /\ object.type = "string" => a \in strings'
  <2>1. strings \subseteq DOMAIN heap
    BY DEF IInv, TypeOK
  <2>2. CASE object.type = "string"
    BY <2>2 DEF Allocates
  <2>3. CASE object.type # "string"
    BY <1>1, <2>1, <2>3 DEF Allocates
  <2> QED BY <2>2, <2>3
<1>6. \A s \in strings : s \in DOMAIN heap /\ heap[s].type = "string"
  BY DEF IInv, NothingDangles, IsA
<1>7. NothingDangles'
  <2>1. ASSUME NEW s \in strings' PROVE s \in DOMAIN heap' /\ heap'[s].type = "string"
    BY <1>1, <1>5, <1>6
  <2>2. \A s \in strings' : IsA(heap', s, "string")
    BY <2>1 DEF IsA
  <2>3. \A b \in Live' : b \in DOMAIN heap' /\ WellTyped(heap', heap'[b])
    BY <1>4
  <2> QED BY <2>2, <2>3 DEF NothingDangles
<1>8. StringsUnique'
  <2>1. /\ \A b \in Live : heap[b].type = "string" => b \in strings
        /\ \A s, t \in strings : heap[s].text = heap[t].text => s = t
    BY <1>3 DEF IInv, StringsUnique
  <2>2. ASSUME NEW b \in Live', heap'[b].type = "string" PROVE b \in strings'
    BY <1>1, <1>5, <2>1, <2>2, LiveFacts
  <2>3. ASSUME NEW s \in strings', NEW u \in strings', heap'[s].text = heap'[u].text
        PROVE  s = u
    <3>1. CASE s \in strings /\ u \in strings
      BY <1>1, <1>6, <2>1, <2>3, <3>1
    <3>2. CASE s = a /\ u \in strings
      BY <1>1, <1>5, <1>6, <2>3, <3>2 DEF Interned
    <3>3. CASE s \in strings /\ u = a
      BY <1>1, <1>5, <1>6, <2>3, <3>3 DEF Interned
    <3> QED BY <1>5, <3>1, <3>2, <3>3
  <2> QED BY <2>2, <2>3 DEF StringsUnique
<1>9. MarkInv' /\ SweepInv' /\ DestroyInv'
  <2>1. marked = {} /\ gray = {} /\ at = 1
    BY <1>3 DEF IInv, MarkInv, SweepInv
  <2> QED BY <1>3, <2>1 DEF MarkInv, SweepInv, DestroyInv
<1> QED BY <1>2, <1>7, <1>8, <1>9 DEF IInv

\* What the operations of the program allocate.
LEMMA MakeAllocates ==
  ASSUME IInv, NEW a, NEW object, object.type # "string",
         Running, AllocateObject(a, object), UNCHANGED strings
  PROVE  Allocates(a, object)
BY DEF Allocates

Makes(a, object) ==
  /\ object \in Object /\ Allocates(a, object)
  /\ References(object) \subseteq Live /\ WellTyped(heap, object)

LEMMA MakeStringMakes ==
  ASSUME IInv, NEW a, NEW t \in Text, MakeString(a, t)
  PROVE  Makes(a, [type |-> "string", text |-> t])
<1> DEFINE object == [type |-> "string", text |-> t]
<1>1. object \in Object /\ object.type = "string" /\ object.text = t
  BY DEF Object, Strings
<1> HIDE DEF object
<1>2. References(object) = {} /\ WellTyped(heap, object)
  BY <1>1 DEF References, WellTyped
<1>3. /\ Running /\ AllocateObject(a, object)
      /\ Interned(t) = {} /\ strings' = strings \cup {a}
  BY DEF MakeString, object
<1>4. Allocates(a, object)
  BY <1>1, <1>3 DEF Allocates
<1>5. Makes(a, object)
  BY <1>1, <1>2, <1>4 DEF Makes
<1> QED BY <1>5 DEF object

LEMMA MakeFunctionMakes ==
  ASSUME IInv, NEW a, MakeFunction(a)
  PROVE  Makes(a, [type |-> "function", name |-> Null, constants |-> {}])
<1> DEFINE object == [type |-> "function", name |-> Null, constants |-> {}]
<1>1. /\ object \in Object /\ object.type = "function"
      /\ object.name = Null /\ object.constants = {}
  BY DEF Object, Functions
<1> HIDE DEF object
<1>2. References(object) = {} /\ WellTyped(heap, object)
  BY <1>1 DEF References, WellTyped
<1>3. Running /\ AllocateObject(a, object) /\ UNCHANGED strings
  BY DEF MakeFunction, object
<1>4. Makes(a, object)
  BY <1>1, <1>2, <1>3, MakeAllocates DEF Makes
<1> QED BY <1>4 DEF object

LEMMA MakeUpvalueMakes ==
  ASSUME IInv, NEW a, MakeUpvalue(a)
  PROVE  Makes(a, [type |-> "upvalue", closed |-> Null])
<1> DEFINE object == [type |-> "upvalue", closed |-> Null]
<1>1. object \in Object /\ object.type = "upvalue" /\ object.closed = Null
  BY DEF Object, Upvalues
<1> HIDE DEF object
<1>2. References(object) = {} /\ WellTyped(heap, object)
  BY <1>1 DEF References, WellTyped
<1>3. Running /\ AllocateObject(a, object) /\ UNCHANGED strings
  BY DEF MakeUpvalue, object
<1>4. Makes(a, object)
  BY <1>1, <1>2, <1>3, MakeAllocates DEF Makes
<1> QED BY <1>4 DEF object

LEMMA MakeNativeMakes ==
  ASSUME IInv, NEW a, MakeNative(a)
  PROVE  Makes(a, [type |-> "native"])
<1> DEFINE object == [type |-> "native"]
<1>1. object \in Object /\ object.type = "native"
  BY DEF Object, Natives
<1> HIDE DEF object
<1>2. References(object) = {} /\ WellTyped(heap, object)
  BY <1>1 DEF References, WellTyped
<1>3. Running /\ AllocateObject(a, object) /\ UNCHANGED strings
  BY DEF MakeNative, object
<1>4. Makes(a, object)
  BY <1>1, <1>2, <1>3, MakeAllocates DEF Makes
<1> QED BY <1>4 DEF object

LEMMA MakeClosureMakes ==
  ASSUME IInv, NEW a, NEW f \in Address, MakeClosure(a, f)
  PROVE  Makes(a, [type |-> "closure", function |-> f, upvalues |-> {}])
<1> DEFINE object == [type |-> "closure", function |-> f, upvalues |-> {}]
<1>1. /\ object \in Object /\ object.type = "closure"
      /\ object.function = f /\ object.upvalues = {}
  BY DEF Object, Closures
<1> HIDE DEF object
<1>2. /\ Running /\ AllocateObject(a, object) /\ UNCHANGED strings
      /\ IsA(heap, f, "function") /\ f \in Live
  BY DEF MakeClosure, object
<1>3. References(object) \subseteq Live /\ WellTyped(heap, object)
  BY <1>1, <1>2 DEF References, WellTyped
<1>4. Makes(a, object)
  BY <1>1, <1>2, <1>3, MakeAllocates DEF Makes
<1> QED BY <1>4 DEF object

-----------------------------------------------------------------------------
(* A field is written. *)

Writes(a, object) ==
  /\ Write(a, object)
  /\ a \in Live /\ object \in Object
  /\ object.type = heap[a].type /\ object.type # "string"
  /\ References(object) \subseteq Live /\ WellTyped(heap, object)

LEMMA WrittenLive ==
  ASSUME IInv, NEW a, NEW object, Writes(a, object)
  PROVE  /\ a \in DOMAIN heap /\ a \in Live'
         /\ IsHeap(heap') /\ DOMAIN heap' = DOMAIN heap
         /\ heap'[a] = object
         /\ \A b \in DOMAIN heap : b # a => heap'[b] = heap[b]
         /\ \A b \in DOMAIN heap : heap'[b].type = heap[b].type
         /\ Live' \subseteq Live
<1>1. /\ heap' = Place(heap, a, object) /\ roots' = roots /\ a \in Live
      /\ object \in Object /\ object.type = heap[a].type
      /\ References(object) \subseteq Live
  BY DEF Writes, Write
<1>2. IsHeap(heap) /\ roots \in SUBSET Address /\ a \in DOMAIN heap /\ a \in Address
  BY <1>1, LiveFacts DEF IInv, TypeOK
<1>3. /\ IsHeap(heap') /\ DOMAIN heap' = DOMAIN heap
      /\ heap'[a] = object
      /\ \A b \in DOMAIN heap : b # a => heap'[b] = heap[b]
  <2> DEFINE after == Place(heap, a, object)
  <2>1. /\ IsHeap(after) /\ DOMAIN after = DOMAIN heap \cup {a}
        /\ after[a] = object
        /\ \A b \in DOMAIN heap : b # a => after[b] = heap[b]
    <3>1. IsHeap(heap) /\ a \in Address /\ object \in Object
      BY <1>1, <1>2
    <3> QED BY <3>1, PlaceIsHeap, Zenon
  <2>2. heap' = after
    BY <1>1
  <2> HIDE DEF after
  <2> QED BY <1>2, <2>1, <2>2
<1>4. Live' \subseteq Live
  <2>1. Reachable(Place(heap, a, object), roots) \subseteq Reachable(heap, roots) \cup {a}
    <3>1. References(object) \subseteq Reachable(heap, roots) \cup {a}
      BY <1>1 DEF Live
    <3> QED BY <1>1, <1>2, <3>1, ReachableAfterPlacing
  <2> QED BY <1>1, <2>1 DEF Live
<1>5. a \in Live'
  <2>1. a \in Reachable(Place(heap, a, object), roots)
    BY <1>1, <1>2, WrittenStaysReachable DEF Live
  <2> QED BY <1>1, <2>1 DEF Live
<1> QED BY <1>1, <1>2, <1>3, <1>4, <1>5

LEMMA WrittenSafe ==
  ASSUME IInv, NEW a, NEW object, Writes(a, object)
  PROVE  IInv'
<1>1. /\ a \in DOMAIN heap
      /\ IsHeap(heap') /\ DOMAIN heap' = DOMAIN heap
      /\ heap'[a] = object
      /\ \A b \in DOMAIN heap : b # a => heap'[b] = heap[b]
      /\ \A b \in DOMAIN heap : heap'[b].type = heap[b].type
      /\ Live' \subseteq Live
  BY WrittenLive
<1>2. /\ object \in Object /\ object.type # "string"
      /\ References(object) \subseteq Live /\ WellTyped(heap, object)
  BY DEF Writes
<1>3. /\ phase = "program" /\ phase' = phase /\ marked' = marked /\ gray' = gray
      /\ at' = at /\ objects' = objects /\ strings' = strings /\ roots' = roots
  BY DEF Writes, Write, Running
<1>4. TypeOK'
  BY <1>1, <1>3 DEF IInv, TypeOK, ListIsHeap, Distinct
<1>5. ASSUME NEW b \in Live' PROVE b \in DOMAIN heap' /\ WellTyped(heap', heap'[b])
  <2>1. PICK o \in Object : /\ o = heap'[b] /\ WellTyped(heap, o)
                           /\ References(o) \subseteq Live
    <3>1. CASE b = a
      BY <1>1, <1>2, <3>1
    <3>2. CASE b # a
      BY <1>1, <3>2, LiveFacts
    <3> QED BY <3>1, <3>2
  <2>2. \A r \in References(o) : r \in DOMAIN heap' /\ heap'[r].type = heap[r].type
    BY <1>1, <2>1, LiveFacts
  <2>3. WellTyped(heap', o)
    BY <1>1, <2>1, <2>2, StillWellTyped
  <2>4. b \in DOMAIN heap'
    BY <1>1, LiveFacts
  <2> QED BY <2>1, <2>3, <2>4
<1>6. \A s \in strings : s \in DOMAIN heap /\ heap[s].type = "string"
  BY DEF IInv, NothingDangles, IsA
<1>7. heap[a].type # "string"
  BY DEF Writes
<1>8. NothingDangles'
  <2>1. \A s \in strings' : IsA(heap', s, "string")
    BY <1>1, <1>3, <1>6 DEF IsA
  <2>2. \A b \in Live' : b \in DOMAIN heap' /\ WellTyped(heap', heap'[b])
    BY <1>5
  <2> QED BY <2>1, <2>2 DEF NothingDangles
<1>9. StringsUnique'
  <2>1. /\ \A b \in Live : heap[b].type = "string" => b \in strings
        /\ \A s, t \in strings : heap[s].text = heap[t].text => s = t
    BY <1>3 DEF IInv, StringsUnique
  <2>2. \A b \in Live' : heap'[b].type = "string" => b \in strings'
    BY <1>1, <1>3, <2>1, LiveFacts
  <2>3. \A s \in strings : heap'[s] = heap[s]
    BY <1>1, <1>6, <1>7
  <2>4. \A s, t \in strings' : heap'[s].text = heap'[t].text => s = t
    BY <1>3, <2>1, <2>3
  <2> QED BY <2>2, <2>4 DEF StringsUnique
<1>10. MarkInv' /\ SweepInv' /\ DestroyInv'
  <2>1. marked = {} /\ gray = {} /\ at = 1
    BY <1>3 DEF IInv, MarkInv, SweepInv
  <2> QED BY <1>3, <2>1 DEF MarkInv, SweepInv, DestroyInv
<1> QED BY <1>4, <1>8, <1>9, <1>10 DEF IInv

\* What the operations of the program write.
LEMMA NameFunctionWrites ==
  ASSUME IInv, NEW f \in Address, NEW s \in Address, NameFunction(f, s)
  PROVE  Writes(f, [heap[f] EXCEPT !.name = s])
<1> DEFINE object == [heap[f] EXCEPT !.name = s]
<1>1. /\ f \in Live /\ s \in Live
      /\ heap[f].type = "function" /\ IsA(heap, s, "string")
      /\ Write(f, object)
  BY DEF NameFunction, IsA
<1>2. heap[f] \in Functions /\ WellTyped(heap, heap[f]) /\ References(heap[f]) \subseteq Live
  BY <1>1, LiveFacts, ObjectKinds
<1>3. /\ object \in Object /\ object.type = "function"
      /\ object.name = s /\ object.constants = heap[f].constants
  BY <1>2 DEF Object, Functions
<1> HIDE DEF object
<1>4. /\ heap[f].constants \subseteq Live
      /\ \A c \in heap[f].constants : IsA(heap, c, "string") \/ IsA(heap, c, "function")
  BY <1>1, <1>2 DEF References, WellTyped
<1>5. References(object) \subseteq Live /\ WellTyped(heap, object)
  BY <1>1, <1>3, <1>4 DEF References, WellTyped
<1>6. Writes(f, object)
  BY <1>1, <1>3, <1>5 DEF Writes
<1> QED BY <1>6 DEF object

LEMMA AddConstantWrites ==
  ASSUME IInv, NEW f \in Address, NEW c \in Address, AddConstant(f, c)
  PROVE  Writes(f, [heap[f] EXCEPT !.constants = @ \cup {c}])
<1> DEFINE object == [heap[f] EXCEPT !.constants = @ \cup {c}]
<1>1. /\ f \in Live /\ c \in Live
      /\ heap[f].type = "function"
      /\ IsA(heap, c, "string") \/ IsA(heap, c, "function")
      /\ Write(f, object)
  BY DEF AddConstant, IsA
<1>2. heap[f] \in Functions /\ WellTyped(heap, heap[f]) /\ References(heap[f]) \subseteq Live
  BY <1>1, LiveFacts, ObjectKinds
<1>3. /\ object \in Object /\ object.type = "function"
      /\ object.name = heap[f].name /\ object.constants = heap[f].constants \cup {c}
  BY <1>2 DEF Object, Functions
<1> HIDE DEF object
<1>4. /\ heap[f].constants \subseteq Live
      /\ \A d \in heap[f].constants : IsA(heap, d, "string") \/ IsA(heap, d, "function")
      /\ heap[f].name # Null => IsA(heap, heap[f].name, "string")
      /\ {heap[f].name} \ {Null} \subseteq Live
  BY <1>1, <1>2 DEF References, WellTyped
<1>5. References(object) \subseteq Live /\ WellTyped(heap, object)
  BY <1>1, <1>3, <1>4 DEF References, WellTyped
<1>6. Writes(f, object)
  BY <1>1, <1>3, <1>5 DEF Writes
<1> QED BY <1>6 DEF object

LEMMA CaptureWrites ==
  ASSUME IInv, NEW c \in Address, NEW u \in Address, Capture(c, u)
  PROVE  Writes(c, [heap[c] EXCEPT !.upvalues = @ \cup {u}])
<1> DEFINE object == [heap[c] EXCEPT !.upvalues = @ \cup {u}]
<1>1. /\ c \in Live /\ u \in Live
      /\ heap[c].type = "closure" /\ IsA(heap, u, "upvalue")
      /\ Write(c, object)
  BY DEF Capture, IsA
<1>2. heap[c] \in Closures /\ WellTyped(heap, heap[c]) /\ References(heap[c]) \subseteq Live
  BY <1>1, LiveFacts, ObjectKinds
<1>3. /\ object \in Object /\ object.type = "closure"
      /\ object.function = heap[c].function /\ object.upvalues = heap[c].upvalues \cup {u}
  BY <1>2 DEF Object, Closures
<1> HIDE DEF object
<1>4. /\ heap[c].function \in Live /\ heap[c].upvalues \subseteq Live
      /\ IsA(heap, heap[c].function, "function")
      /\ \A v \in heap[c].upvalues : IsA(heap, v, "upvalue")
  BY <1>1, <1>2 DEF References, WellTyped
<1>5. References(object) \subseteq Live /\ WellTyped(heap, object)
  BY <1>1, <1>3, <1>4 DEF References, WellTyped
<1>6. Writes(c, object)
  BY <1>1, <1>3, <1>5 DEF Writes
<1> QED BY <1>6 DEF object

LEMMA SetClosedWrites ==
  ASSUME IInv, NEW u \in Address, NEW v \in Address \cup {Null}, SetClosed(u, v)
  PROVE  Writes(u, [heap[u] EXCEPT !.closed = v])
<1> DEFINE object == [heap[u] EXCEPT !.closed = v]
<1>1. /\ u \in Live /\ {v} \ {Null} \subseteq Live
      /\ heap[u].type = "upvalue"
      /\ v # Null => \E type \in {"string", "closure", "native"} : IsA(heap, v, type)
      /\ Write(u, object)
  <2>1. u # Null
    BY AddressAssumption
  <2> QED BY <2>1 DEF SetClosed, IsA
<1>2. heap[u] \in Upvalues
  BY <1>1, LiveFacts, ObjectKinds
<1>3. object \in Object /\ object.type = "upvalue" /\ object.closed = v
  BY <1>2 DEF Object, Upvalues
<1> HIDE DEF object
<1>4. References(object) \subseteq Live /\ WellTyped(heap, object)
  BY <1>1, <1>3 DEF References, WellTyped
<1>5. Writes(u, object)
  BY <1>1, <1>3, <1>4 DEF Writes
<1> QED BY <1>5 DEF object

-----------------------------------------------------------------------------
(* The roots change, and nothing else. *)

\* Steps of the program after which the same can be reached, and no more than a
\* string of the table that could not.
LEMMA RootedSafe ==
  ASSUME IInv, Running, UNCHANGED <<heap, objects, strings>>,
         roots' \subseteq DOMAIN heap, Live' \subseteq Live \cup strings
  PROVE  IInv'
<1>1. /\ phase = "program" /\ phase' = phase /\ marked' = marked /\ gray' = gray
      /\ at' = at /\ objects' = objects /\ strings' = strings /\ heap' = heap
  BY DEF Running
<1>2. TypeOK'
  BY <1>1 DEF IInv, TypeOK, ListIsHeap, Distinct
<1>3. \A s \in strings : s \in DOMAIN heap /\ heap[s].type = "string"
  BY DEF IInv, NothingDangles, IsA
<1>4. NothingDangles'
  <2>1. ASSUME NEW b \in Live' PROVE b \in DOMAIN heap /\ WellTyped(heap, heap[b])
    <3>1. CASE b \in Live
      BY <3>1, LiveFacts
    <3>2. CASE b \in strings
      BY <1>3, <3>2 DEF WellTyped
    <3> QED BY <3>1, <3>2
  <2>2. \A s \in strings : IsA(heap, s, "string")
    BY DEF IInv, NothingDangles
  <2> QED BY <1>1, <2>1, <2>2 DEF NothingDangles
<1>5. StringsUnique'
  <2>1. /\ \A b \in Live : heap[b].type = "string" => b \in strings
        /\ \A s, t \in strings : heap[s].text = heap[t].text => s = t
    BY <1>1 DEF IInv, StringsUnique
  <2>2. \A b \in Live' : heap[b].type = "string" => b \in strings
    BY <2>1
  <2> QED BY <1>1, <2>1, <2>2 DEF StringsUnique
<1>6. MarkInv' /\ SweepInv' /\ DestroyInv'
  <2>1. marked = {} /\ gray = {} /\ at = 1
    BY <1>1 DEF IInv, MarkInv, SweepInv
  <2> QED BY <1>1, <2>1 DEF MarkInv, SweepInv, DestroyInv
<1> QED BY <1>2, <1>4, <1>5, <1>6 DEF IInv

LEMMA KeptLive ==
  ASSUME IInv, NEW a, Keep(a)
  PROVE  Live' = Live /\ roots' \subseteq Live
<1>1. heap' = heap /\ roots' = roots \cup {a} /\ a \in Live /\ roots \in SUBSET Address
  BY LiveFacts DEF Keep
<1>2. roots' \subseteq Live /\ roots' \in SUBSET Address /\ roots \subseteq roots'
  BY <1>1, LiveFacts
<1>3. IsHeap(heap)
  BY DEF IInv, TypeOK
<1>4. Reachable(heap, roots') \subseteq Reachable(heap, roots)
  BY <1>1, <1>2, <1>3, ReachableFromReachable DEF Live
<1>5. Reachable(heap, roots) \subseteq Reachable(heap, roots')
  BY <1>2, <1>3, ReachableFromMore
<1>6. Live' = Reachable(heap, roots')
  BY <1>1 DEF Live
<1> QED BY <1>2, <1>4, <1>5, <1>6 DEF Live

LEMMA DroppedLive ==
  ASSUME IInv, NEW a, Drop(a)
  PROVE  Live' \subseteq Live /\ roots' \subseteq roots
<1>1. heap' = heap /\ roots' = roots \ {a} /\ roots \in SUBSET Address
  BY LiveFacts DEF Drop
<1>2. IsHeap(heap)
  BY DEF IInv, TypeOK
<1>3. Reachable(heap, roots \ {a}) \subseteq Reachable(heap, roots)
  BY <1>1, <1>2, ReachableFromMore
<1> QED BY <1>1, <1>3 DEF Live

LEMMA FoundLive ==
  ASSUME IInv, NEW t, FindString(t)
  PROVE  \E s \in strings : /\ s \in DOMAIN heap /\ heap[s].type = "string"
                            /\ roots' = roots \cup {s}
                            /\ Live' = Live \cup {s}
                            /\ References(heap[s]) = {}
<1>1. PICK s \in Interned(t) : roots' = roots \cup {s}
  BY DEF FindString
<1>2. s \in strings /\ s \in DOMAIN heap /\ heap[s].type = "string"
  BY <1>1 DEF IInv, NothingDangles, IsA, Interned
<1>3. References(heap[s]) = {}
  BY <1>2 DEF References
<1>4. Reachable(heap, roots \cup {s}) = Reachable(heap, roots) \cup {s}
  <2>1. IsHeap(heap) /\ roots \in SUBSET Address /\ References(heap[s]) \subseteq Live
    BY <1>3, LiveFacts DEF IInv, TypeOK
  <2> QED BY <1>2, <2>1, ReachableAfterRooting DEF Live
<1>5. heap' = heap
  BY DEF FindString
<1> QED BY <1>1, <1>2, <1>3, <1>4, <1>5 DEF Live

\* The steps of the program keep the invariant.
LEMMA ProgramSafe ==
  ASSUME IInv, Program
  PROVE  IInv'
<1>0. roots \subseteq DOMAIN heap /\ Live \subseteq DOMAIN heap /\ strings \subseteq DOMAIN heap
  BY LiveFacts DEF IInv, TypeOK
<1>1. ASSUME NEW t \in Text, FindString(t) PROVE IInv'
  <2>1. Running /\ UNCHANGED <<heap, objects, strings>>
    BY <1>1 DEF FindString
  <2>2. roots' \subseteq DOMAIN heap /\ Live' \subseteq Live \cup strings
    BY <1>0, <1>1, FoundLive
  <2> QED BY <2>1, <2>2, RootedSafe
<1>2. ASSUME NEW a, NEW object, Makes(a, object) PROVE IInv'
  BY <1>2, AllocatedSafe DEF Makes
<1>3. ASSUME NEW a, NEW object, Writes(a, object) PROVE IInv'
  BY <1>3, WrittenSafe
<1>4. ASSUME NEW a \in Address, Keep(a) PROVE IInv'
  <2>1. Running /\ UNCHANGED <<heap, objects, strings>>
    BY <1>4 DEF Keep
  <2>2. roots' \subseteq DOMAIN heap /\ Live' \subseteq Live \cup strings
    BY <1>0, <1>4, KeptLive
  <2> QED BY <2>1, <2>2, RootedSafe
<1>5. ASSUME NEW a \in Address, Drop(a) PROVE IInv'
  <2>1. Running /\ UNCHANGED <<heap, objects, strings>>
    BY <1>5 DEF Drop
  <2>2. roots' \subseteq DOMAIN heap /\ Live' \subseteq Live \cup strings
    BY <1>0, <1>5, DroppedLive
  <2> QED BY <2>1, <2>2, RootedSafe
<1>6. ASSUME NEW a \in Address, NEW t \in Text, MakeString(a, t) PROVE IInv'
  BY <1>2, <1>6, MakeStringMakes
<1>7. ASSUME NEW a \in Address, MakeFunction(a) PROVE IInv'
  BY <1>2, <1>7, MakeFunctionMakes
<1>8. ASSUME NEW a \in Address, MakeUpvalue(a) PROVE IInv'
  BY <1>2, <1>8, MakeUpvalueMakes
<1>9. ASSUME NEW a \in Address, MakeNative(a) PROVE IInv'
  BY <1>2, <1>9, MakeNativeMakes
<1>10. ASSUME NEW a \in Address, NEW b \in Address, MakeClosure(a, b) PROVE IInv'
  BY <1>2, <1>10, MakeClosureMakes
<1>11. ASSUME NEW a \in Address, NEW b \in Address, NameFunction(a, b) PROVE IInv'
  BY <1>3, <1>11, NameFunctionWrites
<1>12. ASSUME NEW a \in Address, NEW b \in Address, AddConstant(a, b) PROVE IInv'
  BY <1>3, <1>12, AddConstantWrites
<1>13. ASSUME NEW a \in Address, NEW b \in Address, Capture(a, b) PROVE IInv'
  BY <1>3, <1>13, CaptureWrites
<1>14. ASSUME NEW a \in Address, NEW b \in Address \cup {Null}, SetClosed(a, b) PROVE IInv'
  BY <1>3, <1>14, SetClosedWrites
<1> QED
  BY <1>1, <1>4, <1>5, <1>6, <1>7, <1>8, <1>9, <1>10, <1>11, <1>12, <1>13, <1>14
  DEF Program

-----------------------------------------------------------------------------
(* A collection. *)

\* While the objects, the table and the roots stay as they are, so does all
\* that is said of them.
LEMMA ProgramUnchanged ==
  ASSUME IInv, UNCHANGED <<heap, objects, strings, roots>>,
         marked' \subseteq DOMAIN heap, gray' \subseteq marked',
         phase' \in Phase, phase # "destroy", phase' # "destroy",
         at' \in 1 .. Len(objects) + 1
  PROVE  TypeOK' /\ NothingDangles' /\ StringsUnique' /\ DestroyInv' /\ Live' = Live
<1>1. Live' = Live
  BY DEF Live
<1>2. TypeOK'
  BY DEF IInv, TypeOK, ListIsHeap, Distinct
<1>3. NothingDangles'
  BY <1>1 DEF IInv, NothingDangles
<1>4. StringsUnique'
  BY <1>1 DEF IInv, StringsUnique
<1>5. DestroyInv'
  BY DEF DestroyInv
<1> QED BY <1>1, <1>2, <1>3, <1>4, <1>5

LEMMA MarkRootsSafe ==
  ASSUME IInv, MarkRoots
  PROVE  IInv'
<1>1. /\ phase = "program" /\ phase' = "trace" /\ at' = at
      /\ UNCHANGED <<heap, objects, strings, roots>>
      /\ marked' = marked \cup roots /\ gray' = (roots \ marked) \cup gray
  BY DEF MarkRoots, Mark
<1>2. marked = {} /\ gray = {}
  BY <1>1 DEF IInv, MarkInv
<1>3. marked' = roots /\ gray' = roots
  BY <1>1, <1>2
<1>4. roots \subseteq DOMAIN heap /\ at \in 1 .. Len(objects) + 1
  BY DEF IInv, TypeOK
<1>5. TypeOK' /\ NothingDangles' /\ StringsUnique' /\ DestroyInv' /\ Live' = Live
  BY <1>1, <1>3, <1>4, ProgramUnchanged DEF Phase
<1>6. MarkInv'
  BY <1>1, <1>3, <1>5, LiveFacts DEF MarkInv
<1>7. SweepInv'
  BY <1>1 DEF IInv, SweepInv
<1> QED BY <1>5, <1>6, <1>7 DEF IInv

LEMMA BlackenSafe ==
  ASSUME IInv, NEW a, Blacken(a)
  PROVE  IInv'
<1> DEFINE new == References(heap[a])
<1>1. /\ phase = "trace" /\ phase' = "trace" /\ at' = at /\ a \in gray
      /\ UNCHANGED <<heap, objects, strings, roots>>
      /\ marked' = marked \cup new /\ gray' = (gray \ {a}) \cup (new \ marked)
  BY DEF Blacken
<1>2. /\ roots \subseteq marked /\ marked \subseteq Live
      /\ \A b \in marked \ gray : References(heap[b]) \subseteq marked
  BY <1>1 DEF IInv, MarkInv
<1>3. gray \subseteq marked /\ at \in 1 .. Len(objects) + 1
  BY DEF IInv, TypeOK
<1>4. new \subseteq Live
  BY <1>1, <1>2, <1>3, LiveFacts
<1> HIDE DEF new
<1>5. marked' \subseteq Live /\ gray' \subseteq marked'
  BY <1>1, <1>2, <1>3, <1>4
<1>6. marked' \subseteq DOMAIN heap
  BY <1>5, LiveFacts
<1>7. TypeOK' /\ NothingDangles' /\ StringsUnique' /\ DestroyInv' /\ Live' = Live
  BY <1>1, <1>3, <1>5, <1>6, ProgramUnchanged DEF Phase
<1>8. MarkInv'
  <2>1. ASSUME NEW b \in marked' \ gray' PROVE References(heap[b]) \subseteq marked'
    <3>1. CASE b = a
      BY <1>1, <3>1 DEF new
    <3>2. CASE b # a
      <4>1. b \in marked \ gray
        BY <1>1, <3>2
      <4> QED BY <1>1, <1>2, <4>1
    <3> QED BY <3>1, <3>2
  <2> QED BY <1>1, <1>2, <1>5, <1>7, <2>1 DEF MarkInv
<1>9. SweepInv'
  BY <1>1 DEF IInv, SweepInv
<1> QED BY <1>7, <1>8, <1>9 DEF IInv

\* When nothing is gray any more, what is marked is what can be reached.
LEMMA MarkedIsLive ==
  ASSUME IInv, phase \in {"trace", "table"}, gray = {}
  PROVE  marked = Live
<1>1. /\ roots \subseteq marked /\ marked \subseteq Live
      /\ \A b \in marked : References(heap[b]) \subseteq marked
  BY DEF IInv, MarkInv
<1>2. ClosedUnder(heap, marked)
  BY <1>1 DEF ClosedUnder
<1>3. marked \in SUBSET Address
  BY <1>1, LiveFacts
<1>4. Live \subseteq marked
  BY <1>1, <1>2, <1>3, ReachableIsLeast DEF Live
<1> QED BY <1>1, <1>4

LEMMA EndTraceSafe ==
  ASSUME IInv, EndTrace
  PROVE  IInv'
<1>1. /\ phase = "trace" /\ phase' = "table" /\ gray = {} /\ at' = at
      /\ UNCHANGED <<heap, objects, strings, roots, marked, gray>>
  BY DEF EndTrace
<1>2. /\ marked \subseteq DOMAIN heap /\ gray \subseteq marked
      /\ at \in 1 .. Len(objects) + 1
  BY DEF IInv, TypeOK
<1>3. TypeOK' /\ NothingDangles' /\ StringsUnique' /\ DestroyInv' /\ Live' = Live
  BY <1>1, <1>2, ProgramUnchanged DEF Phase
<1>4. MarkInv'
  BY <1>1, <1>3 DEF IInv, MarkInv
<1>5. SweepInv'
  BY <1>1 DEF IInv, SweepInv
<1> QED BY <1>3, <1>4, <1>5 DEF IInv

LEMMA RemoveWhiteSafe ==
  ASSUME IInv, RemoveWhite
  PROVE  IInv'
<1>1. /\ phase = "table" /\ phase' = "sweep" /\ at' = 1
      /\ strings' = strings \cap marked
      /\ UNCHANGED <<heap, objects, roots, marked, gray>>
  BY DEF RemoveWhite
<1>2. gray = {}
  BY <1>1 DEF IInv, MarkInv
<1>3. marked = Live
  BY <1>1, <1>2, MarkedIsLive
<1>4. Live' = Live
  BY <1>1 DEF Live
<1>5. TypeOK'
  <2>1. objects' \in Seq(DOMAIN heap') /\ ListIsHeap'
    BY <1>1 DEF IInv, TypeOK, ListIsHeap, Distinct
  <2>2. 1 \in 1 .. Len(objects) + 1
    BY DEF IInv, TypeOK
  <2> QED BY <1>1, <2>1, <2>2 DEF IInv, TypeOK, Phase
<1>6. NothingDangles'
  BY <1>1, <1>4 DEF IInv, NothingDangles
<1>7. StringsUnique'
  <2>1. /\ \A b \in Live : heap[b].type = "string" => b \in strings
        /\ \A s, t \in strings : heap[s].text = heap[t].text => s = t
    BY <1>1 DEF IInv, StringsUnique
  <2>2. \A b \in Live' : heap'[b].type = "string" => b \in strings'
    BY <1>1, <1>3, <1>4, <2>1
  <2>3. \A s, t \in strings' : heap'[s].text = heap'[t].text => s = t
    BY <1>1, <2>1
  <2> QED BY <2>2, <2>3 DEF StringsUnique
<1>8. MarkInv'
  BY <1>1, <1>2 DEF MarkInv
<1>9. SweepInv'
  <2>1. Swept' = {}
    BY <1>1 DEF Swept
  <2> QED BY <1>1, <1>3, <1>4, <2>1 DEF SweepInv
<1>10. DestroyInv'
  BY <1>1 DEF DestroyInv
<1> QED BY <1>5, <1>6, <1>7, <1>8, <1>9, <1>10 DEF IInv

LEMMA KeepMarkedSafe ==
  ASSUME IInv, KeepMarked
  PROVE  IInv'
<1>1. /\ phase = "sweep" /\ phase' = "sweep" /\ at <= Len(objects) /\ at' = at + 1
      /\ objects[at] \in marked /\ marked' = marked \ {objects[at]}
      /\ UNCHANGED <<heap, objects, strings, roots, gray>>
  BY DEF KeepMarked
<1>2. /\ marked \cup Swept = Live /\ marked \cap Swept = {} /\ strings \subseteq Live
      /\ gray = {}
  BY <1>1 DEF IInv, SweepInv, MarkInv
<1>3. /\ marked \subseteq DOMAIN heap /\ at \in 1 .. Len(objects) + 1 /\ Len(objects) \in Nat
      /\ DOMAIN objects = 1 .. Len(objects)
      /\ Distinct(objects)
  BY DEF IInv, TypeOK, ListIsHeap, Distinct
<1>4. at' \in 1 .. Len(objects) + 1 /\ at \in Nat
  BY <1>1, <1>3
<1>5. TypeOK' /\ NothingDangles' /\ StringsUnique' /\ DestroyInv' /\ Live' = Live
  BY <1>1, <1>2, <1>3, <1>4, ProgramUnchanged DEF Phase
<1>6. Swept' = Swept \cup {objects[at]}
  <2>1. 1 .. at' - 1 = (1 .. at - 1) \cup {at}
    BY <1>1, <1>3
  <2> QED BY <1>1, <2>1 DEF Swept
<1>7. SweepInv'
  BY <1>1, <1>2, <1>5, <1>6 DEF SweepInv
<1>8. MarkInv'
  BY <1>1, <1>2 DEF MarkInv
<1> QED BY <1>5, <1>7, <1>8 DEF IInv

\* To free an object that cannot be reached changes nothing that can.
LEMMA FreedLive ==
  ASSUME IInv, NEW a, FreeObject(a), a \notin Live, UNCHANGED roots
  PROVE  /\ IsHeap(heap') /\ DOMAIN heap' = DOMAIN heap \ {a}
         /\ \A b \in DOMAIN heap : b # a => heap'[b] = heap[b]
         /\ Live' = Live
<1>1. heap' = Part(heap, DOMAIN heap \ {a}) /\ IsHeap(heap)
  BY DEF FreeObject, IInv, TypeOK
<1>2. /\ IsHeap(heap') /\ DOMAIN heap' = DOMAIN heap \ {a}
      /\ \A b \in DOMAIN heap : b # a => heap'[b] = heap[b]
  <2> DEFINE A == DOMAIN heap \ {a}
             part == Part(heap, A)
  <2>1. /\ IsHeap(part) /\ DOMAIN part = A \cap DOMAIN heap
        /\ \A b \in A \cap DOMAIN heap : part[b] = heap[b]
    <3> HIDE DEF A
    <3> QED BY <1>1, PartIsHeap, Zenon
  <2>2. heap' = part
    BY <1>1
  <2> HIDE DEF part
  <2> QED BY <2>1, <2>2
<1>3. Reachable(heap', roots) = Reachable(heap, roots)
  <2>1. \A b \in Reachable(heap, roots) :
          /\ b \in DOMAIN heap <=> b \in DOMAIN heap'
          /\ b \in DOMAIN heap => heap'[b] = heap[b]
    BY <1>2 DEF Live
  <2>2. roots \in SUBSET Address
    BY LiveFacts
  <2> QED BY <1>1, <1>2, <2>1, <2>2, ReachableUnchanged
<1> QED BY <1>2, <1>3 DEF Live

LEMMA FreeUnmarkedSafe ==
  ASSUME IInv, FreeUnmarked
  PROVE  IInv' /\ Live' = Live /\ \A b \in Live : heap'[b] = heap[b]
<1> DEFINE a == objects[at]
           t == Without(objects, at)
<1>1. /\ phase = "sweep" /\ phase' = "sweep" /\ at <= Len(objects) /\ at' = at
      /\ a \notin marked /\ FreeObject(a) /\ objects' = t
      /\ UNCHANGED <<strings, roots, marked, gray>>
  BY DEF FreeUnmarked, Without
<1>2. /\ marked \cup Swept = Live /\ marked \cap Swept = {} /\ strings \subseteq Live
      /\ gray = {}
  BY <1>1 DEF IInv, SweepInv, MarkInv
<1>3. /\ marked \subseteq DOMAIN heap /\ at \in 1 .. Len(objects) + 1 /\ Len(objects) \in Nat
      /\ objects \in Seq(DOMAIN heap) /\ Elements(objects) = DOMAIN heap
      /\ DOMAIN objects = 1 .. Len(objects)
      /\ Distinct(objects)
      /\ strings \subseteq DOMAIN heap /\ roots \subseteq DOMAIN heap
  BY DEF IInv, TypeOK, ListIsHeap, Distinct
<1>4. at \in 1 .. Len(objects)
  BY <1>1, <1>3
<1>5. a \notin Swept
  <2>1. \A i \in 1 .. at - 1 : i \in DOMAIN objects /\ i # at /\ at \in DOMAIN objects
    BY <1>3, <1>4
  <2> QED BY <1>3, <2>1 DEF Swept, Distinct
<1>6. a \notin Live
  BY <1>1, <1>2, <1>5
<1>7. /\ t \in Seq(DOMAIN heap \ {a})
      /\ Elements(t) = DOMAIN heap \ {a}
      /\ Distinct(t)
      /\ Len(t) = Len(objects) - 1
      /\ \A i \in 1 .. at - 1 : t[i] = objects[i]
  <2>1. /\ objects \in Seq(DOMAIN heap) /\ Elements(objects) = DOMAIN heap
        /\ Distinct(objects)
    BY <1>3
  <2>2. /\ t \in Seq(DOMAIN heap \ {a})
        /\ Elements(t) = DOMAIN heap \ {a}
    BY <1>4, <2>1, Unlinked
  <2>3. Distinct(t)
    BY <1>4, <2>1, Unlinked
  <2>4. Len(t) = Len(objects) - 1
    BY <1>4, <2>1, Unlinked
  <2>5. ASSUME NEW i \in 1 .. at - 1 PROVE t[i] = objects[i]
    <3>1. i \in Nat /\ 1 <= i /\ i < at
      BY <1>3
    <3> QED BY <1>4, <2>1, <3>1, UnlinkedBehind
  <2> QED BY <2>2, <2>3, <2>4, <2>5
<1> HIDE DEF a, t
<1>8. /\ IsHeap(heap') /\ DOMAIN heap' = DOMAIN heap \ {a}
      /\ \A b \in DOMAIN heap : b # a => heap'[b] = heap[b]
      /\ Live' = Live
  BY <1>1, <1>6, FreedLive
<1>9. \A b \in Live : b \in DOMAIN heap' /\ heap'[b] = heap[b]
  BY <1>6, <1>8, LiveFacts
<1>10. TypeOK'
  <2>1. ListIsHeap'
    BY <1>1, <1>7, <1>8 DEF ListIsHeap, Distinct
  <2>2. at' \in 1 .. Len(objects') + 1
    BY <1>1, <1>3, <1>4, <1>7
  <2>3. /\ strings' \subseteq DOMAIN heap' /\ roots' \subseteq DOMAIN heap'
        /\ marked' \subseteq DOMAIN heap' /\ gray' \subseteq marked'
    BY <1>1, <1>2, <1>9, LiveFacts
  <2> QED BY <1>1, <1>7, <1>8, <2>1, <2>2, <2>3 DEF TypeOK, Phase
<1>11. NothingDangles'
  <2>1. ASSUME NEW b \in Live PROVE WellTyped(heap', heap'[b])
    <3>1. PICK o \in Object : o = heap'[b] /\ WellTyped(heap, o) /\ References(o) \subseteq Live
      BY <1>9, LiveFacts
    <3>2. \A r \in References(o) : r \in DOMAIN heap' /\ heap'[r].type = heap[r].type
      BY <1>9, <3>1
    <3>3. WellTyped(heap', o)
      BY <1>8, <3>1, <3>2, StillWellTyped
    <3> QED BY <3>1, <3>3
  <2>2. \A s \in strings : IsA(heap', s, "string")
    BY <1>2, <1>9 DEF IsA, IInv, NothingDangles
  <2> QED BY <1>1, <1>8, <1>9, <2>1, <2>2 DEF NothingDangles
<1>12. StringsUnique'
  <2>1. /\ \A b \in Live : heap[b].type = "string" => b \in strings
        /\ \A s, u \in strings : heap[s].text = heap[u].text => s = u
    BY <1>1 DEF IInv, StringsUnique
  <2>2. \A b \in Live' : heap'[b].type = "string" => b \in strings'
    BY <1>1, <1>8, <1>9, <2>1
  <2>3. \A s, u \in strings' : heap'[s].text = heap'[u].text => s = u
    BY <1>1, <1>2, <1>9, <2>1
  <2> QED BY <2>2, <2>3 DEF StringsUnique
<1>13. SweepInv'
  <2>1. Swept' = Swept
    <3>1. Swept' = {t[i] : i \in 1 .. at - 1}
      BY <1>1 DEF Swept
    <3> QED BY <1>7, <3>1 DEF Swept
  <2> QED BY <1>1, <1>2, <1>8, <2>1 DEF SweepInv
<1>14. MarkInv' /\ DestroyInv'
  BY <1>1, <1>2 DEF MarkInv, DestroyInv
<1> QED BY <1>8, <1>9, <1>10, <1>11, <1>12, <1>13, <1>14 DEF IInv

\* At the end of the list, all that is left can be reached, and no mark is left.
LEMMA AllSwept ==
  ASSUME IInv, phase = "sweep", at > Len(objects)
  PROVE  DOMAIN heap = Live /\ marked = {}
<1>1. marked \cup Swept = Live /\ marked \cap Swept = {}
  BY DEF IInv, SweepInv
<1>2. /\ marked \subseteq DOMAIN heap /\ Elements(objects) = DOMAIN heap
      /\ DOMAIN objects = 1 .. Len(objects)
      /\ at \in 1 .. Len(objects) + 1 /\ Len(objects) \in Nat
  BY DEF IInv, TypeOK, ListIsHeap, Distinct
<1>3. at - 1 = Len(objects)
  BY <1>2
<1>4. Swept = DOMAIN heap
  BY <1>2, <1>3 DEF Swept, Elements
<1> QED BY <1>1, <1>2, <1>4

LEMMA EndSweepSafe ==
  ASSUME IInv, EndSweep
  PROVE  IInv'
<1>1. /\ phase = "sweep" /\ phase' = "program" /\ at > Len(objects) /\ at' = 1
      /\ UNCHANGED <<heap, objects, strings, roots, marked, gray>>
  BY DEF EndSweep
<1>2. marked = {} /\ gray = {}
  BY <1>1, AllSwept DEF IInv, MarkInv
<1>3. 1 \in 1 .. Len(objects) + 1
  BY DEF IInv, TypeOK
<1>4. TypeOK' /\ NothingDangles' /\ StringsUnique' /\ DestroyInv' /\ Live' = Live
  BY <1>1, <1>2, <1>3, ProgramUnchanged DEF Phase
<1>5. MarkInv' /\ SweepInv'
  BY <1>1, <1>2 DEF MarkInv, SweepInv
<1> QED BY <1>4, <1>5 DEF IInv

\* Once the machine is destroyed nothing can be reached.
LEMMA NothingLive ==
  ASSUME roots = {}
  PROVE  Live = {}
BY NothingReachable DEF Live

LEMMA DestroySafe ==
  ASSUME IInv, Destroy
  PROVE  IInv' /\ Live' = {}
<1>1. /\ phase = "program" /\ phase' = "destroy" /\ roots' = {} /\ strings' = {}
      /\ UNCHANGED <<heap, objects, marked, gray, at>>
  BY DEF Destroy
<1>2. Live' = {}
  <2>1. Live' = Reachable(heap', {})
    BY <1>1 DEF Live
  <2> QED BY <2>1, NothingReachable
<1>3. TypeOK'
  BY <1>1 DEF IInv, TypeOK, ListIsHeap, Distinct, Phase
<1>4. marked = {} /\ gray = {} /\ at = 1
  BY <1>1 DEF IInv, MarkInv, SweepInv
<1>5. NothingDangles' /\ StringsUnique' /\ MarkInv' /\ SweepInv' /\ DestroyInv'
  BY <1>1, <1>2, <1>4 DEF NothingDangles, StringsUnique, MarkInv, SweepInv, DestroyInv
<1> QED BY <1>2, <1>3, <1>5 DEF IInv

LEMMA FreeFirstSafe ==
  ASSUME IInv, FreeFirst
  PROVE  IInv' /\ Live = {} /\ Live' = {}
<1> DEFINE a == Head(objects)
           t == Tail(objects)
<1>1. /\ phase = "destroy" /\ phase' = "destroy" /\ objects # <<>> /\ at' = at
      /\ FreeObject(a) /\ objects' = t
      /\ UNCHANGED <<strings, roots, marked, gray>>
  BY DEF FreeFirst
<1>2. /\ roots = {} /\ strings = {} /\ marked = {} /\ gray = {} /\ at = 1
  BY <1>1 DEF IInv, DestroyInv, MarkInv, SweepInv
<1>3. /\ objects \in Seq(DOMAIN heap) /\ Elements(objects) = DOMAIN heap
      /\ Distinct(objects)
  BY DEF IInv, TypeOK, ListIsHeap, Distinct
<1>4. /\ t \in Seq(DOMAIN heap \ {a})
      /\ Elements(t) = DOMAIN heap \ {a}
      /\ Distinct(t)
  BY <1>1, <1>3, UnlinkedHead
<1> HIDE DEF a, t
<1>5. Live = {}
  BY <1>2, NothingLive
<1>6. /\ IsHeap(heap') /\ DOMAIN heap' = DOMAIN heap \ {a}
      /\ Live' = {}
  BY <1>1, <1>5, FreedLive
<1>7. TypeOK'
  <2>1. ListIsHeap'
    BY <1>1, <1>4, <1>6 DEF ListIsHeap, Distinct
  <2>2. at' \in 1 .. Len(objects') + 1
    BY <1>1, <1>2, <1>4
  <2> QED BY <1>1, <1>2, <1>4, <1>6, <2>1, <2>2 DEF TypeOK, Phase
<1>8. NothingDangles' /\ StringsUnique' /\ MarkInv' /\ SweepInv' /\ DestroyInv'
  BY <1>1, <1>2, <1>6 DEF NothingDangles, StringsUnique, MarkInv, SweepInv, DestroyInv
<1> QED BY <1>5, <1>6, <1>7, <1>8 DEF IInv

-----------------------------------------------------------------------------
(* The theorems. *)

LEMMA InitSafe == Init => IInv
<1> SUFFICES ASSUME Init PROVE IInv
  OBVIOUS
<1>1. /\ heap = Empty /\ objects = <<>> /\ strings = {} /\ roots = {} /\ marked = {}
      /\ gray = {} /\ phase = "program" /\ at = 1
  BY DEF Init
<1>2. IsHeap(heap) /\ DOMAIN heap = {}
  BY <1>1 DEF IsHeap, Empty
<1>3. Live = {}
  BY <1>1, NothingLive
<1>4. TypeOK
  <2>1. objects \in Seq(DOMAIN heap) /\ DOMAIN objects = {} /\ Len(objects) = 0
    BY <1>1
  <2>2. ListIsHeap
    BY <1>2, <2>1 DEF ListIsHeap, Distinct, Elements
  <2> QED BY <1>1, <1>2, <2>1, <2>2 DEF TypeOK, Phase
<1> QED BY <1>1, <1>3, <1>4
  DEF IInv, NothingDangles, StringsUnique, MarkInv, SweepInv, DestroyInv

LEMMA Unchanged ==
  ASSUME IInv, UNCHANGED vars
  PROVE  IInv' /\ Live' = Live
<1>1. UNCHANGED <<heap, objects, strings, roots, marked, gray, phase, at>>
  BY DEF vars
<1>2. Live' = Live
  BY <1>1 DEF Live
<1>3. TypeOK'
  BY <1>1 DEF IInv, TypeOK, ListIsHeap, Distinct
<1>4. NothingDangles' /\ StringsUnique'
  BY <1>1, <1>2 DEF IInv, NothingDangles, StringsUnique
<1>5. MarkInv' /\ DestroyInv'
  BY <1>1, <1>2 DEF IInv, MarkInv, DestroyInv
<1>6. SweepInv'
  BY <1>1, <1>2 DEF IInv, SweepInv, Swept
<1> QED BY <1>2, <1>3, <1>4, <1>5, <1>6 DEF IInv

LEMMA NextSafe == IInv /\ [Next]_vars => IInv'
<1> SUFFICES ASSUME IInv, [Next]_vars PROVE IInv'
  OBVIOUS
<1>1. CASE Program
  BY <1>1, ProgramSafe
<1>2. CASE MarkRoots
  BY <1>2, MarkRootsSafe
<1>3. CASE \E a \in Address : Blacken(a)
  BY <1>3, BlackenSafe
<1>4. CASE EndTrace
  BY <1>4, EndTraceSafe
<1>5. CASE RemoveWhite
  BY <1>5, RemoveWhiteSafe
<1>6. CASE KeepMarked
  BY <1>6, KeepMarkedSafe
<1>7. CASE FreeUnmarked
  BY <1>7, FreeUnmarkedSafe
<1>8. CASE EndSweep
  BY <1>8, EndSweepSafe
<1>9. CASE Destroy
  BY <1>9, DestroySafe
<1>10. CASE FreeFirst
  BY <1>10, FreeFirstSafe
<1>11. CASE UNCHANGED vars
  BY <1>11, Unchanged
<1> QED
  BY <1>1, <1>2, <1>3, <1>4, <1>5, <1>6, <1>7, <1>8, <1>9, <1>10, <1>11 DEF Next, Collect

LEMMA Invariance == Spec => []IInv
BY InitSafe, NextSafe, PTL DEF Spec

(***************************************************************************)
(* The list that sweep() and ~VM() go through has every object exactly     *)
(* once, and nothing that was freed is a root, gray, marked or in the      *)
(* table of strings, in every state of every program.                      *)
(***************************************************************************)
THEOREM TypeCorrect == Spec => []TypeOK
<1>1. IInv => TypeOK
  BY DEF IInv
<1> QED BY <1>1, Invariance, PTL

(***************************************************************************)
(* No reference that can be reached dangles, or is of another kind than    *)
(* the code casts it to, at any moment of a collection, however many       *)
(* addresses there are and whatever is put at them again.                  *)
(***************************************************************************)
THEOREM NoDanglingReference == Spec => []NothingDangles
<1>1. IInv => NothingDangles
  BY DEF IInv
<1> QED BY <1>1, Invariance, PTL

(***************************************************************************)
(* To compare strings by their addresses is to compare their texts,        *)
(* although the table does not keep its strings alive.                     *)
(***************************************************************************)
THEOREM StringsInterned == Spec => []StringsUnique
<1>1. IInv => StringsUnique
  BY DEF IInv
<1> QED BY <1>1, Invariance, PTL

(***************************************************************************)
(* The tricolor invariant: a black object refers to no white one; when     *)
(* tracing ends all that can be reached has been marked and nothing else;  *)
(* no mark is left when the program runs again.                            *)
(***************************************************************************)
THEOREM Tricolor == Spec => []NoBlackToWhite
<1>1. IInv => NoBlackToWhite
  <2> SUFFICES ASSUME IInv PROVE NoBlackToWhite
    OBVIOUS
  <2>1. ASSUME phase = "table" PROVE marked = Live
    <3>1. gray = {}
      BY <2>1 DEF IInv, MarkInv
    <3> QED BY <2>1, <3>1, MarkedIsLive
  <2>2. MarkInv
    BY DEF IInv
  <2> QED BY <2>1, <2>2 DEF NoBlackToWhite, MarkInv
<1> QED BY <1>1, Invariance, PTL

(***************************************************************************)
(* When a collection ends, there is no object that cannot be reached.      *)
(***************************************************************************)
THEOREM NothingLeft == Spec => CollectsAll
<1>1. IInv /\ [Next]_vars => [phase = "sweep" /\ phase' = "program" => DOMAIN heap = Live]_vars
  <2> SUFFICES ASSUME IInv, Next, phase = "sweep", phase' = "program"
               PROVE  DOMAIN heap = Live
    OBVIOUS
  <2>1. ~ Program
    BY DEF Program, FindString, MakeString, MakeFunction, MakeUpvalue, MakeNative,
           MakeClosure, NameFunction, AddConstant, Capture, SetClosed, Write,
           Keep, Drop, Running
  <2>2. EndSweep
    BY <2>1 DEF Next, Collect, MarkRoots, Blacken, EndTrace, RemoveWhite, KeepMarked,
                FreeUnmarked, Destroy, FreeFirst
  <2>3. at > Len(objects)
    BY <2>2 DEF EndSweep
  <2> QED BY <2>3, AllSwept
<1> QED BY <1>1, Invariance, PTL DEF Spec, CollectsAll

-----------------------------------------------------------------------------
(* The program cannot tell that there is a collector. *)

\* The abstract heap is made of the same objects.
LEMMA SameHeaps ==
  /\ \A object : Promise!References(object) = References(object)
  /\ \A h, R : Promise!Reachable(h, R) = Reachable(h, R)
  /\ \A h, A : Promise!Part(h, A) = Part(h, A)
  /\ \A h, a, object : Promise!Place(h, a, object) = Place(h, a, object)
<1>1. \A object : Promise!References(object) = References(object)
  BY Zenon DEF Promise!References, References
<1>2. \A h, A : Promise!ClosedUnder(h, A) <=> ClosedUnder(h, A)
  BY <1>1 DEF Promise!ClosedUnder, ClosedUnder
<1>3. \A h, R : Promise!Reachable(h, R) = Reachable(h, R)
  BY <1>2 DEF Promise!Reachable, Reachable
<1>4. \A h, A : Promise!Part(h, A) = Part(h, A)
  BY DEF Promise!Part, Part
<1>5. \A h, a, object : Promise!Place(h, a, object) = Place(h, a, object)
  BY DEF Promise!Place, Place
<1> QED BY <1>1, <1>3, <1>4, <1>5

\* What the program sees of the heap.
Seen == Part(heap, Live)

LEMMA SeenHeap ==
  ASSUME IInv
  PROVE  /\ IsHeap(Seen) /\ DOMAIN Seen = Live
         /\ \A a \in Live : Seen[a] = heap[a]
         /\ Reachable(Seen, roots) = Live
<1>1. IsHeap(heap) /\ Live \subseteq DOMAIN heap /\ roots \in SUBSET Address
  BY LiveFacts DEF IInv, TypeOK
<1>2. /\ IsHeap(Seen) /\ DOMAIN Seen = Live
      /\ \A a \in Live : Seen[a] = heap[a]
  <2>1. /\ IsHeap(Part(heap, Live)) /\ DOMAIN Part(heap, Live) = Live \cap DOMAIN heap
        /\ \A a \in Live \cap DOMAIN heap : Part(heap, Live)[a] = heap[a]
    BY <1>1, PartIsHeap, Zenon
  <2> QED BY <1>1, <2>1 DEF Seen
<1>3. Reachable(Seen, roots) = Live
  <2>1. roots \in SUBSET Reachable(heap, roots)
    BY LiveFacts DEF Live
  <2>2. Reachable(Part(heap, Reachable(heap, roots)), roots) = Reachable(heap, roots)
    BY <1>1, <2>1, ReachableInPart
  <2> QED BY <2>2 DEF Seen, Live
<1> QED BY <1>2, <1>3

LEMMA LiveInHeap == IInv => IsHeap(heap) /\ Live \subseteq DOMAIN heap
BY LiveFacts DEF IInv, TypeOK

\* The same, after a step.
LEMMA SeenHeapAfter ==
  ASSUME IInv'
  PROVE  /\ IsHeap(Seen') /\ DOMAIN Seen' = Live'
         /\ \A a \in Live' : Seen'[a] = heap'[a]
         /\ Seen' = [a \in Live' |-> heap'[a]]
<1>1. (IsHeap(heap) /\ Live \subseteq DOMAIN heap)'
  <2>1. (IInv => IsHeap(heap) /\ Live \subseteq DOMAIN heap)'
    BY LiveInHeap, PTL
  <2> QED BY <2>1
<1>2. Seen' = [a \in Live' \cap DOMAIN heap' |-> heap'[a]]
  BY DEF Seen, Part
<1>3. Seen' = [a \in Live' |-> heap'[a]]
  BY <1>1, <1>2
<1> QED BY <1>1, <1>3 DEF IsHeap

\* What can be reached is as it was.
LEMMA SeenUnchanged ==
  ASSUME IInv, IInv', Live' = Live, \A a \in Live : heap'[a] = heap[a]
  PROVE  Seen' = Seen
<1>1. /\ Seen' = [a \in Live |-> heap'[a]]
      /\ DOMAIN Seen = Live /\ \A a \in Live : Seen[a] = heap[a]
      /\ Seen = [a \in DOMAIN Seen |-> Seen[a]]
  BY SeenHeap, SeenHeapAfter DEF Seen, Part
<1> QED BY <1>1

\* A new object.
LEMMA MakeSeen ==
  ASSUME IInv, IInv', NEW a \in Address \ Live, NEW object \in Object,
         roots' = roots \cup {a}, Live' = Live \cup {a},
         References(object) \subseteq Live, Promise!Fresh(object),
         heap'[a] = object, \A b \in Live : heap'[b] = heap[b]
  PROVE  Promise!Next
<1>1. /\ Seen' = [b \in Live \cup {a} |-> heap'[b]]
      /\ DOMAIN Seen = Live /\ \A b \in Live : Seen[b] = heap[b]
  BY SeenHeap, SeenHeapAfter
<1>2. Seen' = Place(Seen, a, object)
  <2>1. \A b \in Live \cup {a} : heap'[b] = IF b = a THEN object ELSE Seen[b]
    BY <1>1
  <2> QED BY <1>1, <2>1 DEF Place
<1>3. a \in DOMAIN Seen' /\ Seen'[a] = object
  BY <1>1
<1>4. Promise!Make(a, object)
  BY <1>1, <1>2, SameHeaps DEF Promise!Make, Seen
<1>5. Promise!Make(a, Seen'[a])
  BY <1>3, <1>4
<1> QED BY <1>3, <1>5 DEF Promise!Next, Seen

\* A field is written.
LEMMA WriteSeen ==
  ASSUME IInv, IInv', NEW a, NEW object, Writes(a, object)
  PROVE  Promise!Next
<1>1. /\ a \in DOMAIN heap /\ a \in Live'
      /\ IsHeap(heap') /\ DOMAIN heap' = DOMAIN heap
      /\ heap'[a] = object
      /\ \A b \in DOMAIN heap : b # a => heap'[b] = heap[b]
      /\ Live' \subseteq Live
  BY WrittenLive
<1>2. /\ roots' = roots /\ a \in Live /\ object \in Object
      /\ object.type = heap[a].type /\ object.type # "string"
      /\ References(object) \subseteq Live
  BY DEF Writes, Write
<1>3. /\ DOMAIN Seen = Live /\ \A b \in Live : Seen[b] = heap[b]
      /\ IsHeap(Seen) /\ Live \subseteq DOMAIN heap /\ Live \subseteq Address
      /\ roots \in SUBSET Address
  BY SeenHeap, LiveFacts
<1> DEFINE written == Place(Seen, a, object)
<1>4. /\ IsHeap(written) /\ DOMAIN written = Live
      /\ \A b \in Live : written[b] = heap'[b]
  <2>1. /\ IsHeap(written) /\ DOMAIN written = DOMAIN Seen \cup {a}
        /\ written[a] = object
        /\ \A b \in DOMAIN Seen : b # a => written[b] = Seen[b]
    <3>1. IsHeap(Seen) /\ a \in Address /\ object \in Object
      BY <1>2, <1>3
    <3> QED BY <3>1, PlaceIsHeap, Zenon
  <2> HIDE DEF written
  <2> QED BY <1>1, <1>2, <1>3, <2>1
<1> HIDE DEF written
<1>5. Reachable(written, roots) = Live'
  <2>1. Reachable(heap', roots) = Live'
    BY <1>2 DEF Live
  <2>2. \A b \in Reachable(heap', roots) :
          /\ b \in DOMAIN heap' <=> b \in DOMAIN written
          /\ b \in DOMAIN heap' => written[b] = heap'[b]
    BY <1>1, <1>3, <1>4, <2>1
  <2> QED BY <1>1, <1>3, <1>4, <2>1, <2>2, ReachableUnchanged
<1>6. Seen' = Part(written, Reachable(written, roots))
  <2>1. Seen' = [b \in Live' |-> heap'[b]]
    BY SeenHeapAfter
  <2>2. Live' \cap DOMAIN written = Live'
    BY <1>1, <1>4
  <2>3. \A b \in Live' : written[b] = heap'[b]
    BY <1>1, <1>4
  <2> QED BY <1>5, <2>1, <2>2, <2>3 DEF Part
<1>7. Promise!Write(a, object)
  BY <1>2, <1>3, <1>6, SameHeaps DEF Promise!Write, Seen, written
<1>8. a \in DOMAIN Seen' /\ Seen'[a] = object
  BY <1>1, SeenHeapAfter
<1>9. Promise!Write(a, Seen'[a])
  BY <1>7, <1>8
<1> QED BY <1>8, <1>9 DEF Promise!Next, Seen

\* The roots become others of what could be reached.
LEMMA KeepSeen ==
  ASSUME IInv, IInv', roots' \subseteq Live, Live' = Reachable(heap, roots'),
         \A a \in Live' : heap'[a] = heap[a]
  PROVE  Promise!Next
<1>1. /\ DOMAIN Seen = Live /\ \A b \in Live : Seen[b] = heap[b]
      /\ IsHeap(heap) /\ Live \subseteq Address /\ roots \in SUBSET Address
  BY SeenHeap, LiveFacts DEF IInv, TypeOK
<1>2. Reachable(Seen, roots') = Live'
  <2>1. roots' \in SUBSET Reachable(heap, roots)
    BY DEF Live
  <2>2. Reachable(Part(heap, Reachable(heap, roots)), roots') = Reachable(heap, roots')
    BY <1>1, <2>1, ReachableInPart
  <2> QED BY <2>2 DEF Seen, Live
<1>3. Live' \subseteq Live
  <2>1. roots' \in SUBSET Reachable(heap, roots)
    BY DEF Live
  <2>2. Reachable(heap, roots') \subseteq Reachable(heap, roots)
    BY <1>1, <2>1, ReachableFromReachable
  <2> QED BY <2>2 DEF Live
<1>4. Seen' = Part(Seen, Reachable(Seen, roots'))
  <2>1. Seen' = [b \in Live' |-> heap'[b]]
    BY SeenHeapAfter
  <2>2. Live' \cap DOMAIN Seen = Live' /\ \A b \in Live' : Seen[b] = heap'[b]
    BY <1>1, <1>3
  <2> QED BY <1>2, <2>1, <2>2 DEF Part
<1>5. Promise!Keep(roots')
  BY <1>1, <1>4, SameHeaps DEF Promise!Keep, Seen
<1>6. roots' \in SUBSET Address
  BY <1>1
<1> QED BY <1>5, <1>6 DEF Promise!Next

\* A text that no string of the table has is no text of a string one can reach.
LEMMA FreshIfNotInterned ==
  ASSUME IInv, phase = "program", NEW object, NEW keep \in SUBSET strings,
         keep \cap Live = {},
         object.type = "string" =>
           \A s \in strings \ keep : heap[s].text # object.text
  PROVE  Promise!Fresh(object)
<1>1. \A a \in Live : heap[a].type = "string" => a \in strings
  BY DEF IInv, StringsUnique
<1>2. ASSUME object.type = "string", NEW a \in DOMAIN Seen, Seen[a].type = "string"
      PROVE  Seen[a].text # object.text
  <2>1. a \in Live /\ Seen[a] = heap[a]
    BY <1>2, SeenHeap
  <2>2. a \in strings \ keep
    BY <1>1, <1>2, <2>1
  <2> QED BY <1>2, <2>1, <2>2
<1> QED BY <1>2 DEF Promise!Fresh, Seen

LEMMA MakesSeen ==
  ASSUME IInv, IInv', NEW a, NEW object, Makes(a, object)
  PROVE  Promise!Next
<1>1. /\ object \in Object /\ Allocates(a, object) /\ References(object) \subseteq Live
      /\ WellTyped(heap, object)
  BY DEF Makes
<1>2. /\ a \in Address /\ a \notin DOMAIN heap
      /\ heap'[a] = object
      /\ \A b \in DOMAIN heap : b # a /\ heap'[b] = heap[b]
      /\ roots' = roots \cup {a}
      /\ Live' = Live \cup {a}
  BY <1>1, AllocatedLive
<1>3. Live \subseteq DOMAIN heap
  BY LiveFacts
<1>4. Promise!Fresh(object)
  <2>1. phase = "program"
    BY <1>1 DEF Allocates, Running
  <2>2. object.type = "string" => \A s \in strings \ {} : heap[s].text # object.text
    BY <1>1 DEF Allocates, Interned
  <2>3. {} \in SUBSET strings /\ {} \cap Live = {}
    OBVIOUS
  <2> QED BY <2>1, <2>2, <2>3, FreshIfNotInterned
<1> QED BY <1>1, <1>2, <1>3, <1>4, MakeSeen

LEMMA FindSeen ==
  ASSUME IInv, IInv', NEW t, FindString(t)
  PROVE  Promise!Next
<1>1. PICK s \in strings : /\ s \in DOMAIN heap /\ heap[s].type = "string"
                           /\ roots' = roots \cup {s}
                           /\ Live' = Live \cup {s}
                           /\ References(heap[s]) = {}
  BY FoundLive
<1>2. heap' = heap /\ phase = "program"
  BY DEF FindString, Running
<1>3. CASE s \in Live
  <2>1. roots' \subseteq Live
    BY <1>1, <1>3, LiveFacts
  <2>2. Live' = Reachable(heap, roots')
    BY <1>2 DEF Live
  <2> QED BY <1>2, <2>1, <2>2, KeepSeen
<1>4. CASE s \notin Live
  <2>1. s \in Address \ Live /\ heap[s] \in Object
    BY <1>1, <1>4 DEF IInv, TypeOK, IsHeap
  <2>2. \A u \in strings \ {s} : heap[u].text # heap[s].text
    BY <1>2 DEF IInv, StringsUnique
  <2>3. Promise!Fresh(heap[s])
    <3>1. {s} \in SUBSET strings /\ {s} \cap Live = {}
      BY <1>1, <1>4
    <3> QED BY <1>2, <2>2, <3>1, FreshIfNotInterned
  <2>4. heap'[s] = heap[s] /\ \A b \in Live : heap'[b] = heap[b]
    BY <1>2
  <2>5. References(heap[s]) \subseteq Live
    BY <1>1
  <2> QED BY <1>1, <2>1, <2>3, <2>4, <2>5, MakeSeen
<1> QED BY <1>3, <1>4

LEMMA ProgramSeen ==
  ASSUME IInv, IInv', Program
  PROVE  Promise!Next
<1>1. ASSUME NEW t \in Text, FindString(t) PROVE Promise!Next
  BY <1>1, FindSeen
<1>2. ASSUME NEW a, NEW object, Makes(a, object) PROVE Promise!Next
  BY <1>2, MakesSeen
<1>3. ASSUME NEW a, NEW object, Writes(a, object) PROVE Promise!Next
  BY <1>3, WriteSeen
<1>4. ASSUME NEW a \in Address, Keep(a) PROVE Promise!Next
  <2>1. heap' = heap
    BY <1>4 DEF Keep
  <2>2. roots' \subseteq Live
    BY <1>4, KeptLive
  <2>3. Live' = Reachable(heap, roots')
    BY <2>1 DEF Live
  <2> QED BY <2>1, <2>2, <2>3, KeepSeen
<1>5. ASSUME NEW a \in Address, Drop(a) PROVE Promise!Next
  <2>1. heap' = heap
    BY <1>5 DEF Drop
  <2>2. roots' \subseteq Live
    BY <1>5, DroppedLive, LiveFacts
  <2>3. Live' = Reachable(heap, roots')
    BY <2>1 DEF Live
  <2> QED BY <2>1, <2>2, <2>3, KeepSeen
<1>6. ASSUME NEW a \in Address, NEW t \in Text, MakeString(a, t) PROVE Promise!Next
  BY <1>2, <1>6, MakeStringMakes
<1>7. ASSUME NEW a \in Address, MakeFunction(a) PROVE Promise!Next
  BY <1>2, <1>7, MakeFunctionMakes
<1>8. ASSUME NEW a \in Address, MakeUpvalue(a) PROVE Promise!Next
  BY <1>2, <1>8, MakeUpvalueMakes
<1>9. ASSUME NEW a \in Address, MakeNative(a) PROVE Promise!Next
  BY <1>2, <1>9, MakeNativeMakes
<1>10. ASSUME NEW a \in Address, NEW b \in Address, MakeClosure(a, b) PROVE Promise!Next
  BY <1>2, <1>10, MakeClosureMakes
<1>11. ASSUME NEW a \in Address, NEW b \in Address, NameFunction(a, b) PROVE Promise!Next
  BY <1>3, <1>11, NameFunctionWrites
<1>12. ASSUME NEW a \in Address, NEW b \in Address, AddConstant(a, b) PROVE Promise!Next
  BY <1>3, <1>12, AddConstantWrites
<1>13. ASSUME NEW a \in Address, NEW b \in Address, Capture(a, b) PROVE Promise!Next
  BY <1>3, <1>13, CaptureWrites
<1>14. ASSUME NEW a \in Address, NEW b \in Address \cup {Null}, SetClosed(a, b)
       PROVE  Promise!Next
  BY <1>3, <1>14, SetClosedWrites
<1> QED
  BY <1>1, <1>4, <1>5, <1>6, <1>7, <1>8, <1>9, <1>10, <1>11, <1>12, <1>13, <1>14
  DEF Program

\* The steps of a collection are none of the program's.
LEMMA StepSeen ==
  IInv /\ IInv' /\ [Next]_vars => [Promise!Next]_(Promise!vars)
<1> SUFFICES ASSUME IInv, IInv', [Next]_vars
             PROVE  Promise!Next \/ (Seen' = Seen /\ roots' = roots)
  BY DEF Promise!vars, Seen
<1>1. CASE Program
  BY <1>1, ProgramSeen
<1>2. ASSUME UNCHANGED <<heap, roots>> PROVE Seen' = Seen /\ roots' = roots
  <2>1. Live' = Live
    BY <1>2 DEF Live
  <2> QED BY <1>2, <2>1, SeenUnchanged
<1>3. CASE FreeUnmarked
  <2>1. Live' = Live /\ \A b \in Live : heap'[b] = heap[b]
    BY <1>3, FreeUnmarkedSafe
  <2> QED BY <1>3, <2>1, SeenUnchanged DEF FreeUnmarked
<1>4. CASE FreeFirst
  <2>1. Live' = Live /\ \A b \in Live : heap'[b] = heap[b]
    BY <1>4, FreeFirstSafe
  <2> QED BY <1>4, <2>1, SeenUnchanged DEF FreeFirst
<1>5. CASE Destroy
  <2>1. roots' = {} /\ heap' = heap
    BY <1>5 DEF Destroy
  <2>2. roots' \subseteq Live /\ Live' = Reachable(heap, roots')
    BY <2>1 DEF Live
  <2> QED BY <2>1, <2>2, KeepSeen
<1>6. CASE MarkRoots \/ (\E a \in Address : Blacken(a)) \/ EndTrace \/ RemoveWhite
           \/ KeepMarked \/ EndSweep \/ UNCHANGED vars
  <2>1. UNCHANGED <<heap, roots>>
    BY <1>6 DEF MarkRoots, Blacken, EndTrace, RemoveWhite, KeepMarked, EndSweep, vars
  <2> QED BY <1>2, <2>1
<1> QED BY <1>1, <1>3, <1>4, <1>5, <1>6 DEF Next, Collect

LEMMA InitSeen == Init => Promise!Init
<1> SUFFICES ASSUME Init PROVE Promise!Init
  OBVIOUS
<1>1. heap = Empty /\ roots = {} /\ Live = {}
  BY NothingLive DEF Init
<1>2. Part(heap, Live) = Promise!Empty
  <2>1. {} \cap DOMAIN heap = {}
    OBVIOUS
  <2> QED BY <1>1, <2>1 DEF Part, Promise!Empty
<1> QED BY <1>1, <1>2 DEF Promise!Init

(***************************************************************************)
(* The memory manager keeps its promise: whenever a collection begins and  *)
(* however its steps come, the objects the program can come to are as the  *)
(* program made and wrote them, and a text is never made anew while a      *)
(* string that has it can be reached.                                      *)
(***************************************************************************)
THEOREM KeepsItsPromise == Spec => ImplementsProgramHeap
<1>1. Init => Promise!Init
  BY InitSeen
<1>2. IInv /\ IInv' /\ [Next]_vars => [Promise!Next]_(Promise!vars)
  BY StepSeen
<1>3. Spec => Promise!Spec
  BY <1>1, <1>2, Invariance, PTL DEF Spec, Promise!Spec
<1> QED BY <1>3 DEF ImplementsProgramHeap
=============================================================================
