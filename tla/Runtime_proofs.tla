--------------------------- MODULE Runtime_proofs ---------------------------
(***************************************************************************)
(* The proofs about what the compiler and the machine hold while they      *)
(* allocate: whenever the collector runs, it frees nothing they need.      *)
(***************************************************************************)
EXTENDS Runtime, FiniteSetTheorems, FunctionTheorems, SequenceTheorems, TLAPS

-----------------------------------------------------------------------------
(***************************************************************************)
(* Objects, and what can be reached from them (as in Collector_proofs).    *)
(***************************************************************************)
LEMMA ObjectKinds ==
  ASSUME NEW object \in Object
  PROVE  /\ object.type \in {"string", "function", "upvalue", "closure", "native"}
         /\ object.type = "string" <=> object \in Strings
         /\ object.type = "function" <=> object \in Functions
         /\ object.type = "upvalue" <=> object \in Upvalues
         /\ object.type = "closure" <=> object \in Closures
         /\ object.type = "native" <=> object \in Natives
BY DEF Object, Strings, Functions, Upvalues, Closures, Natives

LEMMA ReferencesAreAddresses ==
  ASSUME NEW object \in Object
  PROVE  References(object) \subseteq Address
<1>1. CASE object.type = "function"
  BY <1>1, ObjectKinds DEF References, Functions
<1>2. CASE object.type = "upvalue"
  BY <1>2, ObjectKinds DEF References, Upvalues
<1>3. CASE object.type = "closure"
  BY <1>3, ObjectKinds DEF References, Closures
<1>4. CASE object.type \in {"string", "native"}
  BY <1>4 DEF References
<1> QED BY <1>1, <1>2, <1>3, <1>4, ObjectKinds

LEMMA ObjectAt ==
  ASSUME NEW h, IsHeap(h), NEW a \in DOMAIN h
  PROVE  a \in Address /\ h[a] \in Object /\ References(h[a]) \subseteq Address
BY ReferencesAreAddresses DEF IsHeap

\* What can be reached is the least set that has the roots and is closed.
LEMMA ReachableIsClosed ==
  ASSUME NEW h, NEW roots \in SUBSET Address, IsHeap(h)
  PROVE  /\ Reachable(h, roots) \subseteq Address
         /\ roots \subseteq Reachable(h, roots)
         /\ ClosedUnder(h, Reachable(h, roots))
<1>1. /\ Reachable(h, roots) \subseteq Address
      /\ roots \subseteq Reachable(h, roots)
  BY DEF Reachable
<1>2. ASSUME NEW a \in Reachable(h, roots) \cap DOMAIN h,
             NEW r \in References(h[a])
      PROVE  r \in Reachable(h, roots)
  <2>1. r \in Address
    BY <1>2, ObjectAt
  <2>2. ASSUME NEW A \in SUBSET Address, roots \subseteq A, ClosedUnder(h, A)
        PROVE  r \in A
    <3>1. a \in A
      BY <2>2, <1>2 DEF Reachable
    <3> QED BY <3>1, <2>2, <1>2 DEF ClosedUnder
  <2> QED BY <2>1, <2>2 DEF Reachable
<1> QED BY <1>1, <1>2 DEF ClosedUnder

LEMMA ReachableIsLeast ==
  ASSUME NEW h, NEW roots, NEW A \in SUBSET Address,
         roots \subseteq A, ClosedUnder(h, A)
  PROVE  Reachable(h, roots) \subseteq A
BY DEF Reachable

LEMMA PartIsHeap ==
  ASSUME NEW h, IsHeap(h), NEW A
  PROVE  /\ IsHeap(Part(h, A))
         /\ DOMAIN Part(h, A) = A \cap DOMAIN h
         /\ \A a \in A \cap DOMAIN h : Part(h, A)[a] = h[a]
BY DEF IsHeap, Part

\* An object stays well typed while what it refers to stays of its type.
LEMMA WellTypedThrough ==
  ASSUME NEW h, NEW other, NEW object \in Object, WellTyped(h, object),
         \A a \in References(object) \cap DOMAIN h :
            a \in DOMAIN other /\ other[a].type = h[a].type
  PROVE  WellTyped(other, object)
<1>1. \A a \in References(object) : \A type : IsA(h, a, type) => IsA(other, a, type)
  BY DEF IsA
<1>2. CASE object.type = "closure"
  <2>1. /\ References(object) = {object.function} \cup object.upvalues
        /\ IsA(h, object.function, "function")
        /\ \A u \in object.upvalues : IsA(h, u, "upvalue")
    BY <1>2 DEF References, WellTyped
  <2>2. /\ IsA(other, object.function, "function")
        /\ \A u \in object.upvalues : IsA(other, u, "upvalue")
    BY <1>1, <2>1
  <2> QED BY <1>2, <2>2 DEF WellTyped
<1>3. CASE object.type = "function"
  <2>1. /\ References(object) = ({object.name} \ {Null}) \cup object.constants
        /\ object.name # Null => IsA(h, object.name, "string")
        /\ \A c \in object.constants : IsA(h, c, "string") \/ IsA(h, c, "function")
    BY <1>3 DEF References, WellTyped
  <2>2. /\ object.name # Null => IsA(other, object.name, "string")
        /\ \A c \in object.constants : IsA(other, c, "string") \/ IsA(other, c, "function")
    BY <1>1, <2>1
  <2> QED BY <1>3, <2>2 DEF WellTyped
<1>4. CASE object.type = "upvalue"
  <2>1. /\ References(object) = {object.closed} \ {Null}
        /\ object.closed # Null => \E type \in {"string", "closure", "native"} :
                                     IsA(h, object.closed, type)
    BY <1>4 DEF References, WellTyped
  <2>2. object.closed # Null => \E type \in {"string", "closure", "native"} :
                                  IsA(other, object.closed, type)
    BY <1>1, <2>1
  <2> QED BY <1>4, <2>2 DEF WellTyped
<1>5. CASE object.type \in {"string", "native"}
  BY <1>5 DEF WellTyped
<1> QED BY <1>2, <1>3, <1>4, <1>5, ObjectKinds

\* A well-typed object refers to objects that are there.
LEMMA WellTypedRefers ==
  ASSUME NEW h, NEW object \in Object, WellTyped(h, object)
  PROVE  References(object) \subseteq DOMAIN h
<1>1. CASE object.type = "closure"
  BY <1>1 DEF References, WellTyped, IsA
<1>2. CASE object.type = "function"
  BY <1>2 DEF References, WellTyped, IsA
<1>3. CASE object.type = "upvalue"
  BY <1>3 DEF References, WellTyped, IsA
<1>4. CASE object.type \in {"string", "native"}
  BY <1>4 DEF References
<1> QED BY <1>1, <1>2, <1>3, <1>4, ObjectKinds

-----------------------------------------------------------------------------
(***************************************************************************)
(* Tracing finds exactly what can be reached.                              *)
(***************************************************************************)
\* Less than, as a relation.
LessThan == {pair \in Nat \X Nat : pair[1] < pair[2]}

\* A set of natural numbers that is not empty has a least element.
LEMMA LeastNumber ==
  ASSUME NEW S \in SUBSET Nat, S # {}
  PROVE  \E n \in S : \A m \in S : n <= m
<1>1. IsWellFoundedOn(LessThan, Nat)
  <2>1. OpToRel(<, Nat) = LessThan
    BY Zenon DEF OpToRel, LessThan
  <2> QED BY <2>1, NatLessThanWellFounded, Zenon
<1>2. PICK n \in S : \A m \in S : ~ (<<m, n>> \in LessThan)
  BY <1>1, WFMin, Zenon
<1>3. ASSUME NEW m \in S PROVE n <= m
  <2>1. ~ (<<m, n>> \in LessThan)
    BY <1>2
  <2>2. m \in Nat /\ n \in Nat
    OBVIOUS
  <2> QED BY <2>1, <2>2 DEF LessThan
<1> QED BY <1>3

\* A set that has 0, and the successor of all it has, has all the numbers.
LEMMA SetInduction ==
  ASSUME NEW S, 0 \in S, \A n \in Nat : n \in S => n + 1 \in S
  PROVE  Nat \subseteq S
<1> DEFINE T == Nat \ S
<1>1. SUFFICES ASSUME T # {} PROVE FALSE
  OBVIOUS
<1>2. PICK n \in T : \A m \in T : n <= m
  BY <1>1, LeastNumber
<1>3. n # 0 /\ n - 1 \in Nat /\ n - 1 \notin T
  BY <1>2
<1> QED BY <1>2, <1>3

Refers(h, A) == UNION {References(h[a]) : a \in A \cap DOMAIN h}

\* The rounds of Traced, as a function.
Rounds(h, roots, f, n) ==
  f = [m \in 0..n |-> IF m = 0 THEN roots
                      ELSE f[m - 1] \cup Refers(h, f[m - 1])]

LEMMA RoundsExist ==
  ASSUME NEW h, NEW roots
  PROVE  \A n \in Nat : \E f : Rounds(h, roots, f, n)
<1> DEFINE S == {n \in Nat : \E f : Rounds(h, roots, f, n)}
<1>1. 0 \in S
  <2> DEFINE f == [m \in 0..0 |-> roots]
  <2>1. f = [m \in 0..0 |-> IF m = 0 THEN roots
                            ELSE f[m - 1] \cup Refers(h, f[m - 1])]
    OBVIOUS
  <2> HIDE DEF f
  <2> QED BY <2>1 DEF Rounds
<1>2. ASSUME NEW n \in Nat, n \in S PROVE n + 1 \in S
  <2>1. PICK f : Rounds(h, roots, f, n)
    BY <1>2
  <2> DEFINE g == [m \in 0..(n + 1) |->
                     IF m <= n THEN f[m] ELSE f[n] \cup Refers(h, f[n])]
  <2>2. /\ DOMAIN f = 0..n
        /\ \A m \in 0..n : f[m] = IF m = 0 THEN roots
                                  ELSE f[m - 1] \cup Refers(h, f[m - 1])
    BY <2>1 DEF Rounds
  <2>3. \A m \in 0..(n + 1) :
           g[m] = IF m = 0 THEN roots ELSE g[m - 1] \cup Refers(h, g[m - 1])
    <3>1. ASSUME NEW m \in 0..(n + 1)
          PROVE  g[m] = IF m = 0 THEN roots
                        ELSE g[m - 1] \cup Refers(h, g[m - 1])
      <4>1. CASE m <= n
        <5>1. m # 0 => m - 1 \in 0..n
          BY <4>1
        <5> QED BY <4>1, <5>1, <2>2
      <4>2. CASE m = n + 1
        <5>1. m # 0 /\ m - 1 = n /\ ~ (m <= n)
          BY <4>2
        <5> QED BY <4>2, <5>1
      <4> QED BY <4>1, <4>2
    <3> QED BY <3>1
  <2>4. g = [m \in 0..(n + 1) |-> g[m]]
    OBVIOUS
  <2> HIDE DEF g
  <2>5. Rounds(h, roots, g, n + 1)
    BY <2>3, <2>4 DEF Rounds
  <2> QED BY <2>5
<1> HIDE DEF S
<1>3. Nat \subseteq S
  BY <1>1, <1>2, SetInduction
<1> QED BY <1>3 DEF S

LEMMA TracedIsRound ==
  ASSUME NEW h, NEW roots
  PROVE  \E f : /\ Rounds(h, roots, f, Cardinality(Address))
                /\ Traced(h, roots) = f[Cardinality(Address)]
<1> DEFINE f == CHOOSE f : Rounds(h, roots, f, Cardinality(Address))
<1>1. Cardinality(Address) \in Nat
  BY AddressAssumption, FS_CardinalityType
<1>2. \E g : Rounds(h, roots, g, Cardinality(Address))
  BY <1>1, RoundsExist
<1>3. Traced(h, roots) = f[Cardinality(Address)]
  BY DEF Traced, Rounds, Refers
<1>4. Rounds(h, roots, f, Cardinality(Address))
  BY <1>2
<1> QED BY <1>3, <1>4

\* Each round keeps to what can be reached.
LEMMA RoundsReachable ==
  ASSUME NEW h, IsHeap(h), NEW roots \in SUBSET Address,
         NEW n \in Nat, NEW f, Rounds(h, roots, f, n)
  PROVE  \A m \in 0..n : roots \subseteq f[m] /\ f[m] \subseteq Reachable(h, roots)
<1> DEFINE R == Reachable(h, roots)
           S == {m \in Nat : m <= n => roots \subseteq f[m] /\ f[m] \subseteq R}
<1>1. R \subseteq Address /\ roots \subseteq R /\ ClosedUnder(h, R)
  BY ReachableIsClosed
<1> HIDE DEF R
<1>2. f[0] = roots /\ \A m \in 1..n : f[m] = f[m - 1] \cup Refers(h, f[m - 1])
  <2> DEFINE g == [m \in 0..n |-> IF m = 0 THEN roots
                                  ELSE f[m - 1] \cup Refers(h, f[m - 1])]
  <2>1. f = g
    BY Zenon DEF Rounds
  <2>2. g[0] = roots
    OBVIOUS
  <2>3. \A m \in 1..n : g[m] = f[m - 1] \cup Refers(h, f[m - 1])
    OBVIOUS
  <2> HIDE DEF g
  <2> QED BY <2>1, <2>2, <2>3, Zenon
<1>3. 0 \in S
  BY <1>1, <1>2
<1>4. ASSUME NEW m \in Nat, m \in S PROVE m + 1 \in S
  <2>1. CASE m + 1 <= n
    <3>1. roots \subseteq f[m] /\ f[m] \subseteq R
      BY <1>4, <2>1
    <3>2. f[m + 1] = f[m] \cup Refers(h, f[m])
      <4>1. m + 1 \in 1..n /\ (m + 1) - 1 = m
        BY <2>1
      <4> QED BY <1>2, <4>1
    <3>3. Refers(h, f[m]) \subseteq R
      BY <1>1, <3>1 DEF Refers, ClosedUnder
    <3> QED BY <3>1, <3>2, <3>3
  <2> QED BY <2>1
<1> HIDE DEF S
<1>5. Nat \subseteq S
  BY <1>3, <1>4, SetInduction
<1> QED BY <1>5 DEF S, R

\* Each round marks something, unless there is nothing more to mark.
LEMMA RoundsGrow ==
  ASSUME NEW h, IsHeap(h), NEW roots \in SUBSET Address,
         NEW n \in Nat, NEW f, Rounds(h, roots, f, n)
  PROVE  \A m \in 0..n : ClosedUnder(h, f[m]) \/ Cardinality(f[m]) >= m
<1> DEFINE S == {m \in Nat : m <= n =>
                   ClosedUnder(h, f[m]) \/ Cardinality(f[m]) >= m}
<1>1. ASSUME NEW m \in 0..n
      PROVE  IsFiniteSet(f[m]) /\ Cardinality(f[m]) \in Nat
  <2>1. f[m] \subseteq Address
    BY RoundsReachable, ReachableIsClosed
  <2> QED BY <2>1, AddressAssumption, FS_Subset, FS_CardinalityType
<1>2. 0 \in S
  BY <1>1
<1>3. ASSUME NEW m \in Nat, m \in S PROVE m + 1 \in S
  <2>1. SUFFICES ASSUME m + 1 <= n
                 PROVE  \/ ClosedUnder(h, f[m + 1])
                        \/ Cardinality(f[m + 1]) >= m + 1
    OBVIOUS
  <2>2. m \in 0..n /\ m + 1 \in 0..n
    BY <2>1
  <2>3. f[m + 1] = f[m] \cup Refers(h, f[m])
    <3>1. (m + 1) - 1 = m /\ m + 1 # 0
      OBVIOUS
    <3> QED BY <2>2, <3>1 DEF Rounds
  <2>4. CASE ClosedUnder(h, f[m])
    <3>1. Refers(h, f[m]) \subseteq f[m]
      BY <2>4 DEF ClosedUnder, Refers
    <3>2. f[m + 1] = f[m]
      BY <2>3, <3>1
    <3> QED BY <2>4, <3>2
  <2>5. CASE ~ ClosedUnder(h, f[m])
    <3>1. Cardinality(f[m]) >= m
      BY <1>3, <2>1, <2>5
    <3>2. f[m] \subseteq f[m + 1]
      BY <2>3
    <3>3. f[m] # f[m + 1]
      BY <2>3, <2>5 DEF ClosedUnder, Refers
    <3>4. Cardinality(f[m]) < Cardinality(f[m + 1])
      <4>1. /\ IsFiniteSet(f[m + 1])
            /\ Cardinality(f[m]) \in Nat /\ Cardinality(f[m + 1]) \in Nat
        BY <1>1, <2>2
      <4>2. /\ Cardinality(f[m]) <= Cardinality(f[m + 1])
            /\ Cardinality(f[m]) # Cardinality(f[m + 1])
        BY <3>2, <3>3, <4>1, FS_Subset
      <4> QED BY <4>1, <4>2
    <3> QED BY <1>1, <2>2, <3>1, <3>4
  <2> QED BY <2>4, <2>5
<1> HIDE DEF S
<1>4. Nat \subseteq S
  BY <1>2, <1>3, SetInduction
<1> QED BY <1>4 DEF S

(***************************************************************************)
(* trace_references() finds all that can be reached, and nothing else: as  *)
(* many rounds as there are addresses are enough, whatever the heap.       *)
(***************************************************************************)
THEOREM TracedIsReachable ==
  ASSUME NEW h, IsHeap(h), NEW roots \in SUBSET Address
  PROVE  Traced(h, roots) = Reachable(h, roots)
<1> DEFINE C == Cardinality(Address)
<1>1. C \in Nat
  BY AddressAssumption, FS_CardinalityType
<1>2. PICK f : Rounds(h, roots, f, C) /\ Traced(h, roots) = f[C]
  BY TracedIsRound
<1> HIDE DEF C
<1>3. C \in 0..C
  BY <1>1
<1>4. roots \subseteq f[C] /\ f[C] \subseteq Reachable(h, roots)
  BY <1>1, <1>2, <1>3, RoundsReachable
<1>5. f[C] \in SUBSET Address
  BY <1>4, ReachableIsClosed
<1>6. ClosedUnder(h, f[C])
  <2>1. CASE Cardinality(f[C]) >= C
    <3>1. Cardinality(f[C]) <= Cardinality(Address)
      BY <1>5, AddressAssumption, FS_Subset
    <3>2. Cardinality(f[C]) \in Nat
      BY <1>5, AddressAssumption, FS_Subset, FS_CardinalityType
    <3>3. Cardinality(f[C]) = Cardinality(Address)
      BY <1>1, <2>1, <3>1, <3>2 DEF C
    <3>4. f[C] = Address
      BY <1>5, <3>3, AddressAssumption, FS_Subset
    <3> QED BY <3>4, ObjectAt DEF ClosedUnder
  <2> QED BY <1>1, <1>2, <1>3, <2>1, RoundsGrow
<1> QED BY <1>2, <1>4, <1>5, <1>6, ReachableIsLeast

-----------------------------------------------------------------------------

Reference == Address \cup {Null}

(***************************************************************************)
(* All objects, also those the collector is yet to free, are of the kinds  *)
(* the code takes them for.                                                *)
(***************************************************************************)
HeapOk(h) == IsHeap(h) /\ \A a \in DOMAIN h : WellTyped(h, h[a])

HeapInv == HeapOk(heap)

(***************************************************************************)
(* Every string is in the table or on its way there, and no two are the    *)
(* same.                                                                   *)
(***************************************************************************)
InternInv ==
  /\ \A s \in strings : IsA(heap, s, "string")
  /\ \A s \in DOMAIN heap :
       heap[s].type = "string" => s \in strings \/ (todo.do = "intern" /\ todo.obj = s)
  /\ \A s, t \in DOMAIN heap :
       heap[s].type = "string" /\ heap[t].type = "string" /\ heap[s].text = heap[t].text
         => s = t

\* What a program may have in a variable, and a function as a constant.
IsValue(h, v) == v = Null \/ IsA(h, v, "string") \/ IsA(h, v, "closure") \/ IsA(h, v, "native")

IsConstant(h, v) == IsA(h, v, "string") \/ IsA(h, v, "function")

\* The globals, and what the parser holds.
ValuesInv ==
  /\ values \in Seq(Reference)
  /\ \A i \in DOMAIN values : IsValue(heap, values[i])

ParserInv ==
  /\ compilers \in Seq(Address)
  /\ \A i \in DOMAIN compilers : IsA(heap, compilers[i], "function")
  /\ tokens \in Seq(Reference) /\ Len(tokens) = 2
  /\ \A i \in 1 .. 2 : tokens[i] # Null => IsA(heap, tokens[i], "string")

NamesInv ==
  /\ names \in [DOMAIN names -> DOMAIN values]
  /\ \A s \in DOMAIN names : IsA(heap, s, "string")
  /\ \A m, n \in DOMAIN names : names[m] = names[n] => m = n
  /\ \A i \in DOMAIN values :
       (\E n \in DOMAIN names : names[n] = i) <=> ~(todo.do = "index" /\ i = Len(values))
  /\ todo.do = "index" => values # <<>>
  /\ todo.do \in {"intern", "native", "value", "index"} => todo.obj \notin DOMAIN names

\* The stack, the frames and the captured slots.
StackInv ==
  /\ stack \in Seq(Reference)
  /\ frames # <<>> => \A i \in DOMAIN stack : IsValue(heap, stack[i])

FramesInv ==
  /\ frames \in Seq([closure : Address, slot : Nat])
  /\ \A i \in DOMAIN frames :
       /\ IsA(heap, frames[i].closure, "closure")
       /\ frames[i].slot \in 1 .. Len(stack)
       /\ i = 1 => frames[i].slot = 1
       /\ \A j \in DOMAIN frames : j < i => frames[j].slot < frames[i].slot

OpenInv ==
  /\ open \in [DOMAIN open -> Address]
  /\ DOMAIN open \subseteq DOMAIN stack
  /\ \A i \in DOMAIN open : IsA(heap, open[i], "upvalue")
  /\ frames = <<>> => DOMAIN open = {}

\* The compiler and the program never run both.
ModeInv ==
  /\ lines \in 0 .. MaxLines
  /\ compilers # <<>> => frames = <<>> /\ lines > 0
  /\ frames # <<>> => lines > 0

InCompiler == compilers # <<>> /\ Len(stack) = 1
InMachine  == compilers = <<>> /\ frames = <<>> /\ lines = 0
InProgram  == frames # <<>>

OnTop == stack # <<>> /\ Last(stack) = todo.obj

Tasks == [do : {"nothing", "scan", "name", "intern", "native", "value", "index",
                "constant", "constant_index", "script", "frame", "capture"},
          obj : Reference, user : User]

CompilerUser == {"scanner", "begin_compiler", "declare", "resolve"}

(***************************************************************************)
(* What the code in progress has in hand, and where on the stack that is.  *)
(***************************************************************************)
TodoInv ==
  /\ todo \in Tasks
  /\ todo.do = "nothing" => todo = Nothing /\ (frames = <<>> => stack = <<>>)
  /\ todo.do \in {"scan", "name"} => compilers # <<>> /\ stack = <<>>
  /\ todo.do \in {"constant", "constant_index"} =>
       InCompiler /\ OnTop /\ IsConstant(heap, todo.obj)
  /\ todo.do = "intern" =>
       /\ OnTop /\ IsA(heap, todo.obj, "string")
       /\ \/ todo.user \in CompilerUser /\ InCompiler
          \/ todo.user = "define_native" /\ InMachine /\ Len(stack) = 1
          \/ /\ todo.user = "native" /\ InProgram
             /\ Len(stack) > Last(frames).slot + 1 /\ Len(stack) \notin DOMAIN open
  /\ todo.do = "native" =>
       InMachine /\ OnTop /\ Len(stack) = 1 /\ IsA(heap, todo.obj, "string")
  /\ todo.do \in {"value", "index"} =>
       /\ IsA(heap, todo.obj, "string")
       /\ \/ todo.user = "declare" /\ InCompiler /\ OnTop
          \/ /\ todo.user = "define_native" /\ InMachine /\ Len(stack) = 2
             /\ stack[1] = todo.obj /\ IsA(heap, stack[2], "native")
  /\ todo.do = "script" =>
       /\ compilers = <<>> /\ frames = <<>> /\ lines > 0
       /\ OnTop /\ Len(stack) = 1 /\ IsA(heap, todo.obj, "function")
  /\ todo.do = "frame" =>
       /\ compilers = <<>> /\ lines > 0
       /\ OnTop /\ IsA(heap, todo.obj, "closure")
       /\ frames = <<>> => Len(stack) = 1
       /\ frames # <<>> => Len(stack) > Last(frames).slot
  /\ todo.do = "capture" => InProgram /\ OnTop /\ IsA(heap, todo.obj, "closure")

IInv ==
  /\ HeapInv /\ InternInv /\ ValuesInv /\ ParserInv /\ NamesInv
  /\ StackInv /\ FramesInv /\ OpenInv /\ ModeInv /\ TodoInv

-----------------------------------------------------------------------------
(* Heaps that grow or are written to. *)

\* What was there is there, of its kind; a string never changes.
Kept(h, g) ==
  \A a \in DOMAIN h : /\ a \in DOMAIN g /\ g[a].type = h[a].type
                      /\ h[a].type = "string" => g[a] = h[a]

LEMMA KeptSame ==
  ASSUME NEW h
  PROVE  Kept(h, h)
BY DEF Kept

LEMMA StillA ==
  ASSUME NEW h, NEW g, Kept(h, g)
  PROVE  /\ \A a : \A type : IsA(h, a, type) => IsA(g, a, type)
         /\ \A v : IsValue(h, v) => IsValue(g, v)
         /\ \A v : IsConstant(h, v) => IsConstant(g, v)
<1>1. \A a : \A type : IsA(h, a, type) => IsA(g, a, type)
  BY DEF Kept, IsA
<1> QED BY <1>1 DEF IsValue, IsConstant

\* Each object is as it was, or new or rewritten and well typed.
LEMMA HeapChanged ==
  ASSUME NEW h, HeapOk(h), NEW g, Kept(h, g), DOMAIN g \subseteq Address,
         g \in [DOMAIN g -> Object],
         \A a \in DOMAIN g : (a \in DOMAIN h /\ g[a] = h[a]) \/ WellTyped(g, g[a])
  PROVE  HeapOk(g)
<1>1. ASSUME NEW a \in DOMAIN g, a \in DOMAIN h, g[a] = h[a]
      PROVE  WellTyped(g, g[a])
  <2>1. h[a] \in Object /\ WellTyped(h, h[a])
    BY <1>1 DEF HeapOk, IsHeap
  <2>2. \A b \in References(h[a]) \cap DOMAIN h : b \in DOMAIN g /\ g[b].type = h[b].type
    BY DEF Kept
  <2> QED BY <1>1, <2>1, <2>2, WellTypedThrough
<1> QED BY <1>1 DEF HeapOk, IsHeap

LEMMA HeapPlaced ==
  ASSUME NEW h, HeapOk(h), NEW a \in Address \ DOMAIN h, NEW object \in Object,
         WellTyped(Place(h, a, object), object)
  PROVE  /\ HeapOk(Place(h, a, object))
         /\ Kept(h, Place(h, a, object))
         /\ DOMAIN Place(h, a, object) = DOMAIN h \cup {a}
         /\ Place(h, a, object)[a] = object
         /\ \A b \in DOMAIN h : Place(h, a, object)[b] = h[b]
<1>1. IsHeap(h) /\ a \in Address
  BY DEF HeapOk
<1> DEFINE g == Place(h, a, object)
<1>2. /\ IsHeap(g) /\ DOMAIN g = DOMAIN h \cup {a} /\ g[a] = object
      /\ \A b \in DOMAIN h : b # a => g[b] = h[b]
  BY <1>1 DEF IsHeap, Place
<1>3. WellTyped(g, object)
  OBVIOUS
<1> HIDE DEF g
<1>4. \A b \in DOMAIN h : g[b] = h[b]
  BY <1>2
<1>5. Kept(h, g)
  BY <1>2, <1>4 DEF Kept
<1>6. DOMAIN g \subseteq Address /\ g \in [DOMAIN g -> Object]
  BY <1>2 DEF IsHeap
<1>7. \A b \in DOMAIN g : (b \in DOMAIN h /\ g[b] = h[b]) \/ WellTyped(g, g[b])
  BY <1>2, <1>3, <1>4
<1>8. HeapOk(g)
  BY <1>5, <1>6, <1>7, HeapChanged
<1> QED BY <1>2, <1>4, <1>5, <1>8 DEF g

\* An object of the same kind in the place of one that is no string.
Rewritten(h, a, object) == [h EXCEPT ![a] = object]

LEMMA HeapRewritten ==
  ASSUME NEW h, HeapOk(h), NEW a \in DOMAIN h, NEW object \in Object,
         object.type = h[a].type, object.type # "string", WellTyped(h, object)
  PROVE  /\ HeapOk(Rewritten(h, a, object))
         /\ Kept(h, Rewritten(h, a, object))
         /\ DOMAIN Rewritten(h, a, object) = DOMAIN h
<1> DEFINE g == Rewritten(h, a, object)
<1>1. /\ DOMAIN g = DOMAIN h /\ g[a] = object
      /\ \A b \in DOMAIN h : b # a => g[b] = h[b]
      /\ DOMAIN h \subseteq Address /\ g \in [DOMAIN h -> Object]
  BY DEF Rewritten, HeapOk, IsHeap
<1> HIDE DEF g
<1>2. Kept(h, g)
  BY <1>1 DEF Kept
<1>3. WellTyped(g, object)
  <2>1. \A b \in References(object) \cap DOMAIN h : b \in DOMAIN g /\ g[b].type = h[b].type
    BY <1>2 DEF Kept
  <2> QED BY <2>1, WellTypedThrough
<1>4. HeapOk(g)
  <2>1. g \in [DOMAIN g -> Object] /\ DOMAIN g \subseteq Address
    BY <1>1
  <2>2. \A b \in DOMAIN g : (b \in DOMAIN h /\ g[b] = h[b]) \/ WellTyped(g, g[b])
    BY <1>1, <1>3
  <2> QED BY <1>2, <2>1, <2>2, HeapChanged
<1> QED BY <1>1, <1>2, <1>4 DEF g

\* Nothing but a new string disturbs the table of strings.
LEMMA InternKept ==
  ASSUME InternInv, Kept(heap, heap'), strings' = strings,
         \A a \in DOMAIN heap' : heap'[a].type = "string" => a \in DOMAIN heap,
         todo.do # "intern" \/ todo' = todo
  PROVE  InternInv'
<1>1. \A s \in DOMAIN heap' : heap'[s].type = "string" =>
         s \in DOMAIN heap /\ heap[s].type = "string" /\ heap'[s] = heap[s]
  BY DEF Kept
<1>2. \A s \in strings' : IsA(heap', s, "string")
  BY StillA DEF InternInv
<1>3. \A s \in DOMAIN heap' : heap'[s].type = "string" =>
         s \in strings' \/ (todo'.do = "intern" /\ todo'.obj = s)
  BY <1>1 DEF InternInv
<1>4. \A s, t \in DOMAIN heap' :
         /\ heap'[s].type = "string" /\ heap'[t].type = "string"
         /\ heap'[s].text = heap'[t].text
         => s = t
  <2>1. SUFFICES ASSUME NEW s \in DOMAIN heap', NEW t \in DOMAIN heap',
                        heap'[s].type = "string", heap'[t].type = "string",
                        heap'[s].text = heap'[t].text
                 PROVE  s = t
    OBVIOUS
  <2>2. /\ s \in DOMAIN heap /\ heap[s].type = "string" /\ heap'[s] = heap[s]
        /\ t \in DOMAIN heap /\ heap[t].type = "string" /\ heap'[t] = heap[t]
    BY <1>1, <2>1
  <2> QED BY <2>1, <2>2 DEF InternInv
<1> QED BY <1>2, <1>3, <1>4 DEF InternInv

LEMMA ValuesKept ==
  ASSUME ValuesInv, Kept(heap, heap'), UNCHANGED values
  PROVE  ValuesInv'
BY StillA DEF ValuesInv, Reference

LEMMA ParserKept ==
  ASSUME ParserInv, Kept(heap, heap'), UNCHANGED parser
  PROVE  ParserInv'
BY StillA DEF ParserInv, Reference, parser

LEMMA NamesKept ==
  ASSUME NamesInv, Kept(heap, heap'), UNCHANGED names,
         DOMAIN values' = DOMAIN values, Len(values') = Len(values), values' = <<>> => values = <<>>,
         todo.do = "index" <=> todo'.do = "index",
         todo'.do \in {"intern", "native", "value", "index"} => todo'.obj \notin DOMAIN names
  PROVE  NamesInv'
<1>1. \A s \in DOMAIN names' : IsA(heap', s, "string")
  BY StillA DEF NamesInv
<1>2. names' \in [DOMAIN names' -> DOMAIN values']
  BY DEF NamesInv
<1>3. \A i \in DOMAIN values' :
       (\E n \in DOMAIN names' : names'[n] = i) <=> ~(todo'.do = "index" /\ i = Len(values'))
  BY DEF NamesInv
<1> QED BY <1>1, <1>2, <1>3 DEF NamesInv

LEMMA StackKept ==
  ASSUME StackInv, Kept(heap, heap'), UNCHANGED <<stack, frames>>
  PROVE  StackInv'
BY StillA DEF StackInv, Reference

LEMMA FramesKept ==
  ASSUME FramesInv, Kept(heap, heap'), UNCHANGED frames, Len(stack') >= Len(stack),
         Len(stack) \in Nat, Len(stack') \in Nat
  PROVE  FramesInv'
<1>1. \A i \in DOMAIN frames :
         IsA(heap', frames[i].closure, "closure") /\ frames[i].slot \in 1 .. Len(stack')
  BY StillA DEF FramesInv
<1> QED BY <1>1 DEF FramesInv

LEMMA OpenKept ==
  ASSUME OpenInv, Kept(heap, heap'), UNCHANGED <<open, frames>>, DOMAIN open \subseteq DOMAIN stack'
  PROVE  OpenInv'
BY StillA DEF OpenInv

LEMMA ModeKept ==
  ASSUME ModeInv, UNCHANGED <<lines, compilers, frames>>
  PROVE  ModeInv'
BY DEF ModeInv

-----------------------------------------------------------------------------
(* Sequences. *)

LEMMA SeqFacts ==
  ASSUME NEW S, NEW s \in Seq(S)
  PROVE  /\ Len(s) \in Nat /\ DOMAIN s = 1 .. Len(s)
         /\ \A i \in DOMAIN s : s[i] \in S
         /\ s = <<>> <=> Len(s) = 0
         /\ s # <<>> => Len(s) \in DOMAIN s
OBVIOUS

LEMMA Appended ==
  ASSUME NEW S, NEW s \in Seq(S), NEW v \in S
  PROVE  /\ Append(s, v) \in Seq(S)
         /\ Len(Append(s, v)) = Len(s) + 1
         /\ DOMAIN Append(s, v) = 1 .. Len(s) + 1
         /\ \A i \in 1 .. Len(s) : Append(s, v)[i] = s[i]
         /\ Append(s, v)[Len(s) + 1] = v
         /\ Append(s, v) # <<>>
         /\ Last(Append(s, v)) = v
BY AppendProperties DEF Last

LEMMA Shortened ==
  ASSUME NEW S, NEW s \in Seq(S), NEW n \in 0 .. Len(s)
  PROVE  /\ SubSeq(s, 1, n) \in Seq(S)
         /\ Len(SubSeq(s, 1, n)) = n
         /\ DOMAIN SubSeq(s, 1, n) = 1 .. n
         /\ \A i \in 1 .. n : SubSeq(s, 1, n)[i] = s[i]
<1>1. /\ Len(s) \in Nat /\ n \in Nat /\ 1 \in Int /\ n \in Int
      /\ \A i \in 1 .. n : s[i] \in S
  OBVIOUS
<1> DEFINE t == SubSeq(s, 1, n)
<1>2. /\ t \in Seq(S)
      /\ Len(t) = IF 1 <= n THEN n - 1 + 1 ELSE 0
      /\ \A i \in 1 .. n - 1 + 1 : t[i] = s[1 + i - 1]
  BY <1>1, SubSeqProperties
<1> HIDE DEF t
<1>3. Len(t) = n
  BY <1>1, <1>2
<1>4. \A i \in 1 .. n : i \in 1 .. n - 1 + 1 /\ 1 + i - 1 = i
  BY <1>1
<1>5. \A i \in 1 .. n : t[i] = s[i]
  BY <1>2, <1>4
<1> QED BY <1>2, <1>3, <1>5 DEF t

LEMMA FrontFacts ==
  ASSUME NEW S, NEW s \in Seq(S), s # <<>>
  PROVE  /\ Front(s) \in Seq(S)
         /\ Len(Front(s)) = Len(s) - 1
         /\ DOMAIN Front(s) = 1 .. Len(s) - 1
         /\ \A i \in 1 .. Len(s) - 1 : Front(s)[i] = s[i]
<1>1. Len(s) - 1 \in 0 .. Len(s)
  BY SeqFacts
<1> QED BY <1>1, Shortened DEF Front

LEMMA FrontOfOne ==
  ASSUME NEW S, NEW s \in Seq(S), Len(s) = 1
  PROVE  Front(s) = <<>>
<1>1. s # <<>>
  BY SeqFacts
<1>2. Front(s) \in Seq(S) /\ Len(Front(s)) = 0
  BY <1>1, FrontFacts
<1> QED BY <1>2, SeqFacts

LEMMA ExceptFacts ==
  ASSUME NEW S, NEW s \in Seq(S), NEW i \in DOMAIN s, NEW v \in S
  PROVE  /\ [s EXCEPT ![i] = v] \in Seq(S)
         /\ Len([s EXCEPT ![i] = v]) = Len(s)
         /\ DOMAIN [s EXCEPT ![i] = v] = DOMAIN s
         /\ \A j \in DOMAIN s : [s EXCEPT ![i] = v][j] = IF j = i THEN v ELSE s[j]
OBVIOUS

-----------------------------------------------------------------------------
(* An instruction that leaves the frames as they are. *)

\* What is on the stack while a program runs.
LEMMA RunningFacts ==
  ASSUME IInv, frames # <<>>
  PROVE  /\ stack \in Seq(Reference) /\ Len(stack) \in Nat /\ DOMAIN stack = 1 .. Len(stack)
         /\ stack # <<>>
         /\ \A i \in DOMAIN stack : IsValue(heap, stack[i]) /\ stack[i] \in Reference
         /\ Len(stack) \in DOMAIN stack
         /\ Last(frames) = frames[Len(frames)] /\ Len(frames) \in DOMAIN frames
         /\ Last(frames).slot \in 1 .. Len(stack)
         /\ \A i \in DOMAIN frames : frames[i].slot <= Last(frames).slot
         /\ IsA(heap, Last(frames).closure, "closure")
         /\ compilers = <<>> /\ lines > 0
<1>1. /\ stack \in Seq(Reference) /\ \A i \in DOMAIN stack : IsValue(heap, stack[i])
      /\ compilers = <<>> /\ lines > 0
  BY DEF IInv, StackInv, ModeInv
<1>2. frames \in Seq([closure : Address, slot : Nat])
  BY DEF IInv, FramesInv
<1>3. Len(frames) \in DOMAIN frames /\ DOMAIN frames = 1 .. Len(frames) /\ Len(frames) \in Nat
  BY <1>2, SeqFacts
<1>4. Last(frames).slot \in 1 .. Len(stack) /\ IsA(heap, Last(frames).closure, "closure")
  BY <1>3 DEF IInv, FramesInv, Last
<1>5. Len(stack) \in Nat /\ DOMAIN stack = 1 .. Len(stack)
  BY <1>1, SeqFacts
<1>6. Len(stack) # 0 /\ stack # <<>> /\ Len(stack) \in DOMAIN stack
  BY <1>1, <1>4, <1>5, SeqFacts
<1>7. ASSUME NEW i \in DOMAIN frames PROVE frames[i].slot <= Last(frames).slot
  <2>1. CASE i = Len(frames)
    BY <1>4, <1>5, <2>1 DEF Last
  <2>2. CASE i < Len(frames)
    <3>1. frames[i].slot < frames[Len(frames)].slot /\ frames[i].slot \in 1 .. Len(stack)
      BY <1>3, <2>2 DEF IInv, FramesInv
    <3> QED BY <1>4, <1>5, <3>1 DEF Last
  <2> QED BY <1>3, <2>1, <2>2
<1> QED BY <1>1, <1>3, <1>4, <1>5, <1>6, <1>7, SeqFacts DEF Last

\* The frames stay as long as the stack reaches up to the last one.
LEMMA FramesCovered ==
  ASSUME IInv, frames # <<>>, Kept(heap, heap'), UNCHANGED frames,
         Len(stack') \in Nat, Len(stack') >= Last(frames).slot
  PROVE  FramesInv'
<1>1. \A i \in DOMAIN frames :
         IsA(heap', frames[i].closure, "closure") /\ frames[i].slot \in 1 .. Len(stack')
  <2>1. ASSUME NEW i \in DOMAIN frames
        PROVE  IsA(heap', frames[i].closure, "closure") /\ frames[i].slot \in 1 .. Len(stack')
    <3>1. frames[i].slot \in 1 .. Len(stack) /\ frames[i].slot <= Last(frames).slot
      BY RunningFacts DEF IInv, FramesInv
    <3>2. Last(frames).slot \in Nat /\ Len(stack) \in Nat
      BY RunningFacts
    <3>3. frames[i].slot \in 1 .. Len(stack')
      BY <3>1, <3>2
    <3> QED BY <3>3, StillA DEF IInv, FramesInv
  <2> QED BY <2>1
<1> QED BY <1>1 DEF IInv, FramesInv

LEMMA ProgramStep ==
  ASSUME IInv, Executing,
         UNCHANGED <<strings, frames, names, parser, todo, lines>>,
         HeapOk(heap'), Kept(heap, heap'),
         \A a \in DOMAIN heap' : heap'[a].type = "string" => a \in DOMAIN heap,
         stack' \in Seq(Reference), Len(stack') >= Last(frames).slot,
         \A i \in DOMAIN stack' : IsValue(heap', stack'[i]),
         OpenInv',
         values' \in Seq(Reference), Len(values') = Len(values),
         \A i \in DOMAIN values' : IsValue(heap', values'[i])
  PROVE  IInv'
<1>1. frames # <<>> /\ todo = Nothing
  BY DEF Executing
<1>2. HeapInv'
  BY DEF HeapInv
<1>3. InternInv'
  BY InternKept DEF IInv
<1>4. ValuesInv'
  BY DEF ValuesInv
<1>5. ParserInv'
  BY ParserKept DEF IInv
<1>6. NamesInv'
  <2>1. /\ Len(values) \in Nat /\ DOMAIN values = 1 .. Len(values)
        /\ DOMAIN values' = 1 .. Len(values)
        /\ values' = <<>> => values = <<>>
    BY SeqFacts DEF IInv, ValuesInv
  <2>2. todo'.do = "nothing"
    BY <1>1 DEF Nothing
  <2> QED BY <1>1, <2>1, <2>2, NamesKept DEF IInv
<1>7. StackInv'
  BY DEF StackInv
<1>8. FramesInv'
  <2>1. Len(stack') \in Nat
    BY SeqFacts
  <2> QED BY <1>1, <2>1, FramesCovered
<1>9. ModeInv'
  BY ModeKept DEF IInv, parser
<1>10. TodoInv'
  <2>1. todo' = Nothing /\ frames' # <<>> /\ todo'.do = "nothing"
    BY <1>1 DEF Nothing
  <2>2. todo' \in Tasks
    BY DEF IInv, TodoInv, Reference, Tasks
  <2> QED BY <2>1, <2>2 DEF TodoInv
<1> QED BY <1>2, <1>3, <1>4, <1>5, <1>6, <1>7, <1>8, <1>9, <1>10 DEF IInv

\* The same, when no object is written to and no slot ceases to be captured.
LEMMA ValueStep ==
  ASSUME IInv, Executing,
         UNCHANGED <<heap, strings, frames, open, names, parser, todo, lines>>,
         stack' \in Seq(Reference), Len(stack') >= Last(frames).slot,
         DOMAIN open \subseteq DOMAIN stack',
         \A i \in DOMAIN stack' : IsValue(heap, stack'[i]),
         values' \in Seq(Reference), Len(values') = Len(values),
         \A i \in DOMAIN values' : IsValue(heap, values'[i])
  PROVE  IInv'
<1>1. HeapOk(heap') /\ Kept(heap, heap')
  BY KeptSame DEF IInv, HeapInv
<1>2. OpenInv'
  BY <1>1, OpenKept DEF IInv
<1> QED BY <1>1, <1>2, ProgramStep

LEMMA PushStep ==
  ASSUME IInv, Instruction, NEW v \in Reference, IsValue(heap, v), Push(v),
         UNCHANGED <<heap, open, values>>
  PROVE  IInv'
<1>1. /\ stack' = Append(stack, v) /\ Executing
      /\ UNCHANGED <<strings, frames, names, parser, todo, lines>>
  BY DEF Instruction, Push
<1>2. frames # <<>>
  BY <1>1 DEF Executing
<1>3. /\ stack \in Seq(Reference) /\ Len(stack) \in Nat /\ DOMAIN stack = 1 .. Len(stack)
      /\ Last(frames).slot \in 1 .. Len(stack)
      /\ \A i \in DOMAIN stack : IsValue(heap, stack[i])
  BY <1>2, RunningFacts
<1>4. /\ stack' \in Seq(Reference) /\ Len(stack') = Len(stack) + 1
      /\ DOMAIN stack' = 1 .. Len(stack) + 1
      /\ \A i \in 1 .. Len(stack) : stack'[i] = stack[i]
      /\ stack'[Len(stack) + 1] = v
  BY <1>1, <1>3, Appended
<1>5. \A i \in DOMAIN stack' : IsValue(heap, stack'[i])
  BY <1>3, <1>4
<1>6. DOMAIN open \subseteq DOMAIN stack' /\ Len(stack') >= Last(frames).slot
  BY <1>3, <1>4 DEF IInv, OpenInv
<1>7. values' \in Seq(Reference) /\ \A i \in DOMAIN values' : IsValue(heap, values'[i])
  BY DEF IInv, ValuesInv
<1> QED BY <1>1, <1>4, <1>5, <1>6, <1>7, ValueStep

\* Where references lead to.
LEMMA KindOf ==
  ASSUME IInv, NEW a \in DOMAIN heap
  PROVE  /\ a \in Address /\ a # Null /\ heap[a] \in Object /\ WellTyped(heap, heap[a])
         /\ heap[a].type = "string" => heap[a] \in Strings
         /\ heap[a].type = "function" => heap[a] \in Functions
         /\ heap[a].type = "upvalue" => heap[a] \in Upvalues
         /\ heap[a].type = "closure" => heap[a] \in Closures
<1>1. IsHeap(heap) /\ WellTyped(heap, heap[a])
  BY DEF IInv, HeapInv, HeapOk
<1>2. a \in Address /\ heap[a] \in Object
  BY <1>1, ObjectAt
<1>3. a # Null
  BY <1>2, AddressAssumption
<1> QED BY <1>1, <1>2, <1>3, ObjectKinds

LEMMA ValueIsReference ==
  ASSUME IInv, NEW v, IsValue(heap, v) \/ IsConstant(heap, v)
  PROVE  v \in Reference
BY KindOf DEF IsValue, IsConstant, IsA, Reference

LEMMA UpvalueFacts ==
  ASSUME IInv, NEW u, IsA(heap, u, "upvalue")
  PROVE  heap[u].closed \in Reference /\ IsValue(heap, heap[u].closed)
<1>1. u \in DOMAIN heap /\ heap[u].type = "upvalue"
  BY DEF IsA
<1>2. heap[u] \in Upvalues /\ WellTyped(heap, heap[u])
  BY <1>1, KindOf
<1>3. heap[u].closed \in Reference
  BY <1>2 DEF Upvalues, Reference
<1>4. heap[u].closed # Null =>
         \E type \in {"string", "closure", "native"} : IsA(heap, heap[u].closed, type)
  BY <1>1, <1>2 DEF WellTyped
<1> QED BY <1>3, <1>4 DEF IsValue

LEMMA CurrentFacts ==
  ASSUME IInv, frames # <<>>
  PROVE  /\ Current \in Closures
         /\ \A u \in Current.upvalues : IsA(heap, u, "upvalue")
         /\ \A c \in Constants : IsConstant(heap, c)
<1> DEFINE a == Last(frames).closure
<1>1. a \in DOMAIN heap /\ heap[a].type = "closure"
  BY RunningFacts DEF IsA
<1>2. heap[a] \in Closures /\ WellTyped(heap, heap[a]) /\ Current = heap[a]
  BY <1>1, KindOf DEF Current
<1>3. /\ IsA(heap, Current.function, "function")
      /\ \A u \in Current.upvalues : IsA(heap, u, "upvalue")
  BY <1>1, <1>2 DEF WellTyped
<1> DEFINE f == Current.function
<1>4. f \in DOMAIN heap /\ heap[f].type = "function"
  BY <1>3 DEF IsA
<1>5. WellTyped(heap, heap[f])
  BY <1>4, KindOf
<1>6. \A c \in heap[f].constants : IsA(heap, c, "string") \/ IsA(heap, c, "function")
  BY <1>4, <1>5 DEF WellTyped
<1> QED BY <1>2, <1>3, <1>6 DEF Constants, IsConstant

LEMMA PushConstantPreserves == IInv /\ PushConstant => IInv'
<1> SUFFICES ASSUME IInv, PushConstant PROVE IInv'
  OBVIOUS
<1>1. Instruction /\ UNCHANGED <<heap, open, values>>
  BY DEF PushConstant
<1>2. PICK v \in {c \in Constants : heap[c].type = "string"} \cup {Null} : Push(v)
  BY DEF PushConstant
<1>3. frames # <<>>
  BY <1>1 DEF Instruction, Executing
<1>4. IsValue(heap, v)
  BY <1>2, <1>3, CurrentFacts DEF IsConstant, IsValue, IsA
<1> QED BY <1>1, <1>2, <1>4, ValueIsReference, PushStep

LEMMA PopPreserves == IInv /\ Pop => IInv'
<1> SUFFICES ASSUME IInv, Pop PROVE IInv'
  OBVIOUS
<1>1. /\ UNCHANGED <<heap, open, values, strings, frames, names, parser, todo, lines>>
      /\ Executing /\ frames # <<>>
      /\ Len(stack) > Last(frames).slot /\ Len(stack) \notin DOMAIN open
      /\ stack' = Front(stack)
  BY DEF Pop, Instruction, HasTemporary, Executing
<1>2. /\ stack \in Seq(Reference) /\ Len(stack) \in Nat /\ DOMAIN stack = 1 .. Len(stack)
      /\ stack # <<>> /\ Last(frames).slot \in 1 .. Len(stack)
      /\ \A i \in DOMAIN stack : IsValue(heap, stack[i])
  BY <1>1, RunningFacts
<1>3. /\ stack' \in Seq(Reference) /\ Len(stack') = Len(stack) - 1
      /\ DOMAIN stack' = 1 .. Len(stack) - 1
      /\ \A i \in 1 .. Len(stack) - 1 : stack'[i] = stack[i]
  BY <1>1, <1>2, FrontFacts
<1>4. DOMAIN open \subseteq DOMAIN stack'
  BY <1>1, <1>2, <1>3 DEF IInv, OpenInv
<1>5. \A i \in DOMAIN stack' : IsValue(heap, stack'[i])
  BY <1>2, <1>3
<1>6. Len(stack') >= Last(frames).slot
  BY <1>1, <1>2, <1>3
<1>7. values' \in Seq(Reference) /\ \A i \in DOMAIN values' : IsValue(heap, values'[i])
  BY <1>1 DEF IInv, ValuesInv
<1> QED BY <1>1, <1>3, <1>4, <1>5, <1>6, <1>7, ValueStep

\* A slot of the current function is assigned to.
LEMMA AssignStep ==
  ASSUME IInv, Instruction, UNCHANGED <<heap, open, values>>,
         NEW i \in DOMAIN stack, NEW v, IsValue(heap, v), stack' = [stack EXCEPT ![i] = v]
  PROVE  IInv'
<1>1. /\ UNCHANGED <<heap, open, values, strings, frames, names, parser, todo, lines>>
      /\ Executing /\ frames # <<>>
  BY DEF Instruction, Executing
<1>2. /\ stack \in Seq(Reference) /\ Len(stack) \in Nat /\ DOMAIN stack = 1 .. Len(stack)
      /\ Last(frames).slot \in 1 .. Len(stack)
      /\ \A j \in DOMAIN stack : IsValue(heap, stack[j])
  BY <1>1, RunningFacts
<1>3. v \in Reference
  BY ValueIsReference
<1>4. /\ stack' \in Seq(Reference) /\ Len(stack') = Len(stack) /\ DOMAIN stack' = DOMAIN stack
      /\ \A j \in DOMAIN stack : stack'[j] = IF j = i THEN v ELSE stack[j]
  BY <1>2, <1>3, ExceptFacts
<1>5. \A j \in DOMAIN stack' : IsValue(heap, stack'[j])
  BY <1>2, <1>4
<1>6. DOMAIN open \subseteq DOMAIN stack' /\ Len(stack') >= Last(frames).slot
  BY <1>2, <1>4 DEF IInv, OpenInv
<1>7. values' \in Seq(Reference) /\ \A j \in DOMAIN values' : IsValue(heap, values'[j])
  BY <1>1 DEF IInv, ValuesInv
<1> QED BY <1>1, <1>4, <1>5, <1>6, <1>7, ValueStep

\* The slots after the closure of the current function are on the stack.
LEMMA SlotsOnStack ==
  ASSUME IInv, frames # <<>>
  PROVE  Slots \subseteq DOMAIN stack /\ IsValue(heap, Top) /\ Top \in Reference
<1>1. /\ Len(stack) \in Nat /\ DOMAIN stack = 1 .. Len(stack)
      /\ Last(frames).slot \in 1 .. Len(stack)
      /\ \A i \in DOMAIN stack : IsValue(heap, stack[i]) /\ stack[i] \in Reference
      /\ Len(stack) \in DOMAIN stack
  BY RunningFacts
<1>2. Slots \subseteq DOMAIN stack
  BY <1>1 DEF Slots
<1> QED BY <1>1, <1>2 DEF Top

LEMMA GetLocalPreserves == IInv /\ GetLocal => IInv'
<1> SUFFICES ASSUME IInv, GetLocal PROVE IInv'
  OBVIOUS
<1>1. Instruction /\ UNCHANGED <<heap, open, values>> /\ frames # <<>>
  BY DEF GetLocal, Instruction, Executing
<1>2. PICK i \in Slots : Push(stack[i])
  BY DEF GetLocal
<1>3. i \in DOMAIN stack
  BY <1>1, SlotsOnStack
<1>4. IsValue(heap, stack[i]) /\ stack[i] \in Reference
  BY <1>1, <1>3, RunningFacts
<1> QED BY <1>1, <1>2, <1>4, PushStep

LEMMA SetLocalPreserves == IInv /\ SetLocal => IInv'
<1> SUFFICES ASSUME IInv, SetLocal PROVE IInv'
  OBVIOUS
<1>1. Instruction /\ UNCHANGED <<heap, open, values>> /\ frames # <<>>
  BY DEF SetLocal, Instruction, Executing
<1>2. PICK i \in Slots : stack' = [stack EXCEPT ![i] = Top]
  BY DEF SetLocal
<1>3. i \in DOMAIN stack /\ IsValue(heap, Top)
  BY <1>1, SlotsOnStack
<1> QED BY <1>1, <1>2, <1>3, AssignStep

LEMMA GetGlobalPreserves == IInv /\ GetGlobal => IInv'
<1> SUFFICES ASSUME IInv, GetGlobal PROVE IInv'
  OBVIOUS
<1>1. Instruction /\ UNCHANGED <<heap, open, values>>
  BY DEF GetGlobal
<1>2. PICK i \in DOMAIN values : Push(values[i])
  BY DEF GetGlobal
<1>3. IsValue(heap, values[i])
  BY DEF IInv, ValuesInv
<1> QED BY <1>1, <1>2, <1>3, ValueIsReference, PushStep

\* A global gets the value on top of the stack.
LEMMA GlobalAssigned ==
  ASSUME IInv, frames # <<>>, NEW i \in DOMAIN values, values' = [values EXCEPT ![i] = Top]
  PROVE  /\ values' \in Seq(Reference) /\ Len(values') = Len(values)
         /\ \A j \in DOMAIN values' : IsValue(heap, values'[j])
<1>1. values \in Seq(Reference) /\ \A j \in DOMAIN values : IsValue(heap, values[j])
  BY DEF IInv, ValuesInv
<1>2. Top \in Reference /\ IsValue(heap, Top)
  BY SlotsOnStack
<1>3. /\ values' \in Seq(Reference) /\ Len(values') = Len(values) /\ DOMAIN values' = DOMAIN values
      /\ \A j \in DOMAIN values : values'[j] = IF j = i THEN Top ELSE values[j]
  BY <1>1, <1>2, ExceptFacts
<1> QED BY <1>1, <1>2, <1>3

LEMMA SetGlobalPreserves == IInv /\ SetGlobal => IInv'
<1> SUFFICES ASSUME IInv, SetGlobal PROVE IInv'
  OBVIOUS
<1>1. /\ UNCHANGED <<heap, stack, open, strings, frames, names, parser, todo, lines>>
      /\ Executing /\ frames # <<>>
  BY DEF SetGlobal, Instruction, Executing
<1>2. PICK i \in DOMAIN values : values' = [values EXCEPT ![i] = Top]
  BY DEF SetGlobal
<1>3. /\ values' \in Seq(Reference) /\ Len(values') = Len(values)
      /\ \A j \in DOMAIN values' : IsValue(heap, values'[j])
  BY <1>1, <1>2, GlobalAssigned
<1>4. /\ stack' \in Seq(Reference) /\ Len(stack') >= Last(frames).slot
      /\ \A j \in DOMAIN stack' : IsValue(heap, stack'[j])
  BY <1>1, RunningFacts
<1>5. DOMAIN open \subseteq DOMAIN stack'
  BY <1>1 DEF IInv, OpenInv
<1> QED BY <1>1, <1>3, <1>4, <1>5, ValueStep

LEMMA DefineGlobalPreserves == IInv /\ DefineGlobal => IInv'
<1> SUFFICES ASSUME IInv, DefineGlobal PROVE IInv'
  OBVIOUS
<1>1. /\ UNCHANGED <<heap, open, strings, frames, names, parser, todo, lines>>
      /\ Executing /\ frames # <<>>
      /\ Len(stack) > Last(frames).slot /\ Len(stack) \notin DOMAIN open
      /\ stack' = Front(stack)
  BY DEF DefineGlobal, Instruction, HasTemporary, Executing
<1>2. /\ stack \in Seq(Reference) /\ Len(stack) \in Nat /\ DOMAIN stack = 1 .. Len(stack)
      /\ stack # <<>> /\ Last(frames).slot \in 1 .. Len(stack)
      /\ \A i \in DOMAIN stack : IsValue(heap, stack[i])
  BY <1>1, RunningFacts
<1>3. /\ stack' \in Seq(Reference) /\ Len(stack') = Len(stack) - 1
      /\ DOMAIN stack' = 1 .. Len(stack) - 1
      /\ \A i \in 1 .. Len(stack) - 1 : stack'[i] = stack[i]
  BY <1>1, <1>2, FrontFacts
<1>4. DOMAIN open \subseteq DOMAIN stack'
  BY <1>1, <1>2, <1>3 DEF IInv, OpenInv
<1>5. \A i \in DOMAIN stack' : IsValue(heap, stack'[i])
  BY <1>2, <1>3
<1>6. Len(stack') >= Last(frames).slot
  BY <1>1, <1>2, <1>3
<1>7. PICK i \in DOMAIN values : values' = [values EXCEPT ![i] = Top]
  BY DEF DefineGlobal
<1>8. /\ values' \in Seq(Reference) /\ Len(values') = Len(values)
      /\ \A j \in DOMAIN values' : IsValue(heap, values'[j])
  BY <1>1, <1>7, GlobalAssigned
<1> QED BY <1>1, <1>3, <1>4, <1>5, <1>6, <1>8, ValueStep

-----------------------------------------------------------------------------
(* Upvalues. *)

\* An upvalue gets a value of its own.
LEMMA ClosedObject ==
  ASSUME IInv, NEW u, IsA(heap, u, "upvalue"), NEW v, IsValue(heap, v)
  PROVE  /\ [heap[u] EXCEPT !.closed = v] \in Object
         /\ [heap[u] EXCEPT !.closed = v].type = "upvalue"
         /\ WellTyped(heap, [heap[u] EXCEPT !.closed = v])
<1>1. heap[u] \in Upvalues
  BY KindOf DEF IsA
<1>2. v \in Reference
  BY ValueIsReference
<1> DEFINE o == [heap[u] EXCEPT !.closed = v]
<1>3. o \in Upvalues /\ o.closed = v
  BY <1>1, <1>2 DEF Upvalues, Reference
<1>4. o \in Object /\ o.type = "upvalue"
  BY <1>3 DEF Object, Upvalues
<1> HIDE DEF o
<1>5. v # Null => \E type \in {"string", "closure", "native"} : IsA(heap, v, type)
  BY DEF IsValue
<1>6. WellTyped(heap, o)
  BY <1>3, <1>4, <1>5 DEF WellTyped
<1> QED BY <1>4, <1>6 DEF o

LEMMA GetUpvaluePreserves == IInv /\ GetUpvalue => IInv'
<1> SUFFICES ASSUME IInv, GetUpvalue PROVE IInv'
  OBVIOUS
<1>1. Instruction /\ UNCHANGED <<heap, open, values>> /\ frames # <<>>
  BY DEF GetUpvalue, Instruction, Executing
<1>2. PICK u \in Current.upvalues :
         IF SlotsOf(u) # {} THEN \E i \in SlotsOf(u) : Push(stack[i]) ELSE Push(heap[u].closed)
  BY DEF GetUpvalue
<1>3. IsA(heap, u, "upvalue")
  BY <1>1, CurrentFacts
<1>4. CASE SlotsOf(u) # {}
  <2>1. PICK i \in SlotsOf(u) : Push(stack[i])
    BY <1>2, <1>4
  <2>2. i \in DOMAIN stack
    BY DEF SlotsOf, IInv, OpenInv
  <2>3. IsValue(heap, stack[i]) /\ stack[i] \in Reference
    BY <1>1, <2>2, RunningFacts
  <2> QED BY <1>1, <2>1, <2>3, PushStep
<1>5. CASE SlotsOf(u) = {}
  <2>1. Push(heap[u].closed)
    BY <1>2, <1>5
  <2>2. heap[u].closed \in Reference /\ IsValue(heap, heap[u].closed)
    BY <1>3, UpvalueFacts
  <2> QED BY <1>1, <2>1, <2>2, PushStep
<1> QED BY <1>4, <1>5

LEMMA SetUpvaluePreserves == IInv /\ SetUpvalue => IInv'
<1> SUFFICES ASSUME IInv, SetUpvalue PROVE IInv'
  OBVIOUS
<1>1. Instruction /\ UNCHANGED <<open, values>> /\ frames # <<>>
  BY DEF SetUpvalue, Instruction, Executing
<1>2. PICK u \in Current.upvalues :
         IF SlotsOf(u) # {}
         THEN /\ \E i \in SlotsOf(u) : stack' = [stack EXCEPT ![i] = Top]
              /\ UNCHANGED heap
         ELSE /\ heap' = [heap EXCEPT ![u].closed = Top]
              /\ UNCHANGED stack
  BY DEF SetUpvalue
<1>3. IsA(heap, u, "upvalue") /\ IsValue(heap, Top)
  BY <1>1, CurrentFacts, SlotsOnStack
<1>4. CASE SlotsOf(u) # {}
  <2>1. PICK i \in SlotsOf(u) : stack' = [stack EXCEPT ![i] = Top]
    BY <1>2, <1>4
  <2>2. UNCHANGED heap
    BY <1>2, <1>4
  <2>3. i \in DOMAIN stack
    BY DEF SlotsOf, IInv, OpenInv
  <2> QED BY <1>1, <1>3, <2>1, <2>2, <2>3, AssignStep
<1>5. CASE SlotsOf(u) = {}
  <2> DEFINE o == [heap[u] EXCEPT !.closed = Top]
  <2>1. UNCHANGED stack /\ heap' = Rewritten(heap, u, o)
    BY <1>2, <1>5 DEF Rewritten
  <2>2. o \in Object /\ o.type = "upvalue" /\ WellTyped(heap, o)
    BY <1>3, ClosedObject
  <2>3. u \in DOMAIN heap /\ heap[u].type = "upvalue"
    BY <1>3 DEF IsA
  <2> HIDE DEF o
  <2>4. HeapOk(heap') /\ Kept(heap, heap') /\ DOMAIN heap' = DOMAIN heap
    <3>1. HeapOk(heap)
      BY DEF IInv, HeapInv
    <3> QED BY <2>1, <2>2, <2>3, <3>1, HeapRewritten
  <2>5. UNCHANGED <<strings, frames, names, parser, todo, lines>> /\ Executing
    BY <1>1 DEF Instruction
  <2>6. /\ stack' \in Seq(Reference) /\ Len(stack') >= Last(frames).slot
        /\ \A i \in DOMAIN stack' : IsValue(heap', stack'[i])
    BY <1>1, <2>1, <2>4, RunningFacts, StillA
  <2>7. OpenInv'
    BY <1>1, <2>1, <2>4, <2>5, OpenKept DEF IInv, OpenInv
  <2>8. /\ values' \in Seq(Reference) /\ Len(values') = Len(values)
        /\ \A i \in DOMAIN values' : IsValue(heap', values'[i])
    BY <1>1, <2>4, ValuesKept DEF IInv, ValuesInv
  <2> QED BY <2>4, <2>5, <2>6, <2>7, <2>8, ProgramStep
<1> QED BY <1>4, <1>5

\* close_upvalues(): the slots from a limit on are no longer captured.
LEMMA Closing ==
  ASSUME IInv, frames # <<>>, NEW from \in Nat, CloseUpvalues(from)
  PROVE  /\ HeapOk(heap') /\ Kept(heap, heap') /\ DOMAIN heap' = DOMAIN heap
         /\ DOMAIN open' = {i \in DOMAIN open : i < from}
         /\ open' \in [DOMAIN open' -> Address]
         /\ \A i \in DOMAIN open' : IsA(heap', open'[i], "upvalue")
<1> DEFINE closing == {i \in DOMAIN open : i >= from}
           slot(a) == CHOOSE i \in closing : open[i] = a
           o(a) == [heap[a] EXCEPT !.closed = stack[slot(a)]]
<1>1. /\ DOMAIN heap' = DOMAIN heap
      /\ \A a \in DOMAIN heap : heap'[a] = IF \E i \in closing : open[i] = a THEN o(a) ELSE heap[a]
      /\ open' = [i \in DOMAIN open \ closing |-> open[i]]
      /\ heap' \in [DOMAIN heap -> {heap'[a] : a \in DOMAIN heap}]
  BY DEF CloseUpvalues
<1>2. /\ DOMAIN open \subseteq DOMAIN stack /\ open \in [DOMAIN open -> Address]
      /\ \A i \in DOMAIN open : IsA(heap, open[i], "upvalue")
  BY DEF IInv, OpenInv
<1>3. /\ DOMAIN stack = 1 .. Len(stack) /\ Len(stack) \in Nat
      /\ \A i \in DOMAIN stack : IsValue(heap, stack[i])
  BY RunningFacts
<1>4. ASSUME NEW a \in DOMAIN heap, \E i \in closing : open[i] = a
      PROVE  /\ heap'[a] \in Object /\ heap'[a].type = "upvalue" /\ heap[a].type = "upvalue"
             /\ WellTyped(heap, heap'[a])
  <2>1. slot(a) \in closing /\ open[slot(a)] = a
    BY <1>4
  <2> HIDE DEF slot
  <2>2. IsA(heap, a, "upvalue") /\ IsValue(heap, stack[slot(a)])
    BY <1>2, <1>3, <2>1
  <2>3. o(a) \in Object /\ o(a).type = "upvalue" /\ WellTyped(heap, o(a))
    BY <2>2, ClosedObject
  <2>4. heap'[a] = o(a)
    BY <1>1, <1>4
  <2> QED BY <2>2, <2>3, <2>4 DEF IsA
<1>5. HeapOk(heap)
  BY DEF IInv, HeapInv
<1> HIDE DEF o
<1>6. Kept(heap, heap')
  <2>1. ASSUME NEW a \in DOMAIN heap
        PROVE  /\ heap'[a].type = heap[a].type
               /\ heap[a].type = "string" => heap'[a] = heap[a]
    BY <1>1, <1>4
  <2> QED BY <1>1, <2>1 DEF Kept
<1>7. HeapOk(heap')
  <2>1. DOMAIN heap' \subseteq Address /\ heap' \in [DOMAIN heap' -> Object]
    <3>1. \A a \in DOMAIN heap : heap'[a] \in Object
      BY <1>1, <1>4, <1>5 DEF HeapOk, IsHeap
    <3>2. DOMAIN heap \subseteq Address
      BY <1>5 DEF HeapOk, IsHeap
    <3> QED BY <1>1, <3>1, <3>2
  <2>2. ASSUME NEW a \in DOMAIN heap'
        PROVE  (a \in DOMAIN heap /\ heap'[a] = heap[a]) \/ WellTyped(heap', heap'[a])
    <3>1. CASE \E i \in closing : open[i] = a
      <4>1. heap'[a] \in Object /\ WellTyped(heap, heap'[a])
        BY <1>1, <1>4, <3>1
      <4>2. \A b \in References(heap'[a]) \cap DOMAIN heap :
               b \in DOMAIN heap' /\ heap'[b].type = heap[b].type
        BY <1>6 DEF Kept
      <4> QED BY <4>1, <4>2, WellTypedThrough
    <3>2. CASE ~ \E i \in closing : open[i] = a
      BY <1>1, <3>2
    <3> QED BY <3>1, <3>2
  <2> QED BY <1>5, <1>6, <2>1, <2>2, HeapChanged
<1>8. DOMAIN open' = {i \in DOMAIN open : i < from}
  <2>1. \A i \in DOMAIN open : i \in Nat
    BY <1>2, <1>3
  <2> QED BY <1>1, <2>1
<1>9. /\ open' \in [DOMAIN open' -> Address]
      /\ \A i \in DOMAIN open' : i \in DOMAIN open /\ open'[i] = open[i]
  BY <1>1, <1>2
<1>10. \A i \in DOMAIN open' : IsA(heap', open'[i], "upvalue")
  BY <1>2, <1>6, <1>9, StillA
<1> QED BY <1>1, <1>6, <1>7, <1>8, <1>9, <1>10

\* The stack is cut, and the value on top of it stays.
Cut(n) == Append(SubSeq(stack, 1, n), Top)

LEMMA CutFacts ==
  ASSUME IInv, frames # <<>>, NEW n \in Nat, n < Len(stack)
  PROVE  /\ Cut(n) \in Seq(Reference) /\ Len(Cut(n)) = n + 1
         /\ DOMAIN Cut(n) = 1 .. n + 1
         /\ \A i \in DOMAIN Cut(n) : IsValue(heap, Cut(n)[i])
<1>1. /\ stack \in Seq(Reference) /\ Len(stack) \in Nat /\ DOMAIN stack = 1 .. Len(stack)
      /\ \A i \in DOMAIN stack : IsValue(heap, stack[i])
      /\ Top \in Reference /\ IsValue(heap, Top)
  BY RunningFacts, SlotsOnStack
<1> DEFINE s == SubSeq(stack, 1, n)
<1>2. n \in 0 .. Len(stack)
  BY <1>1
<1>3. s \in Seq(Reference) /\ Len(s) = n /\ \A i \in 1 .. n : s[i] = stack[i]
  BY <1>1, <1>2, Shortened
<1> HIDE DEF s
<1>4. /\ Append(s, Top) \in Seq(Reference) /\ Len(Append(s, Top)) = n + 1
      /\ DOMAIN Append(s, Top) = 1 .. n + 1
      /\ \A i \in 1 .. n : Append(s, Top)[i] = s[i]
      /\ Append(s, Top)[n + 1] = Top
  BY <1>1, <1>3, Appended
<1>5. Cut(n) = Append(s, Top)
  BY DEF Cut, s
<1>6. \A i \in 1 .. n : IsValue(heap, s[i])
  BY <1>1, <1>2, <1>3
<1>7. \A i \in 1 .. n + 1 : i = n + 1 \/ i \in 1 .. n
  OBVIOUS
<1> QED BY <1>1, <1>4, <1>5, <1>6, <1>7

LEMMA EndScopePreserves == IInv /\ EndScope => IInv'
<1> SUFFICES ASSUME IInv, EndScope PROVE IInv'
  OBVIOUS
<1>1. /\ UNCHANGED <<strings, frames, names, parser, todo, lines, values>>
      /\ Executing /\ frames # <<>>
  BY DEF EndScope, Instruction, Executing
<1>2. PICK i \in Slots \ {Len(stack)} :
         CloseUpvalues(i) /\ stack' = Append(SubSeq(stack, 1, i - 1), Top)
  BY DEF EndScope
<1>3. /\ Len(stack) \in Nat /\ DOMAIN stack = 1 .. Len(stack)
      /\ Last(frames).slot \in 1 .. Len(stack)
  BY <1>1, RunningFacts
<1>4. i \in Nat /\ i > Last(frames).slot /\ i < Len(stack) /\ i - 1 \in Nat /\ i - 1 < Len(stack)
  <2>1. PICK s : s = Last(frames).slot
    OBVIOUS
  <2>2. i \in s + 1 .. Len(stack) /\ i # Len(stack)
    BY <2>1 DEF Slots
  <2>3. s \in 1 .. Len(stack)
    BY <1>3, <2>1
  <2>4. i \in Nat /\ i > s /\ i < Len(stack) /\ i - 1 \in Nat /\ i - 1 < Len(stack)
    <3>1. PICK n : n = Len(stack)
      OBVIOUS
    <3>a. n \in Nat
      BY <1>3, <3>1
    <3>b. s \in Nat
      BY <2>3, <3>1, <3>a
    <3>c. i \in s + 1 .. n
      BY <2>2, <3>1
    <3>d. i # n
      BY <2>2, <3>1
    <3>2. n \in Nat /\ s \in Nat /\ i \in s + 1 .. n /\ i # n
      BY <3>a, <3>b, <3>c, <3>d
    <3>3. i \in Nat /\ i > s /\ i < n /\ i - 1 \in Nat /\ i - 1 < n
      BY <3>2
    <3> QED BY <3>1, <3>3
  <2> QED BY <2>1, <2>4
<1>5. /\ HeapOk(heap') /\ Kept(heap, heap') /\ DOMAIN heap' = DOMAIN heap
      /\ DOMAIN open' = {j \in DOMAIN open : j < i}
      /\ open' \in [DOMAIN open' -> Address]
      /\ \A j \in DOMAIN open' : IsA(heap', open'[j], "upvalue")
  BY <1>1, <1>2, <1>4, Closing
<1>6. stack' = Cut(i - 1)
  BY <1>2 DEF Cut
<1>7. /\ stack' \in Seq(Reference) /\ Len(stack') = (i - 1) + 1
      /\ DOMAIN stack' = 1 .. (i - 1) + 1
      /\ \A j \in DOMAIN stack' : IsValue(heap, stack'[j])
  BY <1>1, <1>4, <1>6, CutFacts
<1>8. Len(stack') >= Last(frames).slot /\ \A j \in DOMAIN stack' : IsValue(heap', stack'[j])
  BY <1>3, <1>4, <1>5, <1>7, StillA
<1>9. OpenInv'
  <2>1. DOMAIN open' \subseteq DOMAIN stack'
    BY <1>3, <1>4, <1>5, <1>7 DEF IInv, OpenInv
  <2> QED BY <1>1, <1>5, <2>1 DEF OpenInv
<1>10. /\ values' \in Seq(Reference) /\ Len(values') = Len(values)
       /\ \A j \in DOMAIN values' : IsValue(heap', values'[j])
  BY <1>1, <1>5, ValuesKept DEF IInv, ValuesInv
<1> QED BY <1>1, <1>5, <1>7, <1>8, <1>9, <1>10, ProgramStep

-----------------------------------------------------------------------------
(* Calls. *)

\* What a step keeps that leaves the tables alone and makes no string.
LEMMA OthersKept ==
  ASSUME IInv, UNCHANGED <<strings, globals, parser>>,
         HeapOk(heap'), Kept(heap, heap'),
         \A a \in DOMAIN heap' : heap'[a].type = "string" => a \in DOMAIN heap,
         todo.do # "intern",
         todo.do = "index" <=> todo'.do = "index",
         todo'.do \in {"intern", "native", "value", "index"} => todo'.obj \notin DOMAIN names
  PROVE  HeapInv' /\ InternInv' /\ ValuesInv' /\ ParserInv' /\ NamesInv'
<1>1. UNCHANGED <<values, names>> /\ UNCHANGED parser
  BY DEF globals
<1>2. HeapInv'
  BY DEF HeapInv
<1>3. InternInv'
  BY InternKept DEF IInv
<1>4. ValuesInv'
  BY <1>1, ValuesKept DEF IInv
<1>5. ParserInv'
  BY ParserKept DEF IInv
<1>6. NamesInv'
  BY <1>1, NamesKept DEF IInv
<1> QED BY <1>2, <1>3, <1>4, <1>5, <1>6

LEMMA ReturnPreserves == IInv /\ Return => IInv'
<1> SUFFICES ASSUME IInv, Return PROVE IInv'
  OBVIOUS
<1> DEFINE slot == Last(frames).slot
           n == Len(frames)
<1>1. /\ UNCHANGED <<strings, globals, parser, todo, lines>>
      /\ frames # <<>> /\ todo = Nothing
      /\ Len(stack) > slot
      /\ CloseUpvalues(slot)
      /\ n = 1 => stack' = <<>>
      /\ n # 1 => stack' = Append(SubSeq(stack, 1, slot - 1), Top)
      /\ frames' = Front(frames)
  BY DEF Return, HasTemporary, Executing
<1>2. /\ Len(stack) \in Nat /\ DOMAIN stack = 1 .. Len(stack)
      /\ slot \in 1 .. Len(stack) /\ slot = frames[n].slot
      /\ n \in DOMAIN frames /\ compilers = <<>> /\ lines > 0
      /\ stack \in Seq(Reference)
  BY <1>1, RunningFacts
<1>3. frames \in Seq([closure : Address, slot : Nat]) /\ n \in Nat /\ DOMAIN frames = 1 .. n
  BY SeqFacts DEF IInv, FramesInv
<1>4. slot \in Nat /\ slot - 1 \in Nat /\ slot - 1 < Len(stack)
  BY <1>2
<1> HIDE DEF slot, n
<1>5. /\ HeapOk(heap') /\ Kept(heap, heap') /\ DOMAIN heap' = DOMAIN heap
      /\ DOMAIN open' = {j \in DOMAIN open : j < slot}
      /\ open' \in [DOMAIN open' -> Address]
      /\ \A j \in DOMAIN open' : IsA(heap', open'[j], "upvalue")
  BY <1>1, <1>4, Closing
<1>6. /\ frames' \in Seq([closure : Address, slot : Nat])
      /\ Len(frames') = n - 1 /\ DOMAIN frames' = 1 .. n - 1
      /\ \A i \in 1 .. n - 1 : frames'[i] = frames[i]
  BY <1>1, <1>3, FrontFacts DEF n
<1>7. todo' = Nothing /\ todo.do = "nothing" /\ todo'.do = "nothing" /\ todo' \in Tasks
  BY <1>1 DEF Nothing, IInv, TodoInv
<1>8. HeapInv' /\ InternInv' /\ ValuesInv' /\ ParserInv' /\ NamesInv'
  BY <1>1, <1>5, <1>7, OthersKept
<1>9. DOMAIN open \subseteq 1 .. Len(stack)
  BY <1>2 DEF IInv, OpenInv
<1>10. /\ stack' \in Seq(Reference)
       /\ n = 1 => Len(stack') = 0
       /\ n # 1 => Len(stack') = slot /\ DOMAIN stack' = 1 .. slot
       /\ n # 1 => \A j \in DOMAIN stack' : IsValue(heap', stack'[j])
  <2>1. CASE n = 1
    BY <1>1, <2>1, EmptySeq
  <2>2. CASE n # 1
    <3>1. stack' = Cut(slot - 1)
      BY <1>1, <2>2 DEF Cut
    <3>2. /\ stack' \in Seq(Reference) /\ Len(stack') = (slot - 1) + 1
          /\ DOMAIN stack' = 1 .. (slot - 1) + 1
          /\ \A j \in DOMAIN stack' : IsValue(heap, stack'[j])
      BY <1>1, <1>4, <3>1, CutFacts
    <3>3. (slot - 1) + 1 = slot
      BY <1>4
    <3> QED BY <1>5, <2>2, <3>2, <3>3, StillA
  <2> QED BY <2>1, <2>2
<1>11. frames' = <<>> <=> n = 1
  BY <1>2, <1>3, <1>6, SeqFacts
<1>12. StackInv'
  BY <1>10, <1>11 DEF StackInv
<1>13. FramesInv'
  <2>1. ASSUME NEW i \in 1 .. n - 1
        PROVE  /\ IsA(heap', frames[i].closure, "closure")
               /\ frames[i].slot \in 1 .. Len(stack')
               /\ i = 1 => frames[i].slot = 1
               /\ \A j \in 1 .. n - 1 : j < i => frames[j].slot < frames[i].slot
    <3>1. i \in DOMAIN frames /\ i < n /\ n # 1
      BY <1>2, <1>3
    <3>2. /\ IsA(heap, frames[i].closure, "closure")
          /\ frames[i].slot \in 1 .. Len(stack)
          /\ frames[i].slot < frames[n].slot
          /\ i = 1 => frames[i].slot = 1
          /\ \A j \in DOMAIN frames : j < i => frames[j].slot < frames[i].slot
      BY <1>2, <3>1 DEF IInv, FramesInv
    <3>3. frames[i].slot \in 1 .. Len(stack')
      BY <1>2, <1>4, <1>10, <3>1, <3>2
    <3> QED BY <1>3, <1>5, <3>2, <3>3, StillA
  <2> QED BY <1>6, <2>1 DEF FramesInv
<1>14. OpenInv'
  <2>1. DOMAIN open' \subseteq DOMAIN stack' /\ (frames' = <<>> => DOMAIN open' = {})
    <3>1. CASE n = 1
      <4>1. slot = 1
        BY <1>2, <3>1 DEF IInv, FramesInv
      <4>2. DOMAIN open' = {}
        BY <1>5, <1>9, <4>1
      <4> QED BY <4>2
    <3>2. CASE n # 1
      BY <1>4, <1>5, <1>9, <1>10, <1>11, <3>2
    <3> QED BY <3>1, <3>2
  <2> QED BY <1>5, <2>1 DEF OpenInv
<1>15. ModeInv'
  BY <1>1, <1>2 DEF IInv, ModeInv, parser
<1>16. TodoInv'
  <2>1. frames' = <<>> => stack' = <<>>
    BY <1>1, <1>11
  <2> QED BY <1>7, <2>1 DEF TodoInv
<1> QED BY <1>8, <1>12, <1>13, <1>14, <1>15, <1>16 DEF IInv

LEMMA RuntimeErrorPreserves == IInv /\ RuntimeError => IInv'
<1> SUFFICES ASSUME IInv, RuntimeError PROVE IInv'
  OBVIOUS
<1>1. /\ UNCHANGED <<heap, strings, globals, parser, todo>>
      /\ todo = Nothing /\ frames # <<>>
      /\ stack' = <<>> /\ frames' = <<>> /\ open' = Empty
      /\ lines' \in {lines, MaxLines}
  BY DEF RuntimeError, Executing
<1>2. todo' = Nothing /\ todo.do = "nothing" /\ todo'.do = "nothing" /\ todo' \in Tasks
  BY <1>1 DEF Nothing, IInv, TodoInv
<1>3. HeapOk(heap') /\ Kept(heap, heap')
  BY <1>1, KeptSame DEF IInv, HeapInv
<1>4. HeapInv' /\ InternInv' /\ ValuesInv' /\ ParserInv' /\ NamesInv'
  BY <1>1, <1>2, <1>3, OthersKept
<1>5. compilers = <<>>
  BY <1>1, RunningFacts
<1>6. StackInv' /\ FramesInv'
  BY <1>1 DEF StackInv, FramesInv
<1>7. OpenInv'
  BY <1>1 DEF OpenInv, Empty
<1>8. ModeInv'
  BY <1>1, <1>5, RuntimeAssumption DEF IInv, ModeInv, parser
<1>9. TodoInv'
  BY <1>1, <1>2 DEF TodoInv
<1> QED BY <1>4, <1>6, <1>7, <1>8, <1>9 DEF IInv

\* A step that writes to no object.
LEMMA HeapSame ==
  ASSUME IInv, UNCHANGED heap
  PROVE  /\ HeapOk(heap') /\ Kept(heap, heap')
         /\ \A a \in DOMAIN heap' : heap'[a].type = "string" => a \in DOMAIN heap
BY KeptSame DEF IInv, HeapInv

LEMMA StackFacts ==
  ASSUME IInv
  PROVE  /\ stack \in Seq(Reference) /\ Len(stack) \in Nat /\ DOMAIN stack = 1 .. Len(stack)
         /\ stack # <<>> => Len(stack) >= 1 /\ Last(stack) = stack[Len(stack)]
         /\ stack = <<>> <=> Len(stack) = 0
         /\ todo \in Tasks
<1>1. stack \in Seq(Reference) /\ todo \in Tasks
  BY DEF IInv, StackInv, TodoInv
<1> QED BY <1>1, SeqFacts DEF Last

LEMMA NothingIsATask ==
  /\ Nothing \in Tasks /\ Nothing.do = "nothing"
  /\ \A do \in {"scan", "name", "constant", "constant_index", "native", "script", "frame", "capture"} :
       \A obj \in Reference :
         /\ Then(do, obj) \in Tasks /\ Then(do, obj).do = do
         /\ Then(do, obj).obj = obj /\ Then(do, obj).user = "nobody"
  /\ \A do \in {"intern", "value", "index"}, obj \in Reference, user \in User :
         /\ ThenFor(do, obj, user) \in Tasks /\ ThenFor(do, obj, user).do = do
         /\ ThenFor(do, obj, user).obj = obj /\ ThenFor(do, obj, user).user = user
BY DEF Nothing, Then, ThenFor, Tasks, User, Reference

LEMMA PushFramePreserves == IInv /\ PushFrame => IInv'
<1> SUFFICES ASSUME IInv, PushFrame PROVE IInv'
  OBVIOUS
<1> DEFINE n == Len(frames)
           new == [closure |-> todo.obj, slot |-> Len(stack)]
<1>1. /\ todo.do = "frame" /\ frames' = Append(frames, new) /\ todo' = Nothing
      /\ UNCHANGED <<heap, strings, stack, open, globals, parser, lines>>
  BY DEF PushFrame
<1>2. /\ compilers = <<>> /\ lines > 0
      /\ stack # <<>> /\ Last(stack) = todo.obj /\ IsA(heap, todo.obj, "closure")
      /\ frames = <<>> => Len(stack) = 1
      /\ frames # <<>> => Len(stack) > Last(frames).slot
  BY <1>1 DEF IInv, TodoInv, OnTop
<1>3. /\ stack \in Seq(Reference) /\ Len(stack) \in Nat /\ DOMAIN stack = 1 .. Len(stack)
      /\ Len(stack) >= 1 /\ Last(stack) = stack[Len(stack)]
  BY <1>2, StackFacts
<1>4. frames \in Seq([closure : Address, slot : Nat]) /\ n \in Nat /\ DOMAIN frames = 1 .. n
  BY SeqFacts DEF IInv, FramesInv
<1>5. new \in [closure : Address, slot : Nat] /\ new.closure = todo.obj /\ new.slot = Len(stack)
  BY <1>2, <1>3, KindOf DEF IsA
<1> HIDE DEF n, new
<1>6. /\ frames' \in Seq([closure : Address, slot : Nat])
      /\ Len(frames') = n + 1 /\ DOMAIN frames' = 1 .. n + 1
      /\ \A i \in 1 .. n : frames'[i] = frames[i]
      /\ frames'[n + 1] = new /\ frames' # <<>>
  BY <1>1, <1>4, <1>5, Appended DEF n
<1>7. todo' = Nothing /\ todo'.do = "nothing" /\ todo' \in Tasks
  BY <1>1, NothingIsATask
<1>8. HeapInv' /\ InternInv' /\ ValuesInv' /\ ParserInv' /\ NamesInv'
  BY <1>1, <1>7, HeapSame, OthersKept
<1>9. StackInv'
  <2>1. ASSUME NEW i \in DOMAIN stack PROVE IsValue(heap, stack[i])
    <3>1. CASE frames = <<>>
      <4>1. i = Len(stack)
        BY <1>2, <1>3, <3>1
      <4> QED BY <1>2, <1>3, <4>1 DEF IsValue
    <3>2. CASE frames # <<>>
      BY <3>2, RunningFacts
    <3> QED BY <3>1, <3>2
  <2> QED BY <1>1, <1>3, <2>1 DEF StackInv
<1>10. \A i \in 1 .. n : frames[i].slot < Len(stack)
  <2>1. ASSUME NEW i \in 1 .. n PROVE frames[i].slot < Len(stack)
    <3>1. frames # <<>> /\ i \in DOMAIN frames
      BY <1>4
    <3>2. frames[i].slot <= Last(frames).slot /\ Last(frames).slot \in 1 .. Len(stack)
      BY <3>1, RunningFacts
    <3>3. frames[i].slot \in 1 .. Len(stack) /\ Last(frames).slot < Len(stack)
      BY <1>2, <3>1 DEF IInv, FramesInv
    <3> QED BY <1>3, <3>2, <3>3
  <2> QED BY <2>1
<1>11. FramesInv'
  <2>1. ASSUME NEW i \in 1 .. n + 1
        PROVE  /\ IsA(heap', frames'[i].closure, "closure")
               /\ frames'[i].slot \in 1 .. Len(stack')
               /\ i = 1 => frames'[i].slot = 1
               /\ \A j \in 1 .. n + 1 : j < i => frames'[j].slot < frames'[i].slot
    <3>1. CASE i \in 1 .. n
      <4>1. /\ IsA(heap, frames[i].closure, "closure")
            /\ frames[i].slot \in 1 .. Len(stack)
            /\ i = 1 => frames[i].slot = 1
            /\ \A j \in 1 .. n : j < i => frames[j].slot < frames[i].slot
        BY <1>4, <3>1 DEF IInv, FramesInv
      <4>2. \A j \in 1 .. n + 1 : j < i => j \in 1 .. n
        BY <1>4, <3>1
      <4> QED BY <1>1, <1>6, <3>1, <4>1, <4>2
    <3>2. CASE i = n + 1
      <4>1. frames'[i] = new /\ UNCHANGED <<heap, stack>>
        BY <1>1, <1>6, <3>2
      <4>2. \A j \in 1 .. n + 1 : j < i => j \in 1 .. n
        BY <1>4, <3>2
      <4>3. i = 1 => Len(stack) = 1
        <5>1. i = 1 => n = 0
          BY <1>4, <3>2
        <5> QED BY <1>2, <1>4, <5>1, SeqFacts DEF n
      <4>4. new.slot \in 1 .. Len(stack)
        BY <1>3, <1>5
      <4> QED BY <1>2, <1>5, <1>6, <1>10, <4>1, <4>2, <4>3, <4>4
    <3> QED BY <1>4, <3>1, <3>2
  <2> QED BY <1>6, <2>1 DEF FramesInv
<1>12. OpenInv'
  BY <1>1, <1>6 DEF IInv, OpenInv
<1>13. ModeInv'
  BY <1>1, <1>2 DEF IInv, ModeInv, parser
<1>14. TodoInv'
  BY <1>6, <1>7 DEF TodoInv
<1> QED BY <1>8, <1>9, <1>11, <1>12, <1>13, <1>14 DEF IInv

\* A new closure.
LEMMA NewClosure ==
  ASSUME IInv, NEW f, IsA(heap, f, "function"), NEW a \in Free
  PROVE  LET h == Place(heap, a, Closure(f))
         IN  /\ HeapOk(h) /\ Kept(heap, h) /\ IsA(h, a, "closure")
             /\ \A b \in DOMAIN h : h[b].type = "string" => b \in DOMAIN heap
             /\ a \in Address
<1>1. a \in Address \ DOMAIN heap
  BY RuntimeAssumption DEF Free
<1>2. f \in Address
  BY KindOf DEF IsA
<1>3. Closure(f) \in Closures /\ Closure(f).type = "closure"
      /\ Closure(f).function = f /\ Closure(f).upvalues = {}
  BY <1>2 DEF Closure, Closures
<1>4. Closure(f) \in Object
  BY <1>3 DEF Object
<1> DEFINE h == Place(heap, a, Closure(f))
<1>5. IsA(h, f, "function")
  BY <1>1 DEF IsA, Place
<1>6. WellTyped(h, Closure(f))
  <2> HIDE DEF h
  <2> QED BY <1>3, <1>5 DEF WellTyped
<1>7. /\ HeapOk(h) /\ Kept(heap, h) /\ DOMAIN h = DOMAIN heap \cup {a}
      /\ h[a] = Closure(f)
  BY <1>1, <1>4, <1>6, HeapPlaced DEF IInv, HeapInv
<1> HIDE DEF h
<1> QED BY <1>1, <1>3, <1>7 DEF h, IsA

LEMMA MakeScriptClosurePreserves == IInv /\ MakeScriptClosure => IInv'
<1> SUFFICES ASSUME IInv, MakeScriptClosure PROVE IInv'
  OBVIOUS
<1>1. todo.do = "script" /\ UNCHANGED <<strings, frames, open, globals, parser, lines>>
  BY DEF MakeScriptClosure
<1>2. PICK a \in Free : /\ heap' = Place(heap, a, Closure(todo.obj))
                        /\ stack' = <<a>> /\ todo' = Then("frame", a)
  BY DEF MakeScriptClosure
<1>3. /\ compilers = <<>> /\ frames = <<>> /\ lines > 0
      /\ IsA(heap, todo.obj, "function") /\ Len(stack) = 1
  BY <1>1 DEF IInv, TodoInv
<1>4. /\ HeapOk(heap') /\ Kept(heap, heap') /\ IsA(heap', a, "closure") /\ a \in Address
      /\ \A b \in DOMAIN heap' : heap'[b].type = "string" => b \in DOMAIN heap
  BY <1>2, <1>3, NewClosure
<1>5. /\ todo' \in Tasks /\ todo'.do = "frame" /\ todo'.obj = a
  BY <1>2, <1>4, NothingIsATask DEF Reference
<1>6. HeapInv' /\ InternInv' /\ ValuesInv' /\ ParserInv' /\ NamesInv'
  BY <1>1, <1>4, <1>5, OthersKept
<1>7. /\ stack' \in Seq(Reference) /\ Len(stack') = 1 /\ DOMAIN stack' = 1 .. 1
      /\ stack' # <<>> /\ Last(stack') = a
  BY <1>2, <1>4 DEF Reference, Last
<1>8. StackInv' /\ FramesInv'
  BY <1>1, <1>3, <1>7 DEF StackInv, FramesInv
<1>9. OpenInv'
  BY <1>1, <1>3 DEF IInv, OpenInv
<1>10. ModeInv'
  BY <1>1, ModeKept DEF IInv, parser
<1>11. TodoInv'
  BY <1>1, <1>3, <1>4, <1>5, <1>7 DEF TodoInv, OnTop, parser
<1> QED BY <1>6, <1>8, <1>9, <1>10, <1>11 DEF IInv

LEMMA MakeClosurePreserves == IInv /\ MakeClosure => IInv'
<1> SUFFICES ASSUME IInv, MakeClosure PROVE IInv'
  OBVIOUS
<1>1. /\ UNCHANGED <<strings, frames, open, globals, parser, lines>>
      /\ frames # <<>> /\ todo = Nothing
  BY DEF MakeClosure, Executing
<1>2. PICK f \in {c \in Constants : heap[c].type = "function"}, a \in Free :
         /\ heap' = Place(heap, a, Closure(f))
         /\ stack' = Append(stack, a) /\ todo' = Then("capture", a)
  BY DEF MakeClosure
<1>3. IsA(heap, f, "function")
  BY <1>1, <1>2, CurrentFacts DEF IsConstant, IsA
<1>4. /\ HeapOk(heap') /\ Kept(heap, heap') /\ IsA(heap', a, "closure") /\ a \in Address
      /\ \A b \in DOMAIN heap' : heap'[b].type = "string" => b \in DOMAIN heap
  BY <1>2, <1>3, NewClosure
<1>5. /\ todo' \in Tasks /\ todo'.do = "capture" /\ todo'.obj = a /\ todo.do = "nothing"
  BY <1>1, <1>2, <1>4, NothingIsATask DEF Reference
<1>6. HeapInv' /\ InternInv' /\ ValuesInv' /\ ParserInv' /\ NamesInv'
  BY <1>1, <1>4, <1>5, OthersKept
<1>7. /\ stack \in Seq(Reference) /\ Len(stack) \in Nat /\ DOMAIN stack = 1 .. Len(stack)
      /\ Last(frames).slot \in 1 .. Len(stack)
      /\ \A i \in DOMAIN stack : IsValue(heap, stack[i])
  BY <1>1, RunningFacts
<1>8. /\ stack' \in Seq(Reference) /\ Len(stack') = Len(stack) + 1
      /\ DOMAIN stack' = 1 .. Len(stack) + 1
      /\ \A i \in 1 .. Len(stack) : stack'[i] = stack[i]
      /\ stack'[Len(stack) + 1] = a /\ stack' # <<>> /\ Last(stack') = a
  BY <1>2, <1>4, <1>7, Appended DEF Reference
<1>9. StackInv'
  BY <1>4, <1>7, <1>8, StillA DEF StackInv, IsValue
<1>10. FramesInv'
  <2>1. Len(stack') \in Nat /\ Len(stack') >= Len(stack)
    BY <1>7, <1>8
  <2> QED BY <1>1, <1>4, <1>7, <2>1, FramesKept DEF IInv
<1>11. OpenInv'
  <2>1. DOMAIN open \subseteq DOMAIN stack'
    BY <1>7, <1>8 DEF IInv, OpenInv
  <2> QED BY <1>1, <1>4, <2>1, OpenKept DEF IInv
<1>12. ModeInv'
  BY <1>1, ModeKept DEF IInv, parser
<1>13. TodoInv'
  BY <1>1, <1>4, <1>5, <1>8 DEF TodoInv, OnTop, InProgram
<1> QED BY <1>6, <1>9, <1>10, <1>11, <1>12, <1>13 DEF IInv

\* A closure with one more upvalue.
LEMMA UpvalueAdded ==
  ASSUME NEW h, HeapOk(h), IsA(h, todo.obj, "closure"), NEW u, IsA(h, u, "upvalue")
  PROVE  /\ HeapOk(AddUpvalue(h, u)) /\ Kept(h, AddUpvalue(h, u))
         /\ DOMAIN AddUpvalue(h, u) = DOMAIN h
<1> DEFINE c == todo.obj
           o == [h[c] EXCEPT !.upvalues = @ \cup {u}]
<1>1. /\ c \in DOMAIN h /\ h[c].type = "closure" /\ IsHeap(h)
      /\ WellTyped(h, h[c]) /\ u \in DOMAIN h
  BY DEF IsA, HeapOk
<1>2. h[c] \in Object /\ u \in Address
  BY <1>1, ObjectAt
<1>3. h[c] \in Closures
  BY <1>1, <1>2, ObjectKinds
<1>4. /\ o \in Closures /\ o.upvalues = h[c].upvalues \cup {u}
      /\ o.function = h[c].function /\ o.type = "closure"
  BY <1>2, <1>3 DEF Closures
<1>5. AddUpvalue(h, u) = Rewritten(h, c, o)
  BY DEF AddUpvalue, Rewritten
<1> HIDE DEF o, c
<1>6. o \in Object
  BY <1>4 DEF Object
<1>7. WellTyped(h, o)
  BY <1>1, <1>4 DEF WellTyped
<1> QED BY <1>1, <1>4, <1>5, <1>6, <1>7, HeapRewritten

\* A step of do_closure(), which leaves the stack alone.
LEMMA CaptureStep ==
  ASSUME IInv, todo.do = "capture",
         UNCHANGED <<strings, stack, frames, globals, parser, todo, lines>>,
         HeapOk(heap'), Kept(heap, heap'),
         \A a \in DOMAIN heap' : heap'[a].type = "string" => a \in DOMAIN heap,
         OpenInv'
  PROVE  IInv'
<1>1. frames # <<>> /\ OnTop /\ IsA(heap, todo.obj, "closure") /\ todo \in Tasks
  BY DEF IInv, TodoInv, InProgram
<1>2. HeapInv' /\ InternInv' /\ ValuesInv' /\ ParserInv' /\ NamesInv'
  BY OthersKept
<1>3. StackInv'
  BY StackKept DEF IInv
<1>4. FramesInv'
  BY <1>1, StackFacts, FramesKept DEF IInv
<1>5. ModeInv'
  BY ModeKept DEF IInv, parser
<1>6. IsA(heap', todo.obj, "closure")
  BY <1>1, StillA
<1>7. TodoInv'
  BY <1>1, <1>6 DEF TodoInv, OnTop, InProgram
<1> QED BY <1>2, <1>3, <1>4, <1>5, <1>7 DEF IInv

\* The same, when the upvalue is there already.
LEMMA CaptureExisting ==
  ASSUME IInv, todo.do = "capture",
         UNCHANGED <<strings, machine, globals, parser, todo, lines>>,
         NEW u, IsA(heap, u, "upvalue"), heap' = AddUpvalue(heap, u)
  PROVE  IInv'
<1>1. IsA(heap, todo.obj, "closure")
  BY DEF IInv, TodoInv
<1>2. HeapOk(heap') /\ Kept(heap, heap') /\ DOMAIN heap' = DOMAIN heap
  BY <1>1, UpvalueAdded DEF IInv, HeapInv
<1>3. UNCHANGED <<stack, frames, open>>
  BY DEF machine
<1>4. OpenInv'
  BY <1>2, <1>3, OpenKept DEF IInv, OpenInv
<1> QED BY <1>2, <1>3, <1>4, CaptureStep

LEMMA CaptureOpenPreserves == IInv /\ CaptureOpen => IInv'
<1> SUFFICES ASSUME IInv, CaptureOpen PROVE IInv'
  OBVIOUS
<1>1. PICK i \in Slots \cap DOMAIN open : heap' = AddUpvalue(heap, open[i])
  BY DEF CaptureOpen
<1>2. IsA(heap, open[i], "upvalue")
  BY DEF IInv, OpenInv
<1> QED BY <1>1, <1>2, CaptureExisting DEF CaptureOpen

LEMMA CaptureEnclosingPreserves == IInv /\ CaptureEnclosing => IInv'
<1> SUFFICES ASSUME IInv, CaptureEnclosing PROVE IInv'
  OBVIOUS
<1>1. PICK u \in Current.upvalues : heap' = AddUpvalue(heap, u)
  BY DEF CaptureEnclosing
<1>2. frames # <<>>
  BY DEF CaptureEnclosing, IInv, TodoInv, InProgram
<1>3. IsA(heap, u, "upvalue")
  BY <1>2, CurrentFacts
<1> QED BY <1>1, <1>3, CaptureExisting DEF CaptureEnclosing

LEMMA CaptureSlotPreserves == IInv /\ CaptureSlot => IInv'
<1> SUFFICES ASSUME IInv, CaptureSlot PROVE IInv'
  OBVIOUS
<1> DEFINE upvalue == [type |-> "upvalue", closed |-> Null]
<1>1. /\ todo.do = "capture"
      /\ UNCHANGED <<strings, stack, frames, globals, parser, todo, lines>>
  BY DEF CaptureSlot
<1>2. PICK i \in Slots \ DOMAIN open, a \in Free :
         /\ heap' = AddUpvalue(Place(heap, a, upvalue), a)
         /\ open' = Place(open, i, a)
  BY DEF CaptureSlot
<1>3. frames # <<>> /\ IsA(heap, todo.obj, "closure")
  BY <1>1 DEF IInv, TodoInv, InProgram
<1>4. a \in Address \ DOMAIN heap
  BY RuntimeAssumption DEF Free
<1>5. upvalue \in Object /\ upvalue.type = "upvalue" /\ upvalue.closed = Null
  BY DEF Object, Upvalues
<1> HIDE DEF upvalue
<1> DEFINE h == Place(heap, a, upvalue)
<1>6. WellTyped(h, upvalue)
  BY <1>5 DEF WellTyped
<1>7. /\ HeapOk(h) /\ Kept(heap, h) /\ DOMAIN h = DOMAIN heap \cup {a} /\ h[a] = upvalue
  BY <1>4, <1>5, <1>6, HeapPlaced DEF IInv, HeapInv
<1>8. heap' = AddUpvalue(h, a)
  BY <1>2
<1> HIDE DEF h
<1>9. IsA(h, a, "upvalue") /\ IsA(h, todo.obj, "closure")
  BY <1>3, <1>5, <1>7, StillA DEF IsA
<1>10. HeapOk(heap') /\ Kept(h, heap') /\ DOMAIN heap' = DOMAIN h
  BY <1>7, <1>8, <1>9, UpvalueAdded
<1>11. Kept(heap, heap')
  BY <1>7, <1>10 DEF Kept
<1>12. \A b \in DOMAIN heap' : heap'[b].type = "string" => b \in DOMAIN heap
  BY <1>5, <1>7, <1>10 DEF Kept
<1>13. OpenInv'
  <2>1. /\ open \in [DOMAIN open -> Address] /\ DOMAIN open \subseteq DOMAIN stack
        /\ \A j \in DOMAIN open : IsA(heap, open[j], "upvalue")
    BY DEF IInv, OpenInv
  <2>2. /\ DOMAIN open' = DOMAIN open \cup {i}
        /\ open' \in [DOMAIN open' -> Address]
        /\ open'[i] = a /\ \A j \in DOMAIN open : open'[j] = open[j]
    BY <1>2, <1>4, <2>1 DEF Place
  <2>3. i \in DOMAIN stack
    BY <1>3, SlotsOnStack
  <2>4. IsA(heap', a, "upvalue")
    BY <1>9, <1>10, StillA
  <2> QED BY <1>1, <1>3, <1>11, <2>1, <2>2, <2>3, <2>4, StillA DEF OpenInv
<1> QED BY <1>1, <1>10, <1>11, <1>12, <1>13, CaptureStep

\* A step of a program that leaves everything as it is but what is to do.
LEMMA StayStep ==
  ASSUME IInv, UNCHANGED <<heap, strings, machine, globals, parser, lines>>,
         todo.do # "intern", todo.do # "index",
         todo'.do \notin {"intern", "native", "value", "index"}, TodoInv'
  PROVE  IInv'
<1>1. HeapInv' /\ InternInv' /\ ValuesInv' /\ ParserInv' /\ NamesInv'
  BY HeapSame, OthersKept
<1>2. UNCHANGED <<heap, stack, frames, open, compilers, lines>>
  BY DEF machine, parser
<1>3. StackInv' /\ FramesInv' /\ OpenInv' /\ ModeInv'
  <2>1. StackInv' /\ OpenInv' /\ ModeInv'
    BY <1>2 DEF IInv, StackInv, OpenInv, ModeInv
  <2>2. FramesInv'
    BY <1>2 DEF IInv, FramesInv
  <2> QED BY <2>1, <2>2
<1> QED BY <1>1, <1>3 DEF IInv

LEMMA EndClosurePreserves == IInv /\ EndClosure => IInv'
<1> SUFFICES ASSUME IInv, EndClosure PROVE IInv'
  OBVIOUS
<1>1. /\ todo.do = "capture" /\ todo' = Nothing
      /\ UNCHANGED <<heap, strings, machine, globals, parser, lines>>
  BY DEF EndClosure
<1>2. frames' # <<>>
  BY <1>1 DEF IInv, TodoInv, InProgram, machine
<1>3. TodoInv'
  BY <1>1, <1>2, NothingIsATask DEF TodoInv
<1> QED BY <1>1, <1>3, NothingIsATask, StayStep

LEMMA CallPreserves == IInv /\ Call => IInv'
<1> SUFFICES ASSUME IInv, Call PROVE IInv'
  OBVIOUS
<1>1. /\ frames # <<>> /\ todo = Nothing
      /\ Len(stack) > Last(frames).slot /\ IsA(heap, Top, "closure")
      /\ todo' = Then("frame", Top)
      /\ UNCHANGED <<heap, strings, machine, globals, parser, lines>>
  BY DEF Call, Executing, HasTemporary
<1>2. /\ compilers = <<>> /\ lines > 0 /\ stack # <<>>
      /\ Last(stack) = Top /\ Top \in Reference
  BY <1>1, RunningFacts, SlotsOnStack DEF Last, Top
<1>3. todo' \in Tasks /\ todo'.do = "frame" /\ todo'.obj = Top /\ todo.do = "nothing"
  BY <1>1, <1>2, NothingIsATask
<1>4. UNCHANGED <<stack, frames, compilers, heap, lines>>
  BY <1>1 DEF machine, parser
<1>5. TodoInv'
  BY <1>1, <1>2, <1>3, <1>4 DEF TodoInv, OnTop
<1> QED BY <1>1, <1>3, <1>5, StayStep

-----------------------------------------------------------------------------
(* make_string() and its callers. *)

\* A function's name is noted.
LEMMA FunctionNamed ==
  ASSUME IInv, compilers # <<>>, NEW s, IsA(heap, s, "string"),
         heap' = [heap EXCEPT ![Last(compilers)].name = s]
  PROVE  HeapOk(heap') /\ Kept(heap, heap') /\ DOMAIN heap' = DOMAIN heap
<1> DEFINE f == Last(compilers)
           o == [heap[f] EXCEPT !.name = s]
<1>1. IsA(heap, f, "function")
  <2>1. Len(compilers) \in DOMAIN compilers
    BY SeqFacts DEF IInv, ParserInv
  <2> QED BY <2>1 DEF IInv, ParserInv, Last
<1>2. f \in DOMAIN heap /\ heap[f].type = "function" /\ s \in Address
  BY <1>1, KindOf DEF IsA
<1>3. heap[f] \in Functions /\ WellTyped(heap, heap[f])
  BY <1>2, KindOf
<1>4. o \in Functions /\ o.name = s /\ o.constants = heap[f].constants /\ o.type = "function"
  BY <1>2, <1>3 DEF Functions
<1>5. heap' = Rewritten(heap, f, o)
  BY DEF Rewritten
<1> HIDE DEF f, o
<1>6. o \in Object
  BY <1>4 DEF Object
<1>7. WellTyped(heap, o)
  BY <1>2, <1>3, <1>4 DEF WellTyped
<1>8. HeapOk(heap) /\ o.type = heap[f].type /\ o.type # "string"
  BY <1>2, <1>4 DEF IInv, HeapInv
<1>9. /\ HeapOk(Rewritten(heap, f, o)) /\ Kept(heap, Rewritten(heap, f, o))
      /\ DOMAIN Rewritten(heap, f, o) = DOMAIN heap
  BY <1>2, <1>6, <1>7, <1>8, HeapRewritten
<1> QED BY <1>5, <1>9

\* With no program running there is little to keep of frames and slots.
LEMMA NoFrames ==
  ASSUME IInv, frames = <<>>, UNCHANGED <<frames, open>>, stack' \in Seq(Reference)
  PROVE  StackInv' /\ FramesInv' /\ OpenInv'
<1>1. StackInv' /\ FramesInv'
  BY DEF IInv, StackInv, FramesInv
<1>2. OpenInv'
  BY DEF IInv, OpenInv
<1> QED BY <1>1, <1>2

LEMMA OneOnStack ==
  ASSUME NEW v \in Reference, NEW s, s = <<v>> \/ s = Append(<<>>, v)
  PROVE  s \in Seq(Reference) /\ Len(s) = 1 /\ s # <<>> /\ Last(s) = v /\ s[1] = v
<1>1. CASE s = <<v>>
  BY <1>1 DEF Last
<1>2. Append(<<>>, v) = <<v>>
  OBVIOUS
<1> QED BY <1>1, <1>2

\* The heap and the tables, once a string is found or interned.
LEMMA StringKnown ==
  ASSUME IInv, NEW s, IsA(heap, s, "string"), NEW user, NEW stk, UseString(s, user, stk),
         user = "begin_compiler" => compilers # <<>>,
         \A a \in strings' : IsA(heap, a, "string"),
         \A a \in DOMAIN heap : heap[a].type = "string" => a \in strings'
  PROVE  /\ HeapInv' /\ InternInv' /\ ValuesInv' /\ ParserInv' /\ ModeInv'
         /\ Kept(heap, heap')
<1>1. UNCHANGED <<frames, open, values, names, compilers, lines>>
  BY DEF UseString, globals
<1>2. HeapOk(heap') /\ Kept(heap, heap') /\ DOMAIN heap' = DOMAIN heap
  <2>1. CASE UNCHANGED heap
    BY <2>1, HeapSame
  <2>2. CASE user = "begin_compiler" /\ heap' = [heap EXCEPT ![Last(compilers)].name = s]
    BY <2>2, FunctionNamed
  <2> QED BY <2>1, <2>2 DEF UseString
<1>3. InternInv'
  <2>1. \A a \in strings' : IsA(heap', a, "string")
    BY <1>2, StillA
  <2>2. \A a \in DOMAIN heap' : heap'[a].type = "string" =>
           a \in DOMAIN heap /\ heap[a].type = "string" /\ heap'[a] = heap[a] /\ a \in strings'
    BY <1>2 DEF Kept
  <2>3. \A a, t \in DOMAIN heap' :
           /\ heap'[a].type = "string" /\ heap'[t].type = "string"
           /\ heap'[a].text = heap'[t].text
           => a = t
    <3>1. SUFFICES ASSUME NEW a \in DOMAIN heap', NEW t \in DOMAIN heap',
                          heap'[a].type = "string", heap'[t].type = "string",
                          heap'[a].text = heap'[t].text
                   PROVE  a = t
      OBVIOUS
    <3>2. /\ a \in DOMAIN heap /\ heap[a].type = "string" /\ heap'[a] = heap[a]
          /\ t \in DOMAIN heap /\ heap[t].type = "string" /\ heap'[t] = heap[t]
      BY <2>2, <3>1
    <3> QED BY <3>1, <3>2 DEF IInv, InternInv
  <2> QED BY <2>1, <2>2, <2>3 DEF InternInv
<1>4. ValuesInv'
  BY <1>1, <1>2, ValuesKept DEF IInv
<1>5. ParserInv'
  <2>1. /\ compilers' \in Seq(Address)
        /\ \A i \in DOMAIN compilers' : IsA(heap', compilers'[i], "function")
    BY <1>1, <1>2, StillA DEF IInv, ParserInv
  <2>2. CASE UNCHANGED tokens
    BY <1>2, <2>1, <2>2, StillA DEF IInv, ParserInv
  <2>3. CASE tokens' = <<tokens[1], s>>
    <3>1. tokens[1] \in Reference /\ (tokens[1] # Null => IsA(heap, tokens[1], "string"))
      <4>1. tokens \in Seq(Reference) /\ Len(tokens) = 2 /\ 1 \in 1 .. 2
        BY DEF IInv, ParserInv
      <4>2. tokens[1] \in Reference
        BY <4>1
      <4> QED BY <4>1, <4>2 DEF IInv, ParserInv
    <3>2. s \in Reference
      BY ValueIsReference DEF IsConstant
    <3>3. /\ tokens' \in Seq(Reference) /\ Len(tokens') = 2
          /\ tokens'[1] = tokens[1] /\ tokens'[2] = s
      BY <2>3, <3>1, <3>2
    <3>4. \A i \in 1 .. 2 : tokens'[i] # Null => IsA(heap', tokens'[i], "string")
      BY <1>2, <3>1, <3>3, StillA
    <3> QED BY <2>1, <3>3, <3>4 DEF ParserInv
  <2> QED BY <2>2, <2>3 DEF UseString
<1>6. ModeInv'
  BY <1>1, ModeKept DEF IInv
<1> QED BY <1>2, <1>3, <1>4, <1>5, <1>6 DEF HeapInv

\* Where a caller of make_string() stands: with nothing on the stack, or, in
\* a native function, with the stack of the program.
Ready(user, s, stk) ==
  \/ user \in CompilerUser /\ compilers # <<>> /\ frames = <<>> /\ stk = <<>>
  \/ user = "define_native" /\ InMachine /\ stk = <<>> /\ s \notin DOMAIN names
  \/ /\ user = "native" /\ frames # <<>> /\ stk \in Seq(Reference)
     /\ Len(stk) > Last(frames).slot /\ DOMAIN open \subseteq DOMAIN stk
     /\ \A i \in DOMAIN stk : IsValue(heap, stk[i])

LEMMA NamesUsed ==
  ASSUME IInv, Kept(heap, heap'), UNCHANGED globals, todo.do # "index",
         \/ todo' = Nothing
         \/ todo'.do \in {"value", "native"} /\ todo'.obj \notin DOMAIN names
  PROVE  NamesInv'
<1>1. todo'.do # "index"
  BY NothingIsATask
<1>2. todo'.do \in {"intern", "native", "value", "index"} => todo'.obj \notin DOMAIN names
  BY NothingIsATask
<1>3. UNCHANGED <<values, names>>
  BY DEF globals
<1> QED BY <1>1, <1>2, <1>3, NamesKept DEF IInv

LEMMA UseStringPreserves ==
  ASSUME IInv, NEW s, IsA(heap, s, "string"), NEW user, NEW stk,
         UseString(s, user, stk), Ready(user, s, stk), todo.do # "index",
         \A a \in strings' : IsA(heap, a, "string"),
         \A a \in DOMAIN heap : heap[a].type = "string" => a \in strings'
  PROVE  IInv'
<1>1. UNCHANGED <<frames, open, globals, compilers, lines>>
  BY DEF UseString
<1>2. /\ HeapInv' /\ InternInv' /\ ValuesInv' /\ ParserInv' /\ ModeInv'
      /\ Kept(heap, heap')
  <2>1. user = "begin_compiler" => compilers # <<>>
    BY DEF Ready
  <2> QED BY <2>1, StringKnown
<1>3. s \in Reference /\ IsValue(heap', s) /\ IsA(heap', s, "string")
  BY <1>2, ValueIsReference, StillA DEF IsConstant, IsValue
<1>4. CASE user = "native"
  <2>1. /\ frames # <<>> /\ stk \in Seq(Reference)
        /\ Len(stk) > Last(frames).slot /\ DOMAIN open \subseteq DOMAIN stk
        /\ \A i \in DOMAIN stk : IsValue(heap, stk[i])
    BY <1>4 DEF Ready, CompilerUser
  <2>2. stack' = [stk EXCEPT ![Len(stk)] = s] /\ todo' = Nothing
    BY <1>4 DEF UseString
  <2>3. Len(stk) \in Nat /\ Len(stk) \in DOMAIN stk
    <3>1. Last(frames).slot \in Nat
      BY <2>1, RunningFacts
    <3> QED BY <2>1, <3>1, SeqFacts
  <2>4. /\ stack' \in Seq(Reference) /\ Len(stack') = Len(stk) /\ DOMAIN stack' = DOMAIN stk
        /\ \A j \in DOMAIN stk : stack'[j] = IF j = Len(stk) THEN s ELSE stk[j]
    BY <1>3, <2>1, <2>2, <2>3, ExceptFacts
  <2>5. \A j \in DOMAIN stack' : IsValue(heap', stack'[j])
    BY <1>2, <1>3, <2>1, <2>4, StillA
  <2>6. NamesInv'
    BY <1>1, <1>2, <2>2, NamesUsed
  <2>7. StackInv'
    BY <2>4, <2>5 DEF StackInv
  <2>8. FramesInv'
    <3>1. Len(stack') \in Nat /\ Len(stack') >= Last(frames).slot
      <4>1. Last(frames).slot \in Nat
        BY <2>1, RunningFacts
      <4> QED BY <2>1, <2>3, <2>4, <4>1
    <3> QED BY <1>1, <1>2, <2>1, <3>1, FramesCovered
  <2>9. OpenInv'
    BY <1>1, <1>2, <2>1, <2>4, OpenKept DEF IInv
  <2>10. TodoInv'
    BY <1>1, <2>1, <2>2, NothingIsATask DEF TodoInv
  <2> QED BY <1>2, <2>6, <2>7, <2>8, <2>9, <2>10 DEF IInv
<1>5. CASE user \in CompilerUser \cup {"define_native"}
  <2>1. frames = <<>> /\ stk = <<>>
    BY <1>5 DEF Ready, InMachine, CompilerUser
  <2>2. ASSUME stack' \in Seq(Reference), NamesInv', TodoInv' PROVE IInv'
    <3>1. StackInv' /\ FramesInv' /\ OpenInv'
      BY <1>1, <2>1, <2>2, NoFrames
    <3> QED BY <1>2, <2>2, <3>1 DEF IInv
  <2>3. CASE stack' = stk /\ todo' = Nothing
    <3>1. stack' = <<>> /\ stack' \in Seq(Reference)
      BY <2>1, <2>3
    <3>2. NamesInv'
      BY <1>1, <1>2, <2>3, NamesUsed
    <3>3. TodoInv'
      BY <2>3, <3>1, NothingIsATask DEF TodoInv
    <3> QED BY <2>2, <3>1, <3>2, <3>3
  <2>4. CASE user = "declare" /\ ~IsGlobal(s) /\ stack' = Append(stk, s)
             /\ todo' = ThenFor("value", s, user)
    <3>1. compilers # <<>>
      BY <2>4 DEF Ready, CompilerUser
    <3>2. /\ stack' \in Seq(Reference) /\ Len(stack') = 1 /\ stack' # <<>>
          /\ Last(stack') = s
      BY <1>3, <2>1, <2>4, OneOnStack
    <3>3. /\ todo' \in Tasks /\ todo'.do = "value" /\ todo'.obj = s
          /\ todo'.user = "declare"
      BY <1>3, <2>4, NothingIsATask DEF User
    <3>4. NamesInv'
      BY <1>1, <1>2, <2>4, <3>3, NamesUsed DEF IsGlobal
    <3>5. TodoInv'
      BY <1>1, <1>3, <3>1, <3>2, <3>3 DEF TodoInv, InCompiler, OnTop
    <3> QED BY <2>2, <3>2, <3>4, <3>5
  <2>5. CASE user = "define_native" /\ stack' = Append(stk, s) /\ todo' = Then("native", s)
    <3>1. InMachine /\ s \notin DOMAIN names
      BY <2>5 DEF Ready, CompilerUser
    <3>2. /\ stack' \in Seq(Reference) /\ Len(stack') = 1 /\ stack' # <<>>
          /\ Last(stack') = s
      BY <1>3, <2>1, <2>5, OneOnStack
    <3>3. todo' \in Tasks /\ todo'.do = "native" /\ todo'.obj = s
      BY <1>3, <2>5, NothingIsATask
    <3>4. NamesInv'
      BY <1>1, <1>2, <3>1, <3>3, NamesUsed
    <3>5. TodoInv'
      BY <1>1, <1>3, <3>1, <3>2, <3>3 DEF TodoInv, InMachine, OnTop
    <3> QED BY <2>2, <3>2, <3>4, <3>5
  <2> QED BY <1>5, <2>3, <2>4, <2>5 DEF UseString, CompilerUser
<1> QED BY <1>4, <1>5 DEF Ready

\* Who may call make_string(), and when.
MayMake(texts, user) ==
  /\ todo.do \in {"nothing", "scan", "name"}
  /\ \/ user \in CompilerUser /\ compilers # <<>>
     \/ user = "define_native" /\ InMachine /\ texts = Text \ {heap[n].text : n \in DOMAIN names}
     \/ user = "native" /\ frames # <<>> /\ HasTemporary

LEMMA BeforeMaking ==
  ASSUME IInv, NEW texts, NEW user, MayMake(texts, user)
  PROVE  /\ user # "native" => frames = <<>> /\ stack = <<>>
         /\ user \in User
         /\ \A a \in DOMAIN heap : heap[a].type = "string" => a \in strings
<1>1. user # "native" => frames = <<>>
  BY DEF MayMake, InMachine, IInv, ModeInv
<1>2. frames = <<>> => stack = <<>>
  BY DEF MayMake, IInv, TodoInv
<1> QED BY <1>1, <1>2 DEF MayMake, CompilerUser, User, IInv, InternInv

LEMMA FindStringPreserves ==
  ASSUME IInv, NEW texts, NEW user, MayMake(texts, user), FindString(texts, user)
  PROVE  IInv'
<1>1. UNCHANGED strings
  BY DEF FindString
<1>2. PICK t \in texts : \E s \in Interned(t) : UseString(s, user, stack)
  BY DEF FindString
<1>3. PICK s \in Interned(t) : UseString(s, user, stack)
  BY <1>2
<1>4. IsA(heap, s, "string") /\ heap[s].text = t
  BY DEF Interned, IInv, InternInv
<1>5. /\ todo.do # "index"
      /\ \A a \in strings' : IsA(heap, a, "string")
      /\ \A a \in DOMAIN heap : heap[a].type = "string" => a \in strings'
  BY <1>1, BeforeMaking DEF MayMake, IInv, InternInv
<1>6. Ready(user, s, stack)
  <2>1. CASE user = "native"
    <3>1. frames # <<>> /\ HasTemporary
      BY <2>1 DEF MayMake, CompilerUser
    <3>2. /\ stack \in Seq(Reference) /\ Len(stack) > Last(frames).slot
          /\ \A i \in DOMAIN stack : IsValue(heap, stack[i])
      BY <3>1, RunningFacts DEF HasTemporary
    <3>3. DOMAIN open \subseteq DOMAIN stack
      BY DEF IInv, OpenInv
    <3> QED BY <2>1, <3>1, <3>2, <3>3 DEF Ready
  <2>2. CASE user = "define_native"
    <3>1. InMachine /\ texts = Text \ {heap[n].text : n \in DOMAIN names}
      BY <2>2 DEF MayMake, CompilerUser
    <3>2. s \notin DOMAIN names
      BY <1>4, <3>1
    <3> QED BY <2>2, <3>1, <3>2, BeforeMaking DEF Ready
  <2>3. CASE user \in CompilerUser
    <3>1. compilers # <<>> /\ user # "native"
      BY <2>3 DEF MayMake, CompilerUser, InMachine
    <3> QED BY <2>3, <3>1, BeforeMaking DEF Ready
  <2> QED BY <2>1, <2>2, <2>3 DEF MayMake
<1> QED BY <1>3, <1>4, <1>5, <1>6, UseStringPreserves

LEMMA NewStringPreserves ==
  ASSUME IInv, NEW texts \in SUBSET Text, NEW user, MayMake(texts, user), NewString(texts, user)
  PROVE  IInv'
<1>1. UNCHANGED <<strings, frames, open, globals, parser, lines>>
  BY DEF NewString
<1>2. PICK t \in texts, a \in Free :
         /\ Interned(t) = {}
         /\ heap' = Place(heap, a, [type |-> "string", text |-> t])
         /\ stack' = Append(stack, a)
         /\ todo' = ThenFor("intern", a, user)
  BY DEF NewString
<1> DEFINE new == [type |-> "string", text |-> t]
<1>3. a \in Address \ DOMAIN heap
  BY RuntimeAssumption DEF Free
<1>4. new \in Object /\ new.type = "string" /\ new.text = t
  BY DEF Object, Strings
<1> HIDE DEF new
<1>5. WellTyped(Place(heap, a, new), new)
  BY <1>4 DEF WellTyped
<1>6. /\ HeapOk(Place(heap, a, new)) /\ Kept(heap, Place(heap, a, new))
      /\ DOMAIN Place(heap, a, new) = DOMAIN heap \cup {a}
      /\ Place(heap, a, new)[a] = new
      /\ \A b \in DOMAIN heap : Place(heap, a, new)[b] = heap[b]
  <2>1. HeapOk(heap) /\ new \in Object
    BY <1>4 DEF IInv, HeapInv
  <2> QED BY <1>3, <1>5, <2>1, HeapPlaced
<1>7. heap' = Place(heap, a, new)
  BY <1>2 DEF new
<1>8. /\ HeapOk(heap') /\ Kept(heap, heap') /\ DOMAIN heap' = DOMAIN heap \cup {a}
      /\ heap'[a] = new /\ \A b \in DOMAIN heap : heap'[b] = heap[b]
  BY <1>6, <1>7
<1>9. IsA(heap', a, "string") /\ a \in Reference
  BY <1>3, <1>4, <1>8 DEF IsA, Reference
<1>10. /\ todo' \in Tasks /\ todo'.do = "intern" /\ todo'.obj = a /\ todo'.user = user
  BY <1>2, <1>9, NothingIsATask, BeforeMaking
<1>11. InternInv'
  <2>1. \A s \in strings' : IsA(heap', s, "string")
    BY <1>1, <1>8, StillA DEF IInv, InternInv
  <2>2. \A s \in DOMAIN heap' : heap'[s].type = "string" =>
           s \in strings' \/ (todo'.do = "intern" /\ todo'.obj = s)
    BY <1>1, <1>8, <1>10, BeforeMaking
  <2>3. \A s \in DOMAIN heap : heap[s].type = "string" => heap[s].text # t
    BY <1>2, BeforeMaking DEF Interned
  <2>4. \A s, u \in DOMAIN heap' :
           /\ heap'[s].type = "string" /\ heap'[u].type = "string"
           /\ heap'[s].text = heap'[u].text
           => s = u
    <3>1. SUFFICES ASSUME NEW s \in DOMAIN heap', NEW u \in DOMAIN heap',
                          heap'[s].type = "string", heap'[u].type = "string",
                          heap'[s].text = heap'[u].text
                   PROVE  s = u
      OBVIOUS
    <3>2. CASE s \in DOMAIN heap /\ u \in DOMAIN heap
      <4>1. heap'[s] = heap[s] /\ heap'[u] = heap[u]
        BY <1>8, <3>2
      <4> QED BY <3>1, <3>2, <4>1 DEF IInv, InternInv
    <3>3. CASE s = a
      BY <1>4, <1>8, <2>3, <3>1, <3>3
    <3>4. CASE u = a
      BY <1>4, <1>8, <2>3, <3>1, <3>4
    <3> QED BY <1>8, <3>2, <3>3, <3>4
  <2> QED BY <2>1, <2>2, <2>4 DEF InternInv
<1>12. HeapInv' /\ ValuesInv' /\ ParserInv' /\ ModeInv'
  <2>1. ValuesInv'
    BY <1>1, <1>8, ValuesKept DEF IInv, globals
  <2>2. ParserInv'
    BY <1>1, <1>8, ParserKept DEF IInv
  <2>3. ModeInv'
    BY <1>1, ModeKept DEF IInv, parser
  <2> QED BY <1>8, <2>1, <2>2, <2>3 DEF HeapInv
<1>13. NamesInv'
  <2>1. a \notin DOMAIN names
    BY <1>3 DEF IInv, NamesInv, IsA
  <2>2. todo.do # "index"
    BY DEF MayMake
  <2> QED BY <1>1, <1>8, <1>10, <2>1, <2>2, NamesKept DEF IInv, globals
<1>14. /\ stack' \in Seq(Reference) /\ Len(stack') = Len(stack) + 1
       /\ DOMAIN stack' = 1 .. Len(stack) + 1
       /\ \A i \in 1 .. Len(stack) : stack'[i] = stack[i]
       /\ stack'[Len(stack) + 1] = a /\ stack' # <<>> /\ Last(stack') = a
       /\ Len(stack) \in Nat /\ DOMAIN stack = 1 .. Len(stack)
  BY <1>2, <1>9, StackFacts, Appended
<1>15. StackInv'
  <2>1. frames # <<>> => \A i \in DOMAIN stack' : IsValue(heap', stack'[i])
    <3>1. SUFFICES ASSUME frames # <<>> PROVE \A i \in DOMAIN stack' : IsValue(heap', stack'[i])
      OBVIOUS
    <3>2. \A i \in 1 .. Len(stack) : IsValue(heap', stack[i])
      BY <1>8, <3>1, RunningFacts, StillA
    <3>3. IsValue(heap', a)
      BY <1>9 DEF IsValue
    <3>4. \A i \in 1 .. Len(stack) + 1 : i \in 1 .. Len(stack) \/ i = Len(stack) + 1
      BY <1>14
    <3> QED BY <1>14, <3>2, <3>3, <3>4
  <2> QED BY <1>1, <1>14, <2>1 DEF StackInv
<1>16. FramesInv'
  <2>1. Len(stack') \in Nat /\ Len(stack') >= Len(stack)
    BY <1>14
  <2> QED BY <1>1, <1>8, <1>14, <2>1, FramesKept DEF IInv
<1>17. DOMAIN open \subseteq 1 .. Len(stack)
  BY <1>14 DEF IInv, OpenInv
<1>18. OpenInv'
  <2>1. DOMAIN open \subseteq DOMAIN stack'
    BY <1>14, <1>17
  <2> QED BY <1>1, <1>8, <2>1, OpenKept DEF IInv
<1>19. TodoInv'
  <2>1. /\ OnTop' /\ IsA(heap', todo'.obj, "string")
    BY <1>9, <1>10, <1>14 DEF OnTop
  <2>2. \/ user \in CompilerUser /\ InCompiler'
        \/ user = "define_native" /\ InMachine' /\ Len(stack') = 1
        \/ /\ user = "native" /\ InProgram'
           /\ Len(stack') > Last(frames').slot + 1 /\ Len(stack') \notin DOMAIN open'
    <3>1. CASE user = "native"
      <4>1. frames # <<>> /\ Len(stack) > Last(frames).slot
        BY <3>1 DEF MayMake, CompilerUser, HasTemporary
      <4>2. Last(frames).slot \in Nat
        BY <4>1, RunningFacts
      <4>3. Len(stack') > Last(frames).slot + 1 /\ Len(stack') \notin DOMAIN open
        BY <1>14, <1>17, <4>1, <4>2
      <4> QED BY <1>1, <3>1, <4>1, <4>3 DEF InProgram
    <3>2. CASE user # "native"
      <4>1. stack = <<>>
        BY <3>2, BeforeMaking
      <4>2. Len(stack') = 1
        BY <1>14, <4>1
      <4> QED BY <1>1, <3>2, <4>2 DEF MayMake, InCompiler, InMachine, parser
    <3> QED BY <3>1, <3>2
  <2> QED BY <1>10, <2>1, <2>2 DEF TodoInv
<1> QED BY <1>11, <1>12, <1>13, <1>15, <1>16, <1>18, <1>19 DEF IInv

LEMMA MakeStringPreserves ==
  ASSUME IInv, NEW texts \in SUBSET Text, NEW user, MayMake(texts, user),
         MakeStringOf(texts, user)
  PROVE  IInv'
BY FindStringPreserves, NewStringPreserves DEF MakeStringOf

LEMMA InternStringPreserves == IInv /\ InternString => IInv'
<1> SUFFICES ASSUME IInv, InternString PROVE IInv'
  OBVIOUS
<1>1. /\ todo.do = "intern" /\ strings' = strings \cup {todo.obj}
      /\ UseString(todo.obj, todo.user, Front(stack))
  BY DEF InternString
<1>2. /\ stack # <<>> /\ IsA(heap, todo.obj, "string")
      /\ todo.obj \notin DOMAIN names
  BY <1>1 DEF IInv, TodoInv, OnTop, NamesInv
<1>3. /\ stack \in Seq(Reference) /\ Len(stack) \in Nat /\ DOMAIN stack = 1 .. Len(stack)
      /\ Len(stack) >= 1
  BY <1>2, StackFacts
<1>4. /\ Front(stack) \in Seq(Reference) /\ Len(Front(stack)) = Len(stack) - 1
      /\ DOMAIN Front(stack) = 1 .. Len(stack) - 1
      /\ \A i \in 1 .. Len(stack) - 1 : Front(stack)[i] = stack[i]
  BY <1>2, <1>3, FrontFacts
<1>5. Ready(todo.user, todo.obj, Front(stack))
  <2>1. CASE todo.user = "native"
    <3>1. /\ frames # <<>> /\ Len(stack) > Last(frames).slot + 1
          /\ Len(stack) \notin DOMAIN open
      BY <1>1, <2>1 DEF IInv, TodoInv, CompilerUser, InProgram
    <3>2. Last(frames).slot \in Nat /\ \A i \in DOMAIN stack : IsValue(heap, stack[i])
      BY <3>1, RunningFacts
    <3>3. Len(Front(stack)) > Last(frames).slot
      BY <1>3, <1>4, <3>1, <3>2
    <3>4. DOMAIN open \subseteq DOMAIN Front(stack)
      BY <1>3, <1>4, <3>1 DEF IInv, OpenInv
    <3>5. \A i \in DOMAIN Front(stack) : IsValue(heap, Front(stack)[i])
      BY <1>3, <1>4, <3>2
    <3> QED BY <1>4, <2>1, <3>1, <3>3, <3>4, <3>5 DEF Ready
  <2>2. CASE todo.user = "define_native"
    <3>1. InMachine /\ Len(stack) = 1
      BY <1>1, <2>2 DEF IInv, TodoInv, CompilerUser
    <3> QED BY <1>2, <1>3, <2>2, <3>1, FrontOfOne DEF Ready
  <2>3. CASE todo.user \in CompilerUser
    <3>1. compilers # <<>> /\ Len(stack) = 1
      BY <1>1, <2>3 DEF IInv, TodoInv, CompilerUser, InCompiler
    <3>2. frames = <<>>
      BY <3>1 DEF IInv, ModeInv
    <3> QED BY <1>3, <2>3, <3>1, <3>2, FrontOfOne DEF Ready
  <2> QED BY <1>1, <2>1, <2>2, <2>3 DEF IInv, TodoInv
<1>6. /\ \A a \in strings' : IsA(heap, a, "string")
      /\ \A a \in DOMAIN heap : heap[a].type = "string" => a \in strings'
  BY <1>1, <1>2 DEF IInv, InternInv
<1> QED BY <1>1, <1>2, <1>5, <1>6, UseStringPreserves

-----------------------------------------------------------------------------
(* The machine defines its natives; the compiler its globals. *)

\* A step of no program that makes no string.
LEMMA QuietStep ==
  ASSUME IInv, frames = <<>>, UNCHANGED <<strings, frames, open>>,
         HeapOk(heap'), Kept(heap, heap'),
         \A a \in DOMAIN heap' : heap'[a].type = "string" => a \in DOMAIN heap,
         todo.do # "intern", stack' \in Seq(Reference),
         ValuesInv', ParserInv', NamesInv', ModeInv', TodoInv'
  PROVE  IInv'
<1>1. HeapInv'
  BY DEF HeapInv
<1>2. InternInv'
  BY InternKept DEF IInv
<1>3. StackInv' /\ FramesInv' /\ OpenInv'
  <2>1. StackInv' /\ FramesInv'
    BY DEF StackInv, FramesInv, IInv
  <2>2. OpenInv'
    <3>1. DOMAIN open = {} /\ open \in [DOMAIN open -> Address]
      BY DEF IInv, OpenInv
    <3> QED BY <3>1 DEF OpenInv
  <2> QED BY <2>1, <2>2
<1> QED BY <1>1, <1>2, <1>3 DEF IInv

LEMMA DefineNativePreserves == IInv /\ DefineNative => IInv'
<1> SUFFICES ASSUME IInv, DefineNative PROVE IInv'
  OBVIOUS
<1> DEFINE texts == Text \ {heap[n].text : n \in DOMAIN names}
<1>1. MakeStringOf(texts, "define_native") /\ Idle /\ lines = 0
  BY DEF DefineNative
<1>2. MayMake(texts, "define_native")
  BY <1>1 DEF MayMake, Idle, Nothing, InMachine
<1>3. texts \in SUBSET Text
  OBVIOUS
<1> HIDE DEF texts
<1> QED BY <1>1, <1>2, <1>3, MakeStringPreserves

LEMMA AllocateNativePreserves == IInv /\ AllocateNative => IInv'
<1> SUFFICES ASSUME IInv, AllocateNative PROVE IInv'
  OBVIOUS
<1> DEFINE new == [type |-> "native"]
<1>1. /\ todo.do = "native" /\ todo' = ThenFor("value", todo.obj, "define_native")
      /\ UNCHANGED <<strings, frames, open, globals, parser, lines>>
  BY DEF AllocateNative
<1>2. PICK a \in Free : heap' = Place(heap, a, new) /\ stack' = Append(stack, a)
  BY DEF AllocateNative
<1>3. /\ compilers = <<>> /\ frames = <<>> /\ lines = 0
      /\ stack # <<>> /\ Last(stack) = todo.obj /\ Len(stack) = 1
      /\ IsA(heap, todo.obj, "string") /\ todo.obj \notin DOMAIN names
  BY <1>1 DEF IInv, TodoInv, InMachine, OnTop, NamesInv
<1>4. a \in Address \ DOMAIN heap
  BY RuntimeAssumption DEF Free
<1>5. new \in Object /\ new.type = "native"
  BY DEF Object, Natives
<1> HIDE DEF new
<1>6. WellTyped(Place(heap, a, new), new)
  BY <1>5 DEF WellTyped
<1>7. HeapOk(heap)
  BY DEF IInv, HeapInv
<1>8. /\ HeapOk(heap') /\ Kept(heap, heap') /\ DOMAIN heap' = DOMAIN heap \cup {a}
      /\ heap'[a] = new
  <2>1. new \in Object
    BY <1>5
  <2>2. /\ HeapOk(Place(heap, a, new)) /\ Kept(heap, Place(heap, a, new))
        /\ DOMAIN Place(heap, a, new) = DOMAIN heap \cup {a}
    BY <1>4, <1>6, <1>7, <2>1, HeapPlaced
  <2>3. Place(heap, a, new)[a] = new
    BY DEF Place
  <2>4. heap' = Place(heap, a, new)
    BY <1>2 DEF new
  <2> QED BY <2>2, <2>3, <2>4
<1>9. IsA(heap', a, "native") /\ IsA(heap', todo.obj, "string") /\ a \in Reference
  BY <1>3, <1>4, <1>5, <1>8, StillA DEF IsA, Reference
<1>10. /\ stack \in Seq(Reference) /\ stack[1] = todo.obj
  BY <1>3, StackFacts
<1>11. /\ stack' \in Seq(Reference) /\ Len(stack') = 2
       /\ stack'[1] = todo.obj /\ stack'[2] = a
  <2>1. /\ Append(stack, a) \in Seq(Reference) /\ Len(Append(stack, a)) = Len(stack) + 1
        /\ \A i \in 1 .. Len(stack) : Append(stack, a)[i] = stack[i]
        /\ Append(stack, a)[Len(stack) + 1] = a
    BY <1>9, <1>10, Appended
  <2> QED BY <1>2, <1>3, <1>10, <2>1
<1>12. todo.obj \in Reference
  BY StackFacts DEF Tasks
<1>13. /\ todo' \in Tasks /\ todo'.do = "value" /\ todo'.obj = todo.obj
       /\ todo'.user = "define_native"
  BY <1>1, <1>12, NothingIsATask DEF User
<1>14. \A b \in DOMAIN heap' : heap'[b].type = "string" => b \in DOMAIN heap
  BY <1>5, <1>8
<1>15. ValuesInv' /\ ParserInv' /\ NamesInv'
  BY <1>1, <1>3, <1>8, <1>13, <1>14, OthersKept
<1>16. ModeInv'
  BY <1>1, ModeKept DEF IInv, parser
<1>17. TodoInv'
  BY <1>1, <1>3, <1>9, <1>11, <1>13 DEF TodoInv, InMachine, parser
<1> QED BY <1>1, <1>3, <1>8, <1>11, <1>14, <1>15, <1>16, <1>17, QuietStep

LEMMA AddValuePreserves == IInv /\ AddValue => IInv'
<1> SUFFICES ASSUME IInv, AddValue PROVE IInv'
  OBVIOUS
<1> DEFINE v == IF todo.user = "define_native" THEN stack[2] ELSE Null
           n == Len(values)
<1>1. /\ todo.do = "value" /\ values' = Append(values, v)
      /\ todo' = ThenFor("index", todo.obj, todo.user)
      /\ UNCHANGED <<heap, strings, machine, names, parser, lines>>
  BY DEF AddValue
<1>2. /\ IsA(heap, todo.obj, "string") /\ todo.obj \notin DOMAIN names
      /\ \/ todo.user = "declare" /\ InCompiler /\ OnTop
         \/ /\ todo.user = "define_native" /\ InMachine /\ Len(stack) = 2
            /\ stack[1] = todo.obj /\ IsA(heap, stack[2], "native")
  BY <1>1 DEF IInv, TodoInv, NamesInv
<1>3. IsValue(heap, v)
  BY <1>2 DEF IsValue
<1>4. v \in Reference
  BY <1>3, ValueIsReference
<1>5. values \in Seq(Reference) /\ \A i \in DOMAIN values : IsValue(heap, values[i])
  BY DEF IInv, ValuesInv
<1>6. n \in Nat /\ DOMAIN values = 1 .. n
  BY <1>5, SeqFacts
<1> HIDE DEF v
<1>7. /\ values' \in Seq(Reference) /\ Len(values') = n + 1 /\ DOMAIN values' = 1 .. n + 1
      /\ \A i \in 1 .. n : values'[i] = values[i]
      /\ values'[n + 1] = v /\ values' # <<>>
  BY <1>1, <1>4, <1>5, Appended
<1> HIDE DEF n
<1>8. frames = <<>> /\ UNCHANGED <<stack, frames, open, compilers>>
  BY <1>1, <1>2 DEF InMachine, InCompiler, IInv, ModeInv, machine, parser
<1>9. HeapOk(heap') /\ Kept(heap, heap')
      /\ \A a \in DOMAIN heap' : heap'[a].type = "string" => a \in DOMAIN heap
  BY <1>1, HeapSame
<1>10. ValuesInv'
  <2>1. ASSUME NEW i \in 1 .. n + 1 PROVE IsValue(heap, values'[i])
    <3>1. CASE i \in 1 .. n
      BY <1>5, <1>6, <1>7, <3>1
    <3>2. CASE i = n + 1
      BY <1>3, <1>7, <3>2
    <3> QED BY <1>6, <3>1, <3>2
  <2> QED BY <1>1, <1>7, <2>1 DEF ValuesInv
<1>11. ParserInv'
  BY <1>1, <1>9, ParserKept DEF IInv
<1>12. todo.obj \in Reference /\ todo.user \in User
  BY StackFacts DEF Tasks
<1>13. /\ todo' \in Tasks /\ todo'.do = "index" /\ todo'.obj = todo.obj
       /\ todo'.user = todo.user
  BY <1>1, <1>12, NothingIsATask
<1>14. NamesInv'
  <2>1. /\ names \in [DOMAIN names -> 1 .. n]
        /\ \A s \in DOMAIN names : IsA(heap, s, "string")
        /\ \A s, t \in DOMAIN names : names[s] = names[t] => s = t
        /\ \A i \in 1 .. n : \E s \in DOMAIN names : names[s] = i
    BY <1>1, <1>6 DEF IInv, NamesInv
  <2>2. UNCHANGED <<names, heap>>
    BY <1>1
  <2>3. names' \in [DOMAIN names' -> DOMAIN values']
    <3>1. 1 .. n \subseteq 1 .. n + 1
      BY <1>6
    <3> QED BY <1>7, <2>1, <2>2, <3>1
  <2>4. ASSUME NEW i \in 1 .. n + 1
        PROVE  (\E s \in DOMAIN names : names[s] = i) <=> ~ (i = n + 1)
    <3>1. CASE i \in 1 .. n
      <4>1. i # n + 1
        BY <1>6, <3>1
      <4> QED BY <2>1, <3>1, <4>1
    <3>2. CASE i = n + 1
      <4>1. i \notin 1 .. n
        BY <1>6, <3>2
      <4> QED BY <2>1, <3>2, <4>1
    <3> QED BY <1>6, <3>1, <3>2
  <2> QED BY <1>2, <1>7, <1>13, <2>1, <2>2, <2>3, <2>4 DEF NamesInv
<1>15. ModeInv'
  BY <1>1, <1>8, ModeKept DEF IInv
<1>16. TodoInv'
  BY <1>1, <1>2, <1>8, <1>13 DEF TodoInv, InMachine, InCompiler, OnTop
<1>17. stack' \in Seq(Reference)
  BY <1>8, StackFacts
<1> QED BY <1>1, <1>8, <1>9, <1>10, <1>11, <1>14, <1>15, <1>16, <1>17, QuietStep

LEMMA AddIndexPreserves == IInv /\ AddIndex => IInv'
<1> SUFFICES ASSUME IInv, AddIndex PROVE IInv'
  OBVIOUS
<1> DEFINE n == Len(values)
           s == todo.obj
<1>1. /\ todo.do = "index" /\ names' = Place(names, s, n)
      /\ stack' = IF todo.user = "define_native" THEN <<>> ELSE Front(stack)
      /\ todo' = Nothing
      /\ UNCHANGED <<heap, strings, frames, open, values, parser, lines>>
  BY DEF AddIndex
<1>2. /\ IsA(heap, s, "string") /\ s \notin DOMAIN names /\ values # <<>>
      /\ \/ todo.user = "declare" /\ compilers # <<>> /\ Len(stack) = 1
         \/ todo.user = "define_native" /\ InMachine
  BY <1>1 DEF IInv, TodoInv, NamesInv, InCompiler
<1>3. frames = <<>>
  BY <1>2 DEF InMachine, IInv, ModeInv
<1>4. stack' = <<>> /\ stack' \in Seq(Reference)
  <2>1. stack \in Seq(Reference)
    BY StackFacts
  <2>2. Len(stack) = 1 => Front(stack) = <<>>
    BY <2>1, FrontOfOne
  <2>3. todo.user = "define_native" \/ Len(stack) = 1
    BY <1>2
  <2>4. stack' = <<>>
    BY <1>1, <2>2, <2>3
  <2> QED BY <2>4
<1>5. n \in DOMAIN values /\ DOMAIN values = 1 .. n
  BY <1>2, SeqFacts DEF IInv, ValuesInv
<1> HIDE DEF n, s
<1>6. HeapOk(heap') /\ Kept(heap, heap')
      /\ \A a \in DOMAIN heap' : heap'[a].type = "string" => a \in DOMAIN heap
  BY <1>1, HeapSame
<1>7. ValuesInv' /\ ParserInv'
  BY <1>1, <1>6, ParserKept, ValuesKept DEF IInv
<1>8. ModeInv'
  BY <1>1, ModeKept DEF IInv, parser
<1>9. todo' \in Tasks /\ todo'.do = "nothing"
  BY <1>1, NothingIsATask
<1>10. TodoInv'
  BY <1>1, <1>4, <1>9 DEF TodoInv
<1>11. NamesInv'
  <2>1. /\ names \in [DOMAIN names -> DOMAIN values]
        /\ \A t \in DOMAIN names : IsA(heap, t, "string")
        /\ \A t, u \in DOMAIN names : names[t] = names[u] => t = u
        /\ \A i \in DOMAIN values : (\E t \in DOMAIN names : names[t] = i) <=> i # n
    BY <1>1 DEF IInv, NamesInv, n
  <2>2. /\ DOMAIN names' = DOMAIN names \cup {s}
        /\ names' = [t \in DOMAIN names \cup {s} |-> IF t = s THEN n ELSE names[t]]
    BY <1>1 DEF Place
  <2>3. names'[s] = n /\ \A t \in DOMAIN names : names'[t] = names[t] /\ names'[t] # n
    BY <1>2, <1>5, <2>1, <2>2
  <2>4. names' \in [DOMAIN names' -> DOMAIN values]
    BY <1>5, <2>1, <2>2
  <2>5. \A t, u \in DOMAIN names' : names'[t] = names'[u] => t = u
    BY <2>1, <2>2, <2>3
  <2>6. \A i \in DOMAIN values : \E t \in DOMAIN names' : names'[t] = i
    BY <2>1, <2>2, <2>3
  <2>7. \A t \in DOMAIN names' : IsA(heap, t, "string")
    BY <1>2, <2>1, <2>2
  <2>8. UNCHANGED <<heap, values>>
    BY <1>1
  <2> QED BY <1>9, <2>4, <2>5, <2>6, <2>7, <2>8 DEF NamesInv
<1> QED BY <1>1, <1>3, <1>4, <1>6, <1>7, <1>8, <1>9, <1>10, <1>11, QuietStep

-----------------------------------------------------------------------------
(* The compiler. *)

LEMMA NewFunction ==
  ASSUME IInv, NEW a \in Free
  PROVE  LET h == Place(heap, a, Function)
         IN  /\ HeapOk(h) /\ Kept(heap, h) /\ IsA(h, a, "function")
             /\ \A b \in DOMAIN h : h[b].type = "string" => b \in DOMAIN heap
             /\ a \in Address
<1>1. a \in Address \ DOMAIN heap
  BY RuntimeAssumption DEF Free
<1>2. Function \in Object /\ Function.type = "function"
      /\ Function.name = Null /\ Function.constants = {}
  BY DEF Function, Functions, Object
<1> DEFINE h == Place(heap, a, Function)
<1>3. WellTyped(h, Function)
  <2> HIDE DEF h
  <2> QED BY <1>2 DEF WellTyped
<1>4. HeapOk(heap)
  BY DEF IInv, HeapInv
<1>5. /\ HeapOk(h) /\ Kept(heap, h) /\ DOMAIN h = DOMAIN heap \cup {a}
      /\ h[a] = Function
  BY <1>1, <1>2, <1>3, <1>4, HeapPlaced
<1> HIDE DEF h
<1> QED BY <1>1, <1>2, <1>5 DEF h, IsA

\* A step of the compiler that makes no string and leaves the globals alone.
LEMMA CompilerStep ==
  ASSUME IInv, frames = <<>>, UNCHANGED <<strings, frames, open, globals>>,
         HeapOk(heap'), Kept(heap, heap'),
         \A a \in DOMAIN heap' : heap'[a].type = "string" => a \in DOMAIN heap,
         todo.do # "intern", todo.do # "index",
         todo'.do \notin {"intern", "native", "value", "index"},
         stack' \in Seq(Reference), ParserInv', ModeInv', TodoInv'
  PROVE  IInv'
<1>1. UNCHANGED <<values, names>>
  BY DEF globals
<1>2. ValuesInv'
  BY <1>1, ValuesKept DEF IInv
<1>3. NamesInv'
  BY <1>1, NamesKept DEF IInv
<1> QED BY <1>2, <1>3, QuietStep

LEMMA CompilersSet ==
  ASSUME IInv, Kept(heap, heap'), UNCHANGED tokens, compilers' \in Seq(Address),
         \A i \in DOMAIN compilers' : IsA(heap', compilers'[i], "function")
  PROVE  ParserInv'
<1>1. tokens' \in Seq(Reference) /\ Len(tokens') = 2
  BY DEF IInv, ParserInv
<1>2. \A i \in 1 .. 2 : tokens'[i] # Null => IsA(heap', tokens'[i], "string")
  BY StillA DEF IInv, ParserInv
<1> QED BY <1>1, <1>2 DEF ParserInv

LEMMA TokenFacts ==
  ASSUME IInv, NEW i \in 1 .. 2
  PROVE  tokens[i] \in Reference /\ (tokens[i] # Null => IsA(heap, tokens[i], "string"))
<1>1. tokens \in Seq(Reference) /\ Len(tokens) = 2
  BY DEF IInv, ParserInv
<1>2. tokens[i] \in Reference
  BY <1>1
<1> QED BY <1>2 DEF IInv, ParserInv

LEMMA TokensSet ==
  ASSUME IInv, UNCHANGED <<heap, compilers>>, NEW x \in Reference, NEW y \in Reference,
         x # Null => IsA(heap, x, "string"), y # Null => IsA(heap, y, "string"),
         tokens' = <<x, y>>
  PROVE  ParserInv'
<1>1. /\ tokens' \in Seq(Reference) /\ Len(tokens') = 2
      /\ tokens'[1] = x /\ tokens'[2] = y
  OBVIOUS
<1>2. \A i \in 1 .. 2 : tokens'[i] # Null => IsA(heap', tokens'[i], "string")
  BY <1>1
<1> QED BY <1>1, <1>2 DEF IInv, ParserInv

\* Between two tokens nothing is on the stack.
LEMMA CompilerFacts ==
  ASSUME IInv, compilers # <<>>
  PROVE  /\ frames = <<>> /\ lines > 0
         /\ todo.do \in {"nothing", "scan", "name"} => stack = <<>>
         /\ compilers \in Seq(Address) /\ Len(compilers) \in Nat /\ Len(compilers) >= 1
         /\ DOMAIN compilers = 1 .. Len(compilers)
         /\ \A i \in DOMAIN compilers : IsA(heap, compilers[i], "function")
         /\ IsA(heap, Last(compilers), "function")
<1>1. frames = <<>> /\ lines > 0
  BY DEF IInv, ModeInv
<1>2. todo.do \in {"nothing", "scan", "name"} => stack = <<>>
  BY <1>1 DEF IInv, TodoInv
<1>3. compilers \in Seq(Address) /\ \A i \in DOMAIN compilers : IsA(heap, compilers[i], "function")
  BY DEF IInv, ParserInv
<1>4. /\ Len(compilers) \in Nat /\ Len(compilers) >= 1
      /\ DOMAIN compilers = 1 .. Len(compilers) /\ Len(compilers) \in DOMAIN compilers
  BY <1>3, SeqFacts
<1> QED BY <1>1, <1>2, <1>3, <1>4 DEF Last

LEMMA BeginScriptPreserves == IInv /\ BeginScript => IInv'
<1> SUFFICES ASSUME IInv, BeginScript PROVE IInv'
  OBVIOUS
<1>1. /\ frames = <<>> /\ todo = Nothing /\ lines < MaxLines /\ lines' = lines + 1
      /\ UNCHANGED <<strings, stack, frames, open, globals, tokens, todo>>
  BY DEF BeginScript, Idle, machine
<1>2. PICK a \in Free : heap' = Place(heap, a, Function) /\ compilers' = <<a>>
  BY DEF BeginScript
<1>3. /\ HeapOk(heap') /\ Kept(heap, heap') /\ IsA(heap', a, "function") /\ a \in Address
      /\ \A b \in DOMAIN heap' : heap'[b].type = "string" => b \in DOMAIN heap
  BY <1>2, NewFunction
<1>4. todo' = Nothing /\ todo' \in Tasks /\ todo'.do = "nothing" /\ todo.do = "nothing"
  BY <1>1, NothingIsATask
<1>5. stack = <<>> /\ stack' \in Seq(Reference)
  BY <1>1, <1>4, StackFacts DEF IInv, TodoInv
<1>6. ParserInv'
  <2>1. compilers' \in Seq(Address) /\ \A i \in DOMAIN compilers' : compilers'[i] = a
    BY <1>2, <1>3
  <2> QED BY <1>1, <1>3, <2>1, CompilersSet
<1>7. ModeInv'
  BY <1>1, RuntimeAssumption DEF IInv, ModeInv
<1>8. TodoInv'
  BY <1>1, <1>4, <1>5 DEF TodoInv
<1> QED BY <1>1, <1>3, <1>4, <1>5, <1>6, <1>7, <1>8, CompilerStep

LEMMA AdvancePreserves == IInv /\ Advance => IInv'
<1> SUFFICES ASSUME IInv, Advance PROVE IInv'
  OBVIOUS
<1>1. /\ compilers # <<>> /\ todo = Nothing
      /\ tokens' = <<tokens[2], tokens[2]>> /\ todo' = Then("scan", Null)
      /\ UNCHANGED <<heap, strings, stack, frames, open, globals, compilers, lines>>
  BY DEF Advance, Compiling, machine
<1>2. todo' \in Tasks /\ todo'.do = "scan" /\ todo.do = "nothing"
  BY <1>1, NothingIsATask DEF Reference
<1>3. frames = <<>> /\ stack = <<>>
  BY <1>1, <1>2, CompilerFacts
<1>4. ParserInv'
  BY <1>1, TokenFacts, TokensSet
<1>5. ModeInv'
  BY <1>1, ModeKept DEF IInv
<1>6. TodoInv'
  BY <1>1, <1>2, <1>3 DEF TodoInv
<1> QED BY <1>1, <1>2, <1>3, <1>4, <1>5, <1>6, HeapSame, StackFacts, CompilerStep

LEMMA ScanOtherPreserves == IInv /\ ScanOther => IInv'
<1> SUFFICES ASSUME IInv, ScanOther PROVE IInv'
  OBVIOUS
<1>1. /\ todo.do = "scan" /\ todo' = Nothing /\ tokens' = <<tokens[1], Null>>
      /\ UNCHANGED <<heap, strings, stack, frames, open, globals, compilers, lines>>
  BY DEF ScanOther, machine
<1>2. todo' \in Tasks /\ todo'.do = "nothing" /\ compilers # <<>>
  BY <1>1, NothingIsATask DEF IInv, TodoInv
<1>3. frames = <<>> /\ stack = <<>>
  BY <1>1, <1>2, CompilerFacts
<1>4. ParserInv'
  BY <1>1, TokenFacts, TokensSet DEF Reference
<1>5. ModeInv'
  BY <1>1, ModeKept DEF IInv
<1>6. TodoInv'
  BY <1>1, <1>2, <1>3 DEF TodoInv
<1> QED BY <1>1, <1>2, <1>3, <1>4, <1>5, <1>6, HeapSame, StackFacts, CompilerStep

LEMMA ScanStringPreserves == IInv /\ ScanString => IInv'
<1> SUFFICES ASSUME IInv, ScanString PROVE IInv'
  OBVIOUS
<1>1. todo.do = "scan" /\ MakeStringOf(Literal, "scanner")
  BY DEF ScanString
<1>2. compilers # <<>>
  BY <1>1 DEF IInv, TodoInv
<1>3. MayMake(Literal, "scanner")
  BY <1>1, <1>2 DEF MayMake, CompilerUser
<1> QED BY <1>1, <1>3, MakeStringPreserves, RuntimeAssumption

LEMMA BeginFunctionPreserves == IInv /\ BeginFunction => IInv'
<1> SUFFICES ASSUME IInv, BeginFunction PROVE IInv'
  OBVIOUS
<1>1. /\ compilers # <<>> /\ todo = Nothing /\ todo' = Then("name", Null)
      /\ UNCHANGED <<strings, stack, frames, open, globals, tokens, lines>>
  BY DEF BeginFunction, Compiling, machine
<1>2. PICK a \in Free : heap' = Place(heap, a, Function) /\ compilers' = Append(compilers, a)
  BY DEF BeginFunction
<1>3. /\ HeapOk(heap') /\ Kept(heap, heap') /\ IsA(heap', a, "function") /\ a \in Address
      /\ \A b \in DOMAIN heap' : heap'[b].type = "string" => b \in DOMAIN heap
  BY <1>2, NewFunction
<1>4. todo' \in Tasks /\ todo'.do = "name" /\ todo.do = "nothing"
  BY <1>1, NothingIsATask DEF Reference
<1>5. /\ frames = <<>> /\ stack = <<>> /\ lines > 0
      /\ compilers \in Seq(Address) /\ Len(compilers) \in Nat
      /\ DOMAIN compilers = 1 .. Len(compilers)
      /\ \A i \in DOMAIN compilers : IsA(heap, compilers[i], "function")
  BY <1>1, <1>4, CompilerFacts
<1>6. /\ compilers' \in Seq(Address) /\ DOMAIN compilers' = 1 .. Len(compilers) + 1
      /\ \A i \in 1 .. Len(compilers) : compilers'[i] = compilers[i]
      /\ compilers'[Len(compilers) + 1] = a /\ compilers' # <<>>
  BY <1>2, <1>3, <1>5, Appended
<1>7. ParserInv'
  <2>1. ASSUME NEW i \in 1 .. Len(compilers) + 1 PROVE IsA(heap', compilers'[i], "function")
    <3>1. CASE i \in 1 .. Len(compilers)
      BY <1>3, <1>5, <1>6, <3>1, StillA
    <3>2. CASE i = Len(compilers) + 1
      BY <1>3, <1>6, <3>2
    <3> QED BY <1>5, <3>1, <3>2
  <2> QED BY <1>1, <1>3, <1>6, <2>1, CompilersSet
<1>8. ModeInv'
  BY <1>1, <1>5 DEF IInv, ModeInv
<1>9. TodoInv'
  BY <1>1, <1>4, <1>5, <1>6 DEF TodoInv
<1>10. stack' \in Seq(Reference)
  BY <1>1, StackFacts
<1> QED BY <1>1, <1>3, <1>4, <1>5, <1>7, <1>8, <1>9, <1>10, CompilerStep

LEMMA NameFunctionPreserves == IInv /\ NameFunction => IInv'
<1> SUFFICES ASSUME IInv, NameFunction PROVE IInv'
  OBVIOUS
<1>1. todo.do = "name" /\ MakeStringOf(Text, "begin_compiler")
  BY DEF NameFunction, MakeString
<1>2. compilers # <<>>
  BY <1>1 DEF IInv, TodoInv
<1>3. MayMake(Text, "begin_compiler")
  BY <1>1, <1>2 DEF MayMake, CompilerUser
<1> QED BY <1>1, <1>3, MakeStringPreserves

LEMMA DeclareGlobalPreserves == IInv /\ DeclareGlobal => IInv'
<1> SUFFICES ASSUME IInv, DeclareGlobal PROVE IInv'
  OBVIOUS
<1>1. compilers # <<>> /\ todo.do = "nothing" /\ MakeStringOf(Text, "declare")
  BY DEF DeclareGlobal, MakeString, Compiling, Nothing
<1>2. MayMake(Text, "declare")
  BY <1>1 DEF MayMake, CompilerUser
<1> QED BY <1>1, <1>2, MakeStringPreserves

LEMMA ResolveGlobalPreserves == IInv /\ ResolveGlobal => IInv'
<1> SUFFICES ASSUME IInv, ResolveGlobal PROVE IInv'
  OBVIOUS
<1>1. compilers # <<>> /\ todo.do = "nothing" /\ MakeStringOf(Text, "resolve")
  BY DEF ResolveGlobal, MakeString, Compiling, Nothing
<1>2. MayMake(Text, "resolve")
  BY <1>1 DEF MayMake, CompilerUser
<1> QED BY <1>1, <1>2, MakeStringPreserves

LEMMA CallNativePreserves == IInv /\ CallNative => IInv'
<1> SUFFICES ASSUME IInv, CallNative PROVE IInv'
  OBVIOUS
<1>1. frames # <<>> /\ todo.do = "nothing" /\ HasTemporary /\ MakeStringOf(Text, "native")
  BY DEF CallNative, MakeString, Executing, Nothing
<1>2. MayMake(Text, "native")
  BY <1>1 DEF MayMake
<1> QED BY <1>1, <1>2, MakeStringPreserves

\* A value is pushed, to be a constant of the function that is compiled.
LEMMA ConstantPushed ==
  ASSUME IInv, frames = <<>>, stack = <<>>, todo.do = "nothing",
         UNCHANGED <<heap, strings, frames, open, globals, tokens, lines>>,
         compilers' # <<>>, ParserInv', ModeInv',
         NEW v, IsConstant(heap, v),
         stack' = Append(stack, v), todo' = Then("constant", v)
  PROVE  IInv'
<1>1. v \in Reference
  BY ValueIsReference
<1>2. /\ stack' \in Seq(Reference) /\ Len(stack') = 1 /\ stack' # <<>>
      /\ Last(stack') = v
  BY <1>1, OneOnStack
<1>3. todo' \in Tasks /\ todo'.do = "constant" /\ todo'.obj = v
  BY <1>1, NothingIsATask
<1>4. TodoInv'
  BY <1>2, <1>3 DEF TodoInv, InCompiler, OnTop
<1> QED BY <1>2, <1>3, <1>4, HeapSame, CompilerStep

LEMMA EmitConstantPreserves == IInv /\ EmitConstant => IInv'
<1> SUFFICES ASSUME IInv, EmitConstant PROVE IInv'
  OBVIOUS
<1>1. /\ compilers # <<>> /\ todo.do = "nothing" /\ tokens[1] # Null
      /\ stack' = Append(stack, tokens[1]) /\ todo' = Then("constant", tokens[1])
      /\ UNCHANGED <<heap, strings, frames, open, globals, parser, lines>>
  BY DEF EmitConstant, Compiling, AddConstant, Nothing
<1>2. frames = <<>> /\ stack = <<>>
  BY <1>1, CompilerFacts
<1>3. IsConstant(heap, tokens[1])
  BY <1>1, TokenFacts DEF IsConstant
<1>4. ParserInv'
  BY <1>1, HeapSame, ParserKept DEF IInv
<1>5. UNCHANGED <<compilers, tokens>>
  BY <1>1 DEF parser
<1>6. ModeInv'
  BY <1>1, <1>5, ModeKept DEF IInv
<1> QED BY <1>1, <1>2, <1>3, <1>4, <1>5, <1>6, ConstantPushed

LEMMA EndFunctionPreserves == IInv /\ EndFunction => IInv'
<1> SUFFICES ASSUME IInv, EndFunction PROVE IInv'
  OBVIOUS
<1>1. /\ compilers # <<>> /\ todo.do = "nothing" /\ Len(compilers) > 1
      /\ compilers' = Front(compilers)
      /\ stack' = Append(stack, Last(compilers)) /\ todo' = Then("constant", Last(compilers))
      /\ UNCHANGED <<heap, strings, frames, open, globals, tokens, lines>>
  BY DEF EndFunction, Compiling, AddConstant, Nothing
<1>2. /\ frames = <<>> /\ stack = <<>> /\ lines > 0
      /\ compilers \in Seq(Address) /\ Len(compilers) \in Nat
      /\ DOMAIN compilers = 1 .. Len(compilers)
      /\ \A i \in DOMAIN compilers : IsA(heap, compilers[i], "function")
      /\ IsA(heap, Last(compilers), "function")
  BY <1>1, CompilerFacts
<1>3. /\ compilers' \in Seq(Address) /\ Len(compilers') = Len(compilers) - 1
      /\ DOMAIN compilers' = 1 .. Len(compilers) - 1
      /\ \A i \in 1 .. Len(compilers) - 1 : compilers'[i] = compilers[i]
  BY <1>1, <1>2, FrontFacts
<1>4. compilers' # <<>>
  BY <1>1, <1>2, <1>3, SeqFacts
<1>5. ParserInv'
  <2>1. \A i \in DOMAIN compilers' : IsA(heap, compilers'[i], "function")
    BY <1>2, <1>3
  <2>2. Kept(heap, heap')
    BY <1>1, HeapSame
  <2> QED BY <1>1, <1>3, <2>1, <2>2, CompilersSet
<1>6. ModeInv'
  BY <1>1, <1>2 DEF IInv, ModeInv
<1>7. IsConstant(heap, Last(compilers))
  BY <1>2 DEF IsConstant
<1> QED BY <1>1, <1>2, <1>4, <1>5, <1>6, <1>7, ConstantPushed

LEMMA AppendConstantPreserves == IInv /\ AppendConstant => IInv'
<1> SUFFICES ASSUME IInv, AppendConstant PROVE IInv'
  OBVIOUS
<1> DEFINE f == Last(compilers)
           o == [heap[f] EXCEPT !.constants = @ \cup {todo.obj}]
<1>1. /\ todo.do = "constant" /\ todo' = Then("constant_index", todo.obj)
      /\ heap' = [heap EXCEPT ![f].constants = @ \cup {todo.obj}]
      /\ UNCHANGED <<strings, stack, frames, open, globals, compilers, tokens, lines>>
  BY DEF AppendConstant, machine, parser
<1>2. /\ compilers # <<>> /\ Len(stack) = 1 /\ OnTop /\ IsConstant(heap, todo.obj)
  BY <1>1 DEF IInv, TodoInv, InCompiler
<1>3. frames = <<>> /\ IsA(heap, f, "function")
  BY <1>2, CompilerFacts
<1>4. /\ f \in DOMAIN heap /\ heap[f].type = "function" /\ todo.obj \in Address
      /\ heap[f] \in Functions /\ WellTyped(heap, heap[f])
  BY <1>2, <1>3, KindOf DEF IsA, IsConstant
<1>5. heap' = Rewritten(heap, f, o)
  BY <1>1 DEF Rewritten
<1>6. /\ o \in Functions /\ o.name = heap[f].name
      /\ o.constants = heap[f].constants \cup {todo.obj} /\ o.type = "function"
  BY <1>4 DEF Functions
<1> HIDE DEF f, o
<1>7. o \in Object
  BY <1>6 DEF Object
<1>8. WellTyped(heap, o)
  BY <1>2, <1>4, <1>6 DEF WellTyped, IsConstant
<1>9. HeapOk(heap) /\ o.type = heap[f].type /\ o.type # "string"
  BY <1>4, <1>6 DEF IInv, HeapInv
<1>10. /\ HeapOk(Rewritten(heap, f, o)) /\ Kept(heap, Rewritten(heap, f, o))
       /\ DOMAIN Rewritten(heap, f, o) = DOMAIN heap
  BY <1>4, <1>7, <1>8, <1>9, HeapRewritten
<1>11. HeapOk(heap') /\ Kept(heap, heap') /\ DOMAIN heap' = DOMAIN heap
  BY <1>5, <1>10
<1>12. todo.obj \in Reference
  BY <1>4 DEF Reference
<1>13. todo' \in Tasks /\ todo'.do = "constant_index" /\ todo'.obj = todo.obj
  BY <1>1, <1>12, NothingIsATask
<1>14. ParserInv'
  BY <1>1, <1>11, ParserKept DEF IInv, parser
<1>15. ModeInv'
  BY <1>1, ModeKept DEF IInv
<1>16. IsConstant(heap', todo'.obj)
  BY <1>2, <1>11, <1>13, StillA
<1>17. TodoInv'
  BY <1>1, <1>2, <1>13, <1>16 DEF TodoInv, InCompiler, OnTop
<1>18. stack' \in Seq(Reference)
  BY <1>1, StackFacts
<1> QED BY <1>1, <1>3, <1>11, <1>13, <1>14, <1>15, <1>17, <1>18, CompilerStep

LEMMA IndexConstantPreserves == IInv /\ IndexConstant => IInv'
<1> SUFFICES ASSUME IInv, IndexConstant PROVE IInv'
  OBVIOUS
<1>1. /\ todo.do = "constant_index" /\ todo' = Nothing /\ stack' = Front(stack)
      /\ UNCHANGED <<heap, strings, frames, open, globals, compilers, tokens, lines>>
  BY DEF IndexConstant, parser
<1>2. compilers # <<>> /\ Len(stack) = 1 /\ stack \in Seq(Reference)
  BY <1>1, StackFacts DEF IInv, TodoInv, InCompiler
<1>3. frames = <<>>
  BY <1>2, CompilerFacts
<1>4. stack' = <<>> /\ stack' \in Seq(Reference)
  <2>1. Front(stack) = <<>>
    BY <1>2, FrontOfOne
  <2> QED BY <1>1, <2>1
<1>5. todo' \in Tasks /\ todo'.do = "nothing"
  BY <1>1, NothingIsATask
<1>6. TodoInv'
  BY <1>1, <1>4, <1>5 DEF TodoInv
<1>7. ParserInv'
  BY <1>1, HeapSame, ParserKept DEF IInv, parser
<1>8. ModeInv'
  BY <1>1, ModeKept DEF IInv
<1> QED BY <1>1, <1>3, <1>4, <1>5, <1>6, <1>7, <1>8, HeapSame, CompilerStep

LEMMA EndScriptPreserves == IInv /\ EndScript => IInv'
<1> SUFFICES ASSUME IInv, EndScript PROVE IInv'
  OBVIOUS
<1>1. /\ compilers # <<>> /\ todo = Nothing /\ todo.do = "nothing"
      /\ compilers' = <<>> /\ tokens' = <<Null, Null>>
      /\ UNCHANGED <<heap, strings, frames, open, globals, lines>>
  BY DEF EndScript, Compiling, Nothing
<1>2. /\ frames = <<>> /\ stack = <<>> /\ lines > 0
      /\ compilers \in Seq(Address) /\ Len(compilers) >= 1
      /\ DOMAIN compilers = 1 .. Len(compilers) /\ Len(compilers) \in Nat
      /\ \A i \in DOMAIN compilers : IsA(heap, compilers[i], "function")
  BY <1>1, CompilerFacts
<1>3. ParserInv'
  <2>1. /\ compilers' \in Seq(Address) /\ DOMAIN compilers' = {}
        /\ tokens' \in Seq(Reference) /\ Len(tokens') = 2
        /\ tokens'[1] = Null /\ tokens'[2] = Null
    BY <1>1 DEF Reference
  <2> QED BY <2>1 DEF ParserInv
<1>4. ModeInv'
  BY <1>1, <1>2 DEF IInv, ModeInv
<1>5. CASE UNCHANGED <<stack, todo>>
  <2>1. stack' = <<>> /\ stack' \in Seq(Reference) /\ todo' = Nothing
        /\ todo'.do = "nothing" /\ todo' \in Tasks
    BY <1>1, <1>2, <1>5, NothingIsATask
  <2>2. TodoInv'
    BY <2>1 DEF TodoInv
  <2> QED BY <1>1, <1>2, <1>3, <1>4, <2>1, <2>2, HeapSame, CompilerStep
<1>6. CASE stack' = Append(stack, compilers[1]) /\ todo' = Then("script", compilers[1])
  <2>1. IsA(heap, compilers[1], "function")
    BY <1>2
  <2>2. compilers[1] \in Reference
    BY <2>1, ValueIsReference DEF IsConstant
  <2>3. /\ stack' \in Seq(Reference) /\ Len(stack') = 1 /\ stack' # <<>>
        /\ Last(stack') = compilers[1]
    BY <1>2, <1>6, <2>2, OneOnStack
  <2>4. todo' \in Tasks /\ todo'.do = "script" /\ todo'.obj = compilers[1]
    BY <1>6, <2>2, NothingIsATask
  <2>5. TodoInv'
    BY <1>1, <1>2, <2>1, <2>3, <2>4 DEF TodoInv, OnTop
  <2> QED BY <1>1, <1>2, <1>3, <1>4, <2>3, <2>4, <2>5, HeapSame, CompilerStep
<1> QED BY <1>5, <1>6 DEF EndScript

-----------------------------------------------------------------------------
(* The collector. *)

LEMMA RootFacts ==
  ASSUME IInv
  PROVE  /\ Roots \subseteq Address
         /\ \A i \in DOMAIN stack : stack[i] # Null => stack[i] \in Roots
         /\ \A i \in DOMAIN values : values[i] # Null => values[i] \in Roots
         /\ \A i \in 1 .. 2 : tokens[i] # Null => tokens[i] \in Roots
         /\ \A i \in DOMAIN frames : frames[i].closure \in Roots
         /\ \A i \in DOMAIN compilers : compilers[i] \in Roots
         /\ \A i \in DOMAIN open : open[i] \in Roots
         /\ DOMAIN names \subseteq Roots
<1>1. /\ stack \in Seq(Reference) /\ values \in Seq(Reference)
      /\ tokens \in Seq(Reference) /\ Len(tokens) = 2
      /\ frames \in Seq([closure : Address, slot : Nat])
      /\ compilers \in Seq(Address)
      /\ open \in [DOMAIN open -> Address]
  BY DEF IInv, StackInv, ValuesInv, ParserInv, FramesInv, OpenInv
<1>2. /\ \A i \in DOMAIN stack : stack[i] \in Reference
      /\ \A i \in DOMAIN values : values[i] \in Reference
      /\ \A i \in DOMAIN compilers : compilers[i] \in Address
      /\ \A i \in DOMAIN open : open[i] \in Address
  BY <1>1
<1>3. \A i \in DOMAIN tokens : tokens[i] \in Reference
  <2>1. DOMAIN tokens = 1 .. 2
    BY <1>1
  <2> QED BY <2>1, TokenFacts
<1>4. \A i \in DOMAIN frames : frames[i].closure \in Address
  BY KindOf DEF IInv, FramesInv, IsA
<1>5. DOMAIN names \subseteq Address
  BY KindOf DEF IInv, NamesInv, IsA
<1>6. DOMAIN tokens = 1 .. 2
  BY <1>1
<1>7. Null \notin Address
  BY AddressAssumption
<1>8. /\ Elements(stack) \subseteq Reference /\ Elements(values) \subseteq Reference
      /\ Elements(tokens) \subseteq Reference /\ Elements(compilers) \subseteq Address
      /\ Image(open) \subseteq Address
      /\ {f.closure : f \in Elements(frames)} \subseteq Address
  BY <1>2, <1>3, <1>4 DEF Elements, Image
<1>9. Roots \subseteq Address
  BY <1>5, <1>8 DEF Roots, Reference
<1>10. /\ \A i \in DOMAIN stack : stack[i] # Null => stack[i] \in Roots
       /\ \A i \in DOMAIN values : values[i] # Null => values[i] \in Roots
       /\ \A i \in DOMAIN tokens : tokens[i] # Null => tokens[i] \in Roots
  BY DEF Roots, Elements
<1>11. /\ \A i \in DOMAIN compilers : compilers[i] \in Roots
       /\ \A i \in DOMAIN open : open[i] \in Roots
       /\ DOMAIN names \subseteq Roots
  BY <1>2, <1>5, <1>7 DEF Roots, Elements, Image
<1>12. \A i \in DOMAIN frames : frames[i].closure \in Roots
  BY <1>4, <1>7 DEF Roots, Elements
<1> QED BY <1>6, <1>9, <1>10, <1>11, <1>12

\* What the code has in hand is on the stack or in a table.
LEMMA TodoRooted ==
  ASSUME IInv, todo.do \notin {"nothing", "scan", "name"}
  PROVE  todo.obj \in Roots
<1>1. todo.obj # Null
  BY KindOf DEF IInv, TodoInv, Tasks, IsA, IsConstant
<1>2. CASE OnTop
  <2>1. stack # <<>> /\ Last(stack) = todo.obj
    BY <1>2 DEF OnTop
  <2>2. stack \in Seq(Reference) /\ Last(stack) = stack[Len(stack)] /\ Len(stack) \in DOMAIN stack
    BY <2>1, StackFacts, SeqFacts DEF Last
  <2> QED BY <1>1, <2>1, <2>2, RootFacts
<1>3. CASE Len(stack) = 2 /\ stack[1] = todo.obj
  <2>1. 1 \in DOMAIN stack
    BY <1>3, StackFacts
  <2> QED BY <1>1, <1>3, <2>1, RootFacts
<1> QED BY <1>2, <1>3 DEF IInv, TodoInv, Tasks

\* What is left is what can be reached, as it was.
LEMMA Collected ==
  ASSUME IInv, Collect
  PROVE  /\ HeapOk(heap') /\ DOMAIN heap' \subseteq DOMAIN heap
         /\ \A a \in DOMAIN heap' : heap'[a] = heap[a]
         /\ DOMAIN heap' = Reachable(heap, Roots) \cap DOMAIN heap
         /\ \A a \in Roots : \A type : IsA(heap, a, type) => IsA(heap', a, type)
         /\ strings' = strings \cap DOMAIN heap'
<1> DEFINE live == Reachable(heap, Roots)
<1>1. IsHeap(heap) /\ Roots \in SUBSET Address /\ \A a \in DOMAIN heap : WellTyped(heap, heap[a])
  BY RootFacts DEF IInv, HeapInv, HeapOk
<1>2. Traced(heap, Roots) = live
  BY <1>1, TracedIsReachable
<1>3. heap' = Part(heap, live) /\ strings' = strings \cap live
  BY <1>2 DEF Collect
<1>4. live \subseteq Address /\ Roots \subseteq live /\ ClosedUnder(heap, live)
  BY <1>1, ReachableIsClosed
<1> HIDE DEF live
<1>5. /\ IsHeap(Part(heap, live)) /\ DOMAIN Part(heap, live) = live \cap DOMAIN heap
      /\ \A a \in live \cap DOMAIN heap : Part(heap, live)[a] = heap[a]
  BY <1>1, PartIsHeap
<1>6. /\ IsHeap(heap') /\ DOMAIN heap' = live \cap DOMAIN heap
      /\ \A a \in live \cap DOMAIN heap : heap'[a] = heap[a]
  BY <1>3, <1>5
<1>7. ASSUME NEW a \in DOMAIN heap' PROVE WellTyped(heap', heap'[a])
  <2>1. a \in live \cap DOMAIN heap /\ heap'[a] = heap[a]
    BY <1>6
  <2>2. heap[a] \in Object /\ WellTyped(heap, heap[a])
    BY <1>1, <2>1, ObjectAt
  <2>3. References(heap[a]) \subseteq live
    BY <1>4, <2>1 DEF ClosedUnder
  <2>4. \A b \in References(heap[a]) \cap DOMAIN heap :
           b \in DOMAIN heap' /\ heap'[b].type = heap[b].type
    BY <1>6, <2>3
  <2> QED BY <2>1, <2>2, <2>4, WellTypedThrough
<1>8. HeapOk(heap')
  BY <1>6, <1>7 DEF HeapOk
<1>9. \A a \in Roots : \A type : IsA(heap, a, type) => IsA(heap', a, type)
  BY <1>4, <1>6 DEF IsA
<1>10. strings' = strings \cap DOMAIN heap'
  BY <1>3, <1>6 DEF IInv, InternInv, IsA
<1> QED BY <1>6, <1>8, <1>9, <1>10 DEF live

LEMMA CollectPreserves == IInv /\ Collect => IInv'
<1> SUFFICES ASSUME IInv, Collect PROVE IInv'
  OBVIOUS
<1>1. UNCHANGED <<stack, frames, open, values, names, compilers, tokens, todo, lines>>
  BY DEF Collect, machine, globals, parser
<1>2. /\ HeapOk(heap') /\ DOMAIN heap' \subseteq DOMAIN heap
      /\ \A a \in DOMAIN heap' : heap'[a] = heap[a]
      /\ \A a \in Roots : \A type : IsA(heap, a, type) => IsA(heap', a, type)
      /\ strings' = strings \cap DOMAIN heap'
  BY Collected
<1>3. \A a \in Roots : /\ IsValue(heap, a) => IsValue(heap', a)
                       /\ IsConstant(heap, a) => IsConstant(heap', a)
  BY <1>2 DEF IsValue, IsConstant
<1>4. HeapInv'
  BY <1>2 DEF HeapInv
<1>5. InternInv'
  <2>1. \A s \in strings' : IsA(heap', s, "string")
    BY <1>2 DEF IInv, InternInv, IsA
  <2>2. \A s \in DOMAIN heap' : heap'[s].type = "string" =>
           s \in strings' \/ (todo'.do = "intern" /\ todo'.obj = s)
    BY <1>1, <1>2 DEF IInv, InternInv
  <2>3. \A s, t \in DOMAIN heap' :
           /\ heap'[s].type = "string" /\ heap'[t].type = "string"
           /\ heap'[s].text = heap'[t].text
           => s = t
    BY <1>2 DEF IInv, InternInv
  <2> QED BY <2>1, <2>2, <2>3 DEF InternInv
<1>6. ValuesInv'
  <2>1. \A i \in DOMAIN values : IsValue(heap', values[i])
    BY <1>3, RootFacts DEF IInv, ValuesInv, IsValue
  <2> QED BY <1>1, <2>1 DEF IInv, ValuesInv
<1>7. ParserInv'
  <2>1. \A i \in DOMAIN compilers : IsA(heap', compilers[i], "function")
    BY <1>2, RootFacts DEF IInv, ParserInv
  <2>2. \A i \in 1 .. 2 : tokens[i] # Null => IsA(heap', tokens[i], "string")
    BY <1>2, RootFacts DEF IInv, ParserInv
  <2> QED BY <1>1, <2>1, <2>2 DEF IInv, ParserInv
<1>8. NamesInv'
  <2>1. \A s \in DOMAIN names : IsA(heap', s, "string")
    BY <1>2, RootFacts DEF IInv, NamesInv
  <2> QED BY <1>1, <2>1 DEF IInv, NamesInv
<1>9. StackInv'
  <2>1. frames # <<>> => \A i \in DOMAIN stack : IsValue(heap', stack[i])
    BY <1>3, RootFacts DEF IInv, StackInv, IsValue
  <2> QED BY <1>1, <2>1 DEF IInv, StackInv
<1>10. FramesInv'
  <2>1. \A i \in DOMAIN frames : IsA(heap', frames[i].closure, "closure")
    BY <1>2, RootFacts DEF IInv, FramesInv
  <2> QED BY <1>1, <2>1 DEF IInv, FramesInv
<1>11. OpenInv'
  <2>1. \A i \in DOMAIN open : IsA(heap', open[i], "upvalue")
    BY <1>2, RootFacts DEF IInv, OpenInv
  <2> QED BY <1>1, <2>1 DEF IInv, OpenInv
<1>12. ModeInv'
  BY <1>1, ModeKept DEF IInv
<1>13. TodoInv'
  <2>1. CASE todo.do \in {"nothing", "scan", "name"}
    BY <1>1, <2>1 DEF IInv, TodoInv
  <2>2. CASE todo.do \notin {"nothing", "scan", "name"}
    <3>1. todo.obj \in Roots
      BY <2>2, TodoRooted
    <3>2. /\ \A type : IsA(heap, todo.obj, type) => IsA(heap', todo.obj, type)
          /\ IsConstant(heap, todo.obj) => IsConstant(heap', todo.obj)
      BY <1>2, <1>3, <3>1
    <3>3. Len(stack) = 2 /\ IsA(heap, stack[2], "native") => IsA(heap', stack[2], "native")
      <4>1. Len(stack) = 2 => 2 \in DOMAIN stack
        BY StackFacts
      <4>2. IsA(heap, stack[2], "native") => stack[2] # Null
        BY KindOf DEF IsA
      <4> QED BY <1>2, <4>1, <4>2, RootFacts
    <3> QED BY <1>1, <2>2, <3>2, <3>3
            DEF IInv, TodoInv, OnTop, InMachine, InCompiler, InProgram
  <2> QED BY <2>1, <2>2
<1> QED BY <1>4, <1>5, <1>6, <1>7, <1>8, <1>9, <1>10, <1>11, <1>12, <1>13 DEF IInv

-----------------------------------------------------------------------------
(* The invariant holds. *)

LEMMA InitHolds == Init => IInv
<1> SUFFICES ASSUME Init PROVE IInv
  OBVIOUS
<1>1. DOMAIN Empty = {}
  BY DEF Empty
<1>2. /\ heap = Empty /\ strings = {} /\ stack = <<>> /\ frames = <<>> /\ open = Empty
      /\ values = <<>> /\ names = Empty /\ compilers = <<>> /\ tokens = <<Null, Null>>
      /\ todo = Nothing /\ lines = 0
  BY DEF Init
<1>3. HeapInv
  BY <1>1, <1>2 DEF HeapInv, HeapOk, IsHeap, Empty
<1>4. InternInv
  BY <1>1, <1>2 DEF InternInv
<1>5. ValuesInv /\ StackInv /\ FramesInv
  BY <1>2 DEF ValuesInv, StackInv, FramesInv
<1>6. ParserInv
  <2>1. /\ tokens \in Seq(Reference) /\ Len(tokens) = 2
        /\ tokens[1] = Null /\ tokens[2] = Null
    BY <1>2 DEF Reference
  <2> QED BY <1>2, <2>1 DEF ParserInv
<1>7. todo.do = "nothing" /\ todo \in Tasks
  BY <1>2, NothingIsATask
<1>8. NamesInv
  <2>1. DOMAIN names = {} /\ DOMAIN values = {}
    BY <1>1, <1>2
  <2>2. names \in [DOMAIN names -> DOMAIN values]
    BY <1>2, <2>1 DEF Empty
  <2> QED BY <1>7, <2>1, <2>2 DEF NamesInv
<1>9. OpenInv
  BY <1>2 DEF OpenInv, Empty
<1>10. ModeInv
  BY <1>2, RuntimeAssumption DEF ModeInv
<1>11. TodoInv
  BY <1>2, <1>7 DEF TodoInv
<1> QED BY <1>3, <1>4, <1>5, <1>6, <1>8, <1>9, <1>10, <1>11 DEF IInv

LEMMA StutterPreserves == IInv /\ UNCHANGED vars => IInv'
<1> SUFFICES ASSUME IInv, UNCHANGED vars PROVE IInv'
  OBVIOUS
<1>1. UNCHANGED <<heap, strings, stack, frames, open, values, names, compilers, tokens, todo, lines>>
  BY DEF vars
<1>2. HeapInv' /\ InternInv' /\ ValuesInv' /\ ParserInv' /\ NamesInv'
  BY <1>1 DEF IInv, HeapInv, InternInv, ValuesInv, ParserInv, NamesInv
<1>3. StackInv' /\ FramesInv' /\ OpenInv' /\ ModeInv'
  BY <1>1 DEF IInv, StackInv, FramesInv, OpenInv, ModeInv
<1>4. TodoInv'
  BY <1>1 DEF IInv, TodoInv, OnTop, InCompiler, InMachine, InProgram
<1> QED BY <1>2, <1>3, <1>4 DEF IInv

LEMMA CompilerPreserves ==
  IInv /\ (\/ InternString \/ DefineNative \/ AllocateNative \/ AddValue \/ AddIndex
           \/ BeginScript \/ Advance \/ ScanOther \/ ScanString
           \/ BeginFunction \/ NameFunction \/ DeclareGlobal \/ ResolveGlobal
           \/ EmitConstant \/ AppendConstant \/ IndexConstant \/ EndFunction \/ EndScript)
    => IInv'
BY InternStringPreserves, DefineNativePreserves, AllocateNativePreserves, AddValuePreserves,
   AddIndexPreserves, BeginScriptPreserves, AdvancePreserves, ScanOtherPreserves,
   ScanStringPreserves, BeginFunctionPreserves, NameFunctionPreserves,
   DeclareGlobalPreserves, ResolveGlobalPreserves, EmitConstantPreserves,
   AppendConstantPreserves, IndexConstantPreserves, EndFunctionPreserves, EndScriptPreserves

LEMMA MachinePreserves ==
  IInv /\ (\/ MakeScriptClosure \/ PushFrame
           \/ PushConstant \/ Pop \/ GetLocal \/ SetLocal
           \/ GetGlobal \/ DefineGlobal \/ SetGlobal \/ GetUpvalue \/ SetUpvalue
           \/ MakeClosure \/ CaptureOpen \/ CaptureSlot \/ CaptureEnclosing \/ EndClosure
           \/ EndScope \/ Call \/ CallNative \/ Return \/ RuntimeError)
    => IInv'
BY MakeScriptClosurePreserves, PushFramePreserves, PushConstantPreserves, PopPreserves,
   GetLocalPreserves, SetLocalPreserves, GetGlobalPreserves, DefineGlobalPreserves,
   SetGlobalPreserves, GetUpvaluePreserves, SetUpvaluePreserves, MakeClosurePreserves,
   CaptureOpenPreserves, CaptureSlotPreserves, CaptureEnclosingPreserves,
   EndClosurePreserves, EndScopePreserves, CallPreserves, CallNativePreserves,
   ReturnPreserves, RuntimeErrorPreserves

LEMMA NextPreserves == IInv /\ [Next]_vars => IInv'
<1> SUFFICES ASSUME IInv, [Next]_vars PROVE IInv'
  OBVIOUS
<1>1. CASE Collect
  BY <1>1, CollectPreserves
<1>2. CASE UNCHANGED vars
  BY <1>2, StutterPreserves
<1>3. CASE Next /\ ~Collect
  BY <1>3, CompilerPreserves, MachinePreserves DEF Next
<1> QED BY <1>1, <1>2, <1>3

LEMMA Invariance == Spec => []IInv
BY InitHolds, NextPreserves, PTL DEF Spec

-----------------------------------------------------------------------------
(* What follows from it. *)

LEMMA NamesCounted ==
  ASSUME IInv
  PROVE  GlobalsNamed
<1> DEFINE k == Len(values) - (IF todo.do = "index" THEN 1 ELSE 0)
           S == DOMAIN names
<1>1. /\ names \in [S -> DOMAIN values]
      /\ \A m, n \in S : names[m] = names[n] => m = n
      /\ \A i \in DOMAIN values :
           (\E n \in S : names[n] = i) <=> ~(todo.do = "index" /\ i = Len(values))
      /\ todo.do = "index" => values # <<>>
  BY DEF IInv, NamesInv
<1>2. /\ Len(values) \in Nat /\ DOMAIN values = 1 .. Len(values)
      /\ values # <<>> => Len(values) # 0
  BY SeqFacts DEF IInv, ValuesInv
<1>3. k \in Nat /\ k = (IF todo.do = "index" THEN Len(values) - 1 ELSE Len(values))
  BY <1>1, <1>2
<1>4. 1 .. k = {i \in DOMAIN values : ~(todo.do = "index" /\ i = Len(values))}
  BY <1>2, <1>3
<1> HIDE DEF k
<1>5. names \in [S -> 1 .. k] /\ \A i \in 1 .. k : \E n \in S : names[n] = i
  BY <1>1, <1>4
<1>6. names \in Bijection(S, 1 .. k)
  BY <1>1, <1>5 DEF Bijection, Injection, IsInjective, Surjection
<1>7. ExistsBijection(S, 1 .. k)
  BY <1>6 DEF ExistsBijection
<1>8. ExistsBijection(1 .. k, S)
  BY <1>7, Fun_ExistsBijSymmetric
<1>9. Cardinality(S) = k
  BY <1>3, <1>8, FS_CountingElements
<1> QED BY <1>1, <1>9 DEF GlobalsNamed, k

\* With no program running all there is on the stack is in hand.
LEMMA StackExists ==
  ASSUME IInv, frames = <<>>, NEW i \in DOMAIN stack
  PROVE  stack[i] \in DOMAIN heap
<1>1. /\ stack \in Seq(Reference) /\ Len(stack) \in Nat /\ DOMAIN stack = 1 .. Len(stack)
      /\ stack = <<>> <=> Len(stack) = 0
      /\ stack # <<>> => Last(stack) = stack[Len(stack)]
      /\ stack # <<>> /\ todo \in Tasks
  BY StackFacts
<1>2. \/ Len(stack) = 1 /\ OnTop /\ (IsA(heap, todo.obj, "string") \/ IsConstant(heap, todo.obj)
                                       \/ IsA(heap, todo.obj, "closure"))
      \/ Len(stack) = 2 /\ stack[1] = todo.obj /\ IsA(heap, todo.obj, "string")
         /\ IsA(heap, stack[2], "native")
  BY <1>1 DEF IInv, TodoInv, Tasks, InCompiler, InMachine, InProgram, IsConstant
<1>3. CASE Len(stack) = 1 /\ OnTop /\ todo.obj \in DOMAIN heap
  <2>1. i = Len(stack)
    BY <1>1, <1>3
  <2> QED BY <1>1, <1>3, <2>1 DEF OnTop
<1>4. CASE Len(stack) = 2 /\ stack[1] \in DOMAIN heap /\ stack[2] \in DOMAIN heap
  <2>1. i = 1 \/ i = 2
    BY <1>1, <1>4
  <2> QED BY <1>4, <2>1
<1> QED BY <1>2, <1>3, <1>4 DEF IsA, IsConstant

\* Of whatever can be reached nothing has been freed.
LEMMA TracedExists ==
  ASSUME IInv
  PROVE  Traced(heap, Roots) \subseteq DOMAIN heap
<1>1. IsHeap(heap) /\ Roots \subseteq Address /\ DOMAIN heap \subseteq Address
  BY RootFacts DEF IInv, HeapInv, HeapOk, IsHeap
<1>2. Roots \subseteq DOMAIN heap
  <2>1. SUFFICES ASSUME NEW a \in Roots PROVE a \in DOMAIN heap
    OBVIOUS
  <2>2. a # Null
    BY <1>1, AddressAssumption
  <2>3. CASE a \in Elements(stack)
    <3>1. PICK i \in DOMAIN stack : a = stack[i]
      BY <2>3 DEF Elements
    <3>2. CASE frames # <<>>
      BY <2>2, <3>1, <3>2 DEF IInv, StackInv, IsValue, IsA
    <3>3. CASE frames = <<>>
      BY <2>2, <3>1, <3>3, StackExists
    <3> QED BY <3>2, <3>3
  <2>4. CASE a \in {f.closure : f \in Elements(frames)}
    BY <2>4 DEF Elements, IInv, FramesInv, IsA
  <2>5. CASE a \in Image(open)
    BY <2>5 DEF Image, IInv, OpenInv, IsA
  <2>6. CASE a \in Elements(values)
    BY <2>2, <2>6 DEF Elements, IInv, ValuesInv, IsValue, IsA
  <2>7. CASE a \in Elements(tokens)
    <3>1. DOMAIN tokens = 1 .. 2
      BY DEF IInv, ParserInv
    <3> QED BY <2>2, <2>7, <3>1, TokenFacts DEF Elements, IsA
  <2>8. CASE a \in Elements(compilers)
    BY <2>8 DEF Elements, IInv, ParserInv, IsA
  <2>9. CASE a \in DOMAIN names
    BY <2>9 DEF IInv, NamesInv, IsA
  <2> QED BY <2>3, <2>4, <2>5, <2>6, <2>7, <2>8, <2>9 DEF Roots
<1>3. ClosedUnder(heap, DOMAIN heap)
  <2>1. ASSUME NEW a \in DOMAIN heap PROVE References(heap[a]) \subseteq DOMAIN heap
    BY KindOf, WellTypedRefers
  <2> QED BY <2>1 DEF ClosedUnder
<1>4. Reachable(heap, Roots) \subseteq DOMAIN heap
  BY <1>1, <1>2, <1>3, ReachableIsLeast
<1> QED BY <1>1, <1>4, TracedIsReachable

(***************************************************************************)
(* The variables have their types through any run, and the two tables of   *)
(* the globals agree: add_global() extends the one, and may be interrupted *)
(* by a collection before it extends the other.                            *)
(***************************************************************************)
THEOREM TypeCorrect == Spec => []TypeOK
<1>1. ASSUME IInv PROVE TypeOK
  <2>1. /\ IsHeap(heap) /\ values \in Seq(Reference) /\ stack \in Seq(Reference)
        /\ frames \in Seq([closure : Address, slot : Nat])
        /\ compilers \in Seq(Address) /\ tokens \in Seq(Reference) /\ Len(tokens) = 2
        /\ lines \in 0 .. MaxLines
    BY <1>1 DEF IInv, HeapInv, HeapOk, ValuesInv, StackInv, FramesInv, ParserInv, ModeInv
  <2>2. /\ DOMAIN open \subseteq DOMAIN stack /\ Image(open) \subseteq Address
    BY <1>1 DEF IInv, OpenInv, Image
  <2>3. Image(names) \subseteq DOMAIN values
    BY <1>1 DEF IInv, NamesInv, Image
  <2>4. DOMAIN names \subseteq Address
    BY <1>1, KindOf DEF IInv, NamesInv, IsA
  <2>5. todo.obj \in Reference /\ todo.user \in User
    BY <1>1 DEF IInv, TodoInv, Tasks
  <2> QED BY <1>1, <2>1, <2>2, <2>3, <2>4, <2>5, NamesCounted DEF TypeOK, Reference
<1> QED BY <1>1, Invariance, PTL

(***************************************************************************)
(* Wherever a collection comes, between any two allocations of the         *)
(* compiler, of the machine's own definitions and of a program that runs,  *)
(* nothing that is in use is freed: not what mark_roots() finds, nor what  *)
(* that refers to, nor the object that is only in a local variable of the  *)
(* code in progress.                                                       *)
(***************************************************************************)
THEOREM NothingFreedInUse == Spec => []NothingDangles
<1>1. ASSUME IInv PROVE NothingDangles
  <2>1. \A a \in Traced(heap, Roots) : a \in DOMAIN heap /\ WellTyped(heap, heap[a])
    BY <1>1, TracedExists, KindOf
  <2>2. \A f \in Elements(frames) : IsA(heap, f.closure, "closure")
    BY <1>1 DEF Elements, IInv, FramesInv
  <2>3. \A u \in Image(open) : IsA(heap, u, "upvalue")
    BY <1>1 DEF Image, IInv, OpenInv
  <2>4. \A f \in Elements(compilers) : IsA(heap, f, "function")
    BY <1>1 DEF Elements, IInv, ParserInv
  <2>5. \A s \in Elements(tokens) \ {Null} : IsA(heap, s, "string")
    <3>1. DOMAIN tokens = 1 .. 2
      BY <1>1 DEF IInv, ParserInv
    <3> QED BY <1>1, <3>1, TokenFacts DEF Elements
  <2>6. \A s \in strings \cup DOMAIN names : IsA(heap, s, "string")
    BY <1>1 DEF IInv, InternInv, NamesInv
  <2>7. TodoExists
    <3>1. /\ todo.do \in {"intern", "native", "value", "index"} => IsA(heap, todo.obj, "string")
          /\ todo.do \in {"constant", "constant_index"} => IsConstant(heap, todo.obj)
          /\ todo.do = "script" => IsA(heap, todo.obj, "function")
          /\ todo.do \in {"frame", "capture"} => IsA(heap, todo.obj, "closure")
      BY <1>1 DEF IInv, TodoInv
    <3> QED BY <3>1 DEF TodoExists, IsConstant
  <2> QED BY <2>1, <2>2, <2>3, <2>4, <2>5, <2>6, <2>7 DEF NothingDangles
<1> QED BY <1>1, Invariance, PTL

(***************************************************************************)
(* The table of strings does not keep a string alive, and one is looked up *)
(* in it before it is allocated and added to it after: yet two strings of  *)
(* one text are never in use, and one that is in use is in the table.      *)
(***************************************************************************)
THEOREM StringsInterned == Spec => []StringsUnique
<1>1. ASSUME IInv PROVE StringsUnique
  <2>1. \A s, t \in DOMAIN heap :
           /\ heap[s].type = "string" /\ heap[t].type = "string"
           /\ heap[s].text = heap[t].text
           => s = t
    BY <1>1 DEF IInv, InternInv
  <2>2. ASSUME NEW s, IsA(heap, s, "string")
        PROVE  s \in strings \/ todo = ThenFor("intern", s, todo.user)
    <3>1. s \in strings \/ (todo.do = "intern" /\ todo.obj = s)
      BY <1>1, <2>2 DEF IInv, InternInv, IsA
    <3>2. todo \in Tasks
      BY <1>1, StackFacts
    <3> QED BY <3>1, <3>2 DEF Tasks, ThenFor
  <2> QED BY <2>1, <2>2 DEF StringsUnique, IsA
<1> QED BY <1>1, Invariance, PTL

(***************************************************************************)
(* The slot that compile() reserves and the two that define_native() does  *)
(* are enough for what is pushed to keep it alive, and whatever the        *)
(* compiler does it leaves the stack empty.                                *)
(***************************************************************************)
THEOREM SlotsReserved == Spec => []ReservedStack
<1>1. ASSUME IInv PROVE ReservedStack
  <2>1. todo \in Tasks /\ Len(stack) \in Nat /\ (stack = <<>> <=> Len(stack) = 0)
    BY <1>1, StackFacts
  <2>2. ASSUME compilers # <<>> PROVE Len(stack) <= 1
    <3>1. frames = <<>> /\ (todo.do \in {"nothing", "scan", "name"} => stack = <<>>)
      BY <1>1, <2>2, CompilerFacts
    <3>2. todo.do \notin {"nothing", "scan", "name"} => Len(stack) = 1
      BY <1>1, <2>1, <2>2, <3>1
         DEF IInv, TodoInv, Tasks, InCompiler, InMachine, InProgram
    <3>3. Len(stack) \in {0, 1}
      BY <2>1, <3>1, <3>2
    <3>4. \A n \in {0, 1} : n <= 1
      OBVIOUS
    <3> QED BY <3>3, <3>4
  <2>3. ASSUME lines = 0 PROVE Len(stack) <= 2
    <3>1. frames = <<>> /\ compilers = <<>>
      BY <1>1, <2>3 DEF IInv, ModeInv
    <3>2. stack = <<>> \/ Len(stack) = 1 \/ Len(stack) = 2
      BY <1>1, <2>1, <2>3, <3>1
         DEF IInv, TodoInv, Tasks, InCompiler, InMachine, InProgram
    <3>3. Len(stack) \in {0, 1, 2}
      BY <2>1, <3>2
    <3>4. \A n \in {0, 1, 2} : n <= 2
      OBVIOUS
    <3> QED BY <3>3, <3>4
  <2>4. ASSUME frames = <<>>, todo = Nothing PROVE stack = <<>> /\ open = Empty
    <3>1. todo.do = "nothing"
      BY <2>4, NothingIsATask
    <3>2. DOMAIN open = {} /\ open \in [DOMAIN open -> Address]
      BY <1>1, <2>4 DEF IInv, OpenInv
    <3>3. open = Empty
      BY <3>2 DEF Empty
    <3> QED BY <1>1, <2>4, <3>1, <3>3 DEF IInv, TodoInv
  <2> QED BY <2>2, <2>3, <2>4 DEF ReservedStack
<1> QED BY <1>1, Invariance, PTL
=============================================================================
