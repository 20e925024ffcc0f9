---------------------------- MODULE Session_proofs ----------------------------
(***************************************************************************)
(* Theorems about Session, for any names, types, lines and statements: the *)
(* code of a line leaves the stack as it found it, and what the compiler   *)
(* notes of the globals is true when the line is run.                      *)
(***************************************************************************)
EXTENDS Session, SequenceTheorems, FiniteSetTheorems, TLAPS

Types == UNION {TypesOf[name] : name \in Names}
Kinds == Types \cup {"none", "Nil", "Fn", "Int", "Str"}

Values == [type : Kinds, does : {"nothing", "native", "get", "set"},
           index : Nat, stores : Kinds \cup {""}]

GlobalOps == {"GET_GLOBAL", "SET_GLOBAL", "DEFINE_GLOBAL"}
Ops == {"CONSTANT", "NIL", "POP", "CALL", "RETURN"} \cup GlobalOps

Instructions == [op : Ops, index : Nat, value : Values, top : BOOLEAN]

Signatures == [name : Names, is_defined : BOOLEAN, is_const : BOOLEAN,
               types : Types]

\* Two declarations of a name are compared by constness only: where the types of
\* values matter, it has to be assumed that a name has one.
OneType == \A name \in Names : \A s, t \in TypesOf[name] : s = t

SigsOk(sigs) ==
  /\ sigs \in Seq(Signatures)
  /\ \A i \in DOMAIN sigs : sigs[i].types \in TypesOf[sigs[i].name]
  /\ \A i, j \in DOMAIN sigs : sigs[i].name = sigs[j].name => i = j

\* A function refers to globals there are, and does not assign to constants.
ValueOk(v, sigs) ==
  /\ v \in Values /\ v.type # "none"
  /\ v.does \in {"get", "set"} => v.index \in DOMAIN sigs
  /\ v.does = "set" => ~sigs[v.index].is_const /\ v.stores = sigs[v.index].types

InstrOk(x, sigs) ==
  /\ x \in Instructions
  /\ x.op = "CONSTANT" => ValueOk(x.value, sigs)
  /\ x.op \in GlobalOps => x.index \in DOMAIN sigs
  /\ x.op = "SET_GLOBAL" => ~sigs[x.index].is_const
  /\ x.op = "DEFINE_GLOBAL" => sigs[x.index].is_defined

CodeOk(c, sigs) == c \in Seq(Instructions) /\ \A k \in DOMAIN c : InstrOk(c[k], sigs)
StackOk(stk, sigs) == stk \in Seq(Values) /\ \A k \in DOMAIN stk : ValueOk(stk[k], sigs)

ValuesOk(vals, sigs) ==
  /\ vals \in Seq(Values) /\ Len(vals) = Len(sigs)
  /\ \A i \in DOMAIN vals : vals[i] # None =>
       /\ ValueOk(vals[i], sigs) /\ sigs[i].is_defined
       /\ OneType => vals[i].type = sigs[i].types

(***************************************************************************)
(* What the compiler counts: how large the stack is before and after each  *)
(* instruction, and which types its top may have.  The stack of a line     *)
(* starts with the function itself, and RETURN takes the last two values.  *)
(***************************************************************************)
Stacks == [size : Nat, top : SUBSET Kinds]
Stack(size, top) == [size |-> size, top |-> top]
Base == Stack(1, Kinds)
Ended == Stack(0, Kinds)

Effect(a, x, b, sigs) ==
  /\ a.size >= 1
  /\ x.op = "CONSTANT" => b = Stack(a.size + 1, {x.value.type})
  /\ x.op = "NIL" => b = Stack(a.size + 1, {"Nil"})
  /\ x.op = "GET_GLOBAL" => b = Stack(a.size + 1, {sigs[x.index].types})
  /\ x.op = "POP" => a.size >= 2 /\ b = Stack(a.size - 1, Kinds)
  /\ x.op = "DEFINE_GLOBAL" => a.size >= 2 /\ b = Stack(a.size - 1, Kinds)
  /\ x.op = "SET_GLOBAL" => a.size >= 2 /\ b = a
  /\ x.op \in {"DEFINE_GLOBAL", "SET_GLOBAL"} =>
       (OneType => a.top = {sigs[x.index].types})
  /\ x.op = "CALL" => a.size >= 2 /\ b = Stack(a.size, {"Nil"})
  /\ x.op = "RETURN" =>
       /\ a.size >= 2 /\ a.top = {"Nil"}
       /\ b = IF a.size = 2 THEN Ended ELSE Stack(a.size - 1, {"Nil"})

Flow(h, a, c, b, sigs) ==
  /\ h \in [0..Len(c) -> Stacks] /\ h[0] = a /\ h[Len(c)] = b
  /\ \A k \in 1..Len(c) : Effect(h[k - 1], c[k], h[k], sigs)

Flows(a, c, b, sigs) == \E h : Flow(h, a, c, b, sigs)

Fits(stk, a) ==
  /\ Len(stk) = a.size
  /\ OneType /\ stk # <<>> => stk[Len(stk)].type \in a.top

(***************************************************************************)
(* The globals the code comes to, in the order it does.  Where one is used *)
(* by the top level, it has a value by then, unless a line has failed.     *)
(***************************************************************************)
Settled(i, vals, orph) == vals[i] # None \/ i \in orph
Defines(x, i) == x.op = "DEFINE_GLOBAL" /\ x.index = i
Uses(x) == x.top /\ x.op \in {"GET_GLOBAL", "SET_GLOBAL"}

Ordered(c, vals, orph) ==
  \A k \in DOMAIN c : Uses(c[k]) =>
    \/ Settled(c[k].index, vals, orph)
    \/ \E j \in 1..(k - 1) : Defines(c[j], c[k].index)

\* What is marked as defined has a value, or is to be given one.
Covered(sigs, c, vals, orph) ==
  \A i \in DOMAIN sigs : sigs[i].is_defined =>
    Settled(i, vals, orph) \/ \E k \in DOMAIN c : Defines(c[k], i)

\* In a script, no global is given a value twice.
Once(c, vals) ==
  \A k \in DOMAIN c : c[k].op = "DEFINE_GLOBAL" =>
    /\ vals[c[k].index] = None
    /\ \A j \in DOMAIN c : Defines(c[j], c[k].index) => j = k

TablesInv ==
  SigsOk(signatures) /\ ValuesOk(values, signatures) /\ orphans \subseteq DOMAIN values

PhaseInv ==
  /\ mode \in {"prompt", "script"} /\ phase \in {"prompt", "compiling", "running"}
  /\ had_error \in BOOLEAN /\ lines \in Nat /\ ~surprised
  /\ had_error => code = <<>>
  /\ phase = "running" => ~had_error
  /\ phase = "prompt" => code = <<>>
  /\ phase # "running" => stack = <<>>

CodeInv == CodeOk(code, signatures) /\ StackOk(stack, signatures)

\* A line in progress leaves the stack as it found it, and one that runs has
\* the stack its code is for.
FlowInv ==
  /\ phase = "compiling" => Flows(Base, code, Base, signatures)
  /\ phase = "running" => \E a \in Stacks :
       a.size >= 1 /\ Fits(stack, a) /\ Flows(a, code, Ended, signatures)

OrderInv ==
  /\ Ordered(code, values, orphans)
  /\ (had_error /\ phase = "compiling") \/ Covered(signatures, code, values, orphans)

ScriptInv ==
  Script =>
    /\ lines <= 1 /\ (lines = 0 => phase = "prompt")
    /\ lines = 0 \/ phase # "prompt" => outcome = "none" /\ orphans = {}
    /\ phase = "running" => \A i \in DOMAIN signatures : signatures[i].is_defined
    /\ outcome = "ok" => \A i \in DOMAIN values : values[i] # None
    /\ Once(code, values)

PreviousInv ==
  /\ previous \in [op : Ops \cup {"END"}, size : Nat]
  /\ ~DebugBuild => previous.op = "END"
  /\ phase # "running" =>
       previous.op \in {"END", "CALL", "RETURN", "GET_GLOBAL", "SET_GLOBAL"}
  /\ StackEffect

IInv ==
  /\ TablesInv /\ PhaseInv /\ CodeInv /\ FlowInv
  /\ OrderInv /\ ScriptInv /\ PreviousInv

------------------------------------------------------------------------------
(***************************************************************************)
(* Declarations add globals, and mark some as defined.  What was right of  *)
(* the code of a line stays so.                                            *)
(***************************************************************************)
Grown(sigs, new) ==
  /\ Len(sigs) <= Len(new)
  /\ \A i \in DOMAIN sigs :
       /\ new[i].is_const = sigs[i].is_const /\ new[i].types = sigs[i].types
       /\ sigs[i].is_defined => new[i].is_defined

LEMMA GrownDomain ==
  ASSUME NEW sigs \in Seq(Signatures), NEW new \in Seq(Signatures), Grown(sigs, new)
  PROVE  /\ DOMAIN sigs = 1..Len(sigs) /\ DOMAIN new = 1..Len(new)
         /\ Len(sigs) \in Nat /\ Len(new) \in Nat
         /\ DOMAIN sigs \subseteq DOMAIN new
<1>1. DOMAIN sigs = 1..Len(sigs) /\ DOMAIN new = 1..Len(new)
  OBVIOUS
<1>2. Len(sigs) \in Nat /\ Len(new) \in Nat
  OBVIOUS
<1> QED BY <1>1, <1>2 DEF Grown

LEMMA ValueKept ==
  ASSUME NEW sigs \in Seq(Signatures), NEW new \in Seq(Signatures), Grown(sigs, new),
         NEW v, ValueOk(v, sigs)
  PROVE  ValueOk(v, new)
BY GrownDomain DEF ValueOk, Grown

LEMMA InstrKept ==
  ASSUME NEW sigs \in Seq(Signatures), NEW new \in Seq(Signatures), Grown(sigs, new),
         NEW x, InstrOk(x, sigs)
  PROVE  InstrOk(x, new)
<1>1. x.op = "CONSTANT" => ValueOk(x.value, new)
  BY ValueKept DEF InstrOk
<1>2. x.op \in GlobalOps => x.index \in DOMAIN sigs /\ x.index \in DOMAIN new
  BY GrownDomain DEF InstrOk
<1> QED BY <1>1, <1>2 DEF InstrOk, Grown, GlobalOps

LEMMA CodeKept ==
  ASSUME NEW sigs \in Seq(Signatures), NEW new \in Seq(Signatures), Grown(sigs, new),
         NEW c, CodeOk(c, sigs)
  PROVE  CodeOk(c, new)
BY InstrKept DEF CodeOk

LEMMA StackKept ==
  ASSUME NEW sigs \in Seq(Signatures), NEW new \in Seq(Signatures), Grown(sigs, new),
         NEW stk, StackOk(stk, sigs)
  PROVE  StackOk(stk, new)
BY ValueKept DEF StackOk

LEMMA EffectKept ==
  ASSUME NEW sigs \in Seq(Signatures), NEW new \in Seq(Signatures), Grown(sigs, new),
         NEW a, NEW b, NEW x, InstrOk(x, sigs), Effect(a, x, b, sigs)
  PROVE  Effect(a, x, b, new)
<1>1. x.op \in GlobalOps => new[x.index].types = sigs[x.index].types
  BY DEF InstrOk, Grown
<1> QED BY <1>1 DEF Effect, GlobalOps

LEMMA FlowsKept ==
  ASSUME NEW sigs \in Seq(Signatures), NEW new \in Seq(Signatures), Grown(sigs, new),
         NEW a, NEW b, NEW c, CodeOk(c, sigs), Flows(a, c, b, sigs)
  PROVE  Flows(a, c, b, new)
<1>1. PICK h : Flow(h, a, c, b, sigs)
  BY DEF Flows
<1>2. \A k \in 1..Len(c) : InstrOk(c[k], sigs)
  BY DEF CodeOk
<1>3. \A k \in 1..Len(c) : Effect(h[k - 1], c[k], h[k], new)
  BY <1>1, <1>2, EffectKept DEF Flow
<1> QED BY <1>1, <1>3 DEF Flow, Flows

------------------------------------------------------------------------------
(***************************************************************************)
(* Code one piece after the other.                                         *)
(***************************************************************************)
LEMMA StackIsOne ==
  ASSUME NEW n \in Nat, NEW top \in SUBSET Kinds
  PROVE  Stack(n, top) \in Stacks
BY DEF Stack, Stacks

LEMMA FlowsNothing ==
  ASSUME NEW a \in Stacks, NEW sigs
  PROVE  Flows(a, <<>>, a, sigs)
<1> DEFINE h == [k \in 0..0 |-> a]
<1>1. Flow(h, a, <<>>, a, sigs)
  BY DEF Flow
<1> QED BY <1>1 DEF Flows

LEMMA FlowsOne ==
  ASSUME NEW a \in Stacks, NEW b \in Stacks, NEW sigs, NEW x, Effect(a, x, b, sigs)
  PROVE  Flows(a, <<x>>, b, sigs)
<1> DEFINE h == [k \in 0..1 |-> IF k = 0 THEN a ELSE b]
<1>1. Len(<<x>>) = 1 /\ <<x>>[1] = x
  OBVIOUS
<1>2. Flow(h, a, <<x>>, b, sigs)
  BY <1>1 DEF Flow
<1> QED BY <1>2 DEF Flows

LEMMA FlowsJoined ==
  ASSUME NEW S, NEW c \in Seq(S), NEW d \in Seq(S), NEW sigs,
         NEW a, NEW m, NEW b, Flows(a, c, m, sigs), Flows(m, d, b, sigs)
  PROVE  Flows(a, c \o d, b, sigs)
<1>1. PICK f : Flow(f, a, c, m, sigs)
  BY DEF Flows
<1>2. PICK g : Flow(g, m, d, b, sigs)
  BY DEF Flows
<1> DEFINE n == Len(c)
           h == [k \in 0..(n + Len(d)) |-> IF k <= n THEN f[k] ELSE g[k - n]]
<1>3. n \in Nat /\ Len(d) \in Nat /\ Len(c \o d) = n + Len(d)
  BY ConcatProperties
<1>4. \A k \in 1..(n + Len(d)) : (c \o d)[k] = IF k <= n THEN c[k] ELSE d[k - n]
  BY <1>3, ConcatProperties
<1>5. h[0] = a
  BY <1>1, <1>3 DEF Flow
<1>7. ASSUME NEW k \in n..(n + Len(d)) PROVE h[k] = g[k - n]
  <2>1. CASE k = n
    <3>1. k <= n /\ k \in 0..(n + Len(d)) /\ k - n = 0
      BY <2>1, <1>3
    <3>2. h[k] = f[n]
      BY <3>1, <2>1
    <3> QED BY <3>1, <3>2, <1>1, <1>2 DEF Flow
  <2>2. CASE k # n
    BY <2>2, <1>3
  <2> QED BY <2>1, <2>2
<1>6. h[n + Len(d)] = b
  <2>1. n + Len(d) \in n..(n + Len(d)) /\ (n + Len(d)) - n = Len(d)
    BY <1>3
  <2>2. h[n + Len(d)] = g[(n + Len(d)) - n]
    BY <2>1, <1>7
  <2> QED BY <2>1, <2>2, <1>2 DEF Flow
<1>8. h \in [0..(n + Len(d)) -> Stacks]
  <2> SUFFICES ASSUME NEW k \in 0..(n + Len(d)) PROVE (IF k <= n THEN f[k] ELSE g[k - n]) \in Stacks
    OBVIOUS
  <2>1. k <= n => k \in 0..n
    BY <1>3
  <2>2. ~(k <= n) => k - n \in 0..Len(d)
    BY <1>3
  <2> QED BY <2>1, <2>2, <1>1, <1>2 DEF Flow
<1>9. ASSUME NEW k \in 1..(n + Len(d))
      PROVE  Effect(h[k - 1], (c \o d)[k], h[k], sigs)
  <2>1. CASE k <= n
    <3>1. k \in 1..n /\ k - 1 \in 0..(n + Len(d)) /\ k \in 0..(n + Len(d)) /\ k - 1 <= n
      BY <2>1, <1>3
    <3>2. h[k - 1] = f[k - 1] /\ h[k] = f[k] /\ (c \o d)[k] = c[k]
      BY <3>1, <2>1, <1>4
    <3> QED BY <3>1, <3>2, <1>1 DEF Flow
  <2>2. CASE k > n
    <3>1. k - n \in 1..Len(d) /\ k - 1 \in n..(n + Len(d)) /\ k \in n..(n + Len(d))
      BY <2>2, <1>3
    <3>2. h[k - 1] = g[(k - 1) - n] /\ h[k] = g[k - n]
      BY <3>1, <1>7
    <3>3. (k - 1) - n = (k - n) - 1
      BY <1>3
    <3>4. (c \o d)[k] = d[k - n]
      BY <2>2, <1>3, <1>4
    <3> QED BY <3>1, <3>2, <3>3, <3>4, <1>2 DEF Flow
  <2> QED BY <2>1, <2>2, <1>3
<1> HIDE DEF h
<1>10. Flow(h, a, c \o d, b, sigs)
  BY <1>3, <1>5, <1>6, <1>8, <1>9 DEF Flow
<1> QED BY <1>10 DEF Flows

\* After its first instruction, code goes on from where that one led.
LEMMA FlowsHead ==
  ASSUME NEW S, NEW c \in Seq(S), c # <<>>, NEW sigs, NEW a, NEW b, Flows(a, c, b, sigs)
  PROVE  \E m \in Stacks : Effect(a, Head(c), m, sigs) /\ Flows(m, Tail(c), b, sigs)
<1>1. PICK h : Flow(h, a, c, b, sigs)
  BY DEF Flows
<1> DEFINE n == Len(c)
           g == [k \in 0..(n - 1) |-> h[k + 1]]
<1>2. n \in Nat /\ n >= 1 /\ Head(c) = c[1] /\ Len(Tail(c)) = n - 1
  BY HeadTailProperties, EmptySeq
<1>3. \A k \in 1..(n - 1) : Tail(c)[k] = c[k + 1]
  BY <1>2, HeadTailProperties
<1>4. Effect(a, Head(c), h[1], sigs)
  <2>1. 1 \in 1..n /\ 1 - 1 = 0
    BY <1>2
  <2> QED BY <2>1, <1>1, <1>2 DEF Flow
<1>5. h[1] \in Stacks
  BY <1>1, <1>2 DEF Flow
<1>6. g \in [0..(n - 1) -> Stacks] /\ g[0] = h[1] /\ g[n - 1] = b
  <2>1. \A k \in 0..(n - 1) : k + 1 \in 0..n
    BY <1>2
  <2>2. 0 \in 0..(n - 1) /\ n - 1 \in 0..(n - 1) /\ (n - 1) + 1 = n /\ 0 + 1 = 1
    BY <1>2
  <2> QED BY <2>1, <2>2, <1>1 DEF Flow
<1>7. ASSUME NEW k \in 1..(n - 1) PROVE Effect(g[k - 1], Tail(c)[k], g[k], sigs)
  <2>1. k + 1 \in 1..n /\ k - 1 \in 0..(n - 1) /\ k \in 0..(n - 1)
        /\ (k - 1) + 1 = (k + 1) - 1 /\ (k + 1) - 1 = k
    BY <1>2
  <2>2. g[k - 1] = h[(k + 1) - 1] /\ g[k] = h[k + 1]
    BY <2>1
  <2> HIDE DEF g
  <2> QED BY <2>1, <2>2, <1>1, <1>3 DEF Flow
<1> HIDE DEF g
<1>8. Flow(g, h[1], Tail(c), b, sigs)
  BY <1>2, <1>6, <1>7 DEF Flow
<1> QED BY <1>4, <1>5, <1>8 DEF Flows

------------------------------------------------------------------------------
(***************************************************************************)
(* Declarations.                                                           *)
(***************************************************************************)
LEMMA LookupFinds ==
  ASSUME NEW sigs, NEW name, Lookup(sigs, name) # 0
  PROVE  Lookup(sigs, name) \in DOMAIN sigs /\ sigs[Lookup(sigs, name)].name = name
<1> DEFINE found == {i \in DOMAIN sigs : sigs[i].name = name}
<1>1. found # {} /\ Lookup(sigs, name) = CHOOSE i \in found : TRUE
  BY DEF Lookup
<1>2. (CHOOSE i \in found : TRUE) \in found
  BY <1>1
<1> QED BY <1>1, <1>2

LEMMA LookupFound ==
  ASSUME NEW sigs \in Seq(Signatures), NEW name, NEW i \in DOMAIN sigs, sigs[i].name = name
  PROVE  Lookup(sigs, name) # 0
<1> DEFINE found == {k \in DOMAIN sigs : sigs[k].name = name}
<1>1. i \in found
  OBVIOUS
<1>2. Lookup(sigs, name) = CHOOSE k \in found : TRUE
  BY <1>1 DEF Lookup
<1>3. (CHOOSE k \in found : TRUE) \in found
  BY <1>1
<1>4. DOMAIN sigs = 1..Len(sigs)
  OBVIOUS
<1> QED BY <1>2, <1>3, <1>4

LEMMA GrownSame ==
  ASSUME NEW sigs \in Seq(Signatures)
  PROVE  Grown(sigs, sigs)
<1>1. Len(sigs) \in Nat
  OBVIOUS
<1> QED BY <1>1 DEF Grown

LEMMA GrownOn ==
  ASSUME NEW sigs \in Seq(Signatures), NEW more \in Seq(Signatures),
         NEW new \in Seq(Signatures), Grown(sigs, more), Grown(more, new)
  PROVE  Grown(sigs, new)
<1>1. Len(sigs) \in Nat /\ Len(more) \in Nat /\ Len(new) \in Nat
  OBVIOUS
<1>2. Len(sigs) <= Len(new)
  BY <1>1 DEF Grown
<1>3. DOMAIN sigs \subseteq DOMAIN more
  BY GrownDomain
<1> QED BY <1>2, <1>3 DEF Grown

LEMMA DefinedGrows ==
  ASSUME NEW sigs, SigsOk(sigs), NEW i \in DOMAIN sigs
  PROVE  /\ SigsOk(Defined(sigs, i)) /\ Grown(sigs, Defined(sigs, i))
         /\ DOMAIN Defined(sigs, i) = DOMAIN sigs /\ Len(Defined(sigs, i)) = Len(sigs)
         /\ \A k \in DOMAIN sigs :
              Defined(sigs, i)[k].is_defined <=> sigs[k].is_defined \/ k = i
<1> DEFINE new == Defined(sigs, i)
<1>1. sigs \in Seq(Signatures) /\ sigs[i] \in Signatures
  BY DEF SigsOk
<1>2. [sigs[i] EXCEPT !.is_defined = TRUE] \in Signatures
  BY <1>1 DEF Signatures
<1>3. new = [sigs EXCEPT ![i] = [sigs[i] EXCEPT !.is_defined = TRUE]]
  BY <1>1 DEF Defined
<1>4. new \in Seq(Signatures) /\ Len(new) = Len(sigs) /\ DOMAIN new = DOMAIN sigs
  BY <1>1, <1>2, <1>3, ExceptSeq
<1>5. \A k \in DOMAIN sigs :
        /\ new[k].name = sigs[k].name /\ new[k].types = sigs[k].types
        /\ new[k].is_const = sigs[k].is_const
        /\ new[k].is_defined = IF k = i THEN TRUE ELSE sigs[k].is_defined
  <2> SUFFICES ASSUME NEW k \in DOMAIN sigs
               PROVE  /\ new[k].name = sigs[k].name /\ new[k].types = sigs[k].types
                      /\ new[k].is_const = sigs[k].is_const
                      /\ new[k].is_defined = IF k = i THEN TRUE ELSE sigs[k].is_defined
    OBVIOUS
  <2>1. sigs[k] \in Signatures
    BY <1>1
  <2>2. new[k] = IF k = i THEN [sigs[k] EXCEPT !.is_defined = TRUE] ELSE sigs[k]
    BY <1>3
  <2> QED BY <2>1, <2>2 DEF Signatures
<1>6. ASSUME NEW k \in DOMAIN sigs PROVE sigs[k].is_defined \in BOOLEAN
  <2>1. sigs[k] \in Signatures
    BY <1>1
  <2> QED BY <2>1 DEF Signatures
<1>7. Len(sigs) \in Nat
  BY <1>1
<1> HIDE DEF new
<1>8. SigsOk(new)
  BY <1>4, <1>5 DEF SigsOk
<1>10. ASSUME NEW k \in DOMAIN sigs
       PROVE  new[k].is_defined <=> sigs[k].is_defined \/ k = i
  BY <1>5, <1>6
<1>11. Len(sigs) <= Len(new)
  BY <1>4, <1>7
<1>9. Grown(sigs, new)
  BY <1>5, <1>10, <1>11 DEF Grown
<1> QED BY <1>4, <1>8, <1>9, <1>10 DEF new

Known(i, sigs) == i \in DOMAIN sigs /\ sigs[i].is_defined

LEMMA Declaration ==
  ASSUME SigsOk(signatures), NEW name \in Names, NEW is_const \in BOOLEAN,
         NEW type \in TypesOf[name],
         NEW d, d = declare_global_variable(name, is_const, type)
  PROVE  /\ SigsOk(d.signatures) /\ Grown(signatures, d.signatures)
         /\ d.index \in DOMAIN d.signatures /\ d.signatures[d.index].name = name
         /\ d.error \in BOOLEAN
         /\ \A k \in DOMAIN d.signatures :
              d.signatures[k].is_defined => Known(k, signatures)
         /\ ~d.error => /\ d.signatures[d.index].is_const = is_const
                        /\ Script => ~d.signatures[d.index].is_defined
         /\ OneType => d.signatures[d.index].types = type
<1>1. signatures \in Seq(Signatures) /\ Len(signatures) \in Nat
  BY DEF SigsOk
<1> DEFINE sig == Signature(name, is_const, type)
           idx == Lookup(signatures, name)
<1>2. sig \in Signatures /\ sig.name = name /\ sig.types = type /\ sig.is_const = is_const
      /\ sig.is_defined = FALSE
  BY DEF Signature, Signatures, Types
<1> HIDE DEF sig
<1>3. CASE idx = 0
  <2> DEFINE new == Append(signatures, sig)
  <2>1. d = [index |-> Len(signatures) + 1, error |-> FALSE, signatures |-> new]
    BY <1>3 DEF declare_global_variable, resolve_global, sig
  <2>2. new \in Seq(Signatures) /\ Len(new) = Len(signatures) + 1
        /\ new[Len(signatures) + 1] = sig
        /\ \A k \in 1..Len(signatures) : new[k] = signatures[k]
    BY <1>1, <1>2, AppendProperties
  <2>3. DOMAIN new = 1..(Len(signatures) + 1) /\ DOMAIN signatures = 1..Len(signatures)
    BY <1>1, <2>2
  <2> HIDE DEF new
  <2>4. \A k \in DOMAIN new : k = Len(signatures) + 1 \/ k \in DOMAIN signatures
    BY <1>1, <2>3
  <2>5. \A k \in DOMAIN signatures : signatures[k].name # name
    BY <1>1, <1>3, LookupFound
  <2>6. \A k \in DOMAIN new : new[k].types \in TypesOf[new[k].name]
    BY <1>2, <2>2, <2>3, <2>4 DEF SigsOk
  <2>7. \A i, j \in DOMAIN new : new[i].name = new[j].name => i = j
    <3> SUFFICES ASSUME NEW i \in DOMAIN new, NEW j \in DOMAIN new,
                        new[i].name = new[j].name
                 PROVE  i = j
      OBVIOUS
    <3> QED BY <1>2, <2>2, <2>3, <2>4, <2>5 DEF SigsOk
  <2>8. SigsOk(new)
    BY <2>2, <2>6, <2>7 DEF SigsOk
  <2>9. Grown(signatures, new)
    BY <1>1, <2>2, <2>3 DEF Grown
  <2>10. \A k \in DOMAIN new : new[k].is_defined => Known(k, signatures)
    BY <1>2, <2>2, <2>3, <2>4 DEF Known
  <2>11. Len(signatures) + 1 \in DOMAIN new
    BY <1>1, <2>3
  <2> QED BY <1>2, <2>1, <2>2, <2>8, <2>9, <2>10, <2>11
<1>4. CASE idx # 0
  <2> DEFINE err == ~SameSignature(sig, signatures[idx]) \/ Redefined(signatures[idx])
  <2>1. d = [index |-> idx, signatures |-> signatures, error |-> err]
    BY <1>4 DEF declare_global_variable, resolve_global, sig
  <2>2. idx \in DOMAIN signatures /\ signatures[idx].name = name
    BY <1>4, LookupFinds
  <2>3. signatures[idx] \in Signatures
    BY <1>1, <2>2
  <2>4. \A k \in DOMAIN signatures : signatures[k].is_defined => Known(k, signatures)
    BY DEF Known
  <2>5. ~err => signatures[idx].is_const = is_const /\ (Script => ~signatures[idx].is_defined)
    BY <1>2 DEF SameSignature, Redefined
  <2>6. OneType => signatures[idx].types = type
    BY <2>2 DEF OneType, SigsOk
  <2>7. err \in BOOLEAN
    OBVIOUS
  <2> HIDE DEF err, idx
  <2>8. Grown(signatures, signatures)
    BY <1>1, GrownSame
  <2> QED BY <2>1, <2>2, <2>4, <2>5, <2>6, <2>7, <2>8
<1> QED BY <1>3, <1>4

------------------------------------------------------------------------------
(***************************************************************************)
(* Values, instructions, pieces of code.                                   *)
(***************************************************************************)
LEMMA ValueIsOne ==
  ASSUME NEW type \in Kinds, NEW does \in {"nothing", "native", "get", "set"},
         NEW index \in Nat, NEW stores \in Kinds \cup {""}
  PROVE  Value(type, does, index, stores) \in Values
BY DEF Value, Values

LEMMA PlainIsValue ==
  ASSUME NEW t \in Kinds, NEW sigs
  PROVE  /\ Plain(t) \in Values /\ Plain(t).type = t
         /\ t # "none" => ValueOk(Plain(t), sigs)
<1>1. Plain(t).type = t /\ Plain(t).does = "nothing"
  BY DEF Plain, Value
<1>2. Plain(t) \in Values
  BY ValueIsOne DEF Plain
<1> QED BY <1>1, <1>2 DEF ValueOk

LEMMA SpecialValues ==
  ASSUME NEW sigs
  PROVE  /\ None \in Values /\ None.type = "none" /\ Nil.type = "Nil"
         /\ ValueOk(Nil, sigs) /\ ValueOk(Native, sigs) /\ ValueOk(Plain("Fn"), sigs)
         /\ Native.type = "Fn" /\ Plain("Fn").type = "Fn"
<1>1. "none" \in Kinds /\ "Nil" \in Kinds /\ "Fn" \in Kinds
  BY DEF Kinds
<1>2. None \in Values /\ None.type = "none" /\ Nil.type = "Nil" /\ ValueOk(Nil, sigs)
      /\ ValueOk(Plain("Fn"), sigs) /\ Plain("Fn").type = "Fn"
  BY <1>1, PlainIsValue DEF None, Nil
<1>3. Native = [type |-> "Fn", does |-> "native", index |-> 0, stores |-> ""]
  BY DEF Native, Value
<1>4. Native \in Values
  BY <1>1, <1>3 DEF Values
<1> QED BY <1>2, <1>3, <1>4 DEF ValueOk

LEMMA PlainInstr ==
  ASSUME NEW op \in {"NIL", "POP", "CALL", "RETURN"}, NEW sigs
  PROVE  Instr(op).op = op /\ InstrOk(Instr(op), sigs)
<1>1. Instr(op) = [op |-> op, index |-> 0, value |-> None, top |-> TRUE]
  BY DEF Instr, Instruction
<1>2. Instr(op) \in Instructions
  BY <1>1, SpecialValues DEF Instructions, Ops
<1> QED BY <1>1, <1>2 DEF InstrOk, GlobalOps

LEMMA PushInstr ==
  ASSUME NEW v, NEW sigs, ValueOk(v, sigs)
  PROVE  /\ Push(v).op = "CONSTANT" /\ Push(v).value = v /\ InstrOk(Push(v), sigs)
         /\ ~Uses(Push(v))
<1>1. Push(v) = [op |-> "CONSTANT", index |-> 0, value |-> v, top |-> TRUE]
  BY DEF Push, Instruction
<1>2. Push(v) \in Instructions
  BY <1>1 DEF ValueOk, Instructions, Ops
<1> QED BY <1>1, <1>2 DEF InstrOk, GlobalOps, Uses

LEMMA GlobalInstr ==
  ASSUME NEW sigs, SigsOk(sigs), NEW i \in DOMAIN sigs, NEW op \in GlobalOps,
         NEW top \in BOOLEAN, NEW x, x = OnGlobal(op, i, top),
         op = "SET_GLOBAL" => ~sigs[i].is_const,
         op = "DEFINE_GLOBAL" => sigs[i].is_defined
  PROVE  x.op = op /\ x.index = i /\ x.top = top /\ InstrOk(x, sigs)
<1>1. x = [op |-> op, index |-> i, value |-> None, top |-> top]
  BY DEF OnGlobal, Instruction
<1>2. i \in Nat
  BY DEF SigsOk
<1>3. x \in Instructions
  BY <1>1, <1>2, SpecialValues DEF Instructions, Ops
<1> QED BY <1>1, <1>3 DEF InstrOk, GlobalOps

LEMMA CodeOfOne ==
  ASSUME NEW x, NEW sigs, InstrOk(x, sigs)
  PROVE  CodeOk(<<x>>, sigs) /\ <<x>> \in Seq(Instructions)
<1>1. x \in Instructions
  BY DEF InstrOk
<1> QED BY <1>1 DEF CodeOk

LEMMA CodeOfNone ==
  ASSUME NEW sigs
  PROVE  CodeOk(<<>>, sigs)
BY DEF CodeOk

LEMMA CodeJoined ==
  ASSUME NEW c, NEW d, NEW sigs, CodeOk(c, sigs), CodeOk(d, sigs)
  PROVE  CodeOk(c \o d, sigs)
<1>1. c \in Seq(Instructions) /\ d \in Seq(Instructions)
  BY DEF CodeOk
<1>2. c \o d \in Seq(Instructions) /\ Len(c \o d) = Len(c) + Len(d)
      /\ Len(c) \in Nat /\ Len(d) \in Nat
  BY <1>1, ConcatProperties
<1>3. ASSUME NEW k \in DOMAIN (c \o d) PROVE InstrOk((c \o d)[k], sigs)
  <2>1. k \in 1..(Len(c) + Len(d))
    BY <1>2
  <2>2. (c \o d)[k] = IF k <= Len(c) THEN c[k] ELSE d[k - Len(c)]
    BY <1>1, <2>1, ConcatProperties
  <2>3. k <= Len(c) => k \in DOMAIN c
    BY <1>1, <2>1
  <2>4. ~(k <= Len(c)) => k - Len(c) \in DOMAIN d
    BY <1>1, <1>2, <2>1
  <2> QED BY <2>2, <2>3, <2>4 DEF CodeOk
<1> QED BY <1>2, <1>3 DEF CodeOk

LEMMA TwoIsJoined ==
  ASSUME NEW S, NEW u \in S, NEW v \in S
  PROVE  <<u, v>> = <<u>> \o <<v>>
<1>1. <<u>> \in Seq(S) /\ <<v>> \in Seq(S) /\ <<u, v>> \in Seq(S)
  OBVIOUS
<1>2. Len(<<u>> \o <<v>>) = 2 /\ <<u>> \o <<v>> \in Seq(S)
      /\ (<<u>> \o <<v>>)[1] = u /\ (<<u>> \o <<v>>)[2] = v
  BY <1>1, ConcatProperties
<1>3. \A k \in 1..2 : <<u, v>>[k] = (<<u>> \o <<v>>)[k]
  BY <1>2
<1> QED BY <1>1, <1>2, <1>3, SeqEqual

LEMMA AppendIsJoined ==
  ASSUME NEW S, NEW c \in Seq(S), NEW x \in S
  PROVE  Append(c, x) = c \o <<x>>
<1>1. <<x>> \in Seq(S)
  OBVIOUS
<1>2. c \o <<x>> \in Seq(S) /\ Len(c \o <<x>>) = Len(c) + 1
      /\ \A k \in 1..(Len(c) + 1) : (c \o <<x>>)[k] = IF k <= Len(c) THEN c[k] ELSE x
  BY <1>1, ConcatProperties
<1>3. Append(c, x) \in Seq(S) /\ Len(Append(c, x)) = Len(c) + 1
      /\ \A k \in 1..(Len(c) + 1) : Append(c, x)[k] = IF k <= Len(c) THEN c[k] ELSE x
  BY AppendProperties
<1> QED BY <1>2, <1>3, SeqEqual

------------------------------------------------------------------------------
(***************************************************************************)
(* Expressions.                                                            *)
(***************************************************************************)
LEMMA BodyKinds ==
  ASSUME NEW e \in Bodies
  PROVE  /\ e.kind \in {"get", "set", "nothing"} /\ e.type = "Fn"
         /\ e.kind # "nothing" => e.name \in Names
<1>1. \/ e \in [kind : {"get", "set"}, type : {"Fn"}, name : Names]
      \/ e \in [kind : {"nothing"}, type : {"Fn"}, name : {""}]
  BY Zenon DEF Bodies
<1> QED BY <1>1

LEMMA ExpressionKinds ==
  ASSUME NEW e \in Expressions
  PROVE  /\ e.kind \in {"get", "set", "nothing", "literal", "read", "call"}
         /\ e.kind = "literal" => e.type \in {"Int", "Str"}
         /\ e.kind \in {"get", "set", "nothing"} => e \in Bodies
         /\ e.kind \in {"read", "call"} => e.name \in Names
<1>1. \/ e \in Bodies
      \/ e \in [kind : {"literal"}, type : {"Int", "Str"}, name : {""}]
      \/ e \in [kind : {"read", "call"}, type : {""}, name : Names]
  BY Zenon DEF Expressions
<1>2. CASE e \in Bodies
  BY <1>2, BodyKinds
<1>3. CASE e \in [kind : {"literal"}, type : {"Int", "Str"}, name : {""}]
  BY <1>3
<1>4. CASE e \in [kind : {"read", "call"}, type : {""}, name : Names]
  BY <1>4
<1> QED BY <1>1, <1>2, <1>3, <1>4

TypeIn(e, sigs) ==
  CASE e.kind = "read" -> sigs[Lookup(sigs, e.name)].types
    [] e.kind = "call" -> "Nil"
    [] OTHER -> e.type

\* What a piece of code without definitions does for the stack: it pushes t.
Pushes(c, t, sigs) ==
  /\ CodeOk(c, sigs) /\ Flows(Base, c, Stack(2, {t}), sigs)
  /\ \A k \in DOMAIN c :
       c[k].op # "DEFINE_GLOBAL" /\ (Uses(c[k]) => Known(c[k].index, sigs))

LEMMA BaseIs == Base \in Stacks /\ Base.size = 1 /\ Base.top = Kinds
BY DEF Base, Stack, Stacks

LEMMA PushesOne ==
  ASSUME NEW x, NEW sigs, InstrOk(x, sigs), NEW t \in Kinds,
         x.op # "DEFINE_GLOBAL", Uses(x) => Known(x.index, sigs),
         Effect(Base, x, Stack(2, {t}), sigs)
  PROVE  Pushes(<<x>>, t, sigs)
<1>1. CodeOk(<<x>>, sigs)
  BY CodeOfOne
<1>2. Base \in Stacks /\ Stack(2, {t}) \in Stacks
  BY BaseIs, StackIsOne
<1>3. Flows(Base, <<x>>, Stack(2, {t}), sigs)
  BY <1>2, FlowsOne
<1>4. \A k \in DOMAIN <<x>> : <<x>>[k] = x
  OBVIOUS
<1> QED BY <1>1, <1>3, <1>4 DEF Pushes

LEMMA PushesConstant ==
  ASSUME NEW v, NEW sigs, ValueOk(v, sigs)
  PROVE  Pushes(<<Push(v)>>, v.type, sigs)
<1>1. v.type \in Kinds
  BY DEF ValueOk, Values
<1>2. Effect(Base, Push(v), Stack(2, {v.type}), sigs)
  BY PushInstr, BaseIs DEF Effect
<1>3. Push(v).op # "DEFINE_GLOBAL"
  BY PushInstr
<1> QED BY <1>1, <1>2, <1>3, PushInstr, PushesOne

LEMMA TypesAreKinds ==
  ASSUME NEW sigs, SigsOk(sigs), NEW i \in DOMAIN sigs
  PROVE  sigs[i].types \in Kinds /\ sigs[i].types # "none" /\ sigs[i].name \in Names
<1>1. sigs[i] \in Signatures /\ sigs[i].types \in TypesOf[sigs[i].name]
  BY DEF SigsOk
<1>2. sigs[i].name \in Names /\ sigs[i].types \in Types
  BY <1>1 DEF Signatures
<1> QED BY <1>1, <1>2, SessionAssumption DEF Kinds

LEMMA ReadFits ==
  ASSUME NEW sigs, SigsOk(sigs), NEW i, Known(i, sigs)
  PROVE  Pushes(<<OnGlobal("GET_GLOBAL", i, TRUE)>>, sigs[i].types, sigs)
<1> DEFINE x == OnGlobal("GET_GLOBAL", i, TRUE)
<1>1. i \in DOMAIN sigs /\ sigs[i].types \in Kinds
  BY TypesAreKinds DEF Known
<1>2. x.op = "GET_GLOBAL" /\ x.index = i /\ InstrOk(x, sigs)
  <2> DEFINE yes == TRUE
             op == "GET_GLOBAL"
  <2>1. op \in GlobalOps /\ yes \in BOOLEAN /\ op # "SET_GLOBAL" /\ op # "DEFINE_GLOBAL"
    BY DEF GlobalOps
  <2>2. x = OnGlobal(op, i, yes)
    OBVIOUS
  <2> HIDE DEF x, yes, op
  <2>3. x.op = op /\ x.index = i /\ InstrOk(x, sigs)
    BY <1>1, <2>1, <2>2, GlobalInstr
  <2> QED BY <2>3 DEF op
<1> HIDE DEF x
<1>3. Effect(Base, x, Stack(2, {sigs[i].types}), sigs)
  BY <1>2, BaseIs DEF Effect
<1>4. Pushes(<<x>>, sigs[i].types, sigs)
  BY <1>1, <1>2, <1>3, PushesOne
<1> QED BY <1>4 DEF x

LEMMA CallFits ==
  ASSUME NEW sigs, SigsOk(sigs), NEW i, Known(i, sigs)
  PROVE  Pushes(<<OnGlobal("GET_GLOBAL", i, TRUE), Instr("CALL")>>, "Nil", sigs)
<1> DEFINE x == OnGlobal("GET_GLOBAL", i, TRUE)
           y == Instr("CALL")
           t == sigs[i].types
<1>1. Pushes(<<x>>, t, sigs)
  BY ReadFits
<1>2. y.op = "CALL" /\ InstrOk(y, sigs)
  <2> DEFINE op == "CALL"
  <2>1. op \in {"NIL", "POP", "CALL", "RETURN"}
    OBVIOUS
  <2> HIDE DEF op
  <2>2. Instr(op).op = op /\ InstrOk(Instr(op), sigs)
    BY <2>1, PlainInstr
  <2> QED BY <2>2 DEF op
<1> HIDE DEF x, y
<1>3. x \in Instructions /\ <<x>> \in Seq(Instructions)
  <2>1. <<x>>[1] = x /\ 1 \in DOMAIN <<x>>
    OBVIOUS
  <2> QED BY <1>1, <2>1 DEF Pushes, CodeOk
<1>4. y \in Instructions /\ CodeOk(<<y>>, sigs) /\ <<y>> \in Seq(Instructions)
  BY <1>2, CodeOfOne DEF InstrOk
<1>5. <<x, y>> = <<x>> \o <<y>>
  BY <1>3, <1>4, TwoIsJoined
<1>6. CodeOk(<<x, y>>, sigs)
  BY <1>1, <1>4, <1>5, CodeJoined DEF Pushes
<1>7. t \in Kinds
  BY TypesAreKinds DEF Known
<1>8. Stack(2, {t}) \in Stacks /\ Stack(2, {"Nil"}) \in Stacks
  BY <1>7, StackIsOne DEF Kinds
<1>9. Flows(Stack(2, {t}), <<y>>, Stack(2, {"Nil"}), sigs)
  <2>1. Effect(Stack(2, {t}), y, Stack(2, {"Nil"}), sigs)
    BY <1>2 DEF Effect, Stack
  <2> QED BY <1>8, <2>1, FlowsOne
<1>10. Flows(Base, <<x, y>>, Stack(2, {"Nil"}), sigs)
  BY <1>1, <1>3, <1>4, <1>5, <1>9, FlowsJoined DEF Pushes
<1>11. ASSUME NEW k \in DOMAIN <<x, y>>
       PROVE  <<x, y>>[k].op # "DEFINE_GLOBAL"
              /\ (Uses(<<x, y>>[k]) => Known(<<x, y>>[k].index, sigs))
  <2>1. k = 1 \/ k = 2
    OBVIOUS
  <2>2. CASE k = 1
    <3>1. <<x, y>>[k] = x /\ <<x>>[1] = x /\ 1 \in DOMAIN <<x>>
      BY <2>2
    <3> QED BY <1>1, <3>1 DEF Pushes
  <2>3. CASE k = 2
    <3>1. <<x, y>>[k] = y
      BY <2>3
    <3> QED BY <1>2, <3>1 DEF Uses
  <2> QED BY <2>1, <2>2, <2>3
<1>12. Pushes(<<x, y>>, "Nil", sigs)
  BY <1>6, <1>10, <1>11 DEF Pushes
<1> QED BY <1>12 DEF x, y

LEMMA LookupIsNumber ==
  ASSUME NEW sigs \in Seq(Signatures), NEW name
  PROVE  Lookup(sigs, name) \in Nat
<1>1. CASE Lookup(sigs, name) # 0
  BY <1>1, LookupFinds
<1> QED BY <1>1

LEMMA FunctionFits ==
  ASSUME NEW sigs, SigsOk(sigs), NEW e \in Bodies, Accepted(e, sigs),
         NEW i, i = Lookup(sigs, e.name)
  PROVE  ValueOk(FunctionOf(e, sigs), sigs) /\ FunctionOf(e, sigs).type = "Fn"
<1> DEFINE s == IF e.kind = "set" THEN sigs[i].types ELSE ""
<1>1. e.kind \in {"get", "set", "nothing"}
  BY BodyKinds
<1>2. e.kind \in {"get", "set"} => i # 0
  BY <1>1 DEF Accepted, Writable
<1>3. e.kind = "set" => ~sigs[i].is_const
  BY DEF Accepted, Writable
<1>4. e.kind \in {"get", "set"} => i \in DOMAIN sigs
  BY <1>2, LookupFinds
<1>5. i \in Nat
  BY LookupIsNumber DEF SigsOk
<1>6. s \in Kinds \cup {""}
  BY <1>4, TypesAreKinds
<1>7. e.kind = "set" => s = sigs[i].types
  OBVIOUS
<1> DEFINE v == Value("Fn", e.kind, i, s)
<1> SUFFICES ValueOk(v, sigs) /\ v.type = "Fn"
  BY DEF FunctionOf
<1> HIDE DEF s
<1>9. v.type = "Fn" /\ v.does = e.kind /\ v.index = i /\ v.stores = s
  BY DEF Value
<1>10. v \in Values
  <2>1. "Fn" \in Kinds /\ e.kind \in {"nothing", "native", "get", "set"}
    BY <1>1 DEF Kinds
  <2> QED BY <1>5, <1>6, <2>1, ValueIsOne
<1> HIDE DEF v
<1> QED BY <1>3, <1>4, <1>7, <1>9, <1>10 DEF ValueOk

\* An expression the compiler accepts pushes a value of its type.
LEMMA ExpressionFits ==
  ASSUME NEW sigs, SigsOk(sigs), NEW e \in Expressions, Accepted(e, sigs)
  PROVE  Pushes(ExpressionCode(e, sigs), TypeIn(e, sigs), sigs)
<1> DEFINE i == Lookup(sigs, e.name)
<1>1. CASE e.kind = "literal"
  <2>1. e.type \in Kinds /\ e.type # "none"
    BY <1>1, ExpressionKinds DEF Kinds
  <2>2. ValueOk(Plain(e.type), sigs) /\ Plain(e.type).type = e.type
    BY <2>1, PlainIsValue
  <2>3. Pushes(<<Push(Plain(e.type))>>, e.type, sigs)
    BY <2>2, PushesConstant
  <2>4. ExpressionCode(e, sigs) = <<Push(Plain(e.type))>>
    BY <1>1 DEF ExpressionCode
  <2> QED BY <1>1, <2>3, <2>4 DEF TypeIn
<1>2. CASE e.kind = "read"
  <2>1. Known(i, sigs)
    BY <1>2, LookupFinds DEF Accepted, Readable, Known
  <2>2. ExpressionCode(e, sigs) = <<OnGlobal("GET_GLOBAL", i, TRUE)>>
    BY <1>2 DEF ExpressionCode
  <2>3. TypeIn(e, sigs) = sigs[i].types
    BY <1>2 DEF TypeIn
  <2> QED BY <2>1, <2>2, <2>3, ReadFits
<1>3. CASE e.kind = "call"
  <2>1. Known(i, sigs)
    BY <1>3, LookupFinds DEF Accepted, Readable, Known
  <2>2. ExpressionCode(e, sigs) = <<OnGlobal("GET_GLOBAL", i, TRUE), Instr("CALL")>>
    BY <1>3 DEF ExpressionCode
  <2>3. TypeIn(e, sigs) = "Nil"
    BY <1>3 DEF TypeIn
  <2> QED BY <2>1, <2>2, <2>3, CallFits
<1>4. CASE e.kind \in {"get", "set", "nothing"}
  <2> DEFINE v == FunctionOf(e, sigs)
  <2>1. e \in Bodies /\ e.type = "Fn"
    BY <1>4, ExpressionKinds, BodyKinds
  <2>2. ValueOk(v, sigs) /\ v.type = "Fn"
    BY <2>1, FunctionFits
  <2>3. ExpressionCode(e, sigs) = <<Push(v)>>
    BY <1>4 DEF ExpressionCode
  <2>4. TypeIn(e, sigs) = "Fn"
    BY <1>4, <2>1 DEF TypeIn
  <2> HIDE DEF v
  <2> QED BY <2>2, <2>3, <2>4, PushesConstant
<1> QED BY <1>1, <1>2, <1>3, <1>4, ExpressionKinds

------------------------------------------------------------------------------
(***************************************************************************)
(* The statements of a line: each adds globals, and code after what there  *)
(* is.                                                                     *)
(***************************************************************************)
Extended(vals, new) ==
  /\ DOMAIN vals \subseteq DOMAIN new
  /\ \A i \in DOMAIN vals : new[i] = vals[i]
  /\ \A i \in DOMAIN new \ DOMAIN vals : new[i] = None

LEMMA FunctionIsSeq ==
  ASSUME NEW S, NEW n \in Nat, NEW f \in [1..n -> S]
  PROVE  f \in Seq(S) /\ Len(f) = n /\ DOMAIN f = 1..n
OBVIOUS

LEMMA ValuesExtended ==
  ASSUME NEW sigs, SigsOk(sigs), NEW vals, ValuesOk(vals, sigs),
         NEW new, SigsOk(new), Grown(sigs, new)
  PROVE  LET more == vals \o [i \in 1..(Len(new) - Len(vals)) |-> None]
         IN  ValuesOk(more, new) /\ Extended(vals, more)
<1> DEFINE n == Len(vals)
           rest == [i \in 1..(Len(new) - Len(vals)) |-> None]
           more == vals \o rest
<1> SUFFICES ValuesOk(more, new) /\ Extended(vals, more)
  OBVIOUS
<1>1. sigs \in Seq(Signatures) /\ new \in Seq(Signatures) /\ vals \in Seq(Values)
  BY DEF SigsOk, ValuesOk
<1>2. n \in Nat /\ Len(new) \in Nat /\ Len(new) - n \in Nat /\ n = Len(sigs)
  BY <1>1 DEF Grown, ValuesOk
<1>3. rest \in Seq(Values) /\ Len(rest) = Len(new) - n
  <2>1. rest \in [1..(Len(new) - n) -> Values]
    BY SpecialValues
  <2> HIDE DEF rest
  <2> QED BY <1>2, <2>1, FunctionIsSeq
<1>4. \A i \in 1..(Len(new) - n) : rest[i] = None
  OBVIOUS
<1> HIDE DEF rest
<1>5. more \in Seq(Values) /\ Len(more) = Len(new)
      /\ \A i \in 1..Len(new) : more[i] = IF i <= n THEN vals[i] ELSE rest[i - n]
  <2>1. /\ vals \o rest \in Seq(Values) /\ Len(vals \o rest) = n + Len(rest)
        /\ \A i \in 1..(n + Len(rest)) :
             (vals \o rest)[i] = IF i <= n THEN vals[i] ELSE rest[i - n]
    BY <1>1, <1>3, ConcatProperties
  <2>2. n + Len(rest) = Len(new)
    BY <1>2, <1>3
  <2> QED BY <2>1, <2>2
<1> HIDE DEF more
<1>6. DOMAIN more = 1..Len(new) /\ DOMAIN vals = 1..n /\ DOMAIN sigs = 1..n
  <2>1. DOMAIN more = 1..Len(more) /\ DOMAIN vals = 1..Len(vals) /\ DOMAIN sigs = 1..Len(sigs)
    BY <1>1, <1>5
  <2> QED BY <2>1, <1>2, <1>5
<1>7. DOMAIN vals \subseteq DOMAIN more
  BY <1>2, <1>6
<1>8. \A i \in DOMAIN vals : more[i] = vals[i]
  BY <1>2, <1>5, <1>6
<1>9. ASSUME NEW i \in DOMAIN more \ DOMAIN vals PROVE more[i] = None
  <2>1. i \in 1..Len(new) /\ ~(i <= n) /\ i - n \in 1..(Len(new) - n)
    BY <1>2, <1>6
  <2> QED BY <2>1, <1>4, <1>5
<1>10. Extended(vals, more)
  BY <1>7, <1>8, <1>9 DEF Extended
<1>11. ASSUME NEW i \in DOMAIN more, more[i] # None
       PROVE  ValueOk(more[i], new) /\ new[i].is_defined
              /\ (OneType => more[i].type = new[i].types)
  <2>1. i \in DOMAIN vals /\ more[i] = vals[i] /\ i \in DOMAIN sigs
    BY <1>6, <1>8, <1>9, <1>11
  <2>2. ValueOk(vals[i], sigs) /\ sigs[i].is_defined
        /\ (OneType => vals[i].type = sigs[i].types)
    BY <2>1, <1>11 DEF ValuesOk
  <2>3. ValueOk(vals[i], new)
    BY <1>1, <2>2, ValueKept
  <2> QED BY <2>1, <2>2, <2>3 DEF Grown
<1>12. ValuesOk(more, new)
  BY <1>5, <1>11 DEF ValuesOk
<1> QED BY <1>10, <1>12

\* The code of a statement: it leaves the stack as it was, uses what was defined
\* before, and defines what was not.
Block(ins, sigs, new) ==
  /\ CodeOk(ins, new) /\ Flows(Base, ins, Base, new)
  /\ \A k \in DOMAIN ins : Uses(ins[k]) => Known(ins[k].index, sigs)
  /\ \A i \in DOMAIN new :
       new[i].is_defined => Known(i, sigs) \/ \E k \in DOMAIN ins : Defines(ins[k], i)
  /\ Script => \A k \in DOMAIN ins : ins[k].op = "DEFINE_GLOBAL" =>
       /\ ~Known(ins[k].index, sigs)
       /\ \A j \in DOMAIN ins : Defines(ins[j], ins[k].index) => j = k

LEMMA Pieces ==
  ASSUME NEW S, NEW c \in Seq(S), NEW d \in Seq(S)
  PROVE  /\ DOMAIN (c \o d) = 1..(Len(c) + Len(d)) /\ Len(c) \in Nat /\ Len(d) \in Nat
         /\ DOMAIN c = 1..Len(c) /\ DOMAIN d = 1..Len(d)
         /\ \A k \in DOMAIN c : k \in DOMAIN (c \o d) /\ (c \o d)[k] = c[k]
         /\ \A k \in DOMAIN d : Len(c) + k \in DOMAIN (c \o d) /\ (c \o d)[Len(c) + k] = d[k]
         /\ \A k \in DOMAIN (c \o d) :
              k \in DOMAIN c \/ (k > Len(c) /\ k - Len(c) \in DOMAIN d)
<1>1. c \o d \in Seq(S) /\ Len(c \o d) = Len(c) + Len(d)
      /\ Len(c) \in Nat /\ Len(d) \in Nat
      /\ \A k \in 1..(Len(c) + Len(d)) : (c \o d)[k] = IF k <= Len(c) THEN c[k] ELSE d[k - Len(c)]
  BY ConcatProperties
<1>2. DOMAIN (c \o d) = 1..(Len(c) + Len(d)) /\ DOMAIN c = 1..Len(c) /\ DOMAIN d = 1..Len(d)
  BY <1>1
<1>3. ASSUME NEW k \in DOMAIN c PROVE k \in DOMAIN (c \o d) /\ (c \o d)[k] = c[k]
  BY <1>1, <1>2
<1>4. ASSUME NEW k \in DOMAIN d
      PROVE  Len(c) + k \in DOMAIN (c \o d) /\ (c \o d)[Len(c) + k] = d[k]
  <2>1. Len(c) + k \in 1..(Len(c) + Len(d)) /\ ~(Len(c) + k <= Len(c))
        /\ (Len(c) + k) - Len(c) = k
    BY <1>1, <1>2
  <2> QED BY <2>1, <1>1, <1>2
<1>5. ASSUME NEW k \in DOMAIN (c \o d)
      PROVE  k \in DOMAIN c \/ (k > Len(c) /\ k - Len(c) \in DOMAIN d)
  BY <1>1, <1>2
<1> QED BY <1>1, <1>2, <1>3, <1>4, <1>5

LEMMA BlockOrdered ==
  ASSUME NEW sigs, NEW new, NEW c \in Seq(Instructions), NEW ins \in Seq(Instructions),
         NEW vals, NEW more, Extended(vals, more), NEW orph,
         DOMAIN vals = DOMAIN sigs,
         Ordered(c, vals, orph), Covered(sigs, c, vals, orph), CodeOk(c, sigs),
         Block(ins, sigs, new)
  PROVE  Ordered(c \o ins, more, orph) /\ Covered(new, c \o ins, more, orph)
<1> DEFINE d == c \o ins
<1>1. ASSUME NEW i \in DOMAIN sigs, Settled(i, vals, orph) PROVE Settled(i, more, orph)
  BY <1>1 DEF Settled, Extended
<1>2. ASSUME NEW i, Known(i, sigs)
      PROVE  Settled(i, more, orph) \/ \E j \in DOMAIN c : Defines(d[j], i)
  <2>1. i \in DOMAIN sigs
    BY <1>2 DEF Known
  <2>2. Settled(i, vals, orph) \/ \E j \in DOMAIN c : Defines(c[j], i)
    BY <1>2, <2>1 DEF Known, Covered
  <2>3. \A j \in DOMAIN c : d[j] = c[j]
    BY Pieces
  <2> HIDE DEF d
  <2> QED BY <1>1, <2>1, <2>2, <2>3
<1>3. ASSUME NEW k \in DOMAIN d, Uses(d[k])
      PROVE  Settled(d[k].index, more, orph) \/ \E j \in 1..(k - 1) : Defines(d[j], d[k].index)
  <2>1. CASE k \in DOMAIN c
    <3>1. d[k] = c[k] /\ (\A j \in DOMAIN c : d[j] = c[j]) /\ DOMAIN c = 1..Len(c)
          /\ Len(c) \in Nat
      BY <2>1, Pieces
    <3> HIDE DEF d
    <3>2. Settled(c[k].index, vals, orph) \/ \E j \in 1..(k - 1) : Defines(c[j], c[k].index)
      BY <2>1, <3>1, <1>3 DEF Ordered
    <3>3. c[k].index \in DOMAIN sigs
      BY <2>1, <3>1, <1>3 DEF CodeOk, InstrOk, Uses, GlobalOps
    <3>4. \A j \in 1..(k - 1) : d[j] = c[j]
      BY <2>1, <3>1
    <3> QED BY <3>1, <3>2, <3>3, <3>4, <1>1
  <2>2. CASE k > Len(c) /\ k - Len(c) \in DOMAIN ins
    <3>1. Len(c) \in Nat /\ DOMAIN ins = 1..Len(ins) /\ DOMAIN c = 1..Len(c) /\ k \in Nat
          /\ Len(ins) \in Nat
      BY <2>2, Pieces
    <3>2. Len(c) + (k - Len(c)) = k
      BY <3>1
    <3>3. d[k] = ins[k - Len(c)]
      BY <2>2, <3>2, Pieces
    <3> HIDE DEF d
    <3>4. Known(d[k].index, sigs)
      BY <1>3, <2>2, <3>3 DEF Block
    <3>5. DOMAIN c \subseteq 1..(k - 1)
      BY <2>2, <3>1
    <3> QED BY <1>2, <3>4, <3>5
  <2> QED BY <2>1, <2>2, Pieces
<1>4. ASSUME NEW i \in DOMAIN new, new[i].is_defined
      PROVE  Settled(i, more, orph) \/ \E k \in DOMAIN d : Defines(d[k], i)
  <2>1. CASE Known(i, sigs)
    <3>1. DOMAIN c \subseteq DOMAIN d
      BY Pieces
    <3> HIDE DEF d
    <3> QED BY <2>1, <3>1, <1>2
  <2>2. CASE \E k \in DOMAIN ins : Defines(ins[k], i)
    <3>1. PICK k \in DOMAIN ins : Defines(ins[k], i)
      BY <2>2
    <3>2. Len(c) + k \in DOMAIN d /\ d[Len(c) + k] = ins[k]
      BY Pieces
    <3> HIDE DEF d
    <3> QED BY <3>1, <3>2
  <2> QED BY <1>4, <2>1, <2>2 DEF Block
<1> HIDE DEF d
<1>5. Ordered(d, more, orph)
  BY <1>3 DEF Ordered
<1>6. Covered(new, d, more, orph)
  BY <1>4 DEF Covered
<1> QED BY <1>5, <1>6 DEF d

LEMMA BlockOnce ==
  ASSUME Script, NEW sigs, NEW new, NEW c \in Seq(Instructions),
         NEW ins \in Seq(Instructions), NEW vals, NEW more, Extended(vals, more),
         ValuesOk(vals, sigs), DOMAIN vals = DOMAIN sigs, DOMAIN more = DOMAIN new,
         Once(c, vals), CodeOk(c, sigs), Block(ins, sigs, new)
  PROVE  Once(c \o ins, more)
<1> DEFINE d == c \o ins
           n == Len(c)
<1>1. /\ \A k \in DOMAIN d :
           \/ k \in DOMAIN c /\ d[k] = c[k]
           \/ k > n /\ k - n \in DOMAIN ins /\ d[k] = ins[k - n]
      /\ n \in Nat /\ DOMAIN ins = 1..Len(ins) /\ Len(ins) \in Nat /\ DOMAIN c = 1..n
      /\ DOMAIN d = 1..(n + Len(ins))
  <2>1. n \in Nat /\ DOMAIN ins = 1..Len(ins) /\ Len(ins) \in Nat /\ DOMAIN c = 1..n
        /\ DOMAIN d = 1..(n + Len(ins))
    BY Pieces
  <2>2. ASSUME NEW k \in DOMAIN d
        PROVE  \/ k \in DOMAIN c /\ d[k] = c[k]
               \/ k > n /\ k - n \in DOMAIN ins /\ d[k] = ins[k - n]
    <3>1. CASE k \in DOMAIN c
      BY <3>1, Pieces
    <3>2. CASE k > n /\ k - n \in DOMAIN ins
      <4>1. n + (k - n) = k
        BY <2>1, <3>2
      <4>2. d[n + (k - n)] = ins[k - n]
        BY <3>2, Pieces
      <4> QED BY <3>2, <4>1, <4>2
    <3> QED BY <3>1, <3>2, Pieces
  <2> QED BY <2>1, <2>2
<1> HIDE DEF d, n
<1>2. ASSUME NEW k \in DOMAIN c, c[k].op = "DEFINE_GLOBAL"
      PROVE  Known(c[k].index, sigs)
  BY <1>2 DEF CodeOk, InstrOk, GlobalOps, Known
<1>3. ASSUME NEW k \in DOMAIN ins, ins[k].op = "DEFINE_GLOBAL"
      PROVE  ~Known(ins[k].index, sigs) /\ ins[k].index \in DOMAIN new
  BY <1>3 DEF Block, CodeOk, InstrOk, GlobalOps
<1>4. ASSUME NEW k \in DOMAIN d, d[k].op = "DEFINE_GLOBAL"
      PROVE  /\ more[d[k].index] = None
             /\ \A j \in DOMAIN d : Defines(d[j], d[k].index) => j = k
  <2>1. CASE k \in DOMAIN c /\ d[k] = c[k]
    <3>1. vals[c[k].index] = None /\ Known(c[k].index, sigs)
      BY <1>2, <1>4, <2>1 DEF Once
    <3>2. more[c[k].index] = None
      BY <3>1 DEF Extended, Known
    <3>3. ASSUME NEW j \in DOMAIN d, Defines(d[j], c[k].index) PROVE j = k
      <4>1. CASE j \in DOMAIN c /\ d[j] = c[j]
        BY <1>4, <2>1, <3>3, <4>1 DEF Once
      <4>2. CASE j - n \in DOMAIN ins /\ d[j] = ins[j - n]
        BY <1>3, <3>1, <3>3, <4>2 DEF Defines
      <4> QED BY <1>1, <4>1, <4>2
    <3> QED BY <2>1, <3>2, <3>3
  <2>2. CASE k > n /\ k - n \in DOMAIN ins /\ d[k] = ins[k - n]
    <3> DEFINE i == d[k].index
    <3>1. ~Known(i, sigs) /\ i \in DOMAIN new
      BY <1>3, <1>4, <2>2
    <3>2. more[i] = None
      <4>1. CASE i \in DOMAIN vals
        <5>1. vals[i] = None
          BY <3>1, <4>1 DEF ValuesOk, Known
        <5> QED BY <4>1, <5>1 DEF Extended
      <4>2. CASE i \notin DOMAIN vals
        BY <3>1, <4>2 DEF Extended
      <4> QED BY <4>1, <4>2
    <3>3. ASSUME NEW j \in DOMAIN d, Defines(d[j], i) PROVE j = k
      <4>1. CASE j \in DOMAIN c /\ d[j] = c[j]
        BY <1>2, <3>1, <3>3, <4>1 DEF Defines
      <4>2. CASE j > n /\ j - n \in DOMAIN ins /\ d[j] = ins[j - n]
        <5>1. j - n = k - n
          BY <1>4, <2>2, <3>3, <4>2 DEF Block
        <5>2. j \in Nat /\ k \in Nat
          BY <1>1
        <5> QED BY <1>1, <5>1, <5>2
      <4> QED BY <1>1, <4>1, <4>2
    <3> QED BY <3>2, <3>3
  <2> QED BY <1>1, <2>1, <2>2
<1>5. Once(d, more)
  BY <1>4 DEF Once
<1> QED BY <1>5 DEF d

LEMMA StatementKeeps ==
  ASSUME IInv, Statement, NEW new, SigsOk(new), Grown(signatures, new),
         signatures' = new, ValuesOk(values', new), Extended(values, values'),
         had_error' \in BOOLEAN, had_error => had_error',
         NEW ins, code' = IF had_error' THEN <<>> ELSE code \o ins,
         ~had_error' => Block(ins, signatures, new)
  PROVE  IInv'
<1> DEFINE more == values'
           err == had_error'
<1>1. /\ phase = "compiling" /\ phase' = phase /\ mode' = mode /\ lines' = lines
      /\ stack' = stack /\ previous' = previous /\ outcome' = outcome
      /\ orphans' = orphans /\ surprised' = surprised
  BY DEF Statement, machine
<1>2. SigsOk(signatures) /\ ValuesOk(values, signatures) /\ orphans \subseteq DOMAIN values
      /\ CodeOk(code, signatures) /\ StackOk(stack, signatures)
  BY DEF IInv, TablesInv, CodeInv
<1>3. signatures \in Seq(Signatures) /\ new \in Seq(Signatures) /\ code \in Seq(Instructions)
      /\ values \in Seq(Values) /\ more \in Seq(Values)
  BY <1>2 DEF SigsOk, CodeOk, ValuesOk
<1>4. DOMAIN values = DOMAIN signatures /\ DOMAIN more = DOMAIN new
  BY <1>2, <1>3 DEF ValuesOk
<1>5. TablesInv'
  <2>1. orphans \subseteq DOMAIN more
    BY <1>2 DEF Extended
  <2> QED BY <1>1, <2>1 DEF TablesInv
<1>6. CASE had_error'
  <2>1. code' = <<>>
    BY <1>6
  <2>2. CodeInv'
    <3>1. StackOk(stack, new)
      BY <1>2, <1>3, StackKept
    <3> QED BY <1>1, <2>1, <3>1, CodeOfNone DEF CodeInv
  <2>3. PhaseInv'
    BY <1>1, <1>6, <2>1 DEF IInv, PhaseInv
  <2>4. Flows(Base, <<>>, Base, new)
    BY BaseIs, FlowsNothing
  <2>5. FlowInv'
    BY <1>1, <2>1, <2>4 DEF FlowInv
  <2>6. OrderInv'
    BY <1>1, <1>6, <2>1 DEF OrderInv, Ordered
  <2>7. ScriptInv'
    <3>1. Once(<<>>, more)
      BY DEF Once
    <3> QED BY <1>1, <2>1, <3>1 DEF IInv, ScriptInv, Script
  <2>8. PreviousInv'
    BY <1>1 DEF IInv, PreviousInv, StackEffect
  <2> QED BY <1>5, <2>2, <2>3, <2>5, <2>6, <2>7, <2>8 DEF IInv
<1>7. CASE ~had_error'
  <2>1. ~had_error /\ code' = code \o ins /\ Block(ins, signatures, new)
    BY <1>7
  <2>2. CodeOk(ins, new) /\ ins \in Seq(Instructions)
    BY <2>1 DEF Block, CodeOk
  <2>3. CodeInv'
    <3>1. StackOk(stack, new) /\ CodeOk(code, new)
      BY <1>2, <1>3, StackKept, CodeKept
    <3>2. CodeOk(code \o ins, new)
      BY <2>2, <3>1, CodeJoined
    <3> QED BY <1>1, <2>1, <3>1, <3>2 DEF CodeInv
  <2>4. PhaseInv'
    BY <1>1, <1>7, <2>1 DEF IInv, PhaseInv
  <2>5. FlowInv'
    <3>1. Flows(Base, code, Base, new)
      <4>1. Flows(Base, code, Base, signatures)
        BY <1>1 DEF IInv, FlowInv
      <4> QED BY <1>2, <1>3, <4>1, FlowsKept
    <3>2. Flows(Base, ins, Base, new)
      BY <2>1 DEF Block
    <3>3. Flows(Base, code \o ins, Base, new)
      BY <1>3, <2>2, <3>1, <3>2, FlowsJoined
    <3> QED BY <1>1, <2>1, <3>3 DEF FlowInv
  <2>6. OrderInv'
    <3>1. Ordered(code, values, orphans) /\ Covered(signatures, code, values, orphans)
      BY <2>1 DEF IInv, OrderInv
    <3>2. Ordered(code \o ins, more, orphans) /\ Covered(new, code \o ins, more, orphans)
      BY <1>2, <1>3, <1>4, <2>1, <2>2, <3>1, BlockOrdered
    <3> QED BY <1>1, <2>1, <3>2 DEF OrderInv
  <2>7. ScriptInv'
    <3>1. Script => Once(code \o ins, more)
      <4> SUFFICES ASSUME Script PROVE Once(code \o ins, more)
        OBVIOUS
      <4>1. Once(code, values)
        BY DEF IInv, ScriptInv
      <4> QED BY <1>2, <1>3, <1>4, <2>1, <2>2, <4>1, BlockOnce
    <3> QED BY <1>1, <2>1, <3>1 DEF IInv, ScriptInv, Script
  <2>8. PreviousInv'
    BY <1>1 DEF IInv, PreviousInv, StackEffect
  <2> QED BY <1>5, <2>3, <2>4, <2>5, <2>6, <2>7, <2>8 DEF IInv
<1> QED BY <1>6, <1>7

LEMMA SameTables ==
  ASSUME IInv, UNCHANGED globals
  PROVE  /\ SigsOk(signatures) /\ Grown(signatures, signatures)
         /\ signatures' = signatures
         /\ ValuesOk(values', signatures) /\ Extended(values, values')
<1>1. SigsOk(signatures) /\ ValuesOk(values, signatures)
  BY DEF IInv, TablesInv
<1>2. values' = values /\ signatures' = signatures
  BY DEF globals
<1>3. Grown(signatures, signatures)
  BY <1>1, GrownSame DEF SigsOk
<1>4. Extended(values, values)
  BY DEF Extended
<1> QED BY <1>1, <1>2, <1>3, <1>4

LEMMA SyntaxErrorKeeps == IInv /\ syntax_error => IInv'
<1> SUFFICES ASSUME IInv, syntax_error PROVE IInv'
  OBVIOUS
<1>1. Statement /\ had_error' = TRUE /\ code' = <<>> /\ UNCHANGED globals
  BY DEF syntax_error
<1>2. code' = IF had_error' THEN <<>> ELSE code \o <<>>
  BY <1>1
<1> QED BY <1>1, <1>2, SameTables, StatementKeeps

\* Code that defines nothing, and uses what is defined.
Plainly(c, sigs) ==
  \A k \in DOMAIN c :
    c[k].op # "DEFINE_GLOBAL" /\ (Uses(c[k]) => Known(c[k].index, sigs))

LEMMA PlainBlock ==
  ASSUME NEW sigs, NEW c, CodeOk(c, sigs), Flows(Base, c, Base, sigs), Plainly(c, sigs)
  PROVE  Block(c, sigs, sigs)
BY DEF Block, Plainly, Known

LEMMA PlainlyJoined ==
  ASSUME NEW sigs, NEW c \in Seq(Instructions), NEW d \in Seq(Instructions),
         Plainly(c, sigs), Plainly(d, sigs)
  PROVE  Plainly(c \o d, sigs)
<1> SUFFICES ASSUME NEW k \in DOMAIN (c \o d)
             PROVE  (c \o d)[k].op # "DEFINE_GLOBAL"
                    /\ (Uses((c \o d)[k]) => Known((c \o d)[k].index, sigs))
  BY DEF Plainly
<1>1. CASE k \in DOMAIN c
  <2>1. (c \o d)[k] = c[k]
    BY <1>1, Pieces
  <2> QED BY <1>1, <2>1 DEF Plainly
<1>2. CASE k > Len(c) /\ k - Len(c) \in DOMAIN d
  <2>1. Len(c) + (k - Len(c)) = k
    BY <1>2, Pieces
  <2>2. (c \o d)[k] = d[k - Len(c)]
    BY <1>2, <2>1, Pieces
  <2> QED BY <1>2, <2>2 DEF Plainly
<1> QED BY <1>1, <1>2, Pieces

LEMMA PopInstr ==
  ASSUME NEW sigs
  PROVE  /\ Instr("POP").op = "POP" /\ InstrOk(Instr("POP"), sigs)
         /\ Instr("POP") \in Instructions
         /\ CodeOk(<<Instr("POP")>>, sigs) /\ <<Instr("POP")>> \in Seq(Instructions)
         /\ Plainly(<<Instr("POP")>>, sigs)
<1> DEFINE op == "POP"
           x == Instr(op)
<1>1. op \in {"NIL", "POP", "CALL", "RETURN"}
  OBVIOUS
<1> HIDE DEF op
<1>2. x.op = op /\ InstrOk(x, sigs)
  BY <1>1, PlainInstr
<1> HIDE DEF x
<1>3. CodeOk(<<x>>, sigs) /\ <<x>> \in Seq(Instructions) /\ x \in Instructions
  BY <1>2, CodeOfOne DEF InstrOk
<1>4. Plainly(<<x>>, sigs)
  BY <1>2 DEF Plainly, op, Uses
<1> QED BY <1>2, <1>3, <1>4 DEF x, op

LEMMA PopsOne ==
  ASSUME NEW sigs, NEW t \in Kinds
  PROVE  Flows(Stack(2, {t}), <<Instr("POP")>>, Base, sigs)
<1>1. Stack(2, {t}) \in Stacks /\ Base \in Stacks
  BY StackIsOne, BaseIs
<1>2. Effect(Stack(2, {t}), Instr("POP"), Base, sigs)
  BY PopInstr DEF Effect, Stack, Base
<1> QED BY <1>1, <1>2, FlowsOne

LEMMA PushesFacts ==
  ASSUME NEW sigs, NEW c, NEW t, Pushes(c, t, sigs)
  PROVE  /\ c \in Seq(Instructions) /\ CodeOk(c, sigs) /\ Plainly(c, sigs)
         /\ Flows(Base, c, Stack(2, {t}), sigs)
BY DEF Pushes, CodeOk, Plainly

LEMMA TypeIsKind ==
  ASSUME NEW sigs, SigsOk(sigs), NEW e \in Expressions, Accepted(e, sigs)
  PROVE  TypeIn(e, sigs) \in Kinds
<1>1. CASE e.kind = "literal"
  BY <1>1, ExpressionKinds DEF TypeIn, Kinds
<1>2. CASE e.kind = "read"
  <2>1. Lookup(sigs, e.name) \in DOMAIN sigs
    BY <1>2, LookupFinds DEF Accepted, Readable
  <2> QED BY <1>2, <2>1, TypesAreKinds DEF TypeIn
<1>3. CASE e.kind = "call"
  BY <1>3 DEF TypeIn, Kinds
<1>4. CASE e.kind \in {"get", "set", "nothing"}
  BY <1>4, ExpressionKinds, BodyKinds DEF TypeIn, Kinds
<1> QED BY <1>1, <1>2, <1>3, <1>4, ExpressionKinds

LEMMA ExpressionStatementKeeps == IInv /\ expression_statement => IInv'
<1> SUFFICES ASSUME IInv, expression_statement PROVE IInv'
  OBVIOUS
<1>1. PICK e \in Expressions :
        /\ Statement /\ UNCHANGED globals
        /\ had_error' = (had_error \/ ~Accepted(e, signatures))
        /\ Emit(Append(ExpressionCode(e, signatures), Instr("POP")))
  BY DEF expression_statement
<1> DEFINE c == ExpressionCode(e, signatures)
           t == TypeIn(e, signatures)
           ins == Append(c, Instr("POP"))
<1>2. SigsOk(signatures) /\ had_error \in BOOLEAN
  BY DEF IInv, TablesInv, PhaseInv
<1>3. had_error' \in BOOLEAN /\ (had_error => had_error')
  BY <1>1, <1>2
<1>4. code' = IF had_error' THEN <<>> ELSE code \o ins
  BY <1>1 DEF Emit
<1>5. ASSUME ~had_error' PROVE Block(ins, signatures, signatures)
  <2>1. Accepted(e, signatures)
    BY <1>1, <1>5
  <2>2. Pushes(c, t, signatures) /\ t \in Kinds
    BY <1>2, <2>1, ExpressionFits, TypeIsKind
  <2> HIDE DEF c, t
  <2>3. ins = c \o <<Instr("POP")>>
    BY <2>2, PushesFacts, PopInstr, AppendIsJoined
  <2>4. CodeOk(ins, signatures)
    BY <2>2, <2>3, PushesFacts, PopInstr, CodeJoined
  <2>5. Flows(Base, ins, Base, signatures)
    BY <2>2, <2>3, PushesFacts, PopInstr, PopsOne, FlowsJoined
  <2>6. Plainly(ins, signatures)
    BY <2>2, <2>3, PushesFacts, PopInstr, PlainlyJoined
  <2> QED BY <2>4, <2>5, <2>6, PlainBlock
<1> HIDE DEF ins
<1> QED BY <1>1, <1>3, <1>4, <1>5, SameTables, StatementKeeps

LEMMA TypeIsIn ==
  ASSUME NEW e \in Expressions
  PROVE  ExpressionType(e) = TypeIn(e, signatures)
BY DEF ExpressionType, TypeIn, resolve_global

LEMMA StoreFits ==
  ASSUME NEW sigs, SigsOk(sigs), NEW i, Known(i, sigs), ~sigs[i].is_const
  PROVE  LET d == <<OnGlobal("SET_GLOBAL", i, TRUE), Instr("POP")>>
         IN  /\ CodeOk(d, sigs) /\ Plainly(d, sigs)
             /\ Flows(Stack(2, {sigs[i].types}), d, Base, sigs)
<1> DEFINE x == OnGlobal("SET_GLOBAL", i, TRUE)
           t == sigs[i].types
           y == Instr("POP")
<1>1. i \in DOMAIN sigs /\ t \in Kinds
  BY TypesAreKinds DEF Known
<1>2. x.op = "SET_GLOBAL" /\ x.index = i /\ InstrOk(x, sigs)
  <2> DEFINE yes == TRUE
             op == "SET_GLOBAL"
  <2>1. op \in GlobalOps /\ yes \in BOOLEAN /\ op # "DEFINE_GLOBAL"
    BY DEF GlobalOps
  <2>2. x = OnGlobal(op, i, yes)
    OBVIOUS
  <2> HIDE DEF x, yes, op
  <2>3. x.op = op /\ x.index = i /\ InstrOk(x, sigs)
    BY <1>1, <2>1, <2>2, GlobalInstr
  <2> QED BY <2>3 DEF op
<1> HIDE DEF x
<1>3. /\ CodeOk(<<y>>, sigs) /\ Plainly(<<y>>, sigs) /\ y \in Instructions
      /\ <<y>> \in Seq(Instructions)
  BY PopInstr
<1>4. CodeOk(<<x>>, sigs) /\ <<x>> \in Seq(Instructions) /\ x \in Instructions
  BY <1>2, CodeOfOne DEF InstrOk
<1>5. Plainly(<<x>>, sigs)
  BY <1>2 DEF Plainly
<1>6. Flows(Stack(2, {t}), <<y>>, Base, sigs)
  BY <1>1, PopsOne
<1>7. Flows(Stack(2, {t}), <<x>>, Stack(2, {t}), sigs)
  <2>1. Stack(2, {t}) \in Stacks
    BY <1>1, StackIsOne
  <2>2. Effect(Stack(2, {t}), x, Stack(2, {t}), sigs)
    BY <1>2 DEF Effect, Stack
  <2> QED BY <2>1, <2>2, FlowsOne
<1> HIDE DEF t, y
<1>8. <<x, y>> = <<x>> \o <<y>>
  BY <1>3, <1>4, TwoIsJoined
<1>9. CodeOk(<<x, y>>, sigs)
  BY <1>3, <1>4, <1>8, CodeJoined
<1>10. Plainly(<<x, y>>, sigs)
  BY <1>3, <1>4, <1>5, <1>8, PlainlyJoined
<1>11. Flows(Stack(2, {t}), <<x, y>>, Base, sigs)
  BY <1>3, <1>4, <1>6, <1>7, <1>8, FlowsJoined
<1> QED BY <1>9, <1>10, <1>11 DEF t, x, y

LEMMA AssignmentKeeps == IInv /\ assignment => IInv'
<1> SUFFICES ASSUME IInv, assignment PROVE IInv'
  OBVIOUS
<1> DEFINE Right(name, rhs) ==
             LET i == resolve_global(name)
             IN  /\ Readable(signatures, i) /\ Writable(signatures, i)
                 /\ Accepted(rhs, signatures) /\ Assignable(rhs, i)
<1>1. PICK name \in Names, rhs \in Expressions :
        /\ Statement /\ UNCHANGED globals
        /\ had_error' = (had_error \/ ~Right(name, rhs))
        /\ Emit(ExpressionCode(rhs, signatures)
                  \o <<OnGlobal("SET_GLOBAL", resolve_global(name), TRUE), Instr("POP")>>)
  BY DEF assignment
<1> DEFINE c == ExpressionCode(rhs, signatures)
           i == resolve_global(name)
           t == signatures[i].types
           d == <<OnGlobal("SET_GLOBAL", i, TRUE), Instr("POP")>>
           ins == c \o d
<1>2. SigsOk(signatures) /\ had_error \in BOOLEAN
  BY DEF IInv, TablesInv, PhaseInv
<1>3. had_error' \in BOOLEAN /\ (had_error => had_error')
  BY <1>1, <1>2
<1>4. code' = IF had_error' THEN <<>> ELSE code \o ins
  BY <1>1 DEF Emit
<1>5. ASSUME ~had_error' PROVE Block(ins, signatures, signatures)
  <2>1. Readable(signatures, i) /\ Writable(signatures, i) /\ Accepted(rhs, signatures)
        /\ ExpressionType(rhs) = t
    BY <1>1, <1>5 DEF Assignable
  <2>2. Known(i, signatures) /\ ~signatures[i].is_const
    BY <2>1, LookupFinds DEF Readable, Writable, Known, resolve_global
  <2>3. TypeIn(rhs, signatures) = t
    BY <2>1, TypeIsIn
  <2>4. Pushes(c, t, signatures)
    BY <1>2, <2>1, <2>3, ExpressionFits
  <2>5. CodeOk(d, signatures) /\ Plainly(d, signatures)
        /\ Flows(Stack(2, {t}), d, Base, signatures)
    BY <1>2, <2>2, StoreFits
  <2> HIDE DEF c, t, d
  <2>6. d \in Seq(Instructions)
    BY <2>5 DEF CodeOk
  <2>7. CodeOk(ins, signatures)
    BY <2>4, <2>5, PushesFacts, CodeJoined
  <2>8. Flows(Base, ins, Base, signatures)
    BY <2>4, <2>5, <2>6, PushesFacts, FlowsJoined
  <2>9. Plainly(ins, signatures)
    BY <2>4, <2>5, <2>6, PushesFacts, PlainlyJoined
  <2> QED BY <2>7, <2>8, <2>9, PlainBlock
<1> HIDE DEF ins
<1> QED BY <1>1, <1>3, <1>4, <1>5, SameTables, StatementKeeps

LEMMA DeclareExtends ==
  ASSUME IInv, NEW new, SigsOk(new), Grown(signatures, new), Declare(new)
  PROVE  signatures' = new /\ ValuesOk(values', new) /\ Extended(values, values')
<1>1. SigsOk(signatures) /\ ValuesOk(values, signatures)
  BY DEF IInv, TablesInv
<1> DEFINE more == values \o [i \in 1..(Len(new) - Len(values)) |-> None]
<1>2. ValuesOk(more, new) /\ Extended(values, more)
  BY <1>1, ValuesExtended
<1>3. signatures' = new /\ values' = more
  BY DEF Declare
<1> HIDE DEF more
<1> QED BY <1>2, <1>3

LEMMA EmptyBlock ==
  ASSUME NEW sigs, NEW new, \A k \in DOMAIN new : new[k].is_defined => Known(k, sigs)
  PROVE  Block(<<>>, sigs, new)
<1>1. Flows(Base, <<>>, Base, new)
  BY BaseIs, FlowsNothing
<1>2. CodeOk(<<>>, new)
  BY CodeOfNone
<1> QED BY <1>1, <1>2 DEF Block

LEMMA DefinitionBlock ==
  ASSUME NEW sigs, NEW new, SigsOk(new), NEW c, NEW t \in Kinds,
         CodeOk(c, new), Flows(Base, c, Stack(2, {t}), new), Plainly(c, sigs),
         NEW i \in DOMAIN new, new[i].is_defined, OneType => new[i].types = t,
         \A k \in DOMAIN new : new[k].is_defined => Known(k, sigs) \/ k = i,
         Script => ~Known(i, sigs)
  PROVE  Block(Append(c, OnGlobal("DEFINE_GLOBAL", i, TRUE)), sigs, new)
<1> DEFINE x == OnGlobal("DEFINE_GLOBAL", i, TRUE)
<1>1. x.op = "DEFINE_GLOBAL" /\ x.index = i /\ InstrOk(x, new)
  <2> DEFINE yes == TRUE
             op == "DEFINE_GLOBAL"
  <2>1. op \in GlobalOps /\ yes \in BOOLEAN /\ op # "SET_GLOBAL"
    BY DEF GlobalOps
  <2>2. x = OnGlobal(op, i, yes)
    OBVIOUS
  <2> HIDE DEF x, yes, op
  <2>3. x.op = op /\ x.index = i /\ InstrOk(x, new)
    BY <2>1, <2>2, GlobalInstr
  <2> QED BY <2>3 DEF op
<1> HIDE DEF x
<1>2. CodeOk(<<x>>, new) /\ <<x>> \in Seq(Instructions) /\ x \in Instructions
  BY <1>1, CodeOfOne DEF InstrOk
<1>3. c \in Seq(Instructions)
  BY DEF CodeOk
<1>4. Append(c, x) = c \o <<x>>
  BY <1>2, <1>3, AppendIsJoined
<1> DEFINE d == c \o <<x>>
<1>5. CodeOk(d, new)
  BY <1>2, CodeJoined
<1>6. Flows(Base, d, Base, new)
  <2>1. Stack(2, {t}) \in Stacks /\ Base \in Stacks
    BY StackIsOne, BaseIs
  <2>2. Effect(Stack(2, {t}), x, Base, new)
    BY <1>1 DEF Effect, Stack, Base
  <2>3. Flows(Stack(2, {t}), <<x>>, Base, new)
    BY <2>1, <2>2, FlowsOne
  <2> QED BY <1>2, <1>3, <2>3, FlowsJoined
<1>7. /\ \A k \in DOMAIN d : (k \in DOMAIN c /\ d[k] = c[k]) \/ (k = Len(c) + 1 /\ d[k] = x)
      /\ Len(c) + 1 \in DOMAIN d /\ d[Len(c) + 1] = x
  <2>1. <<x>>[1] = x /\ 1 \in DOMAIN <<x>> /\ \A k \in DOMAIN <<x>> : k = 1
    OBVIOUS
  <2>2. Len(c) + 1 \in DOMAIN d /\ d[Len(c) + 1] = x
    BY <1>2, <1>3, <2>1, Pieces
  <2>3. ASSUME NEW k \in DOMAIN d PROVE (k \in DOMAIN c /\ d[k] = c[k]) \/ k = Len(c) + 1
    <3>1. CASE k \in DOMAIN c
      BY <1>2, <1>3, <3>1, Pieces
    <3>2. CASE k > Len(c) /\ k - Len(c) \in DOMAIN <<x>>
      <4>1. k - Len(c) = 1
        BY <2>1, <3>2
      <4>2. Len(c) \in Nat /\ k \in Nat
        BY <1>2, <1>3, Pieces
      <4> QED BY <4>1, <4>2
    <3> QED BY <1>2, <1>3, <3>1, <3>2, Pieces
  <2> QED BY <2>2, <2>3
<1> HIDE DEF d
<1>8. ASSUME NEW k \in DOMAIN d, Uses(d[k]) PROVE Known(d[k].index, sigs)
  BY <1>1, <1>7, <1>8 DEF Plainly, Uses
<1>9. ASSUME NEW j \in DOMAIN new, new[j].is_defined
      PROVE  Known(j, sigs) \/ \E k \in DOMAIN d : Defines(d[k], j)
  BY <1>1, <1>7, <1>9 DEF Defines
<1>10. ASSUME NEW k \in DOMAIN d, d[k].op = "DEFINE_GLOBAL" PROVE k = Len(c) + 1 /\ d[k] = x
  BY <1>7, <1>10 DEF Plainly
<1>11. Script => \A k \in DOMAIN d : d[k].op = "DEFINE_GLOBAL" =>
         /\ ~Known(d[k].index, sigs)
         /\ \A j \in DOMAIN d : Defines(d[j], d[k].index) => j = k
  BY <1>1, <1>10 DEF Defines
<1>12. Block(d, sigs, new)
  BY <1>5, <1>6, <1>8, <1>9, <1>11 DEF Block
<1> QED BY <1>4, <1>12 DEF d, x

LEMMA VarDeclarationKeeps == IInv /\ var_declaration => IInv'
<1> SUFFICES ASSUME IInv, var_declaration PROVE IInv'
  OBVIOUS
<1> DEFINE Step(name, is_const, written, initialised, init, type) ==
      LET right == /\ written \/ initialised
                   /\ initialised => Accepted(init, signatures)
                                     /\ ExpressionType(init) = type
          declared == declare_global_variable(name, is_const, type)
      IN /\ ~initialised => init.kind = "nothing"
         /\ ~written /\ right => type = ExpressionType(init)
         /\ Statement
         /\ IF had_error \/ ~right
            THEN had_error' = TRUE /\ UNCHANGED globals
            ELSE /\ had_error' = declared.error
                 /\ Declare(IF initialised
                            THEN Defined(declared.signatures, declared.index)
                            ELSE declared.signatures)
         /\ Emit(IF ~initialised THEN <<>>
                 ELSE Append(ExpressionCode(init, signatures),
                             OnGlobal("DEFINE_GLOBAL", declared.index, TRUE)))
<1>1. \E name \in Names, is_const \in BOOLEAN, written, initialised \in BOOLEAN,
         init \in Expressions :
        \E type \in TypesOf[name] : Step(name, is_const, written, initialised, init, type)
  BY Zenon DEF var_declaration
<1> HIDE DEF Step
<1>2. PICK name \in Names, is_const \in BOOLEAN, written, initialised \in BOOLEAN,
           init \in Expressions :
        \E type \in TypesOf[name] : Step(name, is_const, written, initialised, init, type)
  BY <1>1, Zenon
<1>3. PICK type \in TypesOf[name] : Step(name, is_const, written, initialised, init, type)
  BY <1>2
<1> DEFINE d == declare_global_variable(name, is_const, type)
           right == /\ written \/ initialised
                    /\ initialised => Accepted(init, signatures)
                                      /\ ExpressionType(init) = type
           new == IF initialised THEN Defined(d.signatures, d.index) ELSE d.signatures
           ins == IF ~initialised THEN <<>>
                  ELSE Append(ExpressionCode(init, signatures),
                              OnGlobal("DEFINE_GLOBAL", d.index, TRUE))
<1>4. /\ Statement
      /\ had_error \/ ~right => had_error' = TRUE /\ UNCHANGED globals
      /\ ~(had_error \/ ~right) => had_error' = d.error /\ Declare(new)
      /\ code' = IF had_error' THEN <<>> ELSE code \o ins
  BY <1>3 DEF Step, Emit
<1>5. SigsOk(signatures) /\ signatures \in Seq(Signatures) /\ had_error \in BOOLEAN
  BY DEF IInv, TablesInv, PhaseInv, SigsOk
<1>6. /\ SigsOk(d.signatures) /\ Grown(signatures, d.signatures)
      /\ d.index \in DOMAIN d.signatures
      /\ d.error \in BOOLEAN
      /\ \A k \in DOMAIN d.signatures : d.signatures[k].is_defined => Known(k, signatures)
      /\ ~d.error => (Script => ~d.signatures[d.index].is_defined)
      /\ OneType => d.signatures[d.index].types = type
  BY <1>5, Declaration
<1> HIDE DEF d
<1>7. CASE had_error \/ ~right
  <2>1. had_error' = TRUE /\ UNCHANGED globals
    BY <1>4, <1>7
  <2> HIDE DEF ins, right
  <2> QED BY <1>4, <2>1, SameTables, StatementKeeps
<1>8. CASE ~(had_error \/ ~right)
  <2>1. had_error' = d.error /\ Declare(new)
    BY <1>4, <1>8
  <2>2. d.signatures \in Seq(Signatures)
    BY <1>6 DEF SigsOk
  <2>3. CASE initialised
    <3>1. new = Defined(d.signatures, d.index)
      BY <2>3
    <3>2. /\ SigsOk(new) /\ Grown(d.signatures, new)
          /\ DOMAIN new = DOMAIN d.signatures
          /\ \A k \in DOMAIN d.signatures :
               new[k].is_defined <=> d.signatures[k].is_defined \/ k = d.index
      BY <1>6, <3>1, DefinedGrows
    <3>3. Grown(signatures, new) /\ new \in Seq(Signatures)
      BY <1>5, <1>6, <2>2, <3>2, GrownOn DEF SigsOk
    <3>4. ins = Append(ExpressionCode(init, signatures), OnGlobal("DEFINE_GLOBAL", d.index, TRUE))
      BY <2>3
    <3>5. Accepted(init, signatures) /\ TypeIn(init, signatures) = type
      BY <1>8, <2>3, TypeIsIn
    <3> HIDE DEF new, ins, right
    <3>6. ASSUME ~had_error' PROVE Block(ins, signatures, new)
      <4> DEFINE c == ExpressionCode(init, signatures)
      <4>1. Pushes(c, type, signatures) /\ type \in Kinds
        BY <1>5, <3>5, ExpressionFits, TypeIsKind
      <4> HIDE DEF c
      <4>2. CodeOk(c, new) /\ Flows(Base, c, Stack(2, {type}), new) /\ Plainly(c, signatures)
        BY <1>5, <3>3, <4>1, PushesFacts, CodeKept, FlowsKept
      <4>3. d.index \in DOMAIN new /\ new[d.index].is_defined
        BY <1>6, <3>2
      <4>4. \A k \in DOMAIN new : new[k].is_defined => Known(k, signatures) \/ k = d.index
        BY <1>6, <3>2
      <4>5. OneType => new[d.index].types = type
        BY <1>6, <3>2 DEF Grown
      <4>6. Script => ~Known(d.index, signatures)
        BY <1>6, <2>1, <3>6 DEF Grown, Known
      <4>7. Block(Append(c, OnGlobal("DEFINE_GLOBAL", d.index, TRUE)), signatures, new)
        BY <3>2, <4>1, <4>2, <4>3, <4>4, <4>5, <4>6, DefinitionBlock
      <4> QED BY <3>4, <4>7 DEF c
    <3>7. signatures' = new /\ ValuesOk(values', new) /\ Extended(values, values')
      BY <2>1, <3>2, <3>3, DeclareExtends
    <3>8. had_error' \in BOOLEAN /\ (had_error => had_error')
      BY <1>6, <1>8, <2>1
    <3> QED BY <1>4, <3>2, <3>3, <3>6, <3>7, <3>8, StatementKeeps
  <2>4. CASE ~initialised
    <3>1. new = d.signatures /\ ins = <<>>
      BY <2>4
    <3> HIDE DEF new, ins, right
    <3>2. signatures' = new /\ ValuesOk(values', new) /\ Extended(values, values')
      BY <1>6, <2>1, <3>1, DeclareExtends
    <3>3. had_error' \in BOOLEAN /\ (had_error => had_error')
      BY <1>6, <1>8, <2>1
    <3>4. Block(ins, signatures, new)
      BY <1>6, <3>1, EmptyBlock
    <3> QED BY <1>4, <1>6, <3>1, <3>2, <3>3, <3>4, StatementKeeps
  <2> QED BY <2>3, <2>4
<1> QED BY <1>7, <1>8

LEMMA FnDeclarationKeeps == IInv /\ fn_declaration => IInv'
<1> SUFFICES ASSUME IInv, fn_declaration PROVE IInv'
  OBVIOUS
<1> DEFINE Step(name, has_body, body) ==
    LET declared == declare_global_variable(name, TRUE, "Fn")
        sigs == FnSignatures(declared.signatures, declared.index, has_body)
    IN /\ ~has_body => body.kind = "nothing"
       /\ Statement /\ Declare(sigs)
       /\ had_error' = (had_error \/ declared.error \/ ~Accepted(body, sigs))
       /\ Emit(IF ~has_body THEN <<>>
               ELSE Append(ExpressionCode(body, sigs),
                           OnGlobal("DEFINE_GLOBAL", declared.index, TRUE)))
<1>1. \E name \in {n \in Names : "Fn" \in TypesOf[n]}, has_body \in BOOLEAN, body \in Bodies :
        Step(name, has_body, body)
  BY Zenon DEF fn_declaration
<1> HIDE DEF Step
<1>2. PICK name \in {n \in Names : "Fn" \in TypesOf[n]}, has_body \in BOOLEAN, body \in Bodies :
        Step(name, has_body, body)
  BY <1>1, Zenon
<1> DEFINE d == declare_global_variable(name, TRUE, "Fn")
           new == FnSignatures(d.signatures, d.index, has_body)
           ins == IF ~has_body THEN <<>>
                  ELSE Append(ExpressionCode(body, new),
                              OnGlobal("DEFINE_GLOBAL", d.index, TRUE))
<1>3. /\ Statement /\ Declare(new)
      /\ had_error' = (had_error \/ d.error \/ ~Accepted(body, new))
      /\ code' = IF had_error' THEN <<>> ELSE code \o ins
  BY <1>2 DEF Step, Emit
<1>4. SigsOk(signatures) /\ signatures \in Seq(Signatures) /\ had_error \in BOOLEAN
  BY DEF IInv, TablesInv, PhaseInv, SigsOk
<1>5. /\ SigsOk(d.signatures) /\ Grown(signatures, d.signatures)
      /\ d.index \in DOMAIN d.signatures
      /\ d.error \in BOOLEAN
      /\ \A k \in DOMAIN d.signatures : d.signatures[k].is_defined => Known(k, signatures)
      /\ ~d.error => (Script => ~d.signatures[d.index].is_defined)
      /\ OneType => d.signatures[d.index].types = "Fn"
  <2> DEFINE yes == TRUE
             t == "Fn"
  <2>1. name \in Names /\ yes \in BOOLEAN /\ t \in TypesOf[name]
    OBVIOUS
  <2>2. d = declare_global_variable(name, yes, t)
    OBVIOUS
  <2> HIDE DEF yes, t, d
  <2>3. /\ SigsOk(d.signatures) /\ Grown(signatures, d.signatures)
        /\ d.index \in DOMAIN d.signatures
        /\ d.error \in BOOLEAN
        /\ \A k \in DOMAIN d.signatures : d.signatures[k].is_defined => Known(k, signatures)
        /\ ~d.error => (Script => ~d.signatures[d.index].is_defined)
        /\ OneType => d.signatures[d.index].types = t
    BY <1>4, <2>1, <2>2, Declaration
  <2> QED BY <2>3 DEF t
<1> HIDE DEF d
<1>6. d.signatures \in Seq(Signatures)
  BY <1>5 DEF SigsOk
<1>7. had_error' \in BOOLEAN /\ (had_error => had_error')
  BY <1>3, <1>4, <1>5
<1>8. CASE has_body
  <2>1. new = Defined(d.signatures, d.index)
    BY <1>8 DEF FnSignatures
  <2>2. /\ SigsOk(new) /\ Grown(d.signatures, new)
        /\ DOMAIN new = DOMAIN d.signatures
        /\ \A k \in DOMAIN d.signatures :
             new[k].is_defined <=> d.signatures[k].is_defined \/ k = d.index
    BY <1>5, <2>1, DefinedGrows
  <2>3. Grown(signatures, new) /\ new \in Seq(Signatures)
    BY <1>4, <1>5, <1>6, <2>2, GrownOn DEF SigsOk
  <2> DEFINE c == ExpressionCode(body, new)
  <2>4. ins = Append(c, OnGlobal("DEFINE_GLOBAL", d.index, TRUE))
    BY <1>8
  <2> HIDE DEF new, ins
  <2>5. ASSUME ~had_error' PROVE Block(ins, signatures, new)
    <3>1. Accepted(body, new) /\ ~d.error /\ body \in Expressions /\ body.type = "Fn"
          /\ body.kind \in {"get", "set", "nothing"}
      BY <1>3, <2>5, BodyKinds DEF Expressions
    <3>2. TypeIn(body, new) = "Fn" /\ "Fn" \in Kinds
      BY <3>1 DEF TypeIn, Kinds
    <3>3. Pushes(c, "Fn", new)
      BY <2>2, <3>1, <3>2, ExpressionFits
    <3>4. Plainly(c, signatures)
      <4>1. PICK v : c = <<Push(v)>>
        BY <3>1 DEF ExpressionCode
      <4>2. \A k \in DOMAIN <<Push(v)>> : <<Push(v)>>[k] = Push(v)
        OBVIOUS
      <4>3. Push(v).op = "CONSTANT"
        BY DEF Push, Instruction
      <4> QED BY <4>1, <4>2, <4>3 DEF Plainly, Uses
    <3> HIDE DEF c
    <3>5. CodeOk(c, new) /\ Flows(Base, c, Stack(2, {"Fn"}), new)
      BY <3>3, PushesFacts
    <3>6. d.index \in DOMAIN new /\ new[d.index].is_defined
      BY <1>5, <2>2
    <3>7. \A k \in DOMAIN new : new[k].is_defined => Known(k, signatures) \/ k = d.index
      BY <1>5, <2>2
    <3>8. OneType => new[d.index].types = "Fn"
      BY <1>5, <2>2 DEF Grown
    <3>9. Script => ~Known(d.index, signatures)
      BY <1>5, <3>1 DEF Grown, Known
    <3>10. Block(Append(c, OnGlobal("DEFINE_GLOBAL", d.index, TRUE)), signatures, new)
      BY <2>2, <3>2, <3>4, <3>5, <3>6, <3>7, <3>8, <3>9, DefinitionBlock
    <3> QED BY <2>4, <3>10
  <2>6. signatures' = new /\ ValuesOk(values', new) /\ Extended(values, values')
    BY <1>3, <2>2, <2>3, DeclareExtends
  <2> QED BY <1>3, <1>7, <2>2, <2>3, <2>5, <2>6, StatementKeeps
<1>9. CASE ~has_body
  <2>1. new = d.signatures /\ ins = <<>>
    BY <1>9 DEF FnSignatures
  <2> HIDE DEF new, ins
  <2>2. signatures' = new /\ ValuesOk(values', new) /\ Extended(values, values')
    BY <1>3, <1>5, <2>1, DeclareExtends
  <2>3. Block(ins, signatures, new)
    BY <1>5, <2>1, EmptyBlock
  <2> QED BY <1>3, <1>5, <1>7, <2>1, <2>2, <2>3, StatementKeeps
<1> QED BY <1>8, <1>9

------------------------------------------------------------------------------
(***************************************************************************)
(* The beginning and the end of a line.                                    *)
(***************************************************************************)
LEMMA LineKeeps == IInv /\ Line => IInv'
<1> SUFFICES ASSUME IInv, Line PROVE IInv'
  OBVIOUS
<1>1. /\ phase = "prompt" /\ lines < (IF Script THEN 1 ELSE MaxLines)
      /\ phase' = "compiling" /\ lines' = lines + 1
      /\ had_error' = FALSE /\ code' = <<>> /\ mode' = mode
      /\ signatures' = signatures /\ values' = values
      /\ stack' = stack /\ previous' = previous /\ outcome' = outcome
      /\ orphans' = orphans /\ surprised' = surprised
  BY DEF Line, globals, machine
<1>2. lines \in Nat /\ code = <<>>
  BY <1>1 DEF IInv, PhaseInv
<1>3. TablesInv'
  BY <1>1 DEF IInv, TablesInv
<1>4. PhaseInv'
  <2>1. had_error' \in BOOLEAN /\ ~had_error'
    BY <1>1
  <2>2. lines' \in Nat
    BY <1>1, <1>2
  <2>3. mode \in {"prompt", "script"} /\ ~surprised /\ stack = <<>>
    BY <1>1 DEF IInv, PhaseInv
  <2> QED BY <1>1, <2>1, <2>2, <2>3 DEF PhaseInv
<1>5. CodeInv'
  BY <1>1, CodeOfNone DEF IInv, CodeInv
<1>6. FlowInv'
  <2>1. Flows(Base, <<>>, Base, signatures)
    BY BaseIs, FlowsNothing
  <2> QED BY <1>1, <2>1 DEF FlowInv
<1>7. OrderInv'
  BY <1>1, <1>2 DEF IInv, OrderInv, Ordered
<1>8. ScriptInv'
  <2>1. Once(<<>>, values)
    BY DEF Once
  <2>2. Script => lines = 0
    BY <1>1, <1>2
  <2>3. Script => outcome = "none" /\ orphans = {}
    BY <2>2 DEF IInv, ScriptInv
  <2> QED BY <1>1, <1>2, <2>1, <2>2, <2>3 DEF ScriptInv, Script
<1>9. PreviousInv'
  BY <1>1 DEF IInv, PreviousInv, StackEffect
<1> QED BY <1>3, <1>4, <1>5, <1>6, <1>7, <1>8, <1>9 DEF IInv

\* Code that is of no concern to globals.
Quiet(d) == \A k \in DOMAIN d : ~Uses(d[k]) /\ d[k].op # "DEFINE_GLOBAL"

LEMMA QuietAfter ==
  ASSUME NEW c \in Seq(Instructions), NEW d \in Seq(Instructions), Quiet(d),
         NEW sigs, NEW vals, NEW orph, Ordered(c, vals, orph)
  PROVE  /\ Ordered(c \o d, vals, orph)
         /\ Covered(sigs, c, vals, orph) => Covered(sigs, c \o d, vals, orph)
         /\ Once(c, vals) => Once(c \o d, vals)
<1> DEFINE b == c \o d
           n == Len(c)
<1>1. /\ \A k \in DOMAIN b :
           \/ k \in DOMAIN c /\ b[k] = c[k]
           \/ ~Uses(b[k]) /\ b[k].op # "DEFINE_GLOBAL"
      /\ \A k \in DOMAIN c : k \in DOMAIN b /\ b[k] = c[k]
      /\ DOMAIN c = 1..n /\ n \in Nat
  <2>1. n \in Nat /\ DOMAIN c = 1..n /\ DOMAIN b = 1..(n + Len(d)) /\ Len(d) \in Nat
        /\ \A k \in DOMAIN c : k \in DOMAIN b /\ b[k] = c[k]
    BY Pieces
  <2>2. ASSUME NEW k \in DOMAIN b
        PROVE  \/ k \in DOMAIN c /\ b[k] = c[k]
               \/ ~Uses(b[k]) /\ b[k].op # "DEFINE_GLOBAL"
    <3>1. CASE k \in DOMAIN c
      BY <2>1, <3>1
    <3>2. CASE k > n /\ k - n \in DOMAIN d
      <4>1. n + (k - n) = k
        BY <2>1
      <4>2. b[n + (k - n)] = d[k - n]
        BY <3>2, Pieces
      <4> QED BY <3>2, <4>1, <4>2 DEF Quiet
    <3> QED BY <3>1, <3>2, Pieces
  <2> QED BY <2>1, <2>2
<1> HIDE DEF b, n
<1>2. Ordered(b, vals, orph)
  <2> SUFFICES ASSUME NEW k \in DOMAIN b, Uses(b[k])
               PROVE  Settled(b[k].index, vals, orph)
                      \/ \E j \in 1..(k - 1) : Defines(b[j], b[k].index)
    BY DEF Ordered
  <2>1. k \in DOMAIN c /\ b[k] = c[k]
    BY <1>1
  <2>2. Settled(c[k].index, vals, orph) \/ \E j \in 1..(k - 1) : Defines(c[j], c[k].index)
    BY <2>1 DEF Ordered
  <2>3. \A j \in 1..(k - 1) : b[j] = c[j]
    BY <1>1, <2>1
  <2> QED BY <2>1, <2>2, <2>3
<1>3. Covered(sigs, c, vals, orph) => Covered(sigs, b, vals, orph)
  BY <1>1 DEF Covered
<1>4. Once(c, vals) => Once(b, vals)
  <2> SUFFICES ASSUME Once(c, vals), NEW k \in DOMAIN b, b[k].op = "DEFINE_GLOBAL"
               PROVE  vals[b[k].index] = None
                      /\ \A j \in DOMAIN b : Defines(b[j], b[k].index) => j = k
    BY DEF Once
  <2> QED BY <1>1 DEF Once, Defines
<1> QED BY <1>2, <1>3, <1>4 DEF b

\* <<NIL, RETURN>>
LEMMA Ending ==
  ASSUME NEW sigs, NEW a \in Stacks, a.size >= 1
  PROVE  LET e == <<Instr("NIL"), Instr("RETURN")>>
         IN  /\ CodeOk(e, sigs) /\ e \in Seq(Instructions) /\ Quiet(e)
             /\ Flows(a, e, IF a.size = 1 THEN Ended ELSE Stack(a.size, {"Nil"}), sigs)
<1> DEFINE x == Instr("NIL")
           y == Instr("RETURN")
           m == Stack(a.size + 1, {"Nil"})
           b == IF a.size = 1 THEN Ended ELSE Stack(a.size, {"Nil"})
<1>1. x.op = "NIL" /\ y.op = "RETURN" /\ InstrOk(x, sigs) /\ InstrOk(y, sigs)
  <2> DEFINE n == "NIL"
             r == "RETURN"
  <2>1. n \in {"NIL", "POP", "CALL", "RETURN"} /\ r \in {"NIL", "POP", "CALL", "RETURN"}
    OBVIOUS
  <2> HIDE DEF n, r
  <2>2. /\ Instr(n).op = n /\ InstrOk(Instr(n), sigs)
        /\ Instr(r).op = r /\ InstrOk(Instr(r), sigs)
    BY <2>1, PlainInstr
  <2> QED BY <2>2 DEF n, r
<1> HIDE DEF x, y
<1>2. /\ CodeOk(<<x>>, sigs) /\ <<x>> \in Seq(Instructions) /\ x \in Instructions
      /\ CodeOk(<<y>>, sigs) /\ <<y>> \in Seq(Instructions) /\ y \in Instructions
  BY <1>1, CodeOfOne DEF InstrOk
<1>3. <<x, y>> = <<x>> \o <<y>>
  BY <1>2, TwoIsJoined
<1>4. CodeOk(<<x, y>>, sigs)
  BY <1>2, <1>3, CodeJoined
<1>5. Quiet(<<x, y>>)
  <2>1. \A k \in DOMAIN <<x, y>> : <<x, y>>[k] = x \/ <<x, y>>[k] = y
    OBVIOUS
  <2> QED BY <1>1, <2>1 DEF Quiet, Uses
<1>6. a.size \in Nat /\ {"Nil"} \in SUBSET Kinds /\ Kinds \in SUBSET Kinds
  BY DEF Stacks, Kinds
<1>7. m \in Stacks /\ b \in Stacks
  BY <1>6, StackIsOne DEF Ended
<1>8. Effect(a, x, m, sigs)
  BY <1>1 DEF Effect
<1>9. Effect(m, y, b, sigs)
  <2>1. m.size = a.size + 1 /\ m.top = {"Nil"}
    BY DEF Stack
  <2>2. m.size >= 2 /\ m.size >= 1 /\ m.size - 1 = a.size /\ (m.size = 2 <=> a.size = 1)
    BY <1>6, <2>1
  <2> HIDE DEF m
  <2>3. b = IF m.size = 2 THEN Ended ELSE Stack(m.size - 1, {"Nil"})
    BY <2>2
  <2> HIDE DEF b
  <2> QED BY <1>1, <2>1, <2>2, <2>3 DEF Effect
<1> HIDE DEF m, b
<1>10. Flows(a, <<x>>, m, sigs) /\ Flows(m, <<y>>, b, sigs)
  BY <1>7, <1>8, <1>9, FlowsOne
<1>11. Flows(a, <<x, y>>, b, sigs)
  BY <1>2, <1>3, <1>10, FlowsJoined
<1> QED BY <1>2, <1>3, <1>4, <1>5, <1>11, ConcatProperties DEF b, x, y

LEMMA OneValue ==
  ASSUME NEW v, NEW sigs, ValueOk(v, sigs)
  PROVE  StackOk(<<v>>, sigs) /\ Len(<<v>>) = 1 /\ <<v>>[1] = v /\ <<v>> # <<>>
<1>1. v \in Values
  BY DEF ValueOk
<1> QED BY <1>1 DEF StackOk

LEMMA LeftBehindCovers ==
  ASSUME SigsOk(signatures), ValuesOk(values, signatures),
         NEW vals, vals = values
  PROVE  LeftBehind \subseteq DOMAIN vals /\ Covered(signatures, <<>>, vals, LeftBehind)
<1>1. DOMAIN values = DOMAIN signatures
  BY DEF SigsOk, ValuesOk
<1> QED BY <1>1 DEF LeftBehind, Covered, Settled

LEMMA CompileKeeps == IInv /\ compile => IInv'
<1> SUFFICES ASSUME IInv, compile PROVE IInv'
  OBVIOUS
<1>1. /\ phase = "compiling" /\ mode' = mode /\ signatures' = signatures
      /\ values' = values /\ previous' = previous /\ surprised' = surprised
      /\ lines' = lines
      /\ had_error' = (had_error \/ (Script /\ Undefined # {}))
  BY DEF compile, globals
<1>2. /\ SigsOk(signatures) /\ ValuesOk(values, signatures) /\ CodeOk(code, signatures)
      /\ code \in Seq(Instructions)
      /\ mode \in {"prompt", "script"} /\ had_error \in BOOLEAN /\ lines \in Nat
      /\ ~surprised /\ stack = <<>>
  BY <1>1 DEF IInv, TablesInv, PhaseInv, CodeInv, CodeOk
<1>3. had_error' \in BOOLEAN
  BY <1>1, <1>2
<1>4. CASE had_error'
  <2>1. /\ phase' = "prompt" /\ outcome' = "compile_error"
        /\ orphans' = LeftBehind /\ code' = <<>> /\ stack' = <<>>
    BY <1>2, <1>4 DEF compile
  <2>2. LeftBehind \subseteq DOMAIN values /\ Covered(signatures, <<>>, values, LeftBehind)
    BY <1>2, LeftBehindCovers
  <2>3. TablesInv'
    BY <1>1, <1>2, <2>1, <2>2 DEF TablesInv
  <2>4. PhaseInv'
    BY <1>1, <1>2, <1>3, <2>1 DEF PhaseInv
  <2>5. CodeInv'
    BY <1>1, <1>2, <2>1, CodeOfNone DEF IInv, CodeInv
  <2>6. FlowInv'
    BY <2>1 DEF FlowInv
  <2>7. OrderInv'
    BY <1>1, <2>1, <2>2 DEF OrderInv, Ordered
  <2>8. ScriptInv'
    <3>1. Script => lines # 0
      BY <1>1 DEF IInv, ScriptInv
    <3>2. Once(<<>>, values)
      BY DEF Once
    <3> QED BY <1>1, <2>1, <3>1, <3>2 DEF IInv, ScriptInv, Script
  <2>9. PreviousInv'
    BY <1>1, <2>1 DEF IInv, PreviousInv, StackEffect
  <2> QED BY <2>3, <2>4, <2>5, <2>6, <2>7, <2>8, <2>9 DEF IInv
<1>5. CASE ~had_error'
  <2> DEFINE e == <<Instr("NIL"), Instr("RETURN")>>
             fn == Plain("Fn")
  <2>1. /\ phase' = "running" /\ stack' = <<fn>> /\ code' = code \o e
        /\ outcome' = outcome /\ orphans' = orphans /\ ~had_error
        /\ (Script => Undefined = {})
    BY <1>1, <1>5 DEF compile
  <2>2. Base \in Stacks /\ Base.size = 1
    BY BaseIs
  <2>3. /\ CodeOk(e, signatures) /\ e \in Seq(Instructions) /\ Quiet(e)
        /\ Flows(Base, e, Ended, signatures)
    BY <2>2, Ending
  <2>4. ValueOk(fn, signatures) /\ fn.type = "Fn"
    BY SpecialValues
  <2>5. StackOk(<<fn>>, signatures) /\ Len(<<fn>>) = 1 /\ <<fn>>[1] = fn
    BY <2>4, OneValue
  <2> HIDE DEF e
  <2>6. TablesInv'
    BY <1>1, <2>1 DEF IInv, TablesInv
  <2>7. PhaseInv'
    BY <1>1, <1>2, <1>3, <1>5, <2>1 DEF PhaseInv
  <2>8. CodeInv'
    BY <1>1, <1>2, <2>1, <2>3, <2>5, CodeJoined DEF CodeInv
  <2>9. FlowInv'
    <3>1. Flows(Base, code, Base, signatures)
      BY <1>1 DEF IInv, FlowInv
    <3>2. Flows(Base, code \o e, Ended, signatures)
      BY <1>2, <2>3, <3>1, FlowsJoined
    <3>3. Fits(<<fn>>, Base)
      BY <2>4, <2>5, BaseIs DEF Fits, Kinds
    <3>4. \E a \in Stacks : a.size >= 1 /\ Fits(<<fn>>, a) /\ Flows(a, code \o e, Ended, signatures)
      BY <2>2, <3>2, <3>3
    <3> QED BY <1>1, <2>1, <3>4 DEF FlowInv
  <2>10. OrderInv'
    <3>1. Ordered(code, values, orphans) /\ Covered(signatures, code, values, orphans)
      BY <2>1 DEF IInv, OrderInv
    <3>2. Ordered(code \o e, values, orphans) /\ Covered(signatures, code \o e, values, orphans)
      BY <1>2, <2>3, <3>1, QuietAfter
    <3> QED BY <1>1, <2>1, <3>2 DEF OrderInv
  <2>11. ScriptInv'
    <3>1. Script => Once(code \o e, values)
      <4> SUFFICES ASSUME Script PROVE Once(code \o e, values)
        OBVIOUS
      <4>1. Once(code, values) /\ Ordered(code, values, orphans)
        BY DEF IInv, ScriptInv, OrderInv
      <4> QED BY <1>2, <2>3, <4>1, QuietAfter
    <3>2. Script => \A i \in DOMAIN signatures : signatures[i].is_defined
      BY <2>1 DEF Undefined
    <3>3. Script => lines <= 1 /\ lines # 0 /\ outcome = "none" /\ orphans = {}
      BY <1>1 DEF IInv, ScriptInv
    <3> QED BY <1>1, <2>1, <3>1, <3>2, <3>3 DEF ScriptInv, Script
  <2>12. PreviousInv'
    <3>1. previous \in [op : Ops \cup {"END"}, size : Nat]
          /\ (~DebugBuild => previous.op = "END")
          /\ previous.op \in {"END", "CALL", "RETURN", "GET_GLOBAL", "SET_GLOBAL"}
      BY <1>1 DEF IInv, PreviousInv
    <3>2. StackEffect'
      BY <1>1, <2>1, <3>1 DEF StackEffect, AsExpected
    <3> QED BY <1>1, <2>1, <3>1, <3>2 DEF PreviousInv
  <2> QED BY <2>6, <2>7, <2>8, <2>9, <2>10, <2>11, <2>12 DEF IInv
<1> QED BY <1>4, <1>5

------------------------------------------------------------------------------
(***************************************************************************)
(* A step of the machine: of the code, the first instruction is replaced   *)
(* by other code, the body of a function or nothing.                       *)
(***************************************************************************)
LEMMA CodeAfter ==
  ASSUME NEW c \in Seq(Instructions), c # <<>>, NEW pre \in Seq(Instructions)
  PROVE  LET d == pre \o Tail(c)
             n == Len(pre)
         IN  /\ n \in Nat /\ DOMAIN pre = 1..n /\ DOMAIN c = 1..Len(c) /\ Len(c) \in Nat
             /\ d \in Seq(Instructions) /\ DOMAIN d = 1..(n + Len(c) - 1)
             /\ 1 \in DOMAIN c /\ Head(c) = c[1]
             /\ \A k \in DOMAIN d :
                  \/ k \in DOMAIN pre /\ d[k] = pre[k]
                  \/ k > n /\ (k - n) + 1 \in DOMAIN c /\ d[k] = c[(k - n) + 1]
             /\ \A j \in DOMAIN c : j > 1 => n + (j - 1) \in DOMAIN d /\ d[n + (j - 1)] = c[j]
<1> DEFINE t == Tail(c)
           d == pre \o t
           n == Len(pre)
<1>1. t \in Seq(Instructions) /\ Len(t) = Len(c) - 1 /\ Len(c) \in Nat /\ Len(c) >= 1
      /\ Head(c) = c[1] /\ \A k \in 1..(Len(c) - 1) : t[k] = c[k + 1]
  BY HeadTailProperties, EmptySeq
<1> HIDE DEF t
<1> HIDE DEF n
<1>10. pre \in Seq(Instructions)
  OBVIOUS
<1>2. /\ n \in Nat /\ DOMAIN pre = 1..n /\ DOMAIN t = 1..Len(t)
      /\ DOMAIN d = 1..(n + Len(t))
      /\ \A k \in DOMAIN pre : d[k] = pre[k]
      /\ \A k \in DOMAIN t : n + k \in DOMAIN d /\ d[n + k] = t[k]
      /\ \A k \in DOMAIN d : k \in DOMAIN pre \/ (k > n /\ k - n \in DOMAIN t)
  <2>1. /\ DOMAIN d = 1..(Len(pre) + Len(t)) /\ Len(pre) \in Nat /\ Len(t) \in Nat
        /\ DOMAIN pre = 1..Len(pre) /\ DOMAIN t = 1..Len(t)
        /\ \A k \in DOMAIN pre : k \in DOMAIN d /\ d[k] = pre[k]
        /\ \A k \in DOMAIN t : Len(pre) + k \in DOMAIN d /\ d[Len(pre) + k] = t[k]
        /\ \A k \in DOMAIN d :
             k \in DOMAIN pre \/ (k > Len(pre) /\ k - Len(pre) \in DOMAIN t)
    BY <1>1, <1>10, Pieces
  <2> HIDE DEF d
  <2> QED BY <2>1 DEF n
<1>3. d \in Seq(Instructions)
  BY <1>1, ConcatProperties
<1> HIDE DEF d
<1>4. DOMAIN c = 1..Len(c) /\ 1 \in DOMAIN c
  BY <1>1
<1>5. ASSUME NEW k \in DOMAIN d
      PROVE  \/ k \in DOMAIN pre /\ d[k] = pre[k]
             \/ k > n /\ (k - n) + 1 \in DOMAIN c /\ d[k] = c[(k - n) + 1]
  <2>1. CASE k \in DOMAIN pre
    BY <1>2, <2>1
  <2>2. CASE k > n /\ k - n \in DOMAIN t
    <3>1. n + (k - n) = k /\ k - n \in 1..(Len(c) - 1)
      BY <1>1, <1>2, <2>2
    <3>2. d[n + (k - n)] = t[k - n] /\ t[k - n] = c[(k - n) + 1]
      BY <1>1, <1>2, <2>2, <3>1
    <3> QED BY <1>1, <1>4, <2>2, <3>1, <3>2
  <2> QED BY <1>2, <2>1, <2>2
<1>6. ASSUME NEW j \in DOMAIN c, j > 1
      PROVE  n + (j - 1) \in DOMAIN d /\ d[n + (j - 1)] = c[j]
  <2>1. j - 1 \in 1..(Len(c) - 1) /\ (j - 1) + 1 = j /\ j - 1 \in DOMAIN t
    BY <1>1, <1>2, <1>4, <1>6
  <2> QED BY <1>1, <1>2, <2>1
<1>7. DOMAIN d = 1..(n + Len(c) - 1)
  BY <1>1, <1>2
<1> QED BY <1>1, <1>2, <1>3, <1>4, <1>5, <1>6, <1>7 DEF d, n, t

\* What a step may do to values: DEFINE_GLOBAL gives one its value.
Follows(vals, new, x, orph) ==
  /\ DOMAIN new = DOMAIN vals
  /\ \A i \in DOMAIN vals : Settled(i, vals, orph) \/ Defines(x, i) => Settled(i, new, orph)
  /\ \A i \in DOMAIN vals : vals[i] = None /\ ~Defines(x, i) => new[i] = None

LEMMA OrderAfter ==
  ASSUME NEW c \in Seq(Instructions), c # <<>>, NEW pre \in Seq(Instructions), Quiet(pre),
         NEW sigs, CodeOk(c, sigs), NEW vals, DOMAIN vals = DOMAIN sigs, NEW orph,
         NEW new, Follows(vals, new, Head(c), orph)
  PROVE  /\ Ordered(c, vals, orph) => Ordered(pre \o Tail(c), new, orph)
         /\ Covered(sigs, c, vals, orph) => Covered(sigs, pre \o Tail(c), new, orph)
         /\ Once(c, vals) => Once(pre \o Tail(c), new)
<1> DEFINE d == pre \o Tail(c)
           n == Len(pre)
<1>1. /\ n \in Nat /\ DOMAIN pre = 1..n /\ DOMAIN c = 1..Len(c) /\ Len(c) \in Nat
      /\ 1 \in DOMAIN c /\ Head(c) = c[1] /\ DOMAIN d = 1..(n + Len(c) - 1)
      /\ \A k \in DOMAIN d :
           \/ k \in DOMAIN pre /\ d[k] = pre[k]
           \/ k > n /\ (k - n) + 1 \in DOMAIN c /\ d[k] = c[(k - n) + 1]
      /\ \A j \in DOMAIN c : j > 1 => n + (j - 1) \in DOMAIN d /\ d[n + (j - 1)] = c[j]
  BY CodeAfter
<1> HIDE DEF d, n
<1>2. ASSUME NEW k \in DOMAIN d, Uses(d[k]) \/ d[k].op = "DEFINE_GLOBAL"
      PROVE  /\ k > n /\ (k - n) + 1 \in DOMAIN c /\ d[k] = c[(k - n) + 1]
             /\ d[k].index \in DOMAIN vals
  <2>1. k > n /\ (k - n) + 1 \in DOMAIN c /\ d[k] = c[(k - n) + 1]
    BY <1>1, <1>2 DEF Quiet
  <2>2. InstrOk(d[k], sigs)
    BY <2>1 DEF CodeOk
  <2>3. d[k].op \in GlobalOps
    BY <1>2 DEF Uses, GlobalOps
  <2> QED BY <2>1, <2>2, <2>3 DEF InstrOk
<1>3. ASSUME NEW i \in DOMAIN vals, NEW j \in DOMAIN c, Defines(c[j], i)
      PROVE  Settled(i, new, orph)
             \/ (j > 1 /\ n + (j - 1) \in DOMAIN d /\ Defines(d[n + (j - 1)], i))
  <2>1. CASE j = 1
    BY <1>1, <1>3, <2>1 DEF Follows
  <2>2. CASE j > 1
    BY <1>1, <1>3, <2>2
  <2> QED BY <1>1, <2>1, <2>2
<1>4. ASSUME Ordered(c, vals, orph) PROVE Ordered(d, new, orph)
  <2> SUFFICES ASSUME NEW k \in DOMAIN d, Uses(d[k])
               PROVE  Settled(d[k].index, new, orph)
                      \/ \E j \in 1..(k - 1) : Defines(d[j], d[k].index)
    BY DEF Ordered
  <2> DEFINE m == (k - n) + 1
             i == d[k].index
  <2>1. k > n /\ m \in DOMAIN c /\ d[k] = c[m] /\ i \in DOMAIN vals
    BY <1>2
  <2>2. Settled(i, vals, orph) \/ \E j \in 1..(m - 1) : Defines(c[j], i)
    BY <1>4, <2>1 DEF Ordered
  <2>3. CASE Settled(i, vals, orph)
    BY <2>1, <2>3 DEF Follows
  <2>4. CASE \E j \in 1..(m - 1) : Defines(c[j], i)
    <3>1. PICK j \in 1..(m - 1) : Defines(c[j], i)
      BY <2>4
    <3>2. j \in DOMAIN c /\ j \in Nat /\ k \in Nat
      BY <1>1, <2>1
    <3>3. j > 1 => n + (j - 1) \in 1..(k - 1)
      BY <1>1, <2>1, <3>2
    <3> HIDE DEF i, m
    <3> QED BY <1>3, <2>1, <3>1, <3>2, <3>3 DEF i
  <2> QED BY <2>2, <2>3, <2>4
<1>5. ASSUME Covered(sigs, c, vals, orph) PROVE Covered(sigs, d, new, orph)
  <2> SUFFICES ASSUME NEW i \in DOMAIN sigs, sigs[i].is_defined
               PROVE  Settled(i, new, orph) \/ \E k \in DOMAIN d : Defines(d[k], i)
    BY DEF Covered
  <2>1. Settled(i, vals, orph) \/ \E k \in DOMAIN c : Defines(c[k], i)
    BY <1>5 DEF Covered
  <2>2. CASE Settled(i, vals, orph)
    BY <2>2 DEF Follows
  <2>3. CASE \E k \in DOMAIN c : Defines(c[k], i)
    BY <1>3, <2>3
  <2> QED BY <2>1, <2>2, <2>3
<1>6. ASSUME Once(c, vals) PROVE Once(d, new)
  <2> SUFFICES ASSUME NEW k \in DOMAIN d, d[k].op = "DEFINE_GLOBAL"
               PROVE  new[d[k].index] = None
                      /\ \A j \in DOMAIN d : Defines(d[j], d[k].index) => j = k
    BY DEF Once
  <2> DEFINE m == (k - n) + 1
             i == d[k].index
  <2>1. k > n /\ m \in DOMAIN c /\ d[k] = c[m] /\ i \in DOMAIN vals
    BY <1>2
  <2>2. vals[i] = None /\ \A j \in DOMAIN c : Defines(c[j], i) => j = m
    BY <1>6, <2>1 DEF Once
  <2>3. ~Defines(Head(c), i)
    BY <1>1, <2>1, <2>2
  <2>4. new[i] = None
    BY <2>1, <2>2, <2>3 DEF Follows
  <2>5. ASSUME NEW j \in DOMAIN d, Defines(d[j], i) PROVE j = k
    <3>1. j > n /\ (j - n) + 1 \in DOMAIN c /\ d[j] = c[(j - n) + 1]
      BY <1>2, <2>5 DEF Defines
    <3>2. (j - n) + 1 = m
      BY <2>2, <2>5, <3>1
    <3> QED BY <1>1, <3>2
  <2> QED BY <2>4, <2>5
<1> QED BY <1>4, <1>5, <1>6 DEF d

LEMMA AtInstr ==
  ASSUME IInv, phase = "running"
  PROVE  /\ code \in Seq(Instructions) /\ code # <<>> /\ CodeOk(code, signatures)
         /\ SigsOk(signatures) /\ ValuesOk(values, signatures)
         /\ DOMAIN values = DOMAIN signatures
         /\ StackOk(stack, signatures)
         /\ InstrOk(Instr0, signatures)
         /\ Tail(code) \in Seq(Instructions) /\ CodeOk(Tail(code), signatures)
         /\ \E a, m \in Stacks :
              /\ a.size >= 1 /\ Fits(stack, a)
              /\ Effect(a, Instr0, m, signatures) /\ Flows(m, Tail(code), Ended, signatures)
<1>1. /\ CodeOk(code, signatures) /\ StackOk(stack, signatures)
      /\ SigsOk(signatures) /\ ValuesOk(values, signatures)
  BY DEF IInv, CodeInv, TablesInv
<1>2. code \in Seq(Instructions) /\ DOMAIN values = DOMAIN signatures
  BY <1>1 DEF CodeOk, SigsOk, ValuesOk
<1>3. PICK a \in Stacks :
        a.size >= 1 /\ Fits(stack, a) /\ Flows(a, code, Ended, signatures)
  BY DEF IInv, FlowInv
<1>4. code # <<>>
  <2> SUFFICES ASSUME code = <<>> PROVE FALSE
    OBVIOUS
  <2>1. PICK h : Flow(h, a, <<>>, Ended, signatures)
    BY <1>3 DEF Flows
  <2>2. a = Ended
    BY <2>1 DEF Flow
  <2> QED BY <1>3, <2>2 DEF Ended, Stack
<1>5. PICK m \in Stacks :
        Effect(a, Head(code), m, signatures) /\ Flows(m, Tail(code), Ended, signatures)
  BY <1>2, <1>3, <1>4, FlowsHead
<1>6. 1 \in DOMAIN code /\ Head(code) = code[1]
  BY <1>2, <1>4, CodeAfter
<1>7. InstrOk(Instr0, signatures)
  BY <1>1, <1>6 DEF CodeOk, Instr0
<1>8. Tail(code) \in Seq(Instructions) /\ Len(Tail(code)) = Len(code) - 1
      /\ Len(code) \in Nat
      /\ \A k \in 1..(Len(code) - 1) : Tail(code)[k] = code[k + 1]
  BY <1>2, <1>4, HeadTailProperties
<1>9. CodeOk(Tail(code), signatures)
  <2> SUFFICES ASSUME NEW k \in DOMAIN Tail(code) PROVE InstrOk(Tail(code)[k], signatures)
    BY <1>8 DEF CodeOk
  <2>1. k \in 1..(Len(code) - 1) /\ k + 1 \in DOMAIN code
    BY <1>2, <1>8
  <2> QED BY <1>1, <1>8, <2>1 DEF CodeOk
<1> QED BY <1>1, <1>2, <1>3, <1>4, <1>5, <1>7, <1>8, <1>9 DEF Instr0

LEMMA PreviousKept ==
  ASSUME IInv, phase = "running", assert_stack_effect
  PROVE  /\ previous' \in [op : Ops \cup {"END"}, size : Nat]
         /\ ~DebugBuild => previous'.op = "END"
         /\ DebugBuild => previous'.op = Instr0.op /\ previous'.size = Len(stack)
<1>1. previous \in [op : Ops \cup {"END"}, size : Nat] /\ (~DebugBuild => previous.op = "END")
  BY DEF IInv, PreviousInv
<1>2. Instr0 \in Instructions /\ stack \in Seq(Values)
  BY AtInstr DEF InstrOk, StackOk
<1>3. Instr0.op \in Ops /\ Len(stack) \in Nat
  BY <1>2 DEF Instructions
<1> QED BY <1>1, <1>3 DEF assert_stack_effect

LEMMA StepKeeps ==
  ASSUME IInv, NEW ops, Dispatch(ops), UNCHANGED <<phase, outcome, orphans, surprised>>,
         NEW pre \in Seq(Instructions), CodeOk(pre, signatures), Quiet(pre),
         code' = pre \o Tail(code),
         ValuesOk(values', signatures), Follows(values, values', Instr0, orphans),
         StackOk(stack', signatures),
         NEW b \in Stacks, b.size >= 1, Fits(stack', b),
         Flows(b, pre \o Tail(code), Ended, signatures),
         Instr0.op \in {"CALL", "RETURN"}
           \/ Len(stack') = Len(stack) + stack_effect(Instr0.op)
  PROVE  IInv'
<1> DEFINE d == pre \o Tail(code)
<1>1. /\ phase = "running" /\ phase' = "running" /\ mode' = mode /\ signatures' = signatures
      /\ had_error' = had_error /\ lines' = lines /\ outcome' = outcome
      /\ orphans' = orphans /\ surprised' = surprised /\ assert_stack_effect
  BY DEF Dispatch
<1>2. /\ code \in Seq(Instructions) /\ code # <<>> /\ CodeOk(code, signatures)
      /\ SigsOk(signatures) /\ DOMAIN values = DOMAIN signatures
      /\ CodeOk(Tail(code), signatures)
  BY <1>1, AtInstr
<1>3. CodeOk(d, signatures)
  BY <1>2, CodeJoined
<1>4. TablesInv'
  BY <1>1, <1>2 DEF IInv, TablesInv, Follows
<1>5. PhaseInv'
  <2>1. ~had_error /\ had_error \in BOOLEAN /\ lines \in Nat /\ ~surprised
        /\ mode \in {"prompt", "script"}
    BY <1>1 DEF IInv, PhaseInv
  <2> QED BY <1>1, <2>1 DEF PhaseInv
<1>6. CodeInv'
  BY <1>1, <1>3 DEF CodeInv
<1>7. FlowInv'
  BY <1>1 DEF FlowInv
<1>8. OrderInv'
  <2>1. Ordered(code, values, orphans) /\ Covered(signatures, code, values, orphans)
    BY <1>1 DEF IInv, OrderInv
  <2>2. Ordered(d, values', orphans) /\ Covered(signatures, d, values', orphans)
    BY <1>2, <2>1, OrderAfter DEF Instr0
  <2> QED BY <1>1, <2>2 DEF OrderInv
<1>9. ScriptInv'
  <2>1. Script => Once(d, values')
    <3> SUFFICES ASSUME Script PROVE Once(d, values')
      OBVIOUS
    <3>1. Once(code, values)
      BY DEF IInv, ScriptInv
    <3> QED BY <1>2, <3>1, OrderAfter DEF Instr0
  <2>2. Script => /\ lines <= 1 /\ lines # 0 /\ outcome = "none" /\ orphans = {}
                  /\ \A i \in DOMAIN signatures : signatures[i].is_defined
    BY <1>1 DEF IInv, ScriptInv
  <2> HIDE DEF d
  <2> QED BY <1>1, <2>1, <2>2 DEF ScriptInv, Script, d
<1>10. PreviousInv'
  <2>1. /\ previous' \in [op : Ops \cup {"END"}, size : Nat]
        /\ ~DebugBuild => previous'.op = "END"
        /\ DebugBuild => previous'.op = Instr0.op /\ previous'.size = Len(stack)
    BY <1>1, PreviousKept
  <2>2. AsExpected'
    <3>1. CASE DebugBuild
      BY <2>1, <3>1 DEF AsExpected
    <3>2. CASE ~DebugBuild
      BY <2>1, <3>2 DEF AsExpected
    <3> QED BY <3>1, <3>2
  <2> QED BY <1>1, <2>1, <2>2 DEF PreviousInv, StackEffect
<1> QED BY <1>4, <1>5, <1>6, <1>7, <1>8, <1>9, <1>10 DEF IInv

LEMMA ErrorKeeps ==
  ASSUME IInv, NEW ops, Dispatch(ops), ops \subseteq {"GET_GLOBAL", "SET_GLOBAL", "CALL"},
         runtime_error, ~surprised'
  PROVE  IInv'
<1>1. /\ phase = "running" /\ phase' = "prompt" /\ mode' = mode /\ signatures' = signatures
      /\ had_error' = had_error /\ lines' = lines /\ outcome' = "runtime_error"
      /\ orphans' = LeftBehind /\ values' = values /\ assert_stack_effect
      /\ stack' = <<>> /\ code' = <<>>
      /\ Instr0.op \in {"GET_GLOBAL", "SET_GLOBAL", "CALL"}
  BY DEF Dispatch, runtime_error, reset_stack
<1>2. SigsOk(signatures) /\ ValuesOk(values, signatures)
  BY <1>1, AtInstr
<1>3. LeftBehind \subseteq DOMAIN values /\ Covered(signatures, <<>>, values, LeftBehind)
  BY <1>2, LeftBehindCovers
<1>4. TablesInv'
  BY <1>1, <1>2, <1>3 DEF TablesInv
<1>5. PhaseInv'
  BY <1>1 DEF IInv, PhaseInv
<1>6. CodeInv'
  BY <1>1, CodeOfNone DEF CodeInv, StackOk
<1>7. FlowInv'
  BY <1>1 DEF FlowInv
<1>8. OrderInv'
  BY <1>1, <1>3 DEF OrderInv, Ordered
<1>9. ScriptInv'
  <2>1. Script => lines <= 1 /\ lines # 0
    BY <1>1 DEF IInv, ScriptInv
  <2>2. Once(<<>>, values)
    BY DEF Once
  <2> QED BY <1>1, <2>1, <2>2 DEF ScriptInv, Script
<1>10. PreviousInv'
  <2>1. /\ previous' \in [op : Ops \cup {"END"}, size : Nat]
        /\ ~DebugBuild => previous'.op = "END"
        /\ DebugBuild => previous'.op = Instr0.op
    BY <1>1, PreviousKept
  <2> QED BY <1>1, <2>1 DEF PreviousInv, StackEffect
<1> QED BY <1>4, <1>5, <1>6, <1>7, <1>8, <1>9, <1>10 DEF IInv

LEMMA ContinueKeeps ==
  ASSUME IInv, NEW ops, Dispatch(ops), NEW stk, Continue(stk),
         ValuesOk(values', signatures), Follows(values, values', Instr0, orphans),
         StackOk(stk, signatures),
         NEW b \in Stacks, b.size >= 1, Fits(stk, b), Flows(b, Tail(code), Ended, signatures),
         Instr0.op \in {"CALL", "RETURN"}
           \/ Len(stk) = Len(stack) + stack_effect(Instr0.op)
  PROVE  IInv'
<1>1. /\ code' = Tail(code) /\ stack' = stk
      /\ UNCHANGED <<phase, outcome, orphans, surprised>> /\ phase = "running"
  BY DEF Continue, Dispatch
<1> DEFINE pre == <<>>
<1>2. pre \in Seq(Instructions) /\ CodeOk(pre, signatures) /\ Quiet(pre)
  BY CodeOfNone DEF Quiet
<1>3. pre \o Tail(code) = Tail(code)
  <2>1. Tail(code) \in Seq(Instructions)
    BY <1>1, AtInstr
  <2> QED BY <2>1
<1> HIDE DEF pre
<1> QED BY <1>1, <1>2, <1>3, StepKeeps

LEMMA Pushed ==
  ASSUME NEW sigs, NEW stk, StackOk(stk, sigs), NEW v, ValueOk(v, sigs),
         NEW n \in Nat, Len(stk) = n
  PROVE  /\ StackOk(Append(stk, v), sigs) /\ Len(Append(stk, v)) = n + 1
         /\ Fits(Append(stk, v), Stack(n + 1, {v.type}))
<1>1. stk \in Seq(Values) /\ v \in Values
  BY DEF StackOk, ValueOk
<1>2. /\ Append(stk, v) \in Seq(Values) /\ Len(Append(stk, v)) = n + 1
      /\ \A k \in 1..n : Append(stk, v)[k] = stk[k]
      /\ Append(stk, v)[n + 1] = v
  BY <1>1, AppendProperties
<1>3. DOMAIN stk = 1..n /\ DOMAIN Append(stk, v) = 1..(n + 1)
  BY <1>1, <1>2
<1>4. ASSUME NEW k \in DOMAIN Append(stk, v) PROVE ValueOk(Append(stk, v)[k], sigs)
  <2>1. k \in 1..n \/ k = n + 1
    BY <1>3
  <2> QED BY <1>2, <1>3, <2>1 DEF StackOk
<1> QED BY <1>2, <1>4 DEF StackOk, Fits, Stack

LEMMA DroppedSome ==
  ASSUME NEW sigs, NEW stk, StackOk(stk, sigs), NEW n \in Nat, n <= Len(stk)
  PROVE  LET new == SubSeq(stk, 1, Len(stk) - n)
         IN  /\ StackOk(new, sigs) /\ Len(new) = Len(stk) - n
             /\ Fits(new, Stack(Len(stk) - n, Kinds))
<1> DEFINE l == Len(stk) - n
           new == SubSeq(stk, 1, l)
<1>1. stk \in Seq(Values) /\ Len(stk) \in Nat /\ l \in Nat /\ l <= Len(stk)
  BY DEF StackOk
<1>2. new \in Seq(Values) /\ Len(new) = l /\ \A k \in 1..l : new[k] = stk[k]
  <2>1. 1 \in 1..(Len(stk) + 1) /\ l \in (1 - 1)..Len(stk) /\ (l - 1) + 1 = l
    BY <1>1
  <2>2. /\ new \in Seq(Values)
        /\ Len(new) = IF 1 <= l THEN l - 1 + 1 ELSE 0
        /\ \A k \in 1..(l - 1 + 1) : new[k] = stk[1 + k - 1]
    BY <1>1, <2>1, SubSeqProperties
  <2>3. \A k \in 1..l : 1 + k - 1 = k
    BY <1>1
  <2> HIDE DEF new
  <2> QED BY <1>1, <2>2, <2>3
<1> HIDE DEF new
<1>3. ASSUME NEW k \in DOMAIN new PROVE ValueOk(new[k], sigs)
  <2>1. k \in 1..l /\ k \in DOMAIN stk
    BY <1>1, <1>2
  <2> QED BY <1>2, <2>1 DEF StackOk
<1>4. new # <<>> => new[Len(new)].type \in Kinds
  <2>1. new # <<>> => Len(new) \in DOMAIN new
    BY <1>2
  <2> QED BY <1>3, <2>1 DEF ValueOk, Values
<1>5. StackOk(new, sigs)
  BY <1>2, <1>3 DEF StackOk
<1>6. Fits(new, Stack(l, Kinds))
  BY <1>2, <1>4 DEF Fits, Stack
<1> QED BY <1>2, <1>5, <1>6 DEF new

LEMMA ValuesSame ==
  ASSUME IInv, phase = "running", values' = values, Instr0.op # "DEFINE_GLOBAL"
  PROVE  ValuesOk(values', signatures) /\ Follows(values, values', Instr0, orphans)
<1>1. ValuesOk(values, signatures)
  BY AtInstr
<1>2. Follows(values, values, Instr0, orphans)
  BY DEF Follows, Defines
<1> QED BY <1>1, <1>2

LEMMA PushKeeps == IInv /\ push => IInv'
<1> SUFFICES ASSUME IInv, push PROVE IInv'
  OBVIOUS
<1> DEFINE v == IF Instr0.op = "NIL" THEN Nil ELSE Instr0.value
           stk == Append(stack, v)
<1>1. /\ Dispatch({"CONSTANT", "NIL"}) /\ values' = values /\ Continue(stk)
  BY DEF push
<1>2. phase = "running" /\ Instr0.op \in {"CONSTANT", "NIL"}
  BY <1>1 DEF Dispatch
<1>3. StackOk(stack, signatures) /\ InstrOk(Instr0, signatures)
  BY <1>2, AtInstr
<1>4. PICK a \in Stacks, m \in Stacks :
        /\ a.size >= 1 /\ Fits(stack, a)
        /\ Effect(a, Instr0, m, signatures) /\ Flows(m, Tail(code), Ended, signatures)
  BY <1>2, AtInstr
<1>5. ValueOk(v, signatures)
  BY <1>2, <1>3, SpecialValues DEF InstrOk
<1>6. m = Stack(a.size + 1, {v.type})
  BY <1>2, <1>4, SpecialValues DEF Effect
<1> HIDE DEF v
<1>7. a.size \in Nat /\ Len(stack) = a.size
  BY <1>4 DEF Fits, Stacks
<1>8. StackOk(stk, signatures) /\ Len(stk) = a.size + 1 /\ Fits(stk, m)
  BY <1>3, <1>5, <1>6, <1>7, Pushed
<1>9. Len(stk) = Len(stack) + stack_effect(Instr0.op)
  BY <1>2, <1>7, <1>8 DEF stack_effect
<1>10. m.size >= 1
  BY <1>6, <1>7 DEF Stack
<1>11. ValuesOk(values', signatures) /\ Follows(values, values', Instr0, orphans)
  BY <1>1, <1>2, ValuesSame
<1> HIDE DEF stk
<1> QED BY <1>1, <1>4, <1>8, <1>9, <1>10, <1>11, ContinueKeeps

LEMMA PopKeeps == IInv /\ pop => IInv'
<1> SUFFICES ASSUME IInv, pop PROVE IInv'
  OBVIOUS
<1> DEFINE stk == Dropped(1)
<1>1. Dispatch({"POP"}) /\ values' = values /\ Continue(stk)
  BY DEF pop
<1>2. phase = "running" /\ Instr0.op = "POP"
  BY <1>1 DEF Dispatch
<1>3. StackOk(stack, signatures)
  BY <1>2, AtInstr
<1>4. PICK a \in Stacks, m \in Stacks :
        /\ a.size >= 1 /\ Fits(stack, a)
        /\ Effect(a, Instr0, m, signatures) /\ Flows(m, Tail(code), Ended, signatures)
  BY <1>2, AtInstr
<1>5. a.size \in Nat /\ Len(stack) = a.size /\ a.size >= 2 /\ m = Stack(a.size - 1, Kinds)
  BY <1>2, <1>4 DEF Fits, Stacks, Effect
<1>6. StackOk(stk, signatures) /\ Len(stk) = a.size - 1 /\ Fits(stk, m)
  BY <1>3, <1>5, DroppedSome DEF Dropped
<1>7. Len(stk) = Len(stack) + stack_effect(Instr0.op)
  BY <1>2, <1>5, <1>6 DEF stack_effect
<1>8. m.size >= 1
  BY <1>5 DEF Stack
<1>9. ValuesOk(values', signatures) /\ Follows(values, values', Instr0, orphans)
  BY <1>1, <1>2, ValuesSame
<1> HIDE DEF stk
<1> QED BY <1>1, <1>4, <1>6, <1>7, <1>8, <1>9, ContinueKeeps

LEMMA PeekOk ==
  ASSUME NEW sigs, StackOk(stack, sigs), NEW a \in Stacks, Fits(stack, a), a.size >= 1
  PROVE  ValueOk(Peek, sigs) /\ (OneType => Peek.type \in a.top)
<1>1. Len(stack) = a.size /\ stack \in Seq(Values) /\ a.size \in Nat
  BY DEF Fits, StackOk, Stacks
<1>2. Len(stack) \in DOMAIN stack /\ stack # <<>>
  BY <1>1
<1>3. Peek = stack[Len(stack)]
  BY DEF Peek, Last
<1> QED BY <1>2, <1>3 DEF StackOk, Fits

LEMMA UndefinedKeeps ==
  ASSUME IInv, NEW ops, Dispatch(ops), ops \subseteq {"GET_GLOBAL", "SET_GLOBAL"},
         values[Instr0.index] = None, undefined_variable
  PROVE  IInv'
<1>1. /\ runtime_error /\ phase = "running" /\ Instr0.op \in {"GET_GLOBAL", "SET_GLOBAL"}
      /\ surprised' = (surprised \/ (Instr0.top /\ Instr0.index \notin orphans))
  BY DEF undefined_variable, Dispatch
<1>2. ~surprised /\ Ordered(code, values, orphans)
  BY DEF IInv, PhaseInv, OrderInv
<1>3. code \in Seq(Instructions) /\ code # <<>>
  BY <1>1, AtInstr
<1>4. 1 \in DOMAIN code /\ Instr0 = code[1]
  <2>1. 1 \in DOMAIN code /\ Head(code) = code[1]
    BY <1>3, CodeAfter
  <2> QED BY <2>1 DEF Instr0
<1>5. Uses(code[1]) => Settled(code[1].index, values, orphans)
  <2>1. Uses(code[1]) => \/ Settled(code[1].index, values, orphans)
                         \/ \E j \in 1..(1 - 1) : Defines(code[j], code[1].index)
    BY <1>2, <1>4 DEF Ordered
  <2> QED BY <2>1
<1>6. ~surprised'
  BY <1>1, <1>2, <1>4, <1>5 DEF Uses, Settled
<1>7. ops \subseteq {"GET_GLOBAL", "SET_GLOBAL", "CALL"}
  OBVIOUS
<1> QED BY <1>1, <1>6, <1>7, ErrorKeeps

LEMMA GetGlobalKeeps == IInv /\ do_get_global => IInv'
<1> SUFFICES ASSUME IInv, do_get_global PROVE IInv'
  OBVIOUS
<1> DEFINE i == Instr0.index
           v == values[i]
           stk == Append(stack, v)
<1>1. Dispatch({"GET_GLOBAL"})
  BY DEF do_get_global
<1>2. phase = "running" /\ Instr0.op = "GET_GLOBAL"
  BY <1>1 DEF Dispatch
<1>3. CASE v = None
  <2>1. undefined_variable
    BY <1>3 DEF do_get_global
  <2>2. {"GET_GLOBAL"} \subseteq {"GET_GLOBAL", "SET_GLOBAL"}
    OBVIOUS
  <2> QED BY <1>1, <1>3, <2>1, <2>2, UndefinedKeeps
<1>4. CASE v # None
  <2>1. values' = values /\ Continue(stk)
    BY <1>4 DEF do_get_global
  <2>2. /\ StackOk(stack, signatures) /\ InstrOk(Instr0, signatures)
        /\ ValuesOk(values, signatures) /\ DOMAIN values = DOMAIN signatures
    BY <1>2, AtInstr
  <2>3. PICK a \in Stacks, m \in Stacks :
          /\ a.size >= 1 /\ Fits(stack, a)
          /\ Effect(a, Instr0, m, signatures) /\ Flows(m, Tail(code), Ended, signatures)
    BY <1>2, AtInstr
  <2>4. i \in DOMAIN values
    BY <1>2, <2>2 DEF InstrOk, GlobalOps
  <2>5. ValueOk(v, signatures) /\ (OneType => v.type = signatures[i].types)
    BY <1>4, <2>2, <2>4 DEF ValuesOk
  <2>6. m = Stack(a.size + 1, {signatures[i].types})
    BY <1>2, <2>3 DEF Effect
  <2> HIDE DEF v
  <2>7. a.size \in Nat /\ Len(stack) = a.size
    BY <2>3 DEF Fits, Stacks
  <2>8. StackOk(stk, signatures) /\ Len(stk) = a.size + 1
        /\ Fits(stk, Stack(a.size + 1, {v.type}))
    BY <2>2, <2>5, <2>7, Pushed
  <2> HIDE DEF stk, i
  <2>9. Fits(stk, m)
    BY <2>5, <2>6, <2>8 DEF Fits, Stack
  <2>10. Len(stk) = Len(stack) + stack_effect(Instr0.op)
    BY <1>2, <2>7, <2>8 DEF stack_effect
  <2>11. m.size >= 1
    BY <2>6, <2>7 DEF Stack
  <2>12. ValuesOk(values', signatures) /\ Follows(values, values', Instr0, orphans)
    BY <1>2, <2>1, ValuesSame
  <2> QED BY <1>1, <2>1, <2>3, <2>8, <2>9, <2>10, <2>11, <2>12, ContinueKeeps
<1> QED BY <1>3, <1>4

LEMMA Stored ==
  ASSUME NEW sigs, ValuesOk(values, sigs), DOMAIN values = DOMAIN sigs,
         NEW i \in DOMAIN values, NEW v, ValueOk(v, sigs),
         sigs[i].is_defined, OneType => v.type = sigs[i].types
  PROVE  /\ ValuesOk([values EXCEPT ![i] = v], sigs)
         /\ DOMAIN [values EXCEPT ![i] = v] = DOMAIN values
         /\ \A k \in DOMAIN values :
              [values EXCEPT ![i] = v][k] = IF k = i THEN v ELSE values[k]
         /\ v # None
<1> DEFINE new == [values EXCEPT ![i] = v]
<1>1. values \in Seq(Values) /\ v \in Values /\ Len(values) = Len(sigs)
  BY DEF ValuesOk, ValueOk
<1>2. new \in Seq(Values) /\ Len(new) = Len(values) /\ DOMAIN new = DOMAIN values
  BY <1>1, ExceptSeq
<1>3. \A k \in DOMAIN values : new[k] = IF k = i THEN v ELSE values[k]
  OBVIOUS
<1>4. v # None
  BY SpecialValues DEF ValueOk
<1> HIDE DEF new
<1>5. ValuesOk(new, sigs)
  BY <1>1, <1>2, <1>3 DEF ValuesOk
<1> QED BY <1>2, <1>3, <1>4, <1>5 DEF new

LEMMA SetGlobalKeeps == IInv /\ do_set_global => IInv'
<1> SUFFICES ASSUME IInv, do_set_global PROVE IInv'
  OBVIOUS
<1> DEFINE i == Instr0.index
           new == [values EXCEPT ![i] = Peek]
<1>1. Dispatch({"SET_GLOBAL"})
  BY DEF do_set_global
<1>2. phase = "running" /\ Instr0.op = "SET_GLOBAL"
  BY <1>1 DEF Dispatch
<1>3. CASE values[i] = None
  <2>1. undefined_variable
    BY <1>3 DEF do_set_global
  <2>2. {"SET_GLOBAL"} \subseteq {"GET_GLOBAL", "SET_GLOBAL"}
    OBVIOUS
  <2> QED BY <1>1, <1>3, <2>1, <2>2, UndefinedKeeps
<1>4. CASE values[i] # None
  <2>1. values' = new /\ Continue(stack)
    BY <1>4 DEF do_set_global
  <2>2. /\ StackOk(stack, signatures) /\ InstrOk(Instr0, signatures)
        /\ ValuesOk(values, signatures) /\ DOMAIN values = DOMAIN signatures
    BY <1>2, AtInstr
  <2>3. PICK a \in Stacks, m \in Stacks :
          /\ a.size >= 1 /\ Fits(stack, a)
          /\ Effect(a, Instr0, m, signatures) /\ Flows(m, Tail(code), Ended, signatures)
    BY <1>2, AtInstr
  <2>4. i \in DOMAIN values
    BY <1>2, <2>2 DEF InstrOk, GlobalOps
  <2>5. signatures[i].is_defined
    BY <1>4, <2>2, <2>4 DEF ValuesOk
  <2>6. m = a /\ (OneType => a.top = {signatures[i].types})
    BY <1>2, <2>3 DEF Effect
  <2>7. ValueOk(Peek, signatures) /\ (OneType => Peek.type \in a.top)
    BY <2>2, <2>3, PeekOk
  <2>8. OneType => Peek.type = signatures[i].types
    BY <2>6, <2>7
  <2> DEFINE v == Peek
  <2> HIDE DEF v, i
  <2>9. /\ ValuesOk([values EXCEPT ![i] = v], signatures)
        /\ DOMAIN [values EXCEPT ![i] = v] = DOMAIN values
        /\ \A k \in DOMAIN values :
             [values EXCEPT ![i] = v][k] = IF k = i THEN v ELSE values[k]
        /\ v # None
    <3>1. ValueOk(v, signatures) /\ (OneType => v.type = signatures[i].types)
      BY <2>7, <2>8 DEF v
    <3> QED BY <2>2, <2>4, <2>5, <3>1, Stored
  <2>10. new = [values EXCEPT ![i] = v]
    BY DEF v
  <2> HIDE DEF new
  <2>11. ValuesOk(new, signatures)
    BY <2>9, <2>10
  <2>12. Follows(values, new, Instr0, orphans)
    BY <1>2, <1>4, <2>4, <2>9, <2>10 DEF Follows, Settled, Defines
  <2>13. Len(stack) = Len(stack) + stack_effect(Instr0.op)
    <3>1. Len(stack) \in Nat
      BY <2>2 DEF StackOk
    <3> QED BY <1>2, <3>1 DEF stack_effect
  <2> QED BY <1>1, <2>1, <2>2, <2>3, <2>6, <2>11, <2>12, <2>13, ContinueKeeps
<1> QED BY <1>3, <1>4

LEMMA DefineGlobalKeeps == IInv /\ do_define_global => IInv'
<1> SUFFICES ASSUME IInv, do_define_global PROVE IInv'
  OBVIOUS
<1> DEFINE i == Instr0.index
           new == [values EXCEPT ![i] = Peek]
           stk == Dropped(1)
<1>1. Dispatch({"DEFINE_GLOBAL"}) /\ values' = new /\ Continue(stk)
  BY DEF do_define_global
<1>2. phase = "running" /\ Instr0.op = "DEFINE_GLOBAL"
  BY <1>1 DEF Dispatch
<1>3. /\ StackOk(stack, signatures) /\ InstrOk(Instr0, signatures)
      /\ ValuesOk(values, signatures) /\ DOMAIN values = DOMAIN signatures
  BY <1>2, AtInstr
<1>4. PICK a \in Stacks, m \in Stacks :
        /\ a.size >= 1 /\ Fits(stack, a)
        /\ Effect(a, Instr0, m, signatures) /\ Flows(m, Tail(code), Ended, signatures)
  BY <1>2, AtInstr
<1>5. i \in DOMAIN values /\ signatures[i].is_defined
  BY <1>2, <1>3 DEF InstrOk, GlobalOps
<1>6. /\ a.size \in Nat /\ Len(stack) = a.size /\ a.size >= 2
      /\ m = Stack(a.size - 1, Kinds) /\ (OneType => a.top = {signatures[i].types})
  BY <1>2, <1>4 DEF Fits, Stacks, Effect
<1>7. ValueOk(Peek, signatures) /\ (OneType => Peek.type \in a.top)
  BY <1>3, <1>4, PeekOk
<1>8. OneType => Peek.type = signatures[i].types
  BY <1>6, <1>7
<1> DEFINE v == Peek
<1> HIDE DEF v, i
<1>9. /\ ValuesOk([values EXCEPT ![i] = v], signatures)
      /\ DOMAIN [values EXCEPT ![i] = v] = DOMAIN values
      /\ \A k \in DOMAIN values :
           [values EXCEPT ![i] = v][k] = IF k = i THEN v ELSE values[k]
      /\ v # None
  <2>1. ValueOk(v, signatures) /\ (OneType => v.type = signatures[i].types)
    BY <1>7, <1>8 DEF v
  <2> QED BY <1>3, <1>5, <2>1, Stored
<1>10. new = [values EXCEPT ![i] = v]
  BY DEF v
<1> HIDE DEF new
<1>11. ValuesOk(new, signatures)
  BY <1>9, <1>10
<1>12. Follows(values, new, Instr0, orphans)
  BY <1>2, <1>5, <1>9, <1>10 DEF Follows, Settled, Defines, i
<1>13. StackOk(stk, signatures) /\ Len(stk) = a.size - 1 /\ Fits(stk, m)
  BY <1>3, <1>6, DroppedSome DEF Dropped
<1>14. Len(stk) = Len(stack) + stack_effect(Instr0.op)
  BY <1>2, <1>6, <1>13 DEF stack_effect
<1>15. m.size >= 1
  BY <1>6 DEF Stack
<1> HIDE DEF stk
<1> QED BY <1>1, <1>4, <1>11, <1>12, <1>13, <1>14, <1>15, ContinueKeeps

------------------------------------------------------------------------------
(***************************************************************************)
(* Calls.  The body of a function leaves the stack as it was, and is of no *)
(* concern to the order of what the top level does.                        *)
(***************************************************************************)
LEMMA ThreeIsJoined ==
  ASSUME NEW S, NEW u \in S, NEW v \in S, NEW w \in S
  PROVE  <<u, v, w>> = <<u>> \o <<v, w>>
<1>1. <<u>> \in Seq(S) /\ <<v, w>> \in Seq(S) /\ <<u, v, w>> \in Seq(S)
  OBVIOUS
<1>2. /\ Len(<<u>> \o <<v, w>>) = 3 /\ <<u>> \o <<v, w>> \in Seq(S)
      /\ (<<u>> \o <<v, w>>)[1] = u /\ (<<u>> \o <<v, w>>)[2] = v
      /\ (<<u>> \o <<v, w>>)[3] = w
  BY <1>1, ConcatProperties
<1>3. \A k \in 1..3 : <<u, v, w>>[k] = (<<u>> \o <<v, w>>)[k]
  BY <1>2
<1> QED BY <1>1, <1>2, <1>3, SeqEqual

\* An instruction of a body.
Inner(op, i) == OnGlobal(op, i, FALSE)

LEMMA InnerInstr ==
  ASSUME NEW sigs, SigsOk(sigs), NEW i \in DOMAIN sigs,
         NEW op \in {"GET_GLOBAL", "SET_GLOBAL"}, op = "SET_GLOBAL" => ~sigs[i].is_const
  PROVE  /\ Inner(op, i).op = op /\ Inner(op, i).index = i
         /\ InstrOk(Inner(op, i), sigs) /\ ~Uses(Inner(op, i))
<1> DEFINE no == FALSE
           x == OnGlobal(op, i, no)
<1>1. no \in BOOLEAN /\ op \in GlobalOps /\ op # "DEFINE_GLOBAL"
  BY DEF GlobalOps
<1>2. no = FALSE
  OBVIOUS
<1>3. Inner(op, i) = x
  BY DEF Inner
<1> HIDE DEF no
<1> HIDE DEF x
<1>4. x.op = op /\ x.index = i /\ x.top = no /\ InstrOk(x, sigs)
  BY <1>1, GlobalInstr DEF x
<1>5. ~Uses(x)
  BY <1>2, <1>4 DEF Uses
<1> QED BY <1>3, <1>4, <1>5

LEMMA QuietOne ==
  ASSUME NEW x, ~Uses(x), x.op # "DEFINE_GLOBAL"
  PROVE  Quiet(<<x>>)
<1>1. \A k \in DOMAIN <<x>> : <<x>>[k] = x
  OBVIOUS
<1> QED BY <1>1 DEF Quiet

LEMMA QuietJoined ==
  ASSUME NEW c \in Seq(Instructions), NEW d \in Seq(Instructions), Quiet(c), Quiet(d)
  PROVE  Quiet(c \o d)
<1> SUFFICES ASSUME NEW k \in DOMAIN (c \o d)
             PROVE  ~Uses((c \o d)[k]) /\ (c \o d)[k].op # "DEFINE_GLOBAL"
  BY DEF Quiet
<1>1. CASE k \in DOMAIN c
  <2>1. (c \o d)[k] = c[k]
    BY <1>1, Pieces
  <2> QED BY <1>1, <2>1 DEF Quiet
<1>2. CASE k > Len(c) /\ k - Len(c) \in DOMAIN d
  <2>1. Len(c) + (k - Len(c)) = k
    BY <1>2, Pieces
  <2>2. (c \o d)[k] = d[k - Len(c)]
    BY <1>2, <2>1, Pieces
  <2> QED BY <1>2, <2>2 DEF Quiet
<1> QED BY <1>1, <1>2, Pieces

\* A piece of code that is of no concern to globals and leads from a to b.
Piece(a, c, b, sigs) ==
  c \in Seq(Instructions) /\ CodeOk(c, sigs) /\ Quiet(c) /\ Flows(a, c, b, sigs)

LEMMA OnePiece ==
  ASSUME NEW x, NEW sigs, InstrOk(x, sigs), ~Uses(x), x.op # "DEFINE_GLOBAL",
         NEW a \in Stacks, NEW b \in Stacks, Effect(a, x, b, sigs)
  PROVE  Piece(a, <<x>>, b, sigs)
BY CodeOfOne, QuietOne, FlowsOne DEF Piece

LEMMA PiecesJoined ==
  ASSUME NEW sigs, NEW a, NEW m, NEW b, NEW c, NEW d,
         Piece(a, c, m, sigs), Piece(m, d, b, sigs)
  PROVE  Piece(a, c \o d, b, sigs)
<1>1. c \in Seq(Instructions) /\ d \in Seq(Instructions)
  BY DEF Piece
<1>2. c \o d \in Seq(Instructions)
  BY <1>1, ConcatProperties
<1> QED BY <1>1, <1>2, CodeJoined, QuietJoined, FlowsJoined DEF Piece

LEMMA PiecePops ==
  ASSUME NEW sigs, NEW n \in Nat, n >= 1, NEW t \in Kinds
  PROVE  Piece(Stack(n + 1, {t}), <<Instr("POP")>>, Stack(n, Kinds), sigs)
<1> DEFINE x == Instr("POP")
<1>1. x.op = "POP" /\ InstrOk(x, sigs)
  BY PopInstr
<1> HIDE DEF x
<1>2. Stack(n + 1, {t}) \in Stacks /\ Stack(n, Kinds) \in Stacks
  BY StackIsOne
<1>3. Effect(Stack(n + 1, {t}), x, Stack(n, Kinds), sigs)
  <2>1. Stack(n + 1, {t}).size = n + 1 /\ (n + 1) - 1 = n
    BY DEF Stack
  <2> QED BY <1>1, <2>1 DEF Effect
<1>4. ~Uses(x)
  BY <1>1 DEF Uses
<1>5. Piece(Stack(n + 1, {t}), <<x>>, Stack(n, Kinds), sigs)
  BY <1>1, <1>2, <1>3, <1>4, OnePiece
<1> QED BY <1>5 DEF x

LEMMA BodyFits ==
  ASSUME NEW sigs, SigsOk(sigs), NEW v, ValueOk(v, sigs), NEW n \in Nat, n >= 1
  PROVE  Piece(Stack(n, Kinds), BodyCode(v), Stack(n, Kinds), sigs)
<1> DEFINE s == Stack(n, Kinds)
           i == v.index
<1>1. s \in Stacks /\ s.size = n
  <2>1. s \in Stacks
    BY StackIsOne
  <2> QED BY <2>1 DEF Stack
<1>2. CASE v.does = "get"
  <2>1. i \in DOMAIN sigs
    BY <1>2 DEF ValueOk
  <2> DEFINE x == Inner("GET_GLOBAL", i)
             t == sigs[i].types
  <2>2. x.op = "GET_GLOBAL" /\ x.index = i /\ InstrOk(x, sigs) /\ ~Uses(x)
    <3> DEFINE op == "GET_GLOBAL"
    <3>1. op \in {"GET_GLOBAL", "SET_GLOBAL"} /\ (op = "SET_GLOBAL" => ~sigs[i].is_const)
      OBVIOUS
    <3> HIDE DEF op, i
    <3>2. /\ Inner(op, i).op = op /\ Inner(op, i).index = i
          /\ InstrOk(Inner(op, i), sigs) /\ ~Uses(Inner(op, i))
      BY <2>1, <3>1, InnerInstr
    <3> QED BY <3>2 DEF op
  <2>3. t \in Kinds
    BY <2>1, TypesAreKinds
  <2>4. BodyCode(v) = <<x, Instr("POP")>>
    BY <1>2 DEF BodyCode, Inner
  <2> HIDE DEF x, t
  <2>5. Piece(s, <<x>>, Stack(n + 1, {t}), sigs)
    <3>1. Stack(n + 1, {t}) \in Stacks
      BY <2>3, StackIsOne
    <3>2. Effect(s, x, Stack(n + 1, {t}), sigs)
      BY <1>1, <2>2 DEF Effect, t
    <3> QED BY <1>1, <2>2, <3>1, <3>2, OnePiece
  <2>6. Piece(Stack(n + 1, {t}), <<Instr("POP")>>, s, sigs)
    BY <2>3, PiecePops
  <2>7. <<x, Instr("POP")>> = <<x>> \o <<Instr("POP")>>
    <3>1. x \in Instructions
      BY <2>2 DEF InstrOk
    <3> QED BY <3>1, PopInstr, TwoIsJoined
  <2> HIDE DEF s
  <2>8. Piece(s, <<x, Instr("POP")>>, s, sigs)
    BY <2>5, <2>6, <2>7, PiecesJoined
  <2> QED BY <2>4, <2>8 DEF s
<1>3. CASE v.does = "set"
  <2>1. i \in DOMAIN sigs /\ ~sigs[i].is_const /\ v.stores = sigs[i].types
    BY <1>3 DEF ValueOk
  <2> DEFINE x == Inner("SET_GLOBAL", i)
             t == sigs[i].types
             u == Push(Plain(v.stores))
             w == Instr("POP")
             p == Stack(n + 1, {t})
  <2>2. x.op = "SET_GLOBAL" /\ x.index = i /\ InstrOk(x, sigs) /\ ~Uses(x)
    <3> DEFINE op == "SET_GLOBAL"
    <3>1. op \in {"GET_GLOBAL", "SET_GLOBAL"} /\ (op = "SET_GLOBAL" => ~sigs[i].is_const)
      BY <2>1
    <3> HIDE DEF op, i
    <3>2. /\ Inner(op, i).op = op /\ Inner(op, i).index = i
          /\ InstrOk(Inner(op, i), sigs) /\ ~Uses(Inner(op, i))
      BY <2>1, <3>1, InnerInstr
    <3> QED BY <3>2 DEF op
  <2>3. t \in Kinds /\ t # "none"
    BY <2>1, TypesAreKinds
  <2>4. BodyCode(v) = <<u, x, w>>
    BY <1>3 DEF BodyCode, Inner
  <2>5. u.op = "CONSTANT" /\ u.value.type = t /\ InstrOk(u, sigs) /\ ~Uses(u)
    <3>1. ValueOk(Plain(t), sigs) /\ Plain(t).type = t
      BY <2>3, PlainIsValue
    <3>2. u = Push(Plain(t))
      BY <2>1
    <3> HIDE DEF u, t
    <3> QED BY <3>1, <3>2, PushInstr
  <2> HIDE DEF x, t, u
  <2>6. p \in Stacks /\ p.size = n + 1 /\ p.top = {t}
    <3>1. p \in Stacks
      BY <2>3, StackIsOne
    <3> QED BY <3>1 DEF Stack
  <2>7. Piece(s, <<u>>, p, sigs)
    <3>1. Effect(s, u, p, sigs)
      BY <1>1, <2>5 DEF Effect
    <3> QED BY <1>1, <2>5, <2>6, <3>1, OnePiece
  <2>8. Piece(p, <<w>>, s, sigs)
    BY <2>3, PiecePops
  <2> HIDE DEF p, s
  <2>9. Piece(p, <<x>>, p, sigs)
    <3>1. Effect(p, x, p, sigs)
      BY <2>2, <2>6 DEF Effect, t
    <3> QED BY <2>2, <2>6, <3>1, OnePiece
  <2>10. x \in Instructions /\ u \in Instructions /\ w \in Instructions
    BY <2>2, <2>5, PopInstr DEF InstrOk
  <2> HIDE DEF w
  <2>11. <<u, x, w>> = <<u>> \o <<x, w>> /\ <<x, w>> = <<x>> \o <<w>>
    BY <2>10, TwoIsJoined, ThreeIsJoined
  <2>12. Piece(p, <<x, w>>, s, sigs)
    BY <2>8, <2>9, <2>11, PiecesJoined
  <2>13. Piece(s, <<u, x, w>>, s, sigs)
    BY <2>7, <2>11, <2>12, PiecesJoined
  <2> QED BY <2>4, <2>13 DEF s
<1>4. CASE v.does \notin {"get", "set"}
  <2>1. BodyCode(v) = <<>>
    BY <1>4 DEF BodyCode
  <2>2. Flows(s, <<>>, s, sigs)
    BY <1>1, FlowsNothing
  <2> QED BY <2>1, <2>2, CodeOfNone DEF Piece, Quiet
<1> QED BY <1>2, <1>3, <1>4

LEMMA BlockStatementKeeps == IInv /\ block_statement => IInv'
<1> SUFFICES ASSUME IInv, block_statement PROVE IInv'
  OBVIOUS
<1>1. PICK body \in Bodies :
        /\ Statement /\ UNCHANGED globals
        /\ had_error' = (had_error \/ ~Accepted(body, signatures))
        /\ Emit(BodyCode(FunctionOf(body, signatures)))
  BY Zenon DEF block_statement
<1> DEFINE v == FunctionOf(body, signatures)
           ins == BodyCode(v)
<1>2. SigsOk(signatures) /\ had_error \in BOOLEAN
  BY DEF IInv, TablesInv, PhaseInv
<1>3. had_error' \in BOOLEAN /\ (had_error => had_error')
  BY <1>1, <1>2
<1>4. code' = IF had_error' THEN <<>> ELSE code \o ins
  BY <1>1 DEF Emit
<1>5. ASSUME ~had_error' PROVE Block(ins, signatures, signatures)
  <2>1. Accepted(body, signatures)
    BY <1>1, <1>5
  <2>2. ValueOk(v, signatures)
    BY <1>2, <2>1, FunctionFits
  <2> HIDE DEF v
  <2>3. Piece(Base, ins, Base, signatures)
    BY <1>2, <2>2, BodyFits DEF Base
  <2> HIDE DEF ins
  <2>4. Plainly(ins, signatures)
    BY <2>3 DEF Piece, Quiet, Plainly
  <2> QED BY <2>3, <2>4, PlainBlock DEF Piece
<1> HIDE DEF ins
<1> QED BY <1>1, <1>3, <1>4, <1>5, SameTables, StatementKeeps

LEMMA AnyTop ==
  ASSUME NEW sigs, StackOk(stack, sigs), NEW n \in Nat, Len(stack) = n
  PROVE  Fits(stack, Stack(n, Kinds))
<1>1. stack \in Seq(Values)
  BY DEF StackOk
<1>2. stack # <<>> => n \in DOMAIN stack
  BY <1>1
<1> QED BY <1>2 DEF StackOk, Fits, Stack, ValueOk, Values

LEMMA CallValueKeeps == IInv /\ call_value => IInv'
<1> SUFFICES ASSUME IInv, call_value PROVE IInv'
  OBVIOUS
<1> DEFINE v == Peek
           rest == Tail(code)
           ops == {"CALL"}
<1>1. Dispatch(ops)
  BY DEF call_value
<1>2. phase = "running" /\ Instr0.op = "CALL"
  BY <1>1 DEF Dispatch
<1>3. /\ StackOk(stack, signatures) /\ SigsOk(signatures)
      /\ rest \in Seq(Instructions) /\ CodeOk(rest, signatures)
  BY <1>2, AtInstr
<1>4. PICK a \in Stacks, m \in Stacks :
        /\ a.size >= 1 /\ Fits(stack, a)
        /\ Effect(a, Instr0, m, signatures) /\ Flows(m, rest, Ended, signatures)
  BY <1>2, AtInstr
<1>5. a.size \in Nat /\ Len(stack) = a.size /\ a.size >= 2 /\ m = Stack(a.size, {"Nil"})
      /\ m.size = a.size
  BY <1>2, <1>4 DEF Fits, Stacks, Effect, Stack
<1>6. ValueOk(v, signatures)
  BY <1>3, <1>4, PeekOk
<1>7. values' = values => ValuesOk(values', signatures)
                          /\ Follows(values, values', Instr0, orphans)
  BY <1>2, ValuesSame
<1>8. CASE v.type # "Fn"
  <2>1. runtime_error /\ surprised' = surprised
    BY <1>8 DEF call_value
  <2>2. ~surprised
    BY DEF IInv, PhaseInv
  <2> QED BY <1>1, <2>1, <2>2, ErrorKeeps
<1>9. CASE v.type = "Fn" /\ v.does = "native"
  <2> DEFINE less == Dropped(1)
             stk == Append(less, Nil)
  <2>1. values' = values /\ Continue(stk)
    BY <1>9 DEF call_value
  <2>2. StackOk(less, signatures) /\ Len(less) = a.size - 1
    BY <1>3, <1>5, DroppedSome DEF Dropped
  <2> HIDE DEF less
  <2> DEFINE n == a.size - 1
  <2>3. n \in Nat /\ n + 1 = a.size /\ Len(less) = n
    BY <1>5, <2>2
  <2>4. ValueOk(Nil, signatures) /\ Nil.type = "Nil"
    BY SpecialValues
  <2> HIDE DEF n
  <2>5. StackOk(stk, signatures) /\ Fits(stk, Stack(n + 1, {Nil.type}))
    BY <2>2, <2>3, <2>4, Pushed
  <2>6. Fits(stk, m)
    BY <1>5, <2>3, <2>4, <2>5
  <2> HIDE DEF stk
  <2> QED BY <1>1, <1>2, <1>4, <1>5, <1>7, <2>1, <2>5, <2>6, ContinueKeeps
<1>10. CASE v.type = "Fn" /\ v.does # "native"
  <2> DEFINE e == <<Instr("NIL"), Instr("RETURN")>>
             body == BodyCode(v)
             b == Stack(a.size, Kinds)
             pre == body \o e
  <2>1. /\ code' = body \o e \o rest
        /\ UNCHANGED <<values, stack, phase, outcome, orphans, surprised>>
    BY <1>10 DEF call_value
  <2>2. b \in Stacks /\ b.size = a.size /\ Fits(stack, b)
    <3>1. b \in Stacks
      BY <1>5, StackIsOne
    <3>2. b.size = a.size
      BY DEF Stack
    <3> QED BY <1>3, <1>5, <3>1, <3>2, AnyTop
  <2>3. Piece(b, body, b, signatures)
    BY <1>3, <1>5, <1>6, BodyFits
  <2> HIDE DEF b, v
  <2>4. Piece(b, e, m, signatures)
    <3>1. /\ CodeOk(e, signatures) /\ e \in Seq(Instructions) /\ Quiet(e)
          /\ Flows(b, e, IF b.size = 1 THEN Ended ELSE Stack(b.size, {"Nil"}), signatures)
      BY <1>5, <2>2, Ending
    <3>2. m = IF b.size = 1 THEN Ended ELSE Stack(b.size, {"Nil"})
      BY <1>5, <2>2
    <3> HIDE DEF e
    <3> QED BY <3>1, <3>2 DEF Piece
  <2> HIDE DEF e, body
  <2>5. Piece(b, pre, m, signatures)
    BY <2>3, <2>4, PiecesJoined
  <2>6. code' = pre \o rest
    BY <2>1
  <2> HIDE DEF pre
  <2>7. pre \in Seq(Instructions) /\ CodeOk(pre, signatures) /\ Quiet(pre)
    BY <2>5 DEF Piece
  <2>8. Flows(b, pre \o rest, Ended, signatures)
    BY <1>3, <1>4, <2>5, <2>7, FlowsJoined DEF Piece
  <2>9. /\ StackOk(stack', signatures) /\ Fits(stack', b) /\ b.size >= 1
        /\ UNCHANGED <<phase, outcome, orphans, surprised>>
        /\ ValuesOk(values', signatures) /\ Follows(values, values', Instr0, orphans)
    BY <1>3, <1>5, <1>7, <2>1, <2>2
  <2> HIDE DEF ops
  <2> QED BY <1>1, <1>2, <2>2, <2>6, <2>7, <2>8, <2>9, StepKeeps
<1> QED BY <1>8, <1>9, <1>10

\* The code of a line ends where nothing is left on the stack, and not before.
LEMMA EndsEmpty ==
  ASSUME NEW sigs, NEW m \in Stacks, NEW c \in Seq(Instructions), Flows(m, c, Ended, sigs)
  PROVE  c = <<>> <=> m.size = 0
<1>1. ASSUME c = <<>> PROVE m.size = 0
  <2>1. PICK h : Flow(h, m, c, Ended, sigs)
    BY DEF Flows
  <2>2. Len(c) = 0
    BY <1>1
  <2>3. m = Ended
    BY <2>1, <2>2 DEF Flow
  <2> QED BY <2>3 DEF Ended, Stack
<1>2. ASSUME c # <<>> PROVE m.size # 0
  <2>1. PICK n \in Stacks : Effect(m, Head(c), n, sigs)
    BY <1>2, FlowsHead
  <2> QED BY <2>1 DEF Effect
<1> QED BY <1>1, <1>2

LEMMA LastReturnKeeps ==
  ASSUME IInv, return, Tail(code) = <<>>, Len(stack) = 2
  PROVE  IInv'
<1>1. /\ phase = "running" /\ phase' = "prompt" /\ mode' = mode /\ signatures' = signatures
      /\ had_error' = had_error /\ lines' = lines /\ outcome' = "ok"
      /\ orphans' = orphans /\ values' = values /\ surprised' = surprised
      /\ assert_stack_effect /\ code' = <<>> /\ stack' = Dropped(2) /\ Instr0.op = "RETURN"
  BY DEF return, Dispatch
<1>2. /\ SigsOk(signatures) /\ ValuesOk(values, signatures) /\ StackOk(stack, signatures)
      /\ code \in Seq(Instructions) /\ code # <<>> /\ CodeOk(code, signatures)
      /\ DOMAIN values = DOMAIN signatures
  BY <1>1, AtInstr
<1>3. stack' = <<>>
  <2>1. StackOk(Dropped(2), signatures) /\ Len(Dropped(2)) = 0
    BY <1>2, DroppedSome DEF Dropped
  <2> QED BY <1>1, <2>1, EmptySeq DEF StackOk
<1>4. Covered(signatures, <<>>, values, orphans)
  <2> DEFINE pre == <<>>
             vals == values
  <2>1. pre \in Seq(Instructions) /\ Quiet(pre) /\ pre \o Tail(code) = <<>>
    BY DEF Quiet
  <2>2. Follows(values, vals, Instr0, orphans)
    BY <1>1 DEF Follows, Defines
  <2>3. Covered(signatures, code, values, orphans)
    BY <1>1 DEF IInv, OrderInv
  <2> HIDE DEF pre, vals
  <2>4. Covered(signatures, pre \o Tail(code), vals, orphans)
    BY <1>2, <2>1, <2>2, <2>3, OrderAfter DEF Instr0
  <2> QED BY <2>1, <2>4 DEF vals
<1>5. TablesInv'
  BY <1>1 DEF IInv, TablesInv
<1>6. PhaseInv'
  BY <1>1, <1>3 DEF IInv, PhaseInv
<1>7. CodeInv'
  <2>1. code' = <<>> /\ signatures' = signatures
    BY <1>1
  <2> QED BY <1>3, <2>1, CodeOfNone DEF CodeInv, StackOk
<1>8. FlowInv'
  BY <1>1 DEF FlowInv
<1>9. OrderInv'
  BY <1>1, <1>4 DEF OrderInv, Ordered
<1>10. ScriptInv'
  <2>1. Script => /\ lines <= 1 /\ lines # 0 /\ orphans = {}
                  /\ \A i \in DOMAIN signatures : signatures[i].is_defined
    BY <1>1 DEF IInv, ScriptInv
  <2>2. Script => \A i \in DOMAIN values : values[i] # None
    BY <1>2, <1>4, <2>1 DEF Covered, Settled
  <2>3. Once(<<>>, values)
    BY DEF Once
  <2> QED BY <1>1, <2>1, <2>2, <2>3 DEF ScriptInv, Script
<1>11. PreviousInv'
  <2>1. /\ previous' \in [op : Ops \cup {"END"}, size : Nat]
        /\ ~DebugBuild => previous'.op = "END"
        /\ DebugBuild => previous'.op = Instr0.op
    BY <1>1, PreviousKept
  <2> QED BY <1>1, <2>1 DEF PreviousInv, StackEffect
<1> QED BY <1>5, <1>6, <1>7, <1>8, <1>9, <1>10, <1>11 DEF IInv

LEMMA ReturnKeeps == IInv /\ return => IInv'
<1> SUFFICES ASSUME IInv, return PROVE IInv'
  OBVIOUS
<1> DEFINE v == Peek
           rest == Tail(code)
           less == Dropped(2)
           stk == Append(less, v)
           ops == {"RETURN"}
<1>1. Dispatch(ops) /\ values' = values
  BY DEF return
<1>2. phase = "running" /\ Instr0.op = "RETURN"
  BY <1>1 DEF Dispatch
<1>3. /\ StackOk(stack, signatures) /\ SigsOk(signatures)
      /\ rest \in Seq(Instructions) /\ CodeOk(rest, signatures)
  BY <1>2, AtInstr
<1>4. PICK a \in Stacks, m \in Stacks :
        /\ a.size >= 1 /\ Fits(stack, a)
        /\ Effect(a, Instr0, m, signatures) /\ Flows(m, rest, Ended, signatures)
  BY <1>2, AtInstr
<1>5. /\ a.size \in Nat /\ Len(stack) = a.size /\ a.size >= 2 /\ a.top = {"Nil"}
      /\ m = IF a.size = 2 THEN Ended ELSE Stack(a.size - 1, {"Nil"})
  BY <1>2, <1>4 DEF Fits, Stacks, Effect
<1>6. m.size = a.size - (IF a.size = 2 THEN 2 ELSE 1)
  BY <1>5 DEF Stack, Ended
<1>7. rest = <<>> <=> a.size = 2
  <2>1. m.size = 0 <=> a.size = 2
    BY <1>5, <1>6
  <2> HIDE DEF rest
  <2> QED BY <1>3, <1>4, <2>1, EndsEmpty
<1>8. CASE rest = <<>>
  BY <1>5, <1>7, <1>8, LastReturnKeeps
<1>9. CASE rest # <<>>
  <2>1. Continue(stk)
    BY <1>9 DEF return, Continue
  <2>2. ValueOk(v, signatures) /\ (OneType => v.type \in {"Nil"})
    BY <1>3, <1>4, <1>5, PeekOk
  <2>3. StackOk(less, signatures) /\ Len(less) = a.size - 2
    BY <1>3, <1>5, DroppedSome DEF Dropped
  <2> HIDE DEF v, less
  <2> DEFINE n == a.size - 2
  <2>4. n \in Nat /\ n + 1 = a.size - 1 /\ Len(less) = n
    BY <1>5, <2>3
  <2> HIDE DEF n
  <2>5. StackOk(stk, signatures) /\ Fits(stk, Stack(n + 1, {v.type}))
    BY <2>2, <2>3, <2>4, Pushed
  <2>6. m = Stack(n + 1, {"Nil"}) /\ m.size >= 1
    BY <1>5, <1>6, <1>7, <1>9, <2>4
  <2> HIDE DEF stk, ops
  <2>7. Fits(stk, m)
    BY <2>2, <2>5, <2>6 DEF Fits, Stack
  <2>8. ValuesOk(values', signatures) /\ Follows(values, values', Instr0, orphans)
    BY <1>1, <1>2, ValuesSame
  <2> QED BY <1>1, <1>2, <1>4, <2>1, <2>5, <2>6, <2>7, <2>8, ContinueKeeps
<1> QED BY <1>8, <1>9

------------------------------------------------------------------------------
(***************************************************************************)
(* Before the first line: the functions the machine comes with.            *)
(***************************************************************************)
NativeSignature(name) ==
  [name |-> name, is_defined |-> TRUE, is_const |-> TRUE, types |-> "Fn"]
NativeSignatures == {NativeSignature(name) : name \in Natives}

LEMMA NativeSignaturesAre ==
  {Defined(<<Signature(n, TRUE, "Fn")>>, 1)[1] : n \in Natives} = NativeSignatures
<1> SUFFICES ASSUME NEW n \in Natives
             PROVE  Defined(<<Signature(n, TRUE, "Fn")>>, 1)[1] = NativeSignature(n)
  BY DEF NativeSignatures
<1> DEFINE yes == TRUE
           no == FALSE
           s == Signature(n, yes, "Fn")
<1>1. s = [name |-> n, is_defined |-> no, is_const |-> yes, types |-> "Fn"]
  BY DEF Signature
<1>2. NativeSignature(n) = [name |-> n, is_defined |-> yes, is_const |-> yes, types |-> "Fn"]
  BY DEF NativeSignature
<1>3. Defined(<<s>>, 1) = [<<s>> EXCEPT ![1].is_defined = yes]
  BY DEF Defined
<1> HIDE DEF s, yes, no
<1>4. [s EXCEPT !.is_defined = yes] = NativeSignature(n)
  BY <1>1, <1>2
<1>5. Defined(<<s>>, 1)[1] = [s EXCEPT !.is_defined = yes]
  <2>1. 1 \in DOMAIN <<s>> /\ <<s>>[1] = s
    OBVIOUS
  <2> QED BY <1>3, <2>1
<1> QED BY <1>4, <1>5 DEF s, yes

LEMMA NativesInOrder ==
  LET sigs == SetToSeq(NativeSignatures)
  IN  /\ SigsOk(sigs)
      /\ \A i \in DOMAIN sigs : sigs[i].is_defined /\ sigs[i].types = "Fn"
<1> DEFINE T == NativeSignatures
           f == [n \in Natives |-> NativeSignature(n)]
           sigs == SetToSeq(T)
<1>1. IsFiniteSet(Natives)
  BY SessionAssumption
<1>2. f \in Surjection(Natives, T)
  <2>1. f \in [Natives -> T]
    BY DEF NativeSignatures
  <2>2. \A t \in T : \E n \in Natives : f[n] = t
    BY DEF NativeSignatures
  <2> HIDE DEF f, T
  <2> QED BY <2>1, <2>2 DEF Surjection
<1> HIDE DEF f
<1>3. IsFiniteSet(T)
  BY <1>1, <1>2, FS_Surjection
<1>4. \A s \in T : /\ s \in Signatures /\ s.types \in TypesOf[s.name]
                   /\ s.is_defined /\ s.types = "Fn"
  <2> SUFFICES ASSUME NEW n \in Natives
               PROVE  LET s == NativeSignature(n)
                      IN  /\ s \in Signatures /\ s.types \in TypesOf[s.name]
                          /\ s.is_defined /\ s.types = "Fn"
    BY DEF NativeSignatures
  <2>1. n \in Names /\ "Fn" \in TypesOf[n]
    BY SessionAssumption
  <2>2. "Fn" \in Types
    BY <2>1 DEF Types
  <2> QED BY <2>1, <2>2 DEF NativeSignature, Signatures
<1>5. \A s, t \in T : s.name = t.name => s = t
  <2> SUFFICES ASSUME NEW m \in Natives, NEW k \in Natives,
                      NativeSignature(m).name = NativeSignature(k).name
               PROVE  m = k
    BY DEF NativeSignatures
  <2> QED BY DEF NativeSignature
<1> HIDE DEF T
<1> DEFINE n == Cardinality(T)
<1>6. n \in Nat /\ ExistsBijection(1..n, T)
  BY <1>3, FS_CardinalityType
<1>7. sigs \in [1..n -> T] /\ IsInjective(sigs)
  <2>1. \E g : g \in [1..n -> T] /\ IsInjective(g)
    BY <1>6, Zenon DEF ExistsBijection, Bijection, Injection
  <2>2. sigs = CHOOSE g \in [1..n -> T] : IsInjective(g)
    BY DEF SetToSeq
  <2> HIDE DEF sigs, n
  <2> QED BY <2>1, <2>2, Zenon
<1> HIDE DEF sigs, n
<1>8. sigs \in Seq(T) /\ DOMAIN sigs = 1..n
  BY <1>6, <1>7
<1>9. sigs \in Seq(Signatures)
  BY <1>4, <1>6, <1>7
<1>10. \A i, j \in DOMAIN sigs : sigs[i].name = sigs[j].name => i = j
  <2> SUFFICES ASSUME NEW i \in DOMAIN sigs, NEW j \in DOMAIN sigs,
                      sigs[i].name = sigs[j].name
               PROVE  i = j
    OBVIOUS
  <2>1. sigs[i] \in T /\ sigs[j] \in T
    BY <1>7, <1>8
  <2>2. sigs[i] = sigs[j]
    BY <1>5, <2>1
  <2> QED BY <1>7, <2>2 DEF IsInjective
<1>11. \A i \in DOMAIN sigs : /\ sigs[i].types \in TypesOf[sigs[i].name]
                              /\ sigs[i].is_defined /\ sigs[i].types = "Fn"
  BY <1>4, <1>7
<1> QED BY <1>9, <1>10, <1>11 DEF SigsOk, sigs, T

LEMMA InitHolds == Init => IInv
<1> SUFFICES ASSUME Init PROVE IInv
  OBVIOUS
<1>1. /\ mode \in {"prompt", "script"} /\ signatures = SetToSeq(NativeSignatures)
      /\ values = [i \in DOMAIN signatures |-> Native]
      /\ phase = "prompt" /\ had_error = FALSE /\ code = <<>> /\ stack = <<>>
      /\ previous = [op |-> "END", size |-> 0]
      /\ outcome = "none" /\ orphans = {} /\ surprised = FALSE /\ lines = 0
  BY NativeSignaturesAre DEF Init
<1>2. SigsOk(signatures)
  BY <1>1, NativesInOrder
<1>3. \A i \in DOMAIN signatures : signatures[i].is_defined /\ signatures[i].types = "Fn"
  BY <1>1, NativesInOrder
<1>4. DOMAIN signatures = 1..Len(signatures) /\ Len(signatures) \in Nat
  BY <1>2 DEF SigsOk
<1>5. /\ ValueOk(Native, signatures) /\ Native.type = "Fn" /\ None.type = "none"
      /\ Native \in Values
  BY SpecialValues DEF ValueOk
<1>6. DOMAIN values = DOMAIN signatures /\ \A i \in DOMAIN values : values[i] = Native
  BY <1>1
<1>7. ValuesOk(values, signatures)
  <2>1. values \in Seq(Values) /\ Len(values) = Len(signatures)
    BY <1>1, <1>4, <1>5
  <2> QED BY <1>3, <1>5, <1>6, <2>1 DEF ValuesOk
<1>8. Native # None
  BY <1>5
<1>9. TablesInv
  BY <1>1, <1>2, <1>7 DEF TablesInv
<1>10. PhaseInv
  BY <1>1 DEF PhaseInv
<1>11. CodeInv
  BY <1>1, CodeOfNone DEF CodeInv, StackOk
<1>12. FlowInv
  BY <1>1 DEF FlowInv
<1>13. OrderInv
  <2>1. Covered(signatures, <<>>, values, {})
    BY <1>6, <1>8 DEF Covered, Settled
  <2> QED BY <1>1, <2>1 DEF OrderInv, Ordered
<1>14. ScriptInv
  BY <1>1 DEF ScriptInv, Once
<1>15. PreviousInv
  <2>1. previous \in [op : Ops \cup {"END"}, size : Nat] /\ previous.op = "END"
    BY <1>1
  <2> QED BY <1>1, <2>1 DEF PreviousInv, StackEffect
<1> QED BY <1>9, <1>10, <1>11, <1>12, <1>13, <1>14, <1>15 DEF IInv

------------------------------------------------------------------------------
LEMMA NextPreserves == IInv /\ [Next]_vars => IInv'
<1> SUFFICES ASSUME IInv, [Next]_vars PROVE IInv'
  OBVIOUS
<1>1. CASE Line
  BY <1>1, LineKeeps
<1>2. CASE var_declaration
  BY <1>2, VarDeclarationKeeps
<1>3. CASE fn_declaration
  BY <1>3, FnDeclarationKeeps
<1>4. CASE assignment
  BY <1>4, AssignmentKeeps
<1>5. CASE expression_statement
  BY <1>5, ExpressionStatementKeeps
<1>6. CASE syntax_error
  BY <1>6, SyntaxErrorKeeps
<1>7. CASE compile
  BY <1>7, CompileKeeps
<1>8. CASE push
  BY <1>8, PushKeeps
<1>9. CASE pop
  BY <1>9, PopKeeps
<1>10. CASE do_get_global
  BY <1>10, GetGlobalKeeps
<1>11. CASE do_set_global
  BY <1>11, SetGlobalKeeps
<1>12. CASE do_define_global
  BY <1>12, DefineGlobalKeeps
<1>13. CASE call_value
  BY <1>13, CallValueKeeps
<1>14. CASE return
  BY <1>14, ReturnKeeps
<1>15. CASE block_statement
  BY <1>15, BlockStatementKeeps
<1>16. CASE UNCHANGED vars
  BY <1>16 DEF vars, IInv, TablesInv, PhaseInv, CodeInv, FlowInv, OrderInv, ScriptInv,
               PreviousInv, StackEffect, AsExpected, Script
<1> QED BY <1>1, <1>2, <1>3, <1>4, <1>5, <1>6, <1>7, <1>8, <1>9, <1>10, <1>11, <1>12,
           <1>13, <1>14, <1>15, <1>16 DEF Next

LEMMA Invariance == Spec => []IInv
BY InitHolds, NextPreserves, PTL DEF Spec

------------------------------------------------------------------------------
(***************************************************************************)
(* The theorems.                                                           *)
(***************************************************************************)
LEMMA CountedAsInvariant == IInv => StackAsCounted
BY DEF IInv, PhaseInv, PreviousInv, StackAsCounted, EmptyBetweenLines

\* The assertions of interpret() and assert_stack_effect(): for any names, types,
\* lines and functions, and whatever lines fail, a line starts with an empty stack,
\* and each instruction leaves as many values as stack_effect() says; only at the
\* first instruction of a line the debug build may compare with one that failed.
THEOREM StackCounted == Spec => []StackAsCounted
BY Invariance, CountedAsInvariant, PTL

LEMMA HeadDefines ==
  ASSUME IInv, phase = "running", Instr0.op = "DEFINE_GLOBAL", Script
  PROVE  values[Instr0.index] = None
<1>1. code \in Seq(Instructions) /\ code # <<>>
  BY AtInstr
<1>2. 1 \in DOMAIN code /\ Instr0 = code[1]
  <2>1. 1 \in DOMAIN code /\ Head(code) = code[1]
    BY <1>1, CodeAfter
  <2> QED BY <2>1 DEF Instr0
<1>3. Once(code, values)
  BY DEF IInv, ScriptInv
<1> QED BY <1>2, <1>3 DEF Once

LEMMA TablesAsDeclared ==
  IInv => TypeOK /\ TopLevelDefined /\ NothingLeftBehind /\ ScriptComplete /\ NeverRedefined
<1> SUFFICES ASSUME IInv
             PROVE  TypeOK /\ TopLevelDefined /\ NothingLeftBehind /\ ScriptComplete
                    /\ NeverRedefined
  OBVIOUS
<1>1. SigsOk(signatures) /\ ValuesOk(values, signatures) /\ orphans \subseteq DOMAIN values
  BY DEF IInv, TablesInv
<1>2. TypeOK
  <2>1. \A i \in DOMAIN signatures : signatures[i].name \in Names
    BY <1>1, TypesAreKinds
  <2> QED BY <1>1, <2>1 DEF TypeOK, IInv, PhaseInv, SigsOk, ValuesOk
<1>3. TopLevelDefined
  BY DEF IInv, PhaseInv, TopLevelDefined
<1>4. NothingLeftBehind
  <2> SUFFICES ASSUME phase = "prompt", NEW i \in LeftBehind PROVE i \in orphans
    BY DEF NothingLeftBehind
  <2>1. code = <<>> /\ Covered(signatures, code, values, orphans)
    BY DEF IInv, PhaseInv, OrderInv
  <2> QED BY <2>1 DEF LeftBehind, Covered, Settled
<1>5. ScriptComplete
  BY DEF IInv, ScriptInv, ScriptComplete
<1>6. NeverRedefined
  BY HeadDefines DEF NeverRedefined
<1> QED BY <1>2, <1>3, <1>4, <1>5, <1>6

\* The table of globals the compiler keeps is true of the values the machine keeps,
\* from line to line and whatever lines fail: one index for a name, a value for what
\* the top level reads or assigns to, nothing defined and left without a value but
\* by a line that failed, all defined when a script ends, and none of them twice.
THEOREM TablesAgree ==
  Spec => [](TypeOK /\ TopLevelDefined /\ NothingLeftBehind /\ ScriptComplete
             /\ NeverRedefined)
BY Invariance, TablesAsDeclared, PTL

\* Where a name is only ever declared with one type, its global also holds values of
\* that type; declare_global_variable() compares no more than constness, so this
\* has to be assumed of the lines.
THEOREM GlobalsTyped ==
  ASSUME OneType
  PROVE  Spec => []GlobalsAsDeclared
<1>1. ASSUME IInv PROVE GlobalsAsDeclared
  <2>1. ValuesOk(values, signatures)
    BY <1>1 DEF IInv, TablesInv
  <2>2. ValuesTyped
    BY <2>1 DEF ValuesOk, ValuesTyped
  <2> QED BY <1>1, <2>2, TablesAsDeclared DEF GlobalsAsDeclared
<1> QED BY <1>1, Invariance, PTL

\* Declarations give no global another value.
LEMMA DeclaredValues ==
  ASSUME IInv, IInv', NEW sigs, Declare(sigs), NEW i \in DOMAIN values
  PROVE  values'[i] = values[i]
<1> DEFINE k == Len(signatures') - Len(values)
           rest == [j \in 1..k |-> None]
           n == IF k < 0 THEN 0 ELSE k
<1>1. signatures' \in Seq(Signatures) /\ values \in Seq(Values)
  BY DEF IInv, TablesInv, SigsOk, ValuesOk
<1>2. k \in Int /\ n \in Nat /\ 1..k = 1..n
  <2>1. Len(signatures') \in Nat /\ Len(values) \in Nat
    BY <1>1
  <2> QED BY <2>1
<1>3. values' = values \o rest
  BY DEF Declare
<1>4. rest \in Seq(Values)
  <2>1. rest \in [1..n -> Values]
    BY <1>2, SpecialValues
  <2> HIDE DEF rest, n
  <2> QED BY <1>2, <2>1, FunctionIsSeq
<1> HIDE DEF rest
<1>5. i \in 1..Len(values) /\ Len(values) \in Nat /\ Len(rest) \in Nat
  BY <1>1, <1>4
<1>6. (values \o rest)[i] = values[i]
  BY <1>1, <1>4, <1>5, ConcatProperties
<1> QED BY <1>3, <1>6

LEMMA VarDeclares == var_declaration => UNCHANGED values \/ \E sigs : Declare(sigs)
<1> SUFFICES ASSUME var_declaration PROVE UNCHANGED values \/ \E sigs : Declare(sigs)
  OBVIOUS
<1> QED BY DEF var_declaration, globals

LEMMA FnDeclares == fn_declaration => \E sigs : Declare(sigs)
BY Zenon DEF fn_declaration

LEMMA ConstStep ==
  ASSUME IInv, [Next]_vars, NEW i \in DOMAIN values,
         signatures[i].is_const, values[i] # None, values'[i] # values[i]
  PROVE  ~Script /\ Instr0.op = "DEFINE_GLOBAL"
<1>1. IInv'
  BY NextPreserves
<1>2. ~UNCHANGED values
  OBVIOUS
<1>3. ~ \E sigs : Declare(sigs)
  BY <1>1, DeclaredValues
<1>4. do_set_global \/ do_define_global
  <2>1. /\ ~Line /\ ~assignment /\ ~expression_statement /\ ~block_statement
        /\ ~syntax_error /\ ~compile
    BY <1>2 DEF Line, assignment, expression_statement, block_statement, syntax_error,
                compile, globals
  <2>2. ~push /\ ~pop /\ ~do_get_global /\ ~call_value /\ ~return
    BY <1>2 DEF push, pop, do_get_global, call_value, return, undefined_variable, runtime_error
  <2>3. ~var_declaration /\ ~fn_declaration
    BY <1>2, <1>3, VarDeclares, FnDeclares
  <2>4. ~UNCHANGED vars
    BY <1>2 DEF vars
  <2> QED BY <2>1, <2>2, <2>3, <2>4 DEF Next
<1>5. phase = "running" /\ Instr0.op \in {"SET_GLOBAL", "DEFINE_GLOBAL"}
  BY <1>4 DEF do_set_global, do_define_global, Dispatch
<1>6. i = Instr0.index
  BY <1>2, <1>4 DEF do_set_global, do_define_global, undefined_variable, runtime_error
<1>7. InstrOk(Instr0, signatures)
  BY <1>5, AtInstr
<1>8. Instr0.op = "DEFINE_GLOBAL"
  BY <1>5, <1>6, <1>7 DEF InstrOk
<1>9. ~Script
  BY <1>5, <1>6, <1>8, HeadDefines
<1> QED BY <1>8, <1>9

\* A constant with a value keeps it, through assignments of later lines, of the
\* functions compiled when it was declared and of those compiled before: only the
\* prompt changes it, by defining it again.
THEOREM ConstantsKept == Spec => ConstKept
<1>1. IInv /\ [Next]_vars =>
        [\A i \in DOMAIN values :
           signatures[i].is_const /\ values[i] # None /\ values'[i] # values[i]
             => ~Script /\ Instr0.op = "DEFINE_GLOBAL"]_vars
  BY ConstStep
<1> QED BY <1>1, Invariance, PTL DEF Spec, ConstKept
=============================================================================
