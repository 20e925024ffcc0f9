---------------------------- MODULE Typing_proofs ----------------------------
(***************************************************************************)
(* Proofs about Typing, for any variables, any sets of programs of any     *)
(* length, and any types, however deep functions take and give functions.  *)
(* The inductive invariant IInv says of a value not only which kind it is  *)
(* but how it behaves: what a function gives when it is called, and what   *)
(* that gives when it is called in turn.                                   *)
(***************************************************************************)
EXTENDS Typing, SequenceTheorems, TLAPS

(***************************************************************************)
(* The recursive functions.                                                *)
(***************************************************************************)
Pairs == Infos \X Infos
TypeSets == SUBSET Infos

\* A monotone function of the subsets of a set has a fixed point.
LEMMA FixedPoint ==
  ASSUME NEW D, NEW F \in [SUBSET D -> SUBSET D],
         \A A, B \in SUBSET D : A \subseteq B => F[A] \subseteq F[B]
  PROVE  \E W \in SUBSET D : F[W] = W
<1> DEFINE Post == {A \in SUBSET D : A \subseteq F[A]}
           W == UNION Post
<1>1. W \in SUBSET D
  OBVIOUS
<1>2. W \subseteq F[W]
  <2>1. ASSUME NEW A \in Post PROVE A \subseteq F[W]
    <3>1. A \in SUBSET D /\ A \subseteq F[A] /\ A \subseteq W
      OBVIOUS
    <3> HIDE DEF W, Post
    <3>2. F[A] \subseteq F[W]
      BY <1>1, <3>1
    <3> QED BY <3>1, <3>2
  <2> HIDE DEF Post
  <2> QED BY <2>1
<1>3. F[W] \in Post
  <2> HIDE DEF W
  <2>1. F[W] \in SUBSET D
    BY <1>1
  <2> QED BY <1>1, <1>2, <2>1
<1>4. F[W] \subseteq W
  BY <1>3
<1> HIDE DEF W
<1> QED BY <1>1, <1>2, <1>4

\* What functions take and give are TypeInfos.
LEMMA Parts ==
  ASSUME NEW info \in Infos
  PROVE  /\ info.returns \in TypeSets
         /\ info.params \in Seq(TypeSets)
         /\ \A i \in DOMAIN info.params : info.params[i] \in TypeSets
<1>1. info.params \in Seq(TypeSets) /\ info.returns \in TypeSets
  BY InfosAssumption DEF TypeSets
<1>2. \A i \in DOMAIN info.params : info.params[i] \in TypeSets
  BY <1>1
<1> QED BY <1>1, <1>2

\* The function that is true of the pairs of A.
Char(A) == [pair \in Pairs |-> pair \in A]

\* More is accepted if more is accepted of the parts.
LEMMA MonotoneSet ==
  ASSUME NEW A \in SUBSET Pairs, NEW B \in SUBSET Pairs, A \subseteq B,
         NEW x \in TypeSets, NEW y \in TypeSets, AssignSet(x, y, Char(A))
  PROVE  AssignSet(x, y, Char(B))
<1>1. ASSUME NEW b \in y PROVE \E a \in x : Char(B)[<<a, b>>]
  <2>1. PICK a \in x : Char(A)[<<a, b>>]
    BY DEF AssignSet
  <2>2. <<a, b>> \in Pairs
    BY DEF TypeSets, Pairs
  <2> QED BY <2>1, <2>2 DEF Char
<1> QED BY <1>1 DEF AssignSet

LEMMA MonotoneInfo ==
  ASSUME NEW A \in SUBSET Pairs, NEW B \in SUBSET Pairs, A \subseteq B,
         NEW l \in Infos, NEW r \in Infos, AssignInfo(l, r, Char(A))
  PROVE  AssignInfo(l, r, Char(B))
<1>1. ASSUME ParamsAssign(l, r, Char(A)), Len(l.params) = Len(r.params)
      PROVE  ParamsAssign(l, r, Char(B))
  <2>1. ASSUME NEW i \in DOMAIN l.params
        PROVE  l.params[i] \in TypeSets /\ r.params[i] \in TypeSets
    <3>1. i \in DOMAIN r.params
      BY <1>1, Parts
    <3> QED BY <3>1, Parts
  <2> QED BY <1>1, <2>1, MonotoneSet DEF ParamsAssign
<1> QED BY <1>1 DEF AssignInfo

\* The equation of MayAssign has a solution.
LEMMA MayAssignDefined ==
  MayAssign = [pair \in Pairs |-> AssignInfo(pair[1], pair[2], MayAssign)]
<1> DEFINE F == [A \in SUBSET Pairs |->
                   {pair \in Pairs : AssignInfo(pair[1], pair[2], Char(A))}]
           Solves(f) == f = [pair \in Pairs |-> AssignInfo(pair[1], pair[2], f)]
<1>1. F \in [SUBSET Pairs -> SUBSET Pairs]
  OBVIOUS
<1>2. \A A, B \in SUBSET Pairs : A \subseteq B => F[A] \subseteq F[B]
  <2>1. ASSUME NEW A \in SUBSET Pairs, NEW B \in SUBSET Pairs, A \subseteq B,
               NEW pair \in Pairs, AssignInfo(pair[1], pair[2], Char(A))
        PROVE  AssignInfo(pair[1], pair[2], Char(B))
    <3>1. pair[1] \in Infos /\ pair[2] \in Infos
      BY DEF Pairs
    <3> QED BY <2>1, <3>1, MonotoneInfo
  <2> QED BY <2>1
<1>3. PICK W \in SUBSET Pairs : F[W] = W
  <2> HIDE DEF F
  <2> QED BY <1>1, <1>2, FixedPoint
<1>4. Solves(Char(W))
  <2>1. ASSUME NEW pair \in Pairs
        PROVE  (pair \in W) = AssignInfo(pair[1], pair[2], Char(W))
    <3>1. W = {p \in Pairs : AssignInfo(p[1], p[2], Char(W))}
      BY <1>3
    <3>2. AssignInfo(pair[1], pair[2], Char(W)) \in BOOLEAN
      BY DEF AssignInfo
    <3> QED BY <3>1, <3>2
  <2> DEFINE g == Char(W)
  <2>2. g = [pair \in Pairs |-> pair \in W]
    BY DEF Char
  <2> HIDE DEF g
  <2> QED BY <2>1, <2>2 DEF g
<1>5. MayAssign = CHOOSE f : Solves(f)
  BY DEF MayAssign, Pairs
<1> HIDE DEF Solves
<1>6. Solves(MayAssign)
  BY <1>4, <1>5
<1> QED BY <1>6 DEF Solves


\* May a value of type r be assigned to a variable of type l?
LEMMA Assigned ==
  ASSUME NEW l \in Infos, NEW r \in Infos
  PROVE  MayAssign[<<l, r>>] <=>
           \/ l.type = "ANY"
           \/ l = r
           \/ l.type = "FLOAT" /\ r.type = "INT"
           \/ /\ is_function(l) /\ is_function(r)
              /\ Len(l.params) = Len(r.params)
              /\ \A i \in DOMAIN l.params :
                   type_check_assign(r.params[i], l.params[i])
<1> DEFINE pair == <<l, r>>
<1>1. pair \in Pairs /\ pair[1] = l /\ pair[2] = r
  BY DEF Pairs
<1> HIDE DEF pair
<1>2. MayAssign[pair] = AssignInfo(l, r, MayAssign)
  BY <1>1, MayAssignDefined
<1> QED BY <1>2 DEF AssignInfo, ParamsAssign, type_check_assign, pair

\* The equation of Keeps has a solution.
LEMMA KeepsDefined ==
  Keeps = [pair \in Pairs |-> KeepsInfo(pair[1], pair[2], Keeps)]
<1> DEFINE F == [A \in SUBSET Pairs |->
                   {pair \in Pairs : KeepsInfo(pair[1], pair[2], Char(A))}]
           Solves(f) == f = [pair \in Pairs |-> KeepsInfo(pair[1], pair[2], f)]
<1>1. F \in [SUBSET Pairs -> SUBSET Pairs]
  OBVIOUS
<1>2. ASSUME NEW A \in SUBSET Pairs, NEW B \in SUBSET Pairs, A \subseteq B,
             NEW l \in Infos, NEW r \in Infos, KeepsInfo(l, r, Char(A))
      PROVE  KeepsInfo(l, r, Char(B))
  <2>1. ASSUME NEW x \in TypeSets, NEW y \in TypeSets, AssignSet(x, y, Char(A))
        PROVE  AssignSet(x, y, Char(B))
    BY <1>2, <2>1, MonotoneSet
  <2>2. AssignInfo(l, r, Char(A)) => AssignInfo(l, r, Char(B))
    BY <1>2, MonotoneInfo
  <2>3. l.returns \in TypeSets /\ r.returns \in TypeSets
    BY Parts
  <2> QED BY <1>2, <2>1, <2>2, <2>3 DEF KeepsInfo
<1>3. \A A, B \in SUBSET Pairs : A \subseteq B => F[A] \subseteq F[B]
  <2>1. ASSUME NEW A \in SUBSET Pairs, NEW B \in SUBSET Pairs, A \subseteq B,
               NEW pair \in Pairs, KeepsInfo(pair[1], pair[2], Char(A))
        PROVE  KeepsInfo(pair[1], pair[2], Char(B))
    <3>1. pair[1] \in Infos /\ pair[2] \in Infos
      BY DEF Pairs
    <3> QED BY <1>2, <2>1, <3>1
  <2> QED BY <2>1
<1>4. PICK W \in SUBSET Pairs : F[W] = W
  <2> HIDE DEF F
  <2> QED BY <1>1, <1>3, FixedPoint
<1>5. Solves(Char(W))
  <2>1. ASSUME NEW pair \in Pairs
        PROVE  (pair \in W) = KeepsInfo(pair[1], pair[2], Char(W))
    <3>1. W = {p \in Pairs : KeepsInfo(p[1], p[2], Char(W))}
      BY <1>4
    <3>2. KeepsInfo(pair[1], pair[2], Char(W)) \in BOOLEAN
      BY DEF KeepsInfo
    <3> QED BY <3>1, <3>2
  <2> DEFINE g == Char(W)
  <2>2. g = [pair \in Pairs |-> pair \in W]
    BY DEF Char
  <2> HIDE DEF g
  <2> QED BY <2>1, <2>2 DEF g
<1>6. Keeps = CHOOSE f : Solves(f)
  BY DEF Keeps, Pairs
<1> HIDE DEF Solves
<1>7. Solves(Keeps)
  BY <1>5, <1>6
<1> QED BY <1>7 DEF Solves

\* What an assignment that keeps the types has compared.
Kept(l, r) ==
  \/ l.type = "ANY"
  \/ l = r
  \/ l.type = "FLOAT" /\ r.type = "INT"
  \/ /\ is_function(l) /\ is_function(r)
     /\ Len(l.params) = Len(r.params)
     /\ \A i \in DOMAIN l.params : ~Retyped(r.params[i], l.params[i])
     /\ ~Retyped(l.returns, r.returns)

LEMMA KeptPair ==
  ASSUME NEW l \in Infos, NEW r \in Infos
  PROVE  Keeps[<<l, r>>] <=> Kept(l, r)
<1> DEFINE pair == <<l, r>>
<1>1. pair \in Pairs /\ pair[1] = l /\ pair[2] = r
  BY DEF Pairs
<1> HIDE DEF pair
<1>2. Keeps[pair] = KeepsInfo(l, r, Keeps)
  BY <1>1, KeepsDefined
<1>3. l.type = "ANY" \/ l.type = "FLOAT" => ~is_function(l)
  BY DEF is_function
<1> QED BY <1>2, <1>3 DEF AssignInfo, KeepsInfo, ParamsAssign, Retyped, Kept, pair


(***************************************************************************)
(* What a value is, where IsInstance only looks at its kind.  A function   *)
(* that gives a value gives one of the types it returns.  One that gives   *)
(* its parameter, or minus it, was declared with types of a parameter that *)
(* flow to the types it returned then; it may have been assigned since.    *)
(***************************************************************************)
\* Assignments that keep the types lead from one set of types to another.
Flows(from, to) ==
  \A S \in SUBSET TypeSets :
    /\ from \in S
    /\ \A x \in S, y \in TypeSets : ~Retyped(y, x) => y \in S
    => to \in S

Passes(does, t) ==
  /\ does \in {"parameter", "minus"} /\ Len(t.params) = 1
  /\ \E n \in TypeSets :
       /\ Flows(t.params[1], n) /\ Flows(n, t.returns)
       /\ does = "minus" => type_check_negate(n)

Fits(value, t, W) ==
  \/ t.type = "ANY"
  \/ t.type = "FLOAT" /\ value.type = "INT"
  \/ /\ t.type = value.type
     /\ is_function(t) =>
          /\ Len(t.params) = value.arity
          /\ \/ /\ value.body.does = "value"
                /\ <<value.body.result[1], t.returns>> \in W
             \/ Passes(value.body.does, t)

\* Values with types, each of which says of its value what W says of what a
\* function gives.
Consistent(W) ==
  \A p \in W :
    /\ p = <<p[1], p[2]>> /\ p[2] \in TypeSets
    /\ \E t \in p[2] : Fits(p[1], t, W)

\* The value is one of the types, and so is what it gives when it is called.
Holds(value, types) == \E W : Consistent(W) /\ <<value, types>> \in W

\* Fits, with what holds of the value a function gives.
FitsType(value, t) ==
  \/ t.type = "ANY"
  \/ t.type = "FLOAT" /\ value.type = "INT"
  \/ /\ t.type = value.type
     /\ is_function(t) =>
          /\ Len(t.params) = value.arity
          /\ \/ value.body.does = "value" /\ Holds(value.body.result[1], t.returns)
             \/ Passes(value.body.does, t)

LEMMA KeepsSelf ==
  ASSUME NEW a \in TypeSets
  PROVE  ~Retyped(a, a)
<1>1. ASSUME NEW t \in a PROVE Keeps[<<t, t>>]
  <2>1. t \in Infos
    BY DEF TypeSets
  <2> QED BY <2>1, KeptPair DEF Kept
<1> QED BY <1>1 DEF Retyped, AssignSet

LEMMA KeepsMore ==
  ASSUME NEW a \in TypeSets, NEW b \in TypeSets, a \subseteq b
  PROVE  ~Retyped(b, a)
<1>1. ASSUME NEW t \in a PROVE t \in b /\ Keeps[<<t, t>>]
  <2>1. t \in Infos /\ t \in b
    BY DEF TypeSets
  <2> QED BY <2>1, KeptPair DEF Kept
<1> QED BY <1>1 DEF Retyped, AssignSet

LEMMA FlowsNext ==
  ASSUME NEW a \in TypeSets, NEW b \in TypeSets, NEW c \in TypeSets,
         Flows(a, b), ~Retyped(c, b)
  PROVE  Flows(a, c)
BY DEF Flows

LEMMA FlowsFirst ==
  ASSUME NEW a \in TypeSets, NEW b \in TypeSets, NEW c \in TypeSets,
         ~Retyped(b, a), Flows(b, c)
  PROVE  Flows(a, c)
BY DEF Flows

LEMMA FlowsSelf ==
  ASSUME NEW a \in TypeSets
  PROVE  Flows(a, a)
BY DEF Flows

\* Types of which one may be kept as the other: what passes its parameter on
\* still does.
LEMMA PassesKept ==
  ASSUME NEW l \in Infos, NEW t \in Infos, is_function(l), Kept(l, t),
         NEW does, Passes(does, t)
  PROVE  Passes(does, l)
<1>1. CASE l = t
  BY <1>1
<1>2. CASE l # t
  <2>1. /\ Len(l.params) = Len(t.params) /\ ~Retyped(l.returns, t.returns)
        /\ \A i \in DOMAIN l.params : ~Retyped(t.params[i], l.params[i])
    BY <1>2 DEF Kept, is_function
  <2>2. Len(l.params) = 1 /\ does \in {"parameter", "minus"}
    BY <2>1 DEF Passes
  <2>3. PICK n \in TypeSets : /\ Flows(t.params[1], n) /\ Flows(n, t.returns)
                              /\ does = "minus" => type_check_negate(n)
    BY DEF Passes
  <2>4. 1 \in DOMAIN l.params /\ 1 \in DOMAIN t.params
    <3>1. /\ l.params \in Seq(TypeSets) /\ Len(l.params) = 1
          /\ t.params \in Seq(TypeSets) /\ Len(t.params) = 1
      BY <2>1, <2>2, Parts
    <3> QED BY <3>1
  <2>5. /\ l.params[1] \in TypeSets /\ t.params[1] \in TypeSets
        /\ l.returns \in TypeSets /\ t.returns \in TypeSets
    BY <2>4, Parts
  <2>6. Flows(l.params[1], n)
    BY <2>1, <2>3, <2>4, <2>5, FlowsFirst
  <2>7. Flows(n, l.returns)
    BY <2>1, <2>3, <2>5, FlowsNext
  <2> QED BY <2>2, <2>3, <2>6, <2>7 DEF Passes
<1> QED BY <1>1, <1>2


\* Types one of which is kept as the other: a value that fits the one fits
\* the other, if W has what W0 has with any types it is kept as.
LEMMA FitsKept ==
  ASSUME NEW W0, Consistent(W0), NEW W,
         \A p \in W0, b \in TypeSets : ~Retyped(b, p[2]) => <<p[1], b>> \in W,
         NEW l \in Infos, NEW t \in Infos, Kept(l, t),
         NEW value, Fits(value, t, W0)
  PROVE  Fits(value, l, W)
<1>1. CASE l.type = "ANY"
  BY <1>1 DEF Fits
<1>2. CASE l.type = "FLOAT" /\ t.type = "INT"
  <2>1. value.type = "INT"
    BY <1>2 DEF Fits
  <2> QED BY <1>2, <2>1 DEF Fits
<1>3. ASSUME value.body.does = "value",
             <<value.body.result[1], t.returns>> \in W0,
             l = t \/ ~Retyped(l.returns, t.returns)
      PROVE  <<value.body.result[1], l.returns>> \in W
  <2> DEFINE p == <<value.body.result[1], t.returns>>
  <2>1. l.returns \in TypeSets /\ t.returns \in TypeSets
    BY Parts
  <2>2. ~Retyped(l.returns, t.returns)
    BY <1>3, <2>1, KeepsSelf
  <2>3. p \in W0 /\ p[1] = value.body.result[1] /\ p[2] = t.returns
    BY <1>3
  <2> HIDE DEF p
  <2> QED BY <2>1, <2>2, <2>3
<1>4. CASE /\ ~(l.type = "ANY") /\ ~(l.type = "FLOAT" /\ t.type = "INT")
           /\ l.type = "FLOAT" /\ value.type = "INT"
  BY <1>4 DEF Fits
<1>5. CASE /\ ~(l.type = "ANY") /\ ~(l.type = "FLOAT" /\ t.type = "INT")
           /\ ~(l.type = "FLOAT" /\ value.type = "INT")
  <2>1. \/ l = t
        \/ /\ is_function(l) /\ is_function(t) /\ Len(l.params) = Len(t.params)
           /\ ~Retyped(l.returns, t.returns)
    BY <1>5 DEF Kept
  <2>2. l.type = t.type /\ Len(l.params) = Len(t.params)
    BY <2>1 DEF is_function
  <2>3. /\ t.type = value.type
        /\ is_function(t) =>
             /\ Len(t.params) = value.arity
             /\ \/ /\ value.body.does = "value"
                   /\ <<value.body.result[1], t.returns>> \in W0
                \/ Passes(value.body.does, t)
    BY <1>5, <2>2 DEF Fits
  <2>4. ASSUME is_function(l)
        PROVE  \/ /\ value.body.does = "value"
                  /\ <<value.body.result[1], l.returns>> \in W
               \/ Passes(value.body.does, l)
    <3>1. is_function(t)
      BY <2>2, <2>4 DEF is_function
    <3>2. CASE Passes(value.body.does, t)
      BY <2>4, <3>2, PassesKept
    <3>3. CASE /\ value.body.does = "value"
               /\ <<value.body.result[1], t.returns>> \in W0
      BY <1>3, <2>1, <3>3
    <3> QED BY <2>3, <3>1, <3>2, <3>3
  <2>5. is_function(l) => is_function(t)
    BY <2>2 DEF is_function
  <2> QED BY <2>2, <2>3, <2>4, <2>5 DEF Fits
<1> QED BY <1>1, <1>2, <1>4, <1>5

LEMMA HoldsKept ==
  ASSUME NEW value, NEW a \in TypeSets, NEW b \in TypeSets,
         Holds(value, a), ~Retyped(b, a)
  PROVE  Holds(value, b)
<1>1. PICK W0 : Consistent(W0) /\ <<value, a>> \in W0
  BY DEF Holds
<1> DEFINE V == {p[1] : p \in W0}
           W == {q \in V \X TypeSets :
                   \E x \in TypeSets : <<q[1], x>> \in W0 /\ ~Retyped(q[2], x)}
<1>2. \A p \in W0, y \in TypeSets : ~Retyped(y, p[2]) => <<p[1], y>> \in W
  <2>1. ASSUME NEW p \in W0, NEW y \in TypeSets, ~Retyped(y, p[2])
        PROVE  <<p[1], y>> \in W
    <3>1. p = <<p[1], p[2]>> /\ p[2] \in TypeSets
      BY <1>1 DEF Consistent
    <3>2. <<p[1], y>> \in V \X TypeSets
      OBVIOUS
    <3>3. <<p[1], p[2]>> \in W0
      BY <3>1
    <3> QED BY <2>1, <3>1, <3>2, <3>3
  <2> HIDE DEF W
  <2> QED BY <2>1
<1>3. ASSUME NEW q \in W
      PROVE  q = <<q[1], q[2]>> /\ q[2] \in TypeSets /\ \E l \in q[2] : Fits(q[1], l, W)
  <2>1. q = <<q[1], q[2]>> /\ q[2] \in TypeSets
    OBVIOUS
  <2>2. PICK x \in TypeSets : <<q[1], x>> \in W0 /\ ~Retyped(q[2], x)
    OBVIOUS
  <2> HIDE DEF W
  <2>3. PICK t \in x : Fits(q[1], t, W0)
    BY <1>1, <2>2 DEF Consistent
  <2>4. PICK l \in q[2] : Keeps[<<l, t>>]
    BY <2>2, <2>3 DEF Retyped, AssignSet
  <2>5. l \in Infos /\ t \in Infos
    BY <2>1, <2>2, <2>3, <2>4 DEF TypeSets
  <2>6. Kept(l, t)
    BY <2>4, <2>5, KeptPair
  <2>7. Fits(q[1], l, W)
    BY <1>1, <1>2, <2>3, <2>5, <2>6, FitsKept
  <2> QED BY <2>1, <2>4, <2>7
<1>4. <<value, b>> \in W
  <2> DEFINE p == <<value, a>>
  <2>1. p \in W0 /\ p[1] = value /\ p[2] = a
    BY <1>1
  <2> HIDE DEF W, p
  <2> QED BY <1>2, <2>1
<1> HIDE DEF W
<1>5. Consistent(W)
  BY <1>3 DEF Consistent
<1> QED BY <1>4, <1>5 DEF Holds

LEMMA HoldsMore ==
  ASSUME NEW value, NEW a \in TypeSets, NEW b \in TypeSets,
         Holds(value, a), a \subseteq b
  PROVE  Holds(value, b)
BY HoldsKept, KeepsMore

LEMMA FlowsHolds ==
  ASSUME NEW value, NEW a \in TypeSets, NEW b \in TypeSets,
         Holds(value, a), Flows(a, b)
  PROVE  Holds(value, b)
<1> DEFINE S == {x \in TypeSets : Holds(value, x)}
<1>1. S \in SUBSET TypeSets /\ a \in S
  OBVIOUS
<1>2. \A x \in S, y \in TypeSets : ~Retyped(y, x) => y \in S
  BY HoldsKept
<1>3. b \in S
  <2> HIDE DEF S
  <2> QED BY <1>1, <1>2 DEF Flows
<1> QED BY <1>3


LEMMA FitsMore ==
  ASSUME NEW W0, NEW W, W0 \subseteq W, NEW value, NEW t, Fits(value, t, W0)
  PROVE  Fits(value, t, W)
BY DEF Fits

\* What Holds says, one call deep.
LEMMA HoldsSome ==
  ASSUME NEW value, NEW types, Holds(value, types)
  PROVE  types \in TypeSets /\ \E t \in types : FitsType(value, t)
<1>1. PICK W : Consistent(W) /\ <<value, types>> \in W
  BY DEF Holds
<1> DEFINE p == <<value, types>>
<1>2. p \in W /\ p[1] = value /\ p[2] = types
  BY <1>1
<1> HIDE DEF p
<1>3. types \in TypeSets /\ \E t \in types : Fits(value, t, W)
  BY <1>1, <1>2 DEF Consistent
<1>4. ASSUME NEW t \in types, Fits(value, t, W) PROVE FitsType(value, t)
  <2>1. ASSUME <<value.body.result[1], t.returns>> \in W
        PROVE  Holds(value.body.result[1], t.returns)
    BY <1>1, <2>1 DEF Holds
  <2> QED BY <1>4, <2>1 DEF Fits, FitsType
<1> QED BY <1>3, <1>4

LEMMA HoldsOne ==
  ASSUME NEW value, NEW types \in TypeSets, NEW t \in types, FitsType(value, t)
  PROVE  Holds(value, types)
<1> DEFINE p == <<value, types>>
<1>0. p = <<p[1], p[2]>> /\ p[1] = value /\ p[2] = types
  OBVIOUS
<1>1. \E W0 : Consistent(W0) /\ Fits(value, t, W0)
  <2>1. CASE \E W0 : Consistent(W0) /\ <<value.body.result[1], t.returns>> \in W0
    <3>1. PICK W0 : Consistent(W0) /\ <<value.body.result[1], t.returns>> \in W0
      BY <2>1
    <3>2. Fits(value, t, W0)
      BY <3>1 DEF Fits, FitsType
    <3> QED BY <3>1, <3>2
  <2>2. CASE ~Holds(value.body.result[1], t.returns)
    <3>1. Fits(value, t, {})
      BY <2>2 DEF Fits, FitsType
    <3>2. Consistent({})
      BY DEF Consistent
    <3> QED BY <3>1, <3>2
  <2> QED BY <2>1, <2>2 DEF Holds
<1>2. PICK W0 : Consistent(W0) /\ Fits(value, t, W0)
  BY <1>1
<1> HIDE DEF p
<1> DEFINE W == W0 \union {p}
<1>3. W0 \subseteq W /\ p \in W
  OBVIOUS
<1>4. ASSUME NEW q \in W
      PROVE  q = <<q[1], q[2]>> /\ q[2] \in TypeSets /\ \E l \in q[2] : Fits(q[1], l, W)
  <2>1. CASE q = p
    <3> HIDE DEF W
    <3>1. Fits(value, t, W)
      BY <1>2, <1>3, FitsMore
    <3> QED BY <1>0, <2>1, <3>1
  <2>2. CASE q \in W0
    <3> HIDE DEF W
    <3>1. q = <<q[1], q[2]>> /\ q[2] \in TypeSets
      BY <1>2, <2>2 DEF Consistent
    <3>2. PICK l \in q[2] : Fits(q[1], l, W0)
      BY <1>2, <2>2 DEF Consistent
    <3>3. Fits(q[1], l, W)
      BY <1>3, <3>2, FitsMore
    <3> QED BY <3>1, <3>3
  <2> QED BY <2>1, <2>2
<1> HIDE DEF W
<1>5. Consistent(W)
  BY <1>4 DEF Consistent
<1> QED BY <1>3, <1>5 DEF Holds, p

\* What Holds says of the kind of the value.
LEMMA HoldsIsInstance ==
  ASSUME NEW value, NEW types, Holds(value, types)
  PROVE  IsInstance(value, types)
<1>1. PICK t \in types : FitsType(value, t)
  BY HoldsSome
<1> QED BY <1>1 DEF FitsType, IsInstance

\* A value that is no function is of its kind.
LEMMA HoldsPlain ==
  ASSUME NEW value, NEW types \in TypeSets, NEW t \in types,
         t.type = value.type, ~is_function(t)
  PROVE  Holds(value, types)
BY HoldsOne DEF FitsType


(***************************************************************************)
(* What an operator or a call that is accepted gives.                      *)
(***************************************************************************)
LEMMA PlainTypes ==
  ASSUME NEW type \in {"NIL", "BOOL", "INT", "FLOAT", "STRING"}
  PROVE  /\ TypeInfo(type) \in Infos /\ TypeInfo(type).type = type
         /\ {TypeInfo(type)} \in TypeSets /\ ~is_function(TypeInfo(type))
<1>1. TypeInfo(type) \in Infos
  BY InfosAssumption
<1>2. TypeInfo(type).type = type
  BY DEF TypeInfo
<1> QED BY <1>1, <1>2 DEF TypeSets, is_function

LEMMA PlainValue ==
  ASSUME NEW type \in {"NIL", "BOOL", "INT", "FLOAT", "STRING"},
         NEW value, value.type = type
  PROVE  Holds(value, {TypeInfo(type)})
<1> DEFINE t == TypeInfo(type)
<1>1. {t} \in TypeSets /\ t.type = value.type /\ ~is_function(t)
  BY PlainTypes
<1> HIDE DEF t
<1>2. t \in {t}
  OBVIOUS
<1>3. Holds(value, {t})
  BY <1>1, <1>2, HoldsPlain
<1> QED BY <1>3 DEF t

\* A value of numbers is a number.
LEMMA Numbers ==
  ASSUME NEW value, NEW types, Holds(value, types),
         \A t \in types : is_number(t)
  PROVE  is_number(value)
<1>1. PICK t \in types : FitsType(value, t)
  BY HoldsSome
<1> QED BY <1>1 DEF FitsType, is_number

\* The type a pair of numbers gives, and the value.
ArithmeticType(l, r) == IF l.type = "INT" /\ r.type = "INT" THEN "INT" ELSE "FLOAT"

LEMMA ArithmeticTypes ==
  ASSUME NEW a \in TypeSets, NEW b \in TypeSets, a # {}, b # {},
         type_check_arithmetic(a, b) # {}
  PROVE  /\ \A l \in a, r \in b : /\ is_number(l) /\ is_number(r)
                                  /\ TypeInfo(ArithmeticType(l, r))
                                       \in type_check_arithmetic(a, b)
         /\ type_check_arithmetic(a, b) \in TypeSets
<1>1. \A l \in a, r \in b : is_number(l) /\ is_number(r)
  BY DEF type_check_arithmetic
<1>2. type_check_arithmetic(a, b) =
        {TypeInfo(ArithmeticType(l, r)) : l \in a, r \in b}
  BY <1>1 DEF type_check_arithmetic, ArithmeticType
<1>3. \A l \in a, r \in b : TypeInfo(ArithmeticType(l, r)) \in Infos
  BY PlainTypes DEF ArithmeticType
<1> QED BY <1>1, <1>2, <1>3 DEF TypeSets

LEMMA ArithmeticHolds ==
  ASSUME NEW a, NEW b, NEW v, NEW w, Holds(v, a), Holds(w, b),
         type_check_arithmetic(a, b) # {},
         NEW value, value.type = ArithmeticType(v, w)
  PROVE  /\ is_number(v) /\ is_number(w)
         /\ Holds(value, type_check_arithmetic(a, b))
<1>1. PICK l \in a : FitsType(v, l)
  BY HoldsSome
<1>2. PICK r \in b : FitsType(w, r)
  BY HoldsSome
<1>3. a \in TypeSets /\ b \in TypeSets /\ a # {} /\ b # {}
  BY <1>1, <1>2, HoldsSome
<1> DEFINE types == type_check_arithmetic(a, b)
           t == TypeInfo(ArithmeticType(l, r))
<1>4. is_number(l) /\ is_number(r) /\ t \in types /\ types \in TypeSets
  BY <1>3, ArithmeticTypes
<1>5. t.type = ArithmeticType(l, r)
  BY DEF TypeInfo
<1>6. is_number(v) /\ is_number(w)
  BY <1>1, <1>2, <1>4 DEF FitsType, is_number
<1>7. t.type = "FLOAT" \/ t.type = value.type
  BY <1>1, <1>2, <1>4, <1>5, <1>6 DEF FitsType, is_number, ArithmeticType
<1>8. value.type \in {"INT", "FLOAT"} /\ t.type \in {"INT", "FLOAT"}
  BY <1>5 DEF ArithmeticType
<1> HIDE DEF t, types
<1>9. FitsType(value, t)
  BY <1>7, <1>8 DEF FitsType, is_function
<1>10. Holds(value, types)
  BY <1>4, <1>9, HoldsOne
<1> QED BY <1>6, <1>10 DEF types

LEMMA ComparisonHolds ==
  ASSUME NEW a, NEW b, NEW v, NEW w, Holds(v, a), Holds(w, b),
         type_check_comparison(a, b)
  PROVE  is_number(v) /\ is_number(w)
<1>1. (\E l \in a : TRUE) /\ (\E r \in b : TRUE)
  BY HoldsSome
<1>2. (\A l \in a : is_number(l)) /\ (\A r \in b : is_number(r))
  BY <1>1 DEF type_check_comparison
<1> QED BY <1>2, Numbers


\* A function that gives a value whose types its own keep.
LEMMA FnValueHolds ==
  ASSUME NEW arity \in Nat, NEW params \in Seq(TypeSets), Len(params) = arity,
         NEW returns \in TypeSets, FunctionInfo(params, returns) \in Infos,
         NEW value, NEW a, Holds(value, a), ~Retyped(returns, a)
  PROVE  Holds(Closure(arity, "value", <<value>>), {FunctionInfo(params, returns)})
<1> DEFINE t == FunctionInfo(params, returns)
           f == Closure(arity, "value", <<value>>)
<1>1. /\ f.type = "FUNCTION" /\ f.arity = arity
      /\ f.body.does = "value" /\ f.body.result[1] = value
  BY DEF Closure
<1>2. t.type = "FUNCTION" /\ t.params = params /\ t.returns = returns
  BY DEF FunctionInfo
<1>3. t \in Infos
  OBVIOUS
<1>4. Holds(value, returns)
  BY HoldsSome, HoldsKept
<1> HIDE DEF t, f
<1>5. FitsType(f, t)
  BY <1>1, <1>2, <1>4 DEF FitsType
<1>6. {t} \in TypeSets /\ t \in {t}
  BY <1>3 DEF TypeSets
<1>7. Holds(f, {t})
  BY <1>5, <1>6, HoldsOne
<1> QED BY <1>7 DEF f, t

\* A function that gives its parameter, or minus it.
LEMMA FnParameterHolds ==
  ASSUME NEW does \in {"parameter", "minus"}, NEW param \in TypeSets,
         NEW returns \in TypeSets, FunctionInfo(<<param>>, returns) \in Infos,
         does = "minus" => type_check_negate(param), ~Retyped(returns, param)
  PROVE  Holds(Closure(1, does, <<>>), {FunctionInfo(<<param>>, returns)})
<1> DEFINE t == FunctionInfo(<<param>>, returns)
           f == Closure(1, does, <<>>)
<1>1. f.type = "FUNCTION" /\ f.arity = 1 /\ f.body.does = does
  BY DEF Closure
<1>2. /\ t.type = "FUNCTION" /\ Len(t.params) = 1 /\ t.params[1] = param
      /\ t.returns = returns
  BY DEF FunctionInfo
<1>3. t \in Infos
  OBVIOUS
<1> HIDE DEF t, f
<1>4. Flows(param, param)
  BY FlowsSelf
<1>5. Flows(param, returns)
  BY <1>4, FlowsNext
<1>6. Passes(does, t)
  BY <1>2, <1>4, <1>5 DEF Passes
<1>7. FitsType(f, t)
  BY <1>1, <1>2, <1>6 DEF FitsType
<1>8. {t} \in TypeSets /\ t \in {t}
  BY <1>3 DEF TypeSets
<1>9. Holds(f, {t})
  BY <1>7, <1>8, HoldsOne
<1> QED BY <1>9 DEF f, t

\* A call that is accepted: each function the callee may be takes the
\* arguments, and what it returns is among the types of the call.
LEMMA CallTypes ==
  ASSUME NEW callees \in TypeSets, NEW args, type_check_call(callees, args) # {}
  PROVE  /\ type_check_call(callees, args) \in TypeSets
         /\ \A c \in callees : /\ is_function(c) /\ Len(c.params) = Len(args)
                               /\ c.returns \subseteq type_check_call(callees, args)
<1>1. \A c \in callees : CallInfo(c, args) # {}
  BY DEF type_check_call
<1>2. \A c \in callees :
        /\ is_function(c) /\ Len(c.params) = Len(args)
        /\ CallInfo(c, args) = c.returns
  BY <1>1 DEF CallInfo
<1>3. type_check_call(callees, args) = UNION {CallInfo(c, args) : c \in callees}
  BY <1>1 DEF type_check_call
<1>4. \A c \in callees : CallInfo(c, args) \in TypeSets
  <2>1. ASSUME NEW c \in callees PROVE c.returns \in TypeSets
    <3>1. c \in Infos
      BY DEF TypeSets
    <3> QED BY <3>1, Parts
  <2> QED BY <1>2, <2>1
<1>5. UNION {CallInfo(c, args) : c \in callees} \in TypeSets
  BY <1>4 DEF TypeSets
<1>6. \A c \in callees : c.returns \subseteq type_check_call(callees, args)
  <2>1. ASSUME NEW c \in callees
        PROVE  CallInfo(c, args) \subseteq UNION {CallInfo(d, args) : d \in callees}
    OBVIOUS
  <2> QED BY <1>2, <1>3, <2>1
<1> QED BY <1>2, <1>3, <1>5, <1>6

\* The value a call gives, with the argument it gives back if it does.
Given(f, arg) == IF f.body.does = "value" THEN f.body.result[1] ELSE arg

LEMMA CallHolds ==
  ASSUME NEW callees, NEW f, Holds(f, callees),
         NEW args, type_check_call(callees, args) # {},
         NEW arg, Len(args) = 1 => Holds(arg, args[1]),
         Len(args) = 1 => \A c \in callees : ~Retyped(c.params[1], args[1])
  PROVE  /\ f.type = "FUNCTION" /\ f.arity = Len(args)
         /\ f.body.does = "minus" => is_number(Given(f, arg))
         /\ Holds(Given(f, arg), type_check_call(callees, args))
<1> DEFINE types == type_check_call(callees, args)
<1>1. callees \in TypeSets
  BY HoldsSome
<1>2. PICK t \in callees : FitsType(f, t)
  BY HoldsSome
<1>3. t \in Infos
  BY <1>1, <1>2 DEF TypeSets
<1>4. /\ types \in TypeSets /\ is_function(t) /\ Len(t.params) = Len(args)
      /\ t.returns \subseteq types
  BY <1>1, <1>2, CallTypes
<1>5. t.returns \in TypeSets
  BY <1>3, Parts
<1>6. /\ f.type = "FUNCTION" /\ f.arity = Len(args)
      /\ \/ f.body.does = "value" /\ Holds(f.body.result[1], t.returns)
         \/ Passes(f.body.does, t)
  BY <1>2, <1>4 DEF FitsType, is_function
<1> HIDE DEF types
<1>7. CASE f.body.does = "value" /\ Holds(f.body.result[1], t.returns)
  <2>1. Given(f, arg) = f.body.result[1] /\ f.body.does # "minus"
    BY <1>7 DEF Given
  <2>2. Holds(Given(f, arg), types)
    BY <1>4, <1>5, <1>7, <2>1, HoldsMore
  <2> QED BY <1>6, <2>1, <2>2 DEF types
<1>8. CASE Passes(f.body.does, t)
  <2>1. Given(f, arg) = arg /\ Len(args) = 1
    BY <1>4, <1>8 DEF Given, Passes
  <2>2. PICK n \in TypeSets : /\ Flows(t.params[1], n) /\ Flows(n, t.returns)
                              /\ f.body.does = "minus" => type_check_negate(n)
    BY <1>8 DEF Passes
  <2>3. t.params[1] \in TypeSets
    <3>1. t.params \in Seq(TypeSets) /\ Len(t.params) = 1
      BY <1>3, <1>4, <2>1, Parts
    <3> QED BY <3>1
  <2>4. Holds(arg, t.params[1])
    <3>1. args[1] \in TypeSets /\ Holds(arg, args[1]) /\ ~Retyped(t.params[1], args[1])
      BY <1>2, <2>1, HoldsSome
    <3> QED BY <2>3, <3>1, HoldsKept
  <2>5. Holds(arg, n)
    BY <2>2, <2>3, <2>4, FlowsHolds
  <2>6. f.body.does = "minus" => is_number(arg)
    BY <2>2, <2>5, Numbers DEF type_check_negate
  <2>7. Holds(arg, t.returns)
    BY <1>5, <2>2, <2>5, FlowsHolds
  <2>8. Holds(arg, types)
    BY <1>4, <1>5, <2>7, HoldsMore
  <2> QED BY <1>6, <2>1, <2>6, <2>8 DEF types
<1> QED BY <1>6, <1>7, <1>8


(***************************************************************************)
(* The inductive invariant.                                                *)
(***************************************************************************)
Good(r) ==
  /\ r.types \in TypeSets /\ r.types # {} /\ r.doubt \in BOOLEAN
  /\ r.doubt \/ Holds(r.value, r.types)

Stacked(s) ==
  /\ \E S : s \in Seq(S)
  /\ \A i \in DOMAIN s : Good(s[i])

Variables(v) ==
  /\ v = [name \in Names |-> v[name]]
  /\ \A name \in Names : v[name] = Undeclared \/ Good(v[name])

Bounded ==
  /\ sample \in Samples /\ steps \in 0..sample.length
  /\ Len(stack) <= MaxStack /\ outcome \in {"running", "doubtful"}

IInv == Bounded /\ Stacked(stack) /\ Variables(variables)

LEMMA GoodResult ==
  ASSUME NEW types \in TypeSets, types # {}, NEW value, NEW d \in BOOLEAN,
         d \/ Holds(value, types)
  PROVE  Good(Result(types, value, d))
<1> DEFINE r == Result(types, value, d)
<1>1. r.types = types /\ r.value = value /\ r.doubt = d
  BY DEF Result
<1> HIDE DEF r
<1>2. Good(r)
  BY <1>1 DEF Good
<1> QED BY <1>2 DEF r

LEMMA StackedIs ==
  ASSUME NEW s, Stacked(s)
  PROVE  /\ Len(s) \in Nat /\ DOMAIN s = 1..Len(s)
         /\ \A i \in 1..Len(s) : Good(s[i])
<1>1. PICK S : s \in Seq(S)
  BY DEF Stacked
<1>2. Len(s) \in Nat /\ DOMAIN s = 1..Len(s)
  BY <1>1
<1> QED BY <1>2 DEF Stacked

LEMMA StackedDrop ==
  ASSUME NEW s, Stacked(s), NEW n \in 0..Len(s)
  PROVE  /\ Stacked(SubSeq(s, 1, Len(s) - n))
         /\ Len(SubSeq(s, 1, Len(s) - n)) = Len(s) - n
<1>1. PICK S : s \in Seq(S)
  BY DEF Stacked
<1> DEFINE m == Len(s) - n
           q == SubSeq(s, 1, m)
<1>2. Len(s) \in Nat /\ m \in Nat /\ m <= Len(s)
  BY <1>1
<1>3. /\ q \in Seq(S) /\ Len(q) = m
      /\ \A i \in 1..m : q[i] = s[i]
  <2> HIDE DEF m
  <2>1. \A i \in 1..m : i \in 1..Len(s)
    BY <1>2
  <2>2. q = [i \in 1..m |-> s[i]]
    BY <1>1, <1>2, <2>1 DEF SubSeq
  <2> QED BY <1>1, <1>2, <2>1, <2>2
<1>4. \A i \in DOMAIN q : Good(q[i])
  <2>1. \A i \in 1..m : i \in 1..Len(s)
    BY <1>2
  <2>2. DOMAIN q = 1..m
    <3> HIDE DEF q, m
    <3> QED BY <1>2, <1>3
  <2> HIDE DEF q, m
  <2> QED BY <1>3, <2>1, <2>2, StackedIs
<1> HIDE DEF q
<1>5. Stacked(q)
  BY <1>3, <1>4 DEF Stacked
<1> QED BY <1>3, <1>5 DEF q

LEMMA StackedPush ==
  ASSUME NEW s, Stacked(s), NEW r, Good(r)
  PROVE  Stacked(Append(s, r)) /\ Len(Append(s, r)) = Len(s) + 1
<1>1. PICK S : s \in Seq(S)
  BY DEF Stacked
<1> DEFINE T == S \union {r}
           q == Append(s, r)
<1>2. s \in Seq(T) /\ r \in T
  BY <1>1
<1> HIDE DEF T
<1>3. /\ q \in Seq(T) /\ Len(q) = Len(s) + 1
      /\ \A i \in 1..Len(s) : q[i] = s[i]
      /\ q[Len(s) + 1] = r
  BY <1>2, AppendProperties
<1>4. \A i \in DOMAIN q : Good(q[i])
  <2>1. DOMAIN q = 1..(Len(s) + 1) /\ Len(s) \in Nat
    BY <1>2, <1>3
  <2>2. ASSUME NEW i \in DOMAIN q PROVE i \in 1..Len(s) \/ i = Len(s) + 1
    BY <2>1, <2>2
  <2> HIDE DEF q
  <2> QED BY <1>3, <2>2, StackedIs
<1> HIDE DEF q
<1>5. Stacked(q)
  BY <1>3, <1>4 DEF Stacked
<1> QED BY <1>3, <1>5 DEF q

LEMMA NoneStacked ==
  Stacked(<<>>) /\ Len(<<>>) = 0
<1>1. <<>> \in Seq({}) /\ DOMAIN <<>> = {}
  OBVIOUS
<1>2. \E S : <<>> \in Seq(S)
  BY <1>1
<1> QED BY <1>1, <1>2 DEF Stacked


LEMMA StepBounds ==
  ASSUME IInv, NEW c, Step(c)
  PROVE  /\ sample' = sample /\ sample \in Samples /\ MaxStack' = MaxStack
         /\ steps' \in 0..sample'.length /\ outcome = "running"
         /\ MaxStack \in Nat
<1>1. sample.length \in Nat /\ sample.depth \in Nat /\ steps \in 0..sample.length
  BY SamplesAssumption DEF IInv, Bounded
<1>2. sample' = sample /\ steps < sample.length /\ steps' = steps + 1
  BY DEF Step
<1>3. steps' \in 0..sample.length
  BY <1>1, <1>2
<1> QED BY <1>1, <1>2, <1>3 DEF Step, IInv, Bounded, MaxStack

\* An operation that takes n results and leaves one that is right.
LEMMA LeaveKeeps ==
  ASSUME IInv, NEW c, Step(c), NEW n \in 0..Len(stack),
         n > 0 \/ Len(stack) < MaxStack,
         NEW types \in TypeSets, types # {}, NEW value, NEW d \in BOOLEAN,
         d \/ Holds(value, types), Leave(n, types, value, d),
         Variables(variables')
  PROVE  IInv'
<1>1. Good(Result(types, value, d))
  BY GoodResult
<1>2. Stacked(stack) /\ Len(stack) \in Nat /\ Len(stack) <= MaxStack
  BY StackedIs DEF IInv, Bounded
<1>3. /\ Stacked(Drop(n)) /\ Len(Drop(n)) = Len(stack) - n
  BY <1>2, StackedDrop DEF Drop
<1>4. stack' = Append(Drop(n), Result(types, value, d)) /\ outcome' = outcome
  BY DEF Leave
<1> DEFINE r == Result(types, value, d)
           s == Drop(n)
<1> HIDE DEF r, s
<1>5. Stacked(Append(s, r)) /\ Len(Append(s, r)) = Len(s) + 1
  BY <1>1, <1>3, StackedPush DEF r, s
<1>6. stack' = Append(s, r)
  BY <1>4 DEF r, s
<1>7. Len(stack') <= MaxStack
  <2>1. MaxStack \in Nat
    BY StepBounds
  <2>2. Len(stack') = Len(stack) - n + 1
    BY <1>3, <1>5, <1>6 DEF s
  <2> QED BY <1>2, <2>1, <2>2
<1>8. Bounded'
  BY <1>4, <1>7, StepBounds DEF Bounded
<1> QED BY <1>5, <1>6, <1>8 DEF IInv

LEMMA RefuseKeeps ==
  ASSUME IInv, NEW c, Step(c), NEW d \in BOOLEAN, d, Refuse(d)
  PROVE  IInv'
<1>1. outcome' = "doubtful" /\ stack' = <<>> /\ variables' = variables
  BY DEF Refuse
<1>2. Stacked(stack') /\ Len(stack') <= MaxStack
  BY <1>1, NoneStacked, StepBounds
<1>3. Bounded'
  BY <1>1, <1>2, StepBounds DEF Bounded
<1> QED BY <1>1, <1>2, <1>3 DEF IInv

\* The results an operation takes.
LEMMA Results1 ==
  ASSUME IInv, Len(stack) >= 1
  PROVE  Good(Top) /\ Len(stack) \in Nat
<1>1. Len(stack) \in Nat /\ \A i \in 1..Len(stack) : Good(stack[i])
  BY StackedIs DEF IInv
<1> QED BY <1>1 DEF Top

LEMMA Results2 ==
  ASSUME IInv, Len(stack) >= 2
  PROVE  Good(Top) /\ Good(Below) /\ Len(stack) \in Nat
<1>1. Len(stack) \in Nat /\ \A i \in 1..Len(stack) : Good(stack[i])
  BY StackedIs DEF IInv
<1> QED BY <1>1 DEF Top, Below

(***************************************************************************)
(* Every action keeps it.                                                  *)
(***************************************************************************)
LEMMA LiteralKeeps ==
  ASSUME IInv, literal
  PROVE  IInv'
<1>1. PICK value \in literals :
        /\ Step("literal") /\ Len(stack) < MaxStack
        /\ Leave(0, {TypeInfo(value.type)}, value, FALSE)
        /\ UNCHANGED variables
  BY DEF literal
<1>2. value.type \in {"NIL", "BOOL", "INT", "FLOAT", "STRING"}
  BY DEF literals, Nil, Value
<1> DEFINE no == FALSE
           types == {TypeInfo(value.type)}
<1>3. types \in TypeSets /\ types # {} /\ Holds(value, types)
  BY <1>2, PlainTypes, PlainValue
<1>4. no \in BOOLEAN /\ Leave(0, types, value, no)
  BY <1>1
<1>5. 0 \in 0..Len(stack)
  BY StackedIs DEF IInv
<1>6. Variables(variables')
  BY <1>1 DEF IInv
<1> HIDE DEF no, types
<1> QED BY <1>1, <1>3, <1>4, <1>5, <1>6, LeaveKeeps

LEMMA NotKeeps ==
  ASSUME IInv, unary_not
  PROVE  IInv'
<1> DEFINE no == FALSE
           types == {TypeInfo("BOOL")}
           value == Bool(is_falsey(Top.value))
<1>1. Len(stack) >= 1 /\ Step("unary_not") /\ Leave(1, types, value, no)
  BY DEF unary_not
<1>2. value.type = "BOOL"
  BY DEF Bool, Value
<1> HIDE DEF value
<1>3. types \in TypeSets /\ types # {} /\ Holds(value, types)
  BY <1>2, PlainTypes, PlainValue
<1>4. no \in BOOLEAN
  OBVIOUS
<1>5. 1 \in 0..Len(stack)
  BY <1>1, Results1
<1>6. Variables(variables')
  BY DEF IInv, unary_not
<1> HIDE DEF no, types
<1> QED BY <1>1, <1>3, <1>4, <1>5, <1>6, LeaveKeeps

LEMMA MinusKeeps ==
  ASSUME IInv, unary_minus
  PROVE  IInv'
<1>1. Len(stack) >= 1 /\ type_check_negate(Top.types) /\ Step("unary_minus")
  BY DEF unary_minus
<1>2. Good(Top) /\ 1 \in 0..Len(stack)
  BY <1>1, Results1
<1>3. CASE is_number(Top.value)
  <2>1. Leave(1, Top.types, Top.value, Top.doubt) /\ variables' = variables
    BY <1>3 DEF unary_minus
  <2>2. Variables(variables')
    BY <2>1 DEF IInv
  <2> QED BY <1>1, <1>2, <2>1, <2>2, LeaveKeeps DEF Good
<1>4. CASE ~is_number(Top.value)
  <2>1. Refuse(Top.doubt)
    BY <1>4 DEF unary_minus
  <2>2. ~Holds(Top.value, Top.types)
    BY <1>1, <1>4, Numbers DEF type_check_negate
  <2> QED BY <1>1, <1>2, <2>1, <2>2, RefuseKeeps DEF Good
<1> QED BY <1>3, <1>4


\* What a binary operator gives of values that are of their types.
LEMMA BinaryTypes ==
  ASSUME NEW token \in {"PLUS", "LEFT_CHEVRON", "EQUAL_EQUAL"},
         NEW a \in TypeSets, NEW b \in TypeSets, a # {}, b # {},
         type_check_binary(token, a, b) # {}
  PROVE  type_check_binary(token, a, b) \in TypeSets
<1>1. CASE token = "PLUS"
  <2>1. type_check_binary(token, a, b) = type_check_arithmetic(a, b)
    BY <1>1 DEF type_check_binary, Equalities, Comparisons
  <2> QED BY <2>1, ArithmeticTypes
<1>2. CASE token # "PLUS"
  <2>1. type_check_binary(token, a, b) = {TypeInfo("BOOL")}
    BY <1>2 DEF type_check_binary, Equalities, Comparisons
  <2> QED BY <2>1, PlainTypes
<1> QED BY <1>1, <1>2

LEMMA BinaryHolds ==
  ASSUME NEW token \in {"PLUS", "LEFT_CHEVRON", "EQUAL_EQUAL"},
         NEW a, NEW b, NEW v, NEW w, Holds(v, a), Holds(w, b),
         type_check_binary(token, a, b) # {}
  PROVE  /\ token \notin Equalities => is_number(v) /\ is_number(w)
         /\ \A value \in binary_op(token, v, w) :
              Holds(value, type_check_binary(token, a, b))
<1>1. CASE token = "PLUS"
  <2>1. type_check_binary(token, a, b) = type_check_arithmetic(a, b)
    BY <1>1 DEF type_check_binary, Equalities, Comparisons
  <2>2. ASSUME NEW value \in binary_op(token, v, w)
        PROVE  value.type = ArithmeticType(v, w)
    BY <1>1 DEF binary_op, ArithmeticType, Value, Equalities, Comparisons
  <2>3. binary_op(token, v, w) # {}
    BY <1>1 DEF binary_op, Equalities, Comparisons
  <2> QED BY <2>1, <2>2, <2>3, ArithmeticHolds
<1>2. CASE token # "PLUS"
  <2>1. /\ type_check_binary(token, a, b) = {TypeInfo("BOOL")}
        /\ token \notin Equalities => type_check_comparison(a, b)
    BY <1>2 DEF type_check_binary, Equalities, Comparisons
  <2>2. ASSUME NEW value \in binary_op(token, v, w)
        PROVE  value.type = "BOOL"
    <3>1. PICK yes \in BOOLEAN : value = Bool(yes)
      BY <1>2 DEF binary_op, Equalities, Comparisons
    <3> QED BY <3>1 DEF Bool, Value
  <2> QED BY <2>1, <2>2, ComparisonHolds, PlainValue
<1> QED BY <1>1, <1>2

LEMMA BinaryKeeps ==
  ASSUME IInv, binary
  PROVE  IInv'
<1>1. PICK token \in {"PLUS", "LEFT_CHEVRON", "EQUAL_EQUAL"} :
        LET types == type_check_binary(token, Below.types, Top.types)
            doubt == Below.doubt \/ Top.doubt
        IN /\ Len(stack) >= 2 /\ types # {} /\ Step("binary")
           /\ IF \/ token \in Equalities
                 \/ is_number(Below.value) /\ is_number(Top.value)
              THEN /\ \E value \in binary_op(token, Below.value, Top.value) :
                        Leave(2, types, value, doubt)
                   /\ UNCHANGED variables
              ELSE Refuse(doubt)
  BY DEF binary
<1> DEFINE types == type_check_binary(token, Below.types, Top.types)
           d == Below.doubt \/ Top.doubt
<1>2. Len(stack) >= 2 /\ types # {} /\ Step("binary")
  BY <1>1
<1>3. Good(Below) /\ Good(Top) /\ 2 \in 0..Len(stack)
  BY <1>2, Results2
<1>4. d \in BOOLEAN
  BY <1>3 DEF Good
<1>5. ~d => Holds(Below.value, Below.types) /\ Holds(Top.value, Top.types)
  BY <1>3 DEF Good
<1>6. types \in TypeSets
  BY <1>2, <1>3, BinaryTypes DEF Good
<1>7. CASE \/ token \in Equalities
           \/ is_number(Below.value) /\ is_number(Top.value)
  <2>1. /\ \E value \in binary_op(token, Below.value, Top.value) :
             Leave(2, types, value, d)
        /\ UNCHANGED variables
    BY <1>1, <1>7
  <2>2. PICK value \in binary_op(token, Below.value, Top.value) :
          Leave(2, types, value, d)
    BY <2>1
  <2>3. d \/ Holds(value, types)
    BY <1>2, <1>5, BinaryHolds
  <2>4. Variables(variables')
    BY <2>1 DEF IInv
  <2> HIDE DEF d, types
  <2> QED BY <1>2, <1>3, <1>4, <1>6, <2>2, <2>3, <2>4, LeaveKeeps
<1>8. CASE ~ \/ token \in Equalities
             \/ is_number(Below.value) /\ is_number(Top.value)
  <2>1. Refuse(d)
    BY <1>1, <1>8
  <2>2. d
    BY <1>2, <1>5, <1>8, BinaryHolds
  <2> HIDE DEF d
  <2> QED BY <1>2, <1>4, <2>1, <2>2, RefuseKeeps
<1> QED BY <1>7, <1>8

\* The value of "and" and of "or" is a Bool if both operands are.
LEMMA LogicalKeeps ==
  ASSUME IInv, and_ \/ or_
  PROVE  IInv'
<1> DEFINE bools == {TypeInfo("BOOL")}
           d == Logical(Below.doubt \/ Top.doubt)
<1>1. PICK value \in {Below.value, Top.value}, c \in {"and_", "or_"} :
        Len(stack) >= 2 /\ Step(c) /\ Leave(2, bools, value, d) /\ UNCHANGED variables
  <2>1. CASE and_
    <3> DEFINE value == IF is_falsey(Below.value) THEN Below.value ELSE Top.value
    <3>1. value \in {Below.value, Top.value}
      OBVIOUS
    <3>2. /\ Len(stack) >= 2 /\ Step("and_") /\ Leave(2, bools, value, d)
          /\ UNCHANGED variables
      BY <2>1 DEF and_
    <3> HIDE DEF value, bools, d
    <3> QED BY <3>1, <3>2
  <2>2. CASE or_
    <3> DEFINE value == IF is_falsey(Below.value) THEN Top.value ELSE Below.value
    <3>1. value \in {Below.value, Top.value}
      OBVIOUS
    <3>2. /\ Len(stack) >= 2 /\ Step("or_") /\ Leave(2, bools, value, d)
          /\ UNCHANGED variables
      BY <2>2 DEF or_
    <3> HIDE DEF value, bools, d
    <3> QED BY <3>1, <3>2
  <2> QED BY <2>1, <2>2
<1>2. Good(Below) /\ Good(Top) /\ 2 \in 0..Len(stack)
  BY <1>1, Results2
<1>3. d = (Below.doubt \/ Top.doubt \/ Below.types # bools \/ Top.types # bools)
  BY DEF Logical
<1>4. d \in BOOLEAN
  BY <1>2, <1>3 DEF Good
<1>5. d \/ Holds(value, bools)
  BY <1>1, <1>2, <1>3 DEF Good
<1>6. bools \in TypeSets /\ bools # {}
  BY PlainTypes
<1>7. Variables(variables')
  BY <1>1 DEF IInv
<1> HIDE DEF d, bools
<1> QED BY <1>1, <1>2, <1>4, <1>5, <1>6, <1>7, LeaveKeeps

LEMMA AsKeeps ==
  ASSUME IInv, as
  PROVE  IInv'
<1>1. PICK types \in Written :
        /\ Len(stack) >= 1 /\ type_check_cast(Top.types, types) /\ Step("as")
        /\ Leave(1, types, Top.value, Top.doubt \/ ~(Top.types \subseteq types))
        /\ UNCHANGED variables
  BY DEF as
<1> DEFINE d == Top.doubt \/ ~(Top.types \subseteq types)
<1>2. Good(Top) /\ 1 \in 0..Len(stack)
  BY <1>1, Results1
<1>3. types \in TypeSets /\ types # {}
  BY SamplesAssumption DEF IInv, Bounded, Written, TypeSets
<1>4. d \in BOOLEAN
  BY <1>2 DEF Good
<1>5. d \/ Holds(Top.value, types)
  BY <1>2, <1>3, HoldsMore DEF Good
<1>6. Variables(variables') /\ Leave(1, types, Top.value, d)
  BY <1>1 DEF IInv
<1> HIDE DEF d
<1> QED BY <1>1, <1>2, <1>3, <1>4, <1>5, <1>6, LeaveKeeps


LEMMA IfElseKeeps ==
  ASSUME IInv, if_else
  PROVE  IInv'
<1> DEFINE types == BranchTypes(Below.types, Top.types)
           value == IF is_falsey(Condition.value) THEN Top.value ELSE Below.value
           d == Below.doubt \/ Top.doubt
<1>1. /\ Len(stack) >= 3 /\ Step("if_else") /\ Leave(3, types, value, d)
      /\ UNCHANGED variables
  BY DEF if_else
<1>2. Good(Below) /\ Good(Top) /\ Len(stack) \in Nat
  <2>1. Len(stack) \in Nat
    BY StackedIs DEF IInv
  <2>2. Len(stack) >= 2
    BY <1>1, <2>1
  <2> QED BY <2>2, Results2
<1>3. 3 \in 0..Len(stack)
  BY <1>1, <1>2
<1>4. /\ types \in TypeSets /\ types # {}
      /\ Below.types \subseteq types /\ Top.types \subseteq types
  BY <1>2 DEF Good, BranchTypes, Joined, TypeSets
<1>5. d \in BOOLEAN
  BY <1>2 DEF Good
<1> HIDE DEF types
<1>6. d \/ Holds(value, types)
  <2>1. d \/ (Holds(Below.value, types) /\ Holds(Top.value, types))
    BY <1>2, <1>4, HoldsMore DEF Good
  <2> QED BY <2>1
<1>7. Variables(variables')
  BY <1>1 DEF IInv
<1> HIDE DEF d, value
<1> QED BY <1>1, <1>3, <1>4, <1>5, <1>6, <1>7, LeaveKeeps

LEMMA IfAloneKeeps ==
  ASSUME IInv, if_alone
  PROVE  IInv'
<1> DEFINE types == Joined(Top.types, {})
           value == IF is_falsey(Below.value) THEN Nil ELSE Top.value
           d == Top.doubt \/ TypeInfo("NIL") \notin Top.types
<1>1. /\ Len(stack) >= 2 /\ Step("if_alone") /\ Leave(2, types, value, d)
      /\ UNCHANGED variables
  BY DEF if_alone
<1>2. Good(Top) /\ 2 \in 0..Len(stack)
  BY <1>1, Results2
<1>3. types = Top.types
  BY DEF Joined
<1>4. types \in TypeSets /\ types # {} /\ d \in BOOLEAN
  BY <1>2, <1>3 DEF Good
<1>5. Holds(Nil, {TypeInfo("NIL")})
  BY PlainValue DEF Nil, Value
<1> HIDE DEF types
<1>6. d \/ Holds(value, types)
  <2>1. CASE d
    BY <2>1
  <2>2. CASE ~d
    <3>1. Holds(Top.value, types) /\ {TypeInfo("NIL")} \subseteq types
      BY <1>2, <1>3, <2>2 DEF Good
    <3>2. Holds(Nil, types)
      BY <1>4, <1>5, <3>1, PlainTypes, HoldsMore
    <3> QED BY <3>1, <3>2
  <2> QED BY <2>1, <2>2
<1>7. Variables(variables')
  BY <1>1 DEF IInv
<1> HIDE DEF d, value
<1> QED BY <1>1, <1>2, <1>4, <1>6, <1>7, LeaveKeeps

\* A value is stored in a variable whose types are compared with its own.
StoredDoubt(types) == Top.doubt \/ Retyped(types, Top.types)

LEMMA StoreDoubt ==
  ASSUME Good(Top), NEW types \in TypeSets
  PROVE  /\ StoredDoubt(types) \in BOOLEAN
         /\ StoredDoubt(types) \/ Holds(Top.value, types)
BY HoldsKept DEF StoredDoubt, Good

LEMMA StoreKeeps ==
  ASSUME IInv, Good(Top), NEW name \in Names,
         NEW types \in TypeSets, types # {}, Store(name, types)
  PROVE  Variables(variables')
<1> DEFINE r == Result(types, Top.value, StoredDoubt(types))
<1>1. Good(r)
  BY StoreDoubt, GoodResult
<1>2. variables' = [variables EXCEPT ![name] = r]
  BY DEF Store, StoredDoubt
<1> HIDE DEF r
<1>3. /\ variables = [n \in Names |-> variables[n]]
      /\ \A n \in Names : variables[n] = Undeclared \/ Good(variables[n])
  BY DEF IInv, Variables
<1>4. variables' = [n \in Names |-> IF n = name THEN r ELSE variables[n]]
  BY <1>2, <1>3
<1>5. variables' = [n \in Names |-> variables'[n]]
  BY <1>4
<1>6. \A n \in Names : variables'[n] = Undeclared \/ Good(variables'[n])
  BY <1>1, <1>3, <1>4
<1> QED BY <1>5, <1>6 DEF Variables

LEMMA DeclarationKeeps ==
  ASSUME IInv, var_declaration
  PROVE  IInv'
<1>1. PICK name \in Names, types \in Written \union {Top.types} :
        /\ Step("var_declaration") /\ Store(name, types)
        /\ stack' = Drop(1) /\ UNCHANGED outcome
  BY DEF var_declaration
<1>2. Good(Top) /\ 1 \in 0..Len(stack)
  BY Results1 DEF var_declaration
<1>3. types \in TypeSets /\ types # {}
  BY <1>2, SamplesAssumption DEF IInv, Bounded, Written, TypeSets, Good
<1>4. Variables(variables')
  BY <1>1, <1>2, <1>3, StoreKeeps
<1>5. Stacked(stack') /\ Len(stack') = Len(stack) - 1
  BY <1>1, <1>2, StackedDrop DEF IInv, Drop
<1>6. Len(stack') <= MaxStack'
  <2>1. Len(stack) \in Nat /\ Len(stack) <= MaxStack
    BY <1>2, StackedIs DEF IInv, Bounded
  <2> QED BY <1>1, <1>5, <2>1, StepBounds
<1>7. Bounded'
  BY <1>1, <1>6, StepBounds DEF Bounded
<1> QED BY <1>4, <1>5, <1>7 DEF IInv

LEMMA AssignmentKeeps ==
  ASSUME IInv, assignment
  PROVE  IInv'
<1>1. PICK name \in Names :
        LET types == variables[name].types
        IN /\ Len(stack) >= 1 /\ types # {}
           /\ type_check_assign(types, Top.types) /\ Step("assignment")
           /\ Store(name, types)
           /\ Leave(1, types, Top.value, Top.doubt \/ Retyped(types, Top.types))
  BY DEF assignment
<1> DEFINE types == variables[name].types
           d == StoredDoubt(types)
<1>2. /\ Len(stack) >= 1 /\ types # {} /\ Step("assignment")
      /\ Store(name, types) /\ Leave(1, types, Top.value, d)
  BY <1>1 DEF StoredDoubt
<1>3. Good(Top) /\ 1 \in 0..Len(stack)
  BY <1>2, Results1
<1>4. types \in TypeSets
  BY <1>2 DEF IInv, Variables, Good, Undeclared, Result, TypeSets
<1>5. Variables(variables')
  BY <1>2, <1>3, <1>4, StoreKeeps
<1>6. d \in BOOLEAN /\ (d \/ Holds(Top.value, types))
  BY <1>3, <1>4, StoreDoubt
<1> HIDE DEF d, types
<1> QED BY <1>2, <1>3, <1>4, <1>5, <1>6, LeaveKeeps

LEMMA NamedKeeps ==
  ASSUME IInv, named_variable
  PROVE  IInv'
<1>1. PICK name \in Names :
        /\ Len(stack) < MaxStack /\ variables[name].types # {}
        /\ Step("named_variable")
        /\ stack' = Append(stack, variables[name])
        /\ UNCHANGED <<variables, outcome>>
  BY DEF named_variable
<1>2. Good(variables[name])
  BY <1>1 DEF IInv, Variables, Undeclared, Result
<1>3. Stacked(stack') /\ Len(stack') = Len(stack) + 1
  BY <1>1, <1>2, StackedPush DEF IInv
<1>4. Len(stack') <= MaxStack'
  BY <1>1, <1>3, StepBounds, StackedIs DEF IInv
<1>5. Bounded'
  BY <1>1, <1>4, StepBounds DEF Bounded
<1> QED BY <1>1, <1>3, <1>5 DEF IInv


\* A function declared with types that a program writes.
LEMMA DeclaredInfo ==
  ASSUME IInv, NEW returns \in Written, NEW arity \in 0..1,
         NEW params \in [1..arity -> Written]
  PROVE  /\ returns \in TypeSets /\ params \in Seq(TypeSets) /\ Len(params) = arity
         /\ FunctionInfo(params, returns) \in Infos
         /\ {FunctionInfo(params, returns)} \in TypeSets
<1>1. /\ sample.written \subseteq (SUBSET Infos) \ {{}}
      /\ \A r \in sample.written, a \in 0..1 :
           \A p \in [1..a -> sample.written] : FunctionInfo(p, r) \in Infos
  BY SamplesAssumption DEF IInv, Bounded
<1>2. FunctionInfo(params, returns) \in Infos
  BY <1>1 DEF Written
<1>3. Written \subseteq TypeSets
  BY <1>1 DEF Written, TypeSets
<1>4. params \in [1..arity -> TypeSets] /\ arity \in Nat
  BY <1>3
<1>5. params \in Seq(TypeSets) /\ Len(params) = arity
  BY <1>4
<1> QED BY <1>2, <1>3, <1>5 DEF TypeSets

LEMMA FnValueKeeps ==
  ASSUME IInv, fn_value
  PROVE  IInv'
<1>1. PICK returns \in Written, arity \in 0..1 :
        \E params \in [1..arity -> Written] :
          /\ Len(stack) >= 1 /\ type_check_assign(returns, Top.types)
          /\ Step("fn_value")
          /\ Leave(1, {FunctionInfo(params, returns)},
                   Closure(arity, "value", <<Top.value>>),
                   Top.doubt \/ Retyped(returns, Top.types))
          /\ UNCHANGED variables
  BY Zenon DEF fn_value
<1>2. PICK params \in [1..arity -> Written] :
          /\ Len(stack) >= 1 /\ type_check_assign(returns, Top.types)
          /\ Step("fn_value")
          /\ Leave(1, {FunctionInfo(params, returns)},
                   Closure(arity, "value", <<Top.value>>),
                   Top.doubt \/ Retyped(returns, Top.types))
          /\ UNCHANGED variables
  BY <1>1
<1> DEFINE types == {FunctionInfo(params, returns)}
           value == Closure(arity, "value", <<Top.value>>)
           d == StoredDoubt(returns)
<1>3. /\ returns \in TypeSets /\ params \in Seq(TypeSets) /\ Len(params) = arity
      /\ FunctionInfo(params, returns) \in Infos /\ types \in TypeSets
  BY <1>1, <1>2, DeclaredInfo
<1>4. Good(Top) /\ 1 \in 0..Len(stack)
  BY <1>2, Results1
<1>5. d \in BOOLEAN
  BY <1>3, <1>4, StoreDoubt
<1>6. d \/ Holds(value, types)
  <2>1. d \/ (Holds(Top.value, Top.types) /\ ~Retyped(returns, Top.types))
    BY <1>4 DEF StoredDoubt, Good
  <2>2. arity \in Nat
    BY <1>1
  <2> HIDE DEF d
  <2> QED BY <1>3, <2>1, <2>2, FnValueHolds
<1>7. Variables(variables')
  BY <1>2 DEF IInv
<1>8. Leave(1, types, value, d) /\ types # {}
  BY <1>2 DEF StoredDoubt
<1> HIDE DEF d, types, value
<1> QED BY <1>2, <1>3, <1>4, <1>5, <1>6, <1>7, <1>8, LeaveKeeps

LEMMA FnParameterKeeps ==
  ASSUME IInv, fn_parameter
  PROVE  IInv'
<1>1. PICK param \in Written, returns \in Written, does \in {"parameter", "minus"} :
        /\ Len(stack) < MaxStack /\ Step("fn_parameter")
        /\ does = "minus" => type_check_negate(param)
        /\ type_check_assign(returns, param)
        /\ Leave(0, {FunctionInfo(<<param>>, returns)}, Closure(1, does, <<>>),
                 Retyped(returns, param))
        /\ UNCHANGED variables
  BY DEF fn_parameter
<1> DEFINE types == {FunctionInfo(<<param>>, returns)}
           value == Closure(1, does, <<>>)
           d == Retyped(returns, param)
<1>2. /\ param \in TypeSets /\ returns \in TypeSets
      /\ FunctionInfo(<<param>>, returns) \in Infos /\ types \in TypeSets
  <2>1. <<param>> \in [1..1 -> Written] /\ 1 \in 0..1
    BY <1>1
  <2>2. param \in TypeSets
    BY SamplesAssumption DEF IInv, Bounded, Written, TypeSets
  <2> QED BY <1>1, <2>1, <2>2, DeclaredInfo
<1>3. d \in BOOLEAN
  BY DEF Retyped
<1>4. d \/ Holds(value, types)
  BY <1>1, <1>2, FnParameterHolds
<1>5. Variables(variables') /\ 0 \in 0..Len(stack)
  BY <1>1, StackedIs DEF IInv
<1>6. Leave(0, types, value, d) /\ types # {}
  BY <1>1
<1> HIDE DEF d, types, value
<1> QED BY <1>1, <1>2, <1>3, <1>4, <1>5, <1>6, LeaveKeeps

LEMMA ReturnNothingKeeps ==
  ASSUME IInv, return_nothing
  PROVE  IInv'
<1>1. PICK returns \in Written :
        /\ Len(stack) < MaxStack /\ Step("return_nothing")
        /\ Leave(0, {FunctionInfo(<<>>, returns)}, Closure(0, "value", <<Nil>>),
                 ~type_check_assign(returns, {TypeInfo("NIL")}))
        /\ UNCHANGED variables
  BY DEF return_nothing
<1> DEFINE nil == TypeInfo("NIL")
           types == {FunctionInfo(<<>>, returns)}
           value == Closure(0, "value", <<Nil>>)
           d == ~type_check_assign(returns, {nil})
<1>2. /\ returns \in TypeSets /\ <<>> \in Seq(TypeSets) /\ Len(<<>>) = 0
      /\ FunctionInfo(<<>>, returns) \in Infos /\ types \in TypeSets
  <2>1. <<>> \in [1..0 -> Written] /\ 0 \in 0..1
    OBVIOUS
  <2> QED BY <1>1, <2>1, DeclaredInfo
<1>3. d \in BOOLEAN
  BY DEF type_check_assign, AssignSet
<1>4. nil \in Infos /\ nil.type = "NIL" /\ Holds(Nil, {nil})
  BY PlainTypes, PlainValue DEF Nil, Value
<1> HIDE DEF nil
<1>5. d \/ ~Retyped(returns, {nil})
  <2>1. SUFFICES ASSUME ~d PROVE \A r \in {nil} : \E l \in returns : Keeps[<<l, r>>]
    BY DEF Retyped, AssignSet
  <2>2. PICK l \in returns : MayAssign[<<l, nil>>]
    BY <2>1 DEF type_check_assign, AssignSet
  <2>3. l \in Infos
    BY <1>2 DEF TypeSets
  <2>4. Kept(l, nil)
    BY <1>4, <2>2, <2>3, Assigned DEF Kept, is_function
  <2> QED BY <1>4, <2>3, <2>4, KeptPair
<1>6. d \/ Holds(value, types)
  <2> HIDE DEF d
  <2> QED BY <1>2, <1>4, <1>5, FnValueHolds
<1>7. Variables(variables') /\ 0 \in 0..Len(stack)
  BY <1>1, StackedIs DEF IInv
<1>8. Leave(0, types, value, d) /\ types # {}
  BY <1>1 DEF nil
<1> HIDE DEF d, types, value
<1> QED BY <1>1, <1>2, <1>3, <1>6, <1>7, <1>8, LeaveKeeps


LEMMA CallKeeps ==
  ASSUME IInv, call
  PROVE  IInv'
<1>1. PICK arg_count \in {n \in {0, 1} : n < Len(stack)} :
        LET at == Len(stack) - arg_count
            callee == stack[at]
            args == [i \in 1..arg_count |-> Args(at)[i].types]
            types == type_check_call(callee.types, args)
            body == callee.value.body
            doubt == \E i \in at..Len(stack) : stack[i].doubt
            value == IF body.does = "value" THEN body.result[1] ELSE Top.value
            retyped == \E c \in callee.types, i \in 1..arg_count :
                         Retyped(c.params[i], args[i])
        IN /\ types # {} /\ Step("call")
           /\ IF \/ callee.value.type # "FUNCTION"
                 \/ callee.value.arity # arg_count
                 \/ body.does = "minus" /\ ~is_number(value)
              THEN Refuse(doubt \/ retyped)
              ELSE /\ Leave(arg_count + 1, types, value, doubt \/ retyped)
                   /\ UNCHANGED variables
  BY DEF call
<1> DEFINE at == Len(stack) - arg_count
           callee == stack[at]
           f == callee.value
           args == [i \in 1..arg_count |-> Args(at)[i].types]
           types == type_check_call(callee.types, args)
           value == Given(f, Top.value)
           d == \/ \E i \in at..Len(stack) : stack[i].doubt
                \/ \E c \in callee.types, i \in 1..arg_count :
                     Retyped(c.params[i], args[i])
<1>2. /\ types # {} /\ Step("call")
      /\ (\/ f.type # "FUNCTION" \/ f.arity # arg_count
          \/ f.body.does = "minus" /\ ~is_number(value))
         => Refuse(d)
      /\ ~(\/ f.type # "FUNCTION" \/ f.arity # arg_count
           \/ f.body.does = "minus" /\ ~is_number(value))
         => Leave(arg_count + 1, types, value, d) /\ UNCHANGED variables
  BY <1>1 DEF Given
<1>3. /\ Len(stack) \in Nat /\ arg_count \in {0, 1} /\ arg_count < Len(stack)
      /\ at \in 1..Len(stack) /\ \A i \in 1..Len(stack) : Good(stack[i])
  <2>1. Len(stack) \in Nat /\ \A i \in 1..Len(stack) : Good(stack[i])
    BY StackedIs DEF IInv
  <2> QED BY <1>1, <2>1
<1>4. Len(args) = arg_count /\ (arg_count = 1 => args[1] = Top.types)
  <2>1. Len(args) = arg_count
    BY <1>3
  <2>2. ASSUME arg_count = 1 PROVE Args(at)[1] = Top
    <3>1. PICK S : stack \in Seq(S)
      BY DEF IInv, Stacked
    <3>2. at + 1 = Len(stack)
      BY <1>3, <2>2
    <3>3. Args(at) = SubSeq(stack, Len(stack), Len(stack))
      BY <3>2 DEF Args
    <3>4. SubSeq(stack, Len(stack), Len(stack))[1] = stack[Len(stack)]
      BY <1>3, <3>1
    <3> QED BY <3>3, <3>4 DEF Top
  <2> QED BY <2>1, <2>2
<1>5. Good(callee) /\ Good(Top)
  BY <1>3 DEF Top
<1>6. d \in BOOLEAN
  OBVIOUS
<1>7. ASSUME ~d
      PROVE  /\ Holds(f, callee.types)
             /\ arg_count = 1 =>
                  /\ Holds(Top.value, args[1])
                  /\ \A c \in callee.types : ~Retyped(c.params[1], args[1])
  <2>1. ~callee.doubt /\ ~Top.doubt
    BY <1>3, <1>7 DEF Top
  <2>2. Holds(f, callee.types) /\ Holds(Top.value, Top.types)
    BY <1>5, <2>1 DEF Good
  <2>3. \A c \in callee.types, i \in 1..arg_count : ~Retyped(c.params[i], args[i])
    BY <1>7
  <2>4. arg_count = 1 => 1 \in 1..arg_count
    BY <1>3
  <2> HIDE DEF args, d
  <2> QED BY <1>4, <2>2, <2>3, <2>4
<1>8. types \in TypeSets
  BY <1>2, <1>5, CallTypes DEF Good
<1> HIDE DEF d, args, value
<1>9. ASSUME ~d
      PROVE  /\ f.type = "FUNCTION" /\ f.arity = arg_count
             /\ f.body.does = "minus" => is_number(value)
             /\ Holds(value, types)
  <2> DEFINE callees == callee.types
             arg == Top.value
  <2>1. /\ Holds(f, callees) /\ type_check_call(callees, args) # {}
        /\ Len(args) = 1 => Holds(arg, args[1])
        /\ Len(args) = 1 => \A c \in callees : ~Retyped(c.params[1], args[1])
    BY <1>2, <1>4, <1>7, <1>9
  <2>2. value = Given(f, arg) /\ types = type_check_call(callees, args)
    BY DEF value
  <2> HIDE DEF f, callees, arg, types
  <2>3. /\ f.type = "FUNCTION" /\ f.arity = Len(args)
        /\ f.body.does = "minus" => is_number(Given(f, arg))
        /\ Holds(Given(f, arg), type_check_call(callees, args))
    BY <2>1, CallHolds
  <2> QED BY <1>4, <2>2, <2>3
<1> HIDE DEF f, callee, at, types
<1>10. CASE \/ f.type # "FUNCTION" \/ f.arity # arg_count
            \/ f.body.does = "minus" /\ ~is_number(value)
  <2>1. d /\ Refuse(d)
    BY <1>2, <1>9, <1>10
  <2> QED BY <1>2, <1>6, <2>1, RefuseKeeps
<1>11. CASE ~(\/ f.type # "FUNCTION" \/ f.arity # arg_count
              \/ f.body.does = "minus" /\ ~is_number(value))
  <2>1. Leave(arg_count + 1, types, value, d) /\ Variables(variables')
    BY <1>2, <1>11 DEF IInv
  <2>2. arg_count + 1 \in 0..Len(stack) /\ arg_count + 1 > 0
    BY <1>3
  <2>3. d \/ Holds(value, types)
    BY <1>9
  <2> QED BY <1>2, <1>6, <1>8, <2>1, <2>2, <2>3, LeaveKeeps
<1> QED BY <1>10, <1>11

(***************************************************************************)
(* The theorems.                                                           *)
(***************************************************************************)
LEMMA Initially ==
  ASSUME Init
  PROVE  IInv
<1>1. Stacked(stack) /\ Len(stack) = 0
  BY NoneStacked DEF Init
<1>2. Variables(variables)
  BY DEF Init, Variables
<1>3. sample.length \in Nat /\ sample.depth \in Nat
  BY SamplesAssumption DEF Init
<1>4. Bounded
  BY <1>1, <1>3 DEF Init, Bounded, MaxStack
<1> QED BY <1>1, <1>2, <1>4 DEF IInv

LEMMA NextKeeps ==
  ASSUME IInv, [Next]_vars
  PROVE  IInv'
<1>1. CASE UNCHANGED vars
  BY <1>1 DEF vars, IInv, Bounded, MaxStack
<1>2. CASE Next
  BY <1>2, LiteralKeeps, BinaryKeeps, NotKeeps, MinusKeeps, LogicalKeeps,
     AsKeeps, IfElseKeeps, IfAloneKeeps, DeclarationKeeps, AssignmentKeeps,
     NamedKeeps, FnValueKeeps, FnParameterKeeps, ReturnNothingKeeps, CallKeeps
  DEF Next
<1> QED BY <1>1, <1>2

LEMMA Invariance == Spec => []IInv
<1>1. Init => IInv
  BY Initially
<1>2. IInv /\ [Next]_vars => IInv'
  BY NextKeeps
<1> QED BY <1>1, <1>2, PTL DEF Spec

LEMMA ResultsGood ==
  ASSUME IInv
  PROVE  \A r \in Results : Good(r)
<1>1. ASSUME NEW i \in DOMAIN stack PROVE Good(stack[i])
  BY DEF IInv, Stacked
<1>2. ASSUME NEW n \in Names, variables[n].types # {} PROVE Good(variables[n])
  BY <1>2 DEF IInv, Variables, Undeclared, Result
<1> QED BY <1>1, <1>2 DEF Results

\* Every result of an expression has a type, a variable has one once it is
\* declared, and the stack and the program stay within their bounds.
THEOREM TypeCorrect == Spec => []TypeOK
<1>1. IInv => TypeOK
  <2>1. SUFFICES ASSUME IInv PROVE TypeOK
    OBVIOUS
  <2>2. \A r \in Results : Good(r)
    BY <2>1, ResultsGood
  <2> QED BY <2>1, <2>2 DEF TypeOK, IInv, Bounded, Variables, Good, Undeclared
<1> QED BY <1>1, Invariance, PTL

\* The type the compiler gives to an expression or a variable is one that the
\* value has, for programs of any length and functions of any order, unless a
\* construct that claims more than it ensures had a part in it.
THEOREM TypesAreTrue == Spec => []Sound
<1>1. IInv => \A r \in Results : r.doubt \/ IsInstance(r.value, r.types)
  <2>1. SUFFICES ASSUME IInv, NEW r \in Results
                 PROVE  r.doubt \/ IsInstance(r.value, r.types)
    OBVIOUS
  <2>2. Good(r)
    BY <2>1, ResultsGood
  <2> QED BY <2>2, HoldsIsInstance DEF Good
<1> QED BY <1>1, Invariance, TypeCorrect, PTL DEF Sound

\* The checks that the machine makes on operands and callees never fail in a
\* program the compiler accepts, but for those constructs.
THEOREM NothingRefused == Spec => []NeverRefused
<1>1. IInv => NeverRefused
  BY DEF IInv, Bounded, NeverRefused
<1> QED BY <1>1, Invariance, PTL
=============================================================================
