-------------------------------- MODULE Types --------------------------------
(***************************************************************************)
(* The types of type.hxx and the checks of type_inl.hxx.  A TypeSet is the *)
(* set of the TypeInfos in its array, which add keeps free of duplicates;  *)
(* equality, contains and is_empty are those of sets.  The empty set is    *)
(* the type of an expression with no value, and the answer of a check that *)
(* fails.                                                                  *)
(***************************************************************************)
EXTENDS Naturals, Sequences, FiniteSets

CONSTANT Infos    \* the TypeInfos of the programs that are looked at

TypeInfo(type) == [type |-> type, params |-> <<>>, returns |-> {}]

FunctionInfo(params, returns) ==
  [type |-> "FUNCTION", params |-> params, returns |-> returns]

is_function(info) == info.type = "FUNCTION"
is_number(info) == info.type \in {"INT", "FLOAT"}

\* What a function takes and returns are sets of these TypeInfos too.
ASSUME InfosAssumption ==
  /\ {TypeInfo(type) : type \in {"NIL", "BOOL", "INT", "FLOAT", "STRING"}}
       \subseteq Infos
  /\ \A info \in Infos :
       /\ info.params \in Seq(SUBSET Infos)
       /\ info.returns \in SUBSET Infos

\* move_all_from and add.
Joined(set, other) == set \union other

(***************************************************************************)
(* May a value of type rhs be assigned to a variable of type lhs?  The     *)
(* parameters of functions are compared the other way round; the types     *)
(* they return are not compared.  The two procedures that call each other  *)
(* are one recursive function of a pair <<lhs, rhs>>, handed to the        *)
(* operators that compare sets of types with it.                           *)
(***************************************************************************)
AssignSet(lhs, rhs, may_assign) ==
  \A r \in rhs : \E l \in lhs : may_assign[<<l, r>>]

\* Mutant: parameters are compared the same way round as values.
ParamsCovariant(lhs, rhs, may_assign) ==
  \A i \in DOMAIN lhs.params :
    AssignSet(lhs.params[i], rhs.params[i], may_assign)

ParamsAssign(lhs, rhs, may_assign) ==
  \A i \in DOMAIN lhs.params :
    AssignSet(rhs.params[i], lhs.params[i], may_assign)

AssignInfo(lhs, rhs, may_assign) ==
  \/ lhs.type = "ANY"
  \/ lhs = rhs
  \/ lhs.type = "FLOAT" /\ rhs.type = "INT"
  \/ /\ is_function(lhs) /\ is_function(rhs)
     /\ Len(lhs.params) = Len(rhs.params)
     /\ ParamsAssign(lhs, rhs, may_assign)

MayAssign[pair \in Infos \X Infos] == AssignInfo(pair[1], pair[2], MayAssign)

type_check_assign(lhs, rhs) == AssignSet(lhs, rhs, MayAssign)

type_check_comparison(lhs, rhs) ==
  \A l \in lhs, r \in rhs : is_number(l) /\ is_number(r)

\* The union of what all the pairs give, if every one gives a type.
type_check_arithmetic(lhs, rhs) ==
  IF \E l \in lhs, r \in rhs : ~(is_number(l) /\ is_number(r)) THEN {}
  ELSE {TypeInfo(IF l.type = "INT" /\ r.type = "INT" THEN "INT" ELSE "FLOAT")
          : l \in lhs, r \in rhs}

type_check_negate(rhs) == \A r \in rhs : is_number(r)

Comparisons == {"LEFT_CHEVRON", "LESS_EQUAL", "RIGHT_CHEVRON",
                "GREATER_EQUAL"}
Equalities == {"EQUAL_EQUAL", "BANG_EQUAL"}

type_check_binary(token, lhs, rhs) ==
  CASE token \in Equalities -> {TypeInfo("BOOL")}
    [] token \in Comparisons ->
         IF type_check_comparison(lhs, rhs) THEN {TypeInfo("BOOL")} ELSE {}
    [] OTHER -> type_check_arithmetic(lhs, rhs)

\* Mutant: the number of arguments is not compared.
CallAnyCount(callee, args) ==
  IF /\ is_function(callee)
     /\ \A i \in DOMAIN args \intersect DOMAIN callee.params :
          type_check_assign(callee.params[i], args[i])
  THEN callee.returns ELSE {}

CallInfo(callee, args) ==
  IF /\ is_function(callee) /\ Len(callee.params) = Len(args)
     /\ \A i \in DOMAIN args : type_check_assign(callee.params[i], args[i])
  THEN callee.returns ELSE {}

type_check_call(callee, args) ==
  IF \E c \in callee : CallInfo(c, args) = {} THEN {}
  ELSE UNION {CallInfo(c, args) : c \in callee}

type_check_cast(src, dst) ==
  \/ TypeInfo("ANY") \in src
  \/ \E s \in src : type_check_assign(dst, {s})
=============================================================================
