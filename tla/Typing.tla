------------------------------- MODULE Typing -------------------------------
(***************************************************************************)
(* Expressions as the compiler types them and as the VM evaluates them: a  *)
(* stack of results and a few variables, each with its set of types and    *)
(* the value it has when the program runs.  An operation is taken only if  *)
(* its check at compile time accepts it; the check the VM makes at run     *)
(* time, on the value, may still refuse it.                                *)
(*                                                                         *)
(* Five constructs claim a type they do not ensure.  A result has doubt    *)
(* when it was computed with one of them; the others must be sound.        *)
(***************************************************************************)
EXTENDS Types

CONSTANTS Names,      \* the variables
          Samples     \* bound: sets of programs, as [written, constructs,
                      \* depth, length]: those of up to so many of these
                      \* operations, with up to so many results waiting,
                      \* annotated with these sets of types

\* The types written are types of values, and so are those of functions
\* declared with them.
ASSUME SamplesAssumption ==
  \A s \in Samples :
    /\ s.depth \in Nat /\ s.length \in Nat
    /\ s.written \subseteq (SUBSET Infos) \ {{}}
    /\ \A returns \in s.written, arity \in 0..1 :
         \A params \in [1..arity -> s.written] :
           FunctionInfo(params, returns) \in Infos

VARIABLES sample,     \* what the program is taken from
          stack, variables, steps,
          outcome     \* "running", or how the VM stopped it: see Refuse

vars == <<sample, stack, variables, steps, outcome>>

Written == sample.written
MaxStack == sample.depth

(***************************************************************************)
(* Values.  Of a function, what it does with its parameter or the result   *)
(* it gives.                                                               *)
(***************************************************************************)
NoBody == [does |-> "none", result |-> <<>>]

Value(type, falsey) ==
  [type |-> type, falsey |-> falsey, arity |-> 0, body |-> NoBody]

Closure(arity, does, result) ==
  [type |-> "FUNCTION", falsey |-> FALSE, arity |-> arity,
   body |-> [does |-> does, result |-> result]]

Nil == Value("NIL", TRUE)
literals == {Nil, Value("BOOL", TRUE), Value("BOOL", FALSE),
             Value("INT", FALSE), Value("FLOAT", FALSE),
             Value("STRING", FALSE)}

is_falsey(value) == value.falsey

Result(types, value, doubt) ==
  [types |-> types, value |-> value, doubt |-> doubt]

Top == stack[Len(stack)]
Below == stack[Len(stack) - 1]
Drop(n) == SubSeq(stack, 1, Len(stack) - n)

\* An accepted operation that takes n results and leaves one.
Leave(n, types, value, doubt) ==
  /\ stack' = Append(Drop(n), Result(types, value, doubt))
  /\ UNCHANGED outcome

Step(construct) ==
  /\ construct \in sample.constructs /\ outcome = "running"
  /\ steps < sample.length /\ steps' = steps + 1 /\ UNCHANGED sample

\* The VM reports a runtime error for the kinds of values it was given.
Refuse(doubt) ==
  /\ outcome' = IF doubt THEN "doubtful" ELSE "refused"
  /\ stack' = <<>> /\ UNCHANGED variables

(***************************************************************************)
(* Literals and operators.                                                 *)
(***************************************************************************)
literal ==
  \E value \in literals :
    /\ Step("literal") /\ Len(stack) < MaxStack
    /\ Leave(0, {TypeInfo(value.type)}, value, FALSE)
    /\ UNCHANGED variables

Bool(b) == Value("BOOL", ~b)

binary_op(token, lhs, rhs) ==
  IF token \in Comparisons \union Equalities
  THEN {Bool(b) : b \in BOOLEAN}
  ELSE {Value(IF lhs.type = "INT" /\ rhs.type = "INT" THEN "INT"
              ELSE "FLOAT", FALSE)}

binary ==
  \E token \in {"PLUS", "LEFT_CHEVRON", "EQUAL_EQUAL"} :
    LET types == type_check_binary(token, Below.types, Top.types)
        doubt == Below.doubt \/ Top.doubt
    IN /\ Len(stack) >= 2 /\ types # {} /\ Step("binary")
       /\ IF \/ token \in Equalities
             \/ is_number(Below.value) /\ is_number(Top.value)
          THEN /\ \E value \in binary_op(token, Below.value, Top.value) :
                    Leave(2, types, value, doubt)
               /\ UNCHANGED variables
          ELSE Refuse(doubt)

unary_not ==
  /\ Len(stack) >= 1 /\ Step("unary_not")
  /\ Leave(1, {TypeInfo("BOOL")}, Bool(is_falsey(Top.value)), FALSE)
  /\ UNCHANGED variables

unary_minus ==
  /\ Len(stack) >= 1 /\ type_check_negate(Top.types) /\ Step("unary_minus")
  /\ IF is_number(Top.value)
     THEN Leave(1, Top.types, Top.value, Top.doubt) /\ UNCHANGED variables
     ELSE Refuse(Top.doubt)

\* "and" and "or" are typed as a Bool; the value is that of an operand.
Logical(doubt) ==
  LET bools == {TypeInfo("BOOL")}
  IN doubt \/ Below.types # bools \/ Top.types # bools

and_ ==
  /\ Len(stack) >= 2 /\ Step("and_")
  /\ Leave(2, {TypeInfo("BOOL")},
           IF is_falsey(Below.value) THEN Below.value ELSE Top.value,
           Logical(Below.doubt \/ Top.doubt))
  /\ UNCHANGED variables

or_ ==
  /\ Len(stack) >= 2 /\ Step("or_")
  /\ Leave(2, {TypeInfo("BOOL")},
           IF is_falsey(Below.value) THEN Top.value ELSE Below.value,
           Logical(Below.doubt \/ Top.doubt))
  /\ UNCHANGED variables

\* Nothing tests the value of an "as" when the program runs.
as ==
  \E types \in Written :
    /\ Len(stack) >= 1 /\ type_check_cast(Top.types, types) /\ Step("as")
    /\ Leave(1, types, Top.value,
             Top.doubt \/ ~(Top.types \subseteq types))
    /\ UNCHANGED variables

(***************************************************************************)
(* if, with the condition, then and else results on the stack; without     *)
(* else, the type is that of the then branch alone and the value may be    *)
(* nil.                                                                    *)
(***************************************************************************)
Condition == stack[Len(stack) - 2]

\* Mutant: only the types both branches may give.
CommonTypes(then, else) == then \intersect else

BranchTypes(then, else) == Joined(then, else)

if_else ==
  /\ Len(stack) >= 3 /\ Step("if_else")
  /\ Leave(3, BranchTypes(Below.types, Top.types),
           IF is_falsey(Condition.value) THEN Top.value ELSE Below.value,
           Below.doubt \/ Top.doubt)
  /\ UNCHANGED variables

if_alone ==
  /\ Len(stack) >= 2 /\ Step("if_alone")
  /\ Leave(2, Joined(Top.types, {}),
           IF is_falsey(Below.value) THEN Nil ELSE Top.value,
           Top.doubt \/ TypeInfo("NIL") \notin Top.types)
  /\ UNCHANGED variables

(***************************************************************************)
(* Variables.  An assignment keeps the types if it would be accepted even  *)
(* were the types that functions return compared, here and wherever a      *)
(* function is taken or given by another.                                  *)
(***************************************************************************)
KeepsInfo(lhs, rhs, keeps) ==
  \/ lhs = rhs
  \/ /\ AssignInfo(lhs, rhs, keeps)
     /\ is_function(lhs) => AssignSet(lhs.returns, rhs.returns, keeps)

Keeps[pair \in Infos \X Infos] == KeepsInfo(pair[1], pair[2], Keeps)

Retyped(lhs, rhs) == ~AssignSet(lhs, rhs, Keeps)

Undeclared == Result({}, Nil, FALSE)

Store(name, types) ==
  variables' = [variables EXCEPT ![name] =
    Result(types, Top.value, Top.doubt \/ Retyped(types, Top.types))]

var_declaration ==
  /\ Len(stack) >= 1
  /\ \E name \in Names, types \in Written \union {Top.types} :
    /\ variables[name].types = {}
    /\ type_check_assign(types, Top.types) /\ Step("var_declaration")
    /\ Store(name, types)
    /\ stack' = Drop(1) /\ UNCHANGED outcome

\* An assignment has the types of its variable and leaves the value.
assignment ==
  \E name \in Names :
    LET types == variables[name].types
    IN /\ Len(stack) >= 1 /\ types # {}
       /\ type_check_assign(types, Top.types) /\ Step("assignment")
       /\ Store(name, types)
       /\ Leave(1, types, Top.value, Top.doubt \/ Retyped(types, Top.types))

named_variable ==
  \E name \in Names :
    /\ Len(stack) < MaxStack /\ variables[name].types # {} /\ Step("named_variable")
    /\ stack' = Append(stack, variables[name])
    /\ UNCHANGED <<variables, outcome>>

(***************************************************************************)
(* Functions: one that gives a value computed before, one that gives back  *)
(* its parameter or minus it, and one with a "return;".                    *)
(***************************************************************************)
fn_value ==
  \E returns \in Written, arity \in 0..1 :
    \E params \in [1..arity -> Written] :
      /\ Len(stack) >= 1 /\ type_check_assign(returns, Top.types) /\ Step("fn_value")
      /\ Leave(1, {FunctionInfo(params, returns)},
               Closure(arity, "value", <<Top.value>>),
               Top.doubt \/ Retyped(returns, Top.types))
      /\ UNCHANGED variables

fn_parameter ==
  \E param, returns \in Written, does \in {"parameter", "minus"} :
    /\ Len(stack) < MaxStack /\ Step("fn_parameter")
    /\ does = "minus" => type_check_negate(param)
    /\ type_check_assign(returns, param)
    /\ Leave(0, {FunctionInfo(<<param>>, returns)}, Closure(1, does, <<>>),
             Retyped(returns, param))
    /\ UNCHANGED variables

return_nothing ==
  \E returns \in Written :
    /\ Len(stack) < MaxStack /\ Step("return_nothing")
    /\ Leave(0, {FunctionInfo(<<>>, returns)}, Closure(0, "value", <<Nil>>),
             ~type_check_assign(returns, {TypeInfo("NIL")}))
    /\ UNCHANGED variables

Args(callee) == SubSeq(stack, callee + 1, Len(stack))

call ==
  \E arg_count \in {n \in {0, 1} : n < Len(stack)} :
    LET at == Len(stack) - arg_count
        callee == stack[at]
        args == [i \in 1..arg_count |-> Args(at)[i].types]
        types == type_check_call(callee.types, args)
        body == callee.value.body
        doubt == \E i \in at..Len(stack) : stack[i].doubt
        value == IF body.does = "value" THEN body.result[1] ELSE Top.value
        retyped == \E c \in callee.types, i \in 1..arg_count :
                     Retyped(c.params[i], args[i])
    IN /\ types # {} /\ Step("call")
       /\ IF \/ callee.value.type # "FUNCTION"
             \/ callee.value.arity # arg_count
             \/ body.does = "minus" /\ ~is_number(value)
          THEN Refuse(doubt \/ retyped)
          ELSE /\ Leave(arg_count + 1, types, value, doubt \/ retyped)
               /\ UNCHANGED variables

Init ==
  /\ sample \in Samples
  /\ stack = <<>> /\ steps = 0 /\ outcome = "running"
  /\ variables = [name \in Names |-> Undeclared]

Next ==
  \/ literal \/ binary \/ unary_not \/ unary_minus \/ and_ \/ or_ \/ as
  \/ if_else \/ if_alone \/ var_declaration \/ assignment \/ named_variable
  \/ fn_value \/ fn_parameter \/ return_nothing \/ call

Spec == Init /\ [][Next]_vars

(***************************************************************************)
(* Properties.                                                             *)
(***************************************************************************)
Results == {stack[i] : i \in DOMAIN stack}
             \union {r \in {variables[n] : n \in Names} : r.types # {}}

\* The type invariant.
TypeOK ==
  /\ Len(stack) <= MaxStack /\ steps \in 0..sample.length
  /\ outcome \in {"running", "refused", "doubtful"}
  /\ \A r \in Results : r.types # {} /\ r.doubt \in BOOLEAN
  /\ \A name \in Names : variables[name].types = {} =>
       variables[name] = Undeclared

\* Is the value one of the types it may have?  An Int is a Float, because it
\* may be assigned to one.
IsInstance(value, types) ==
  \E t \in types :
    \/ t.type = "ANY"
    \/ t.type = "FLOAT" /\ value.type = "INT"
    \/ /\ t.type = value.type
       /\ is_function(t) => Len(t.params) = value.arity

\* The types of the compiler are true: whatever operations a program it
\* accepts is made of, each result and each variable holds a value of one of
\* its types, unless one of the five constructs had a part in it.
Sound ==
  /\ TypeOK
  /\ \A r \in Results : r.doubt \/ IsInstance(r.value, r.types)

\* The checks of the VM are superfluous for an accepted program, but for
\* those constructs: arithmetic on what is no number and calls of what is no
\* function, or with too many or too few arguments, are compile errors.
NeverRefused == outcome # "refused"
=============================================================================
