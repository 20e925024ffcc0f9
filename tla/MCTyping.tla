------------------------------ MODULE MCTyping ------------------------------
(* An instance of Typing for TLC: operators and branches on plain types, *)
(* functions, and functions of functions.                                *)
EXTENDS Typing

OfInt == {TypeInfo("INT")}
OfFloat == {TypeInfo("FLOAT")}
OfStr == {TypeInfo("STRING")}
OfAny == {TypeInfo("ANY")}
IntToInt == {FunctionInfo(<<OfInt>>, OfInt)}
FloatToInt == {FunctionInfo(<<OfFloat>>, OfInt)}
GivesInt == {FunctionInfo(<<>>, OfInt)}
GivesStr == {FunctionInfo(<<>>, OfStr)}
StrToInt == {FunctionInfo(<<GivesStr>>, GivesInt)}

PlainTypes == {OfFloat, OfAny, OfInt \union OfStr, OfStr \union {TypeInfo("NIL")}}
FunctionTypes == {OfInt, OfFloat, IntToInt, FloatToInt}
NestedTypes == {OfStr, GivesInt, GivesStr, StrToInt}

Plain ==
  [written |-> PlainTypes, depth |-> 3, length |-> 6,
   constructs |-> {"literal", "binary", "unary_not", "unary_minus", "and_",
                   "or_", "as", "if_else", "if_alone", "var_declaration",
                   "assignment", "named_variable"}]
Functions ==
  [written |-> FunctionTypes, depth |-> 2, length |-> 6,
   constructs |-> {"literal", "binary", "var_declaration", "assignment",
                   "named_variable", "fn_value", "fn_parameter",
                   "return_nothing", "call"}]
Nested ==
  [written |-> NestedTypes, depth |-> 2, length |-> 7,
   constructs |-> {"literal", "var_declaration", "named_variable",
                   "fn_value", "fn_parameter", "call"}]
SomePrograms == {Plain, Functions, Nested}

Declared(written) ==
  {FunctionInfo(params, returns) :
     params \in UNION {[1..arity -> written] : arity \in 0..1}, returns \in written}
SomeInfos ==
  {TypeInfo(type) : type \in {"NIL", "BOOL", "INT", "FLOAT", "STRING", "ANY"}}
    \union UNION {UNION program.written \union Declared(program.written)
                    : program \in SomePrograms}
=============================================================================
