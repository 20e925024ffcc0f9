----------------------------- MODULE MCCodegen -----------------------------
(* An instance of Codegen for TLC: programs of a few constructs at a time. *)
EXTENDS Codegen

Of(names, constructs, n) ==
  [names |-> names, constructs |-> constructs, size |-> n]

Scopes == {"variable", "assignment", "block", "let", "fn", "fn_declaration",
           "return"}
Operands == {"variable", "assignment", "unary", "binary", "call", "and", "or",
             "block", "if", "let", "fn", "return", "statement", "forward"}
Loops == {"variable", "block", "if", "let", "while", "loop", "break",
          "continue", "statement"}
Jumps == {"binary", "if", "let", "loop", "break", "continue"}

SomePrograms ==
  {Of({"a", "b"}, Scopes, 4), Of({"a"}, Operands, 4), Of({"a"}, Loops, 4),
   Of({"a"}, Jumps, 5)}
=============================================================================
