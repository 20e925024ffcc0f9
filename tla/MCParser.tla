------------------------------ MODULE MCParser ------------------------------
(***************************************************************************)
(* An instance of Parser for TLC: a few kinds of tokens at a time, so that *)
(* the programs made of them can be long enough to be complete.            *)
(***************************************************************************)
EXTENDS Parser

Of(tokens, length) == [tokens |-> tokens, length |-> length, rest |-> 0]

Semicolons == {"IDENTIFIER", "SEMICOLON"}
Parentheses == {"LEFT_PAREN", "RIGHT_PAREN"}
Braces == {"LEFT_BRACE", "RIGHT_BRACE"}

Correct ==
  {Of(Semicolons \union {"PLUS", "MINUS", "STAR", "EQUAL", "EQUAL_EQUAL"}, 7),
   Of(Semicolons \union Parentheses \union {"MINUS", "AND", "OR", "EQUAL"}, 6),
   Of(Semicolons \union Braces \union {"NIL", "IF", "ELSE"}, 7),
   Of(Semicolons \union Braces \union {"NIL", "LOOP", "BREAK"}, 7),
   Of(Semicolons \union Braces \union {"WHILE", "LOOP", "BREAK", "CONTINUE"}, 6),
   Of({"SEMICOLON"} \union Parentheses \union Braces \union {"FN", "RETURN"}, 8),
   Of(Semicolons \union Parentheses \union {"COMMA", "COLON", "FN", "INT_TYPE"}, 9),
   Of(Semicolons \union {"COLON", "LET", "EQUAL", "INT_TYPE"}, 7)}

\* Sources with ill-formed tokens, read on after the first error.
Mistaken ==
  {[tokens |-> Semicolons \union {"LEFT_BRACE", "LET", "FN", "ERROR"},
    length |-> 4, rest |-> 3],
   [tokens |-> {"IDENTIFIER", "LEFT_PAREN", "COLON", "AS", "FN", "FN_TYPE",
                "LEFT_CHEVRON", "ERROR"},
    length |-> 4, rest |-> 1]}

SomeSources == Correct \union Mistaken
=============================================================================
