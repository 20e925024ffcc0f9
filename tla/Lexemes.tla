------------------------------- MODULE Lexemes -------------------------------
(***************************************************************************)
(* A reference: the lexemes of the language, said of whole strings and not *)
(* of how they are read.  Scanner is checked against it.                   *)
(***************************************************************************)
EXTENDS Naturals, Sequences, FiniteSets, TLC

CONSTANT MAX_CHARS_IN_NUMERIC_LITERAL, \* how long a number may be
         MaxInt                        \* the largest integer

Empty == ""

At(text, p) == IF p \in 1..Len(text) THEN SubSeq(text, p, p) ELSE Empty

Chars(text) == {At(text, p) : p \in 1..Len(text)}

Digits == {"0", "1", "2", "3", "4", "5", "6", "7", "8", "9"}
Letters == {"a", "b", "c", "d", "e", "f", "g", "h", "i", "j", "k", "l", "m",
            "n", "o", "p", "q", "r", "s", "t", "u", "v", "w", "x", "y", "z",
            "A", "B", "C", "D", "E", "F", "G", "H", "I", "J", "K", "L", "M",
            "N", "O", "P", "Q", "R", "S", "T", "U", "V", "W", "X", "Y", "Z",
            "_"}
HexDigits == Digits \union {"a", "b", "c", "d", "e", "f",
                            "A", "B", "C", "D", "E", "F"}

\* The words with a token of their own.
Keywords ==
  [and |-> "AND", as |-> "AS", async |-> "ASYNC", await |-> "AWAIT",
   break |-> "BREAK", continue |-> "CONTINUE", else |-> "ELSE",
   false |-> "FALSE", for |-> "FOR", fn |-> "FN", if |-> "IF",
   import |-> "IMPORT", in |-> "IN", inout |-> "INOUT", is |-> "IS",
   let |-> "LET", loop |-> "LOOP", match |-> "MATCH", nil |-> "NIL",
   or |-> "OR", out |-> "OUT", return |-> "RETURN", self |-> "SELF",
   struct |-> "STRUCT", super |-> "SUPER", true |-> "TRUE", var |-> "VAR",
   while |-> "WHILE", Any |-> "ANY_TYPE", Bool |-> "BOOL_TYPE",
   Char |-> "CHAR_TYPE", Float |-> "FLOAT_TYPE", Fn |-> "FN_TYPE",
   Int |-> "INT_TYPE", Nil |-> "NIL_TYPE", Str |-> "STR_TYPE"]

Marks ==
  {<<"(", "LEFT_PAREN">>, <<")", "RIGHT_PAREN">>, <<"{", "LEFT_BRACE">>,
   <<"[", "LEFT_BRACKET">>, <<"]", "RIGHT_BRACKET">>, <<":", "COLON">>,
   <<";", "SEMICOLON">>, <<",", "COMMA">>, <<".", "DOT">>, <<"-", "MINUS">>,
   <<"|", "PIPE">>, <<"+", "PLUS">>, <<"/", "SLASH">>, <<"*", "STAR">>,
   <<"!", "BANG">>, <<"=", "EQUAL">>, <<"<", "LEFT_CHEVRON">>,
   <<">", "RIGHT_CHEVRON">>, <<"!=", "BANG_EQUAL">>, <<"==", "EQUAL_EQUAL">>,
   <<"<=", "LESS_EQUAL">>, <<">=", "GREATER_EQUAL">>}

IsWord(w) == At(w, 1) \in Letters /\ Chars(w) \subseteq Letters \union Digits

IsDigits(w) == w # Empty /\ Chars(w) \subseteq Digits \union {"_"}

IsInteger(w) ==
  \/ At(w, 1) \in Digits /\ IsDigits(w)
  \/ /\ Len(w) >= 2 /\ SubSeq(w, 1, 2) \in {"0x", "0X"}
     /\ Chars(SubSeq(w, 3, Len(w))) \subseteq HexDigits \union {"_"}

IsExponent(w) ==
  /\ At(w, 1) \in {"e", "E"}
  /\ LET k == IF At(w, 2) \in {"+", "-"} THEN 3 ELSE 2
     IN IsDigits(SubSeq(w, k, Len(w)))

\* Digits, then a fraction or an exponent or both.
IsFloat(w) ==
  /\ At(w, 1) \in Digits
  /\ \E k \in 1..Len(w), n \in 1..Len(w) :
       /\ k <= n /\ k + 1 <= Len(w)
       /\ IsDigits(SubSeq(w, 1, k))
       /\ n > k => At(w, k + 1) = "." /\ IsDigits(SubSeq(w, k + 2, n))
       /\ n < Len(w) => IsExponent(SubSeq(w, n + 1, Len(w)))

\* Are the four or eight digits at p the number of a character?
IsCharacter(w, p, digits) ==
  LET plane == SubSeq(w, p, p + 3)
      low == IF digits = 4 THEN p ELSE p + 4
      surrogate == /\ At(w, low) \in {"d", "D"}
                   /\ At(w, low + 1) \in HexDigits \ {"0", "1", "2", "3", "4",
                                                      "5", "6", "7"}
  IN \/ (digits = 4 \/ plane = "0000") /\ ~surrogate
     \/ digits = 8 /\ plane = "0010"
     \/ digits = 8 /\ plane # "0000" /\ SubSeq(plane, 1, 3) = "000"

\* The lengths of what one character of a string may be written as, at p.
Pieces(w, p) ==
  IF At(w, p) # "\\" THEN IF At(w, p) \in {"\"", "$"} THEN {} ELSE {1}
  ELSE (IF At(w, p + 1) \in {"\\", "\"", "$", "0", "a", "b", "e", "f", "n",
                             "r", "t", "v"} THEN {2} ELSE {})
       \union {n + 2 : n \in {k \in {2, 4, 8} :
                /\ At(w, p + 1) = ((2 :> "x") @@ (4 :> "u") @@ (8 :> "U"))[k]
                /\ \A i \in p + 2..p + 1 + k : At(w, i) \in HexDigits
                /\ k > 2 => IsCharacter(w, p + 2, k)}}

\* Is w, from first to last, what may stand between two quotes?
IsBody(w, first, last) ==
  LET whole[p \in first..last + 1] ==
        \/ p = last + 1
        \/ \E n \in Pieces(w, p) : p + n <= last + 1 /\ whole[p + n]
  IN whole[first]

IsRaw(w) ==
  /\ Len(w) >= 6
  /\ {p \in 1..Len(w) - 2 : SubSeq(w, p, p + 2) = "\"\"\"" /\ (p = 1 \/ p > 3)}
       = {1, Len(w) - 2}

(***************************************************************************)
(* Is w a lexeme of the type, where open says what is open around it: a    *)
(* sequence of "{" and "${", the innermost one last?                       *)
(***************************************************************************)
Inside(open) == open # <<>> /\ open[Len(open)] = "${"

IsLexeme(type, w, open, maxDepth) ==
  LET opens == \/ At(w, 1) = "\""
               \/ At(w, 1) = "}" /\ Inside(open)
      interps == Cardinality({i \in DOMAIN open : open[i] = "${"})
      depth == IF At(w, 1) = "}" THEN interps - 1 ELSE interps
  IN CASE type = "IDENTIFIER" -> IsWord(w) /\ w \notin DOMAIN Keywords
       [] type = "INTEGER_LITERAL" -> IsInteger(w)
       [] type = "FLOAT_LITERAL" -> IsFloat(w)
       [] type = "STRING_LITERAL" ->
            \/ IsRaw(w)
            \/ /\ opens /\ Len(w) >= 2 /\ At(w, Len(w)) = "\""
               /\ IsBody(w, 2, Len(w) - 1)
       [] type = "STRING_INTERP" ->
            /\ opens /\ depth < maxDepth
            /\ Len(w) >= 3 /\ SubSeq(w, Len(w) - 1, Len(w)) = "${"
            /\ IsBody(w, 2, Len(w) - 2)
       [] type = "RIGHT_BRACE" -> w = "}" /\ ~Inside(open)
       [] OTHER ->
            \/ <<w, type>> \in Marks
            \/ w \in DOMAIN Keywords /\ Keywords[w] = type

Types == {"IDENTIFIER", "INTEGER_LITERAL", "FLOAT_LITERAL", "STRING_LITERAL",
          "STRING_INTERP", "RIGHT_BRACE"}
         \union {mark[2] : mark \in Marks}
         \union {Keywords[w] : w \in DOMAIN Keywords}
=============================================================================
