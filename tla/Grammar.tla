------------------------------ MODULE Grammar ------------------------------
(***************************************************************************)
(* Sentences of the language: what Parser is to accept.  A context-free    *)
(* grammar in layers, one nonterminal per level of the table of            *)
(* doc/syntax.md, evaluated bottom up by length.                           *)
(*                                                                         *)
(* A phrase carries what the rest of the grammar asks of it: types, which  *)
(* of nil and other its value may be (an expression that ends in a block   *)
(* is a statement by itself only if its value is nil), and free, the       *)
(* constructs in it that are legal only inside another: break, continue,   *)
(* return, and a global without an initial value.                          *)
(***************************************************************************)
EXTENDS Naturals, Sequences, FiniteSets, SequencesExt

CONSTANT Samples   \* bound: sets of sentences, as [tokens, length, rest]:
                   \* those of up to so many tokens of these kinds; rest is
                   \* for Parser

Phrase(tokens, types, free) == [tokens |-> tokens, types |-> types, free |-> free]

nil == {"nil"}
other == {"other"}

(***************************************************************************)
(* Concatenation.  table.phrases[k] holds the phrases of k tokens of       *)
(* every nonterminal, table.tokens what they are made of; a production is  *)
(* a sequence of tokens and nonterminals.  A phrase of Split has its       *)
(* parts, to compute its types from.                                       *)
(***************************************************************************)
Nonterminals == {"primary", "call", "unary", "factor", "term", "comparison",
                 "equality", "and", "or", "expression", "arguments", "type",
                 "parameters", "return_type", "closed", "value", "block",
                 "item", "items"}

Split(table, production, n) ==
  LET Parts(symbol, k) ==
        IF symbol \in Nonterminals THEN table.phrases[k][symbol]
        ELSE IF k = 1 /\ symbol \in table.tokens THEN {Phrase(<<symbol>>, {}, {})} ELSE {}
      split[i \in 1..Len(production) + 1, m \in 0..n] ==
        IF i > Len(production) THEN IF m = 0 THEN {<<>>} ELSE {}
        ELSE UNION {{<<part>> \o rest : part \in Parts(production[i], k),
                                        rest \in split[i + 1, m - k]} :
                    k \in 1..m - (Len(production) - i)}
  IN  split[1, n]

Join(parts, types, dropped) ==
  Phrase(FlattenSeq([i \in DOMAIN parts |-> parts[i].tokens]), types,
         UNION {parts[i].free : i \in DOMAIN parts} \ dropped)

\* The phrases of a production whose value has the given types.
Rule(table, production, types, n) ==
  {Join(parts, types, {}) : parts \in Split(table, production, n)}

\* The phrases of a production that has the value of its part of number i.
RuleOf(table, production, i, n) ==
  {Join(parts, parts[i].types, {}) : parts \in Split(table, production, n)}

StartsWithBlock(phrase) == Head(phrase.tokens) \in {"LEFT_BRACE", "IF", "LOOP"}

LoopJumps == {"break", "break_value", "break_nil", "break_other", "continue"}

(***************************************************************************)
(* The phrases of n tokens, given the shorter ones.  Each LET adds the     *)
(* nonterminals that need one of the same length.                          *)
(***************************************************************************)
Phrases(table, n) ==
  LET R(production, types) == Rule(table, production, types, n)
      S(production) == Split(table, production, n)
      type == R(<<"INT_TYPE">>, {}) \union R(<<"type", "OR", "INT_TYPE">>, {})
      return_type == type
      parameters ==
        R(<<"IDENTIFIER", "COLON", "type">>, {})
        \union R(<<"IDENTIFIER", "COLON", "type", "COMMA">>, {})
        \union R(<<"IDENTIFIER", "COLON", "type", "COMMA", "parameters">>, {})
      signatures ==
        {<<"LEFT_PAREN", "RIGHT_PAREN">>,
         <<"LEFT_PAREN", "parameters", "RIGHT_PAREN">>}
      bodies == {signature \o <<"block">> : signature \in signatures}
                \union {signature \o <<"return_type", "block">> :
                        signature \in signatures}
      \* Jumps do not leave a function, and only a function can return.
      Function(production, types) ==
        {Join(parts, types, {"return"}) : parts \in
           {p \in S(production) :
              UNION {p[i].free : i \in DOMAIN p} \intersect LoopJumps = {}}}
      \* A nil body, and the value of the loop is what its breaks say.
      loops ==
        {LET free == parts[2].free
         IN  Join(parts, (IF free \intersect {"break", "break_nil"} # {}
                          THEN nil ELSE {})
                         \union (IF "break_other" \in free THEN other ELSE {}),
                  LoopJumps) :
         parts \in {p \in S(<<"LOOP", "block">>) : p[2].types = nil}}
      ifs ==
        RuleOf(table, <<"IF", "expression", "block">>, 3, n)
        \union {Join(parts, parts[3].types \union parts[5].types, {}) :
                parts \in S(<<"IF", "expression", "block", "ELSE", "block">>)}
        \union {Join(parts, parts[3].types \union parts[5].types, {}) :
                parts \in {p \in S(<<"IF", "expression", "block", "ELSE",
                                     "closed">>) :
                           Head(p[5].tokens) = "IF"}}
      block ==
        {phrase \in
           R(<<"LEFT_BRACE", "RIGHT_BRACE">>, nil)
           \union R(<<"LEFT_BRACE", "items", "RIGHT_BRACE">>, nil)
           \union RuleOf(table, <<"LEFT_BRACE", "value", "RIGHT_BRACE">>, 2, n)
           \union RuleOf(table, <<"LEFT_BRACE", "items", "value",
                                  "RIGHT_BRACE">>, 3, n) :
           "global" \notin phrase.free}
      \* A block expression that opens an item is closed: no operator follows.
      closed == block \union ifs \union loops
      primary ==
        R(<<"IDENTIFIER">>, other) \union R(<<"INTEGER_LITERAL">>, other)
        \union R(<<"NIL">>, nil) \union closed
        \union RuleOf(table, <<"LEFT_PAREN", "expression", "RIGHT_PAREN">>, 2, n)
        \union UNION {Function(<<"FN">> \o body, other) : body \in bodies}
      call == primary \union R(<<"call", "LEFT_PAREN", "RIGHT_PAREN">>, other)
              \union R(<<"call", "LEFT_PAREN", "arguments", "RIGHT_PAREN">>, other)
      unary == call \union R(<<"BANG", "unary">>, other)
               \union RuleOf(table, <<"MINUS", "unary">>, 2, n)
      factor == unary \union R(<<"factor", "STAR", "unary">>, other)
      term == factor \union R(<<"term", "PLUS", "factor">>, other)
              \union R(<<"term", "MINUS", "factor">>, other)
      comparison == term \union R(<<"comparison", "LEFT_CHEVRON", "term">>, other)
      equality == comparison
                  \union R(<<"equality", "EQUAL_EQUAL", "comparison">>, other)
      and == equality \union R(<<"equality", "AND", "and">>, other)
      or == and \union R(<<"and", "OR", "or">>, other)
      expression == or \union R(<<"IDENTIFIER", "EQUAL", "expression">>, other)
      arguments == expression \union R(<<"expression", "COMMA">>, {})
                   \union R(<<"expression", "COMMA", "arguments">>, {})
      jumps ==
        {Phrase(p.tokens, {}, p.free \union {"break"}) :
           p \in R(<<"BREAK", "SEMICOLON">>, {})}
        \union {Join(p, {}, {}) : p \in
                  {[q EXCEPT ![1].free = {"break_value"} \union
                                {"break_" \o t : t \in q[2].types}] :
                     q \in S(<<"BREAK", "expression", "SEMICOLON">>)}}
        \union {Phrase(p.tokens, {}, {"continue"}) :
                  p \in R(<<"CONTINUE", "SEMICOLON">>, {})}
        \union {Phrase(p.tokens, {}, p.free \union {"return"}) :
                  p \in R(<<"RETURN", "SEMICOLON">>, {})
                        \union R(<<"RETURN", "expression", "SEMICOLON">>, {})}
      whiles ==
        UNION {{Join(p, {}, {"break", "continue"}) :
                  p \in {q \in S(production) :
                           \A i \in DOMAIN q : "break_value" \notin q[i].free}} :
               production \in {<<"WHILE", "expression", "block">>,
                               <<"WHILE", "expression", "block", "SEMICOLON">>}}
      declarations ==
        UNION {R(<<let, "IDENTIFIER", "EQUAL", "expression", "SEMICOLON">>, {})
               \union R(<<let, "IDENTIFIER", "COLON", "type", "EQUAL",
                          "expression", "SEMICOLON">>, {})
               \union {Phrase(p.tokens, {}, {"global"}) :
                       p \in R(<<let, "IDENTIFIER", "COLON", "type",
                                 "SEMICOLON">>, {})} : let \in {"LET", "VAR"}}
        \union UNION {Function(<<"FN", "IDENTIFIER">> \o body, {}) :
                      body \in bodies}
        \union UNION {R(<<"FN", "IDENTIFIER">> \o signature
                        \o <<"return_type", "SEMICOLON">>, {}) :
                      signature \in signatures}
      value == closed \union {e \in expression : ~StartsWithBlock(e)}
      values ==
        R(<<"value", "SEMICOLON">>, {})
        \union {Phrase(p.tokens, {}, p.free) : p \in
                  {q \in closed : q.types = nil}}
      item == values \union declarations \union jumps \union whiles
      items == item \union R(<<"items", "item">>, {})
  IN  [primary |-> primary, call |-> call, unary |-> unary, factor |-> factor,
       term |-> term, comparison |-> comparison, equality |-> equality,
       and |-> and, or |-> or, expression |-> expression,
       arguments |-> arguments, type |-> type, parameters |-> parameters,
       return_type |-> return_type, closed |-> closed, value |-> value,
       block |-> block, item |-> item, items |-> items]

Table(s) ==
  FoldLeft(LAMBDA table, n : [table EXCEPT !.phrases = Append(@, Phrases(table, n))],
           [tokens |-> s.tokens, phrases |-> <<>>],
           [n \in 1..s.length |-> n])

\* The programs: whole items, nothing in them out of place.
Programs ==
  {<<>>} \union
  {phrase.tokens : phrase \in
     {p \in UNION {UNION {phrases.items : phrases \in Range(Table(s).phrases)} :
                    s \in Samples} :
        p.free \subseteq {"global"}}}

\* What programs begin with.
Beginnings == UNION {{SubSeq(p, 1, n) : n \in 0..Len(p)} : p \in Programs}
=============================================================================
