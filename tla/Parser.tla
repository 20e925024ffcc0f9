------------------------------- MODULE Parser -------------------------------
(***************************************************************************)
(* The recursive descent of compiler_inl.hxx over the kinds of tokens:     *)
(* which token it takes, where it reports an error and how it goes on.     *)
(* What it emits is module Codegen, so work is again what the procedures   *)
(* on the call stack have still to do.  The source text is chosen token by *)
(* token as the scanner is asked for it.                                   *)
(*                                                                         *)
(* Types are kept as far as they decide what may follow: is the value nil, *)
(* something else, or none at all?  A program is taken to be correctly     *)
(* typed otherwise, and its names to be declared.                          *)
(***************************************************************************)
EXTENDS Grammar, TLC

\* Of a sample, rest is how many tokens may follow the first error.
ASSUME ParserAssumption ==
  \A s \in Samples : s.length \in Nat /\ s.rest \in Nat

VARIABLES work,        \* what the active procedures have left to do
          values,      \* the results they have handed over, last one on top
          previous, current,
          input,       \* every token read before the end of the file
          sample,      \* what it is taken from
          rest,        \* how many more there may be
          panic_mode, had_error

vars == <<work, values, previous, current, input, sample, rest, panic_mode,
          had_error>>

END_OF_FILE == "END_OF_FILE"

(***************************************************************************)
(* Precedence, and the table of rules.                                     *)
(***************************************************************************)
NONE == 0
ASSIGNMENT == 1
OR == 2
AND == 3
EQUALITY == 4
COMPARISON == 5
TERM == 6
FACTOR == 7
AS == 8
UNARY == 9
CALL == 10
PRIMARY == 11

infix_rules ==
  [LEFT_PAREN |-> CALL, AS |-> AS, STAR |-> FACTOR, SLASH |-> FACTOR,
   PLUS |-> TERM, MINUS |-> TERM, LEFT_CHEVRON |-> COMPARISON,
   LESS_EQUAL |-> COMPARISON, RIGHT_CHEVRON |-> COMPARISON,
   GREATER_EQUAL |-> COMPARISON, EQUAL_EQUAL |-> EQUALITY,
   BANG_EQUAL |-> EQUALITY, AND |-> AND, OR |-> OR]

precedence(token) ==
  IF token \in DOMAIN infix_rules THEN infix_rules[token] ELSE NONE

is_block_expr(token) == token \in {"LEFT_BRACE", "IF", "LOOP"}

\* Mutant: the right operand may hold an operator of the same level.
RightAssociative(token) == infix_rules[token]

\* The level the right operand of an infix operator is parsed at.
OperandLevel(token) ==
  IF token \in {"AND", "OR"} THEN infix_rules[token] ELSE infix_rules[token] + 1

(***************************************************************************)
(* Results: the kind of ParseResult, the level of the operator on top of   *)
(* the expression, and what its value may be.                              *)
(***************************************************************************)
Result(kind, level, types) == [kind |-> kind, level |-> level, types |-> types]
Value(level, types) == Result("EXPRESSION", level, types)

\* What an operator, whose operands are the last results, leaves for them.
Reduction(op) ==
  LET operand == Last(values).types
  IN  CASE op = "grouping" -> [takes |-> 1, gives |-> Value(PRIMARY, operand)]
        [] op = "negate" -> [takes |-> 1, gives |-> Value(UNARY, operand)]
        [] op = "not" -> [takes |-> 1, gives |-> Value(UNARY, other)]
        [] op = "assign" -> [takes |-> 1, gives |-> Value(ASSIGNMENT, other)]
        [] op = "AS" -> [takes |-> 1, gives |-> Value(AS, other)]
        [] op = "LEFT_PAREN" -> [takes |-> 1, gives |-> Value(CALL, other)]
        [] OTHER -> [takes |-> 2, gives |-> Value(infix_rules[op], other)]

Drop(n) == SubSeq(values, 1, Len(values) - n)
Give(result) == values' = Append(values, result)
Swap(result) == values' = Append(Front(values), result)

(***************************************************************************)
(* Tokens and errors.  Taking a token reads the next one, and an ill-      *)
(* formed one before it, which is an error of its own.                     *)
(***************************************************************************)
Report(is_error) ==
  /\ panic_mode' = (panic_mode \/ is_error)
  /\ had_error' = (had_error \/ is_error)

\* How many tokens may still follow.
Rest(n, is_error) == IF is_error /\ ~had_error THEN Min({n, sample.rest}) ELSE n

Tokens == sample.tokens

Advance(is_error) ==
  \E token \in {END_OF_FILE} \union (IF rest = 0 THEN {} ELSE Tokens \ {"ERROR"}),
     bad \in {<<>>} \union (IF rest = 0 THEN {} ELSE {<<"ERROR">>}) :
    /\ ToSet(bad) \subseteq Tokens
    /\ previous' = current
    /\ current' = token
    /\ input' = input \o bad \o (IF token = END_OF_FILE THEN <<>> ELSE <<token>>)
    /\ rest' = IF token = END_OF_FILE THEN 0
               ELSE Rest(rest - 1, is_error \/ bad # <<>>)
    /\ Report(is_error \/ bad # <<>>)
    /\ UNCHANGED sample

Stay(is_error) ==
  /\ rest' = Rest(rest, is_error)
  /\ UNCHANGED <<previous, current, input, sample>>
  /\ Report(is_error)

Task(do, arg) == [do |-> do, arg |-> arg]
Expression(level) == Task("expression", level)
Consume(token) == Task("consume", token)
Step(do) == Task(do, "")

Top == Head(work)
On(do) == work # <<>> /\ Top.do = do
Go(tasks) == work' = tasks \o Tail(work)

\* match(token): these tasks follow if it is the current one, else those.
Match(token, tasks, otherwise) ==
  IF current = token THEN Go(tasks) /\ Advance(FALSE)
  ELSE Go(otherwise) /\ Stay(FALSE)

\* consume(token, message).
ConsumeToken ==
  /\ On("consume")
  /\ Go(<<>>)
  /\ IF current = Top.arg THEN Advance(FALSE) ELSE Stay(TRUE)
  /\ UNCHANGED values

DropResult == On("drop") /\ Go(<<>>) /\ Stay(FALSE) /\ values' = Drop(1)

\* The end of a procedure that parses a statement.
StatementDone ==
  On("statement_done") /\ Go(<<>>) /\ Stay(FALSE) /\ Give(Result("STATEMENT", NONE, {}))

-----------------------------------------------------------------------------
(***************************************************************************)
(* Expressions.                                                            *)
(***************************************************************************)
\* parse_precedence.
ParsePrecedence ==
  On("expression") /\ Go(<<Task("prefix", Top.arg)>>) /\ Advance(FALSE)
  /\ UNCHANGED values

\* After the prefix rule: infix operators, unless it is parse_prefix_only.
Infix(level) == IF level = NONE THEN <<>> ELSE <<Task("infix", level)>>

block == <<Step("block")>>
if_expr == <<Expression(ASSIGNMENT), Step("drop"), Consume("LEFT_BRACE")>>
           \o block \o <<Step("else")>>
loop_expr == <<Consume("LEFT_BRACE")>> \o block \o <<Task("end_loop", {})>>
parameter_list == <<Task("list", "parameters"), Step("return_type")>>
fn_expr == <<Consume("LEFT_PAREN")>> \o parameter_list
           \o <<Consume("LEFT_BRACE")>> \o block \o <<Task("leave", other)>>

prefix_rules ==
  "LEFT_PAREN" :> <<Expression(ASSIGNMENT), Consume("RIGHT_PAREN"),
                    Task("reduce", "grouping")>>
  @@ "MINUS" :> <<Expression(UNARY), Task("reduce", "negate")>>
  @@ "BANG" :> <<Expression(UNARY), Task("reduce", "not")>>
  @@ "LEFT_BRACE" :> block @@ "IF" :> if_expr @@ "LOOP" :> loop_expr
  @@ "FN" :> fn_expr

Prefix ==
  /\ On("prefix")
  /\ previous \in DOMAIN prefix_rules
  /\ Go(prefix_rules[previous] \o Infix(Top.arg))
  /\ Stay(FALSE)
  /\ UNCHANGED values

Literal ==
  /\ On("prefix")
  /\ previous \in {"INTEGER_LITERAL", "NIL"}
  /\ Go(Infix(Top.arg)) /\ Stay(FALSE)
  /\ Give(Value(PRIMARY, IF previous = "NIL" THEN nil ELSE other))

\* Mutant: any variable followed by = is assigned to.
AlwaysAssigns(level) == TRUE

CanAssign(level) == level <= ASSIGNMENT

\* named_variable: only an operand of the lowest level is assigned to.
Variable ==
  /\ On("prefix") /\ previous = "IDENTIFIER"
  /\ IF CanAssign(Top.arg) /\ current = "EQUAL"
     THEN /\ Go(<<Expression(ASSIGNMENT), Task("reduce", "assign")>>
                \o Infix(Top.arg))
          /\ Advance(FALSE) /\ UNCHANGED values
     ELSE Go(Infix(Top.arg)) /\ Stay(FALSE) /\ Give(Value(PRIMARY, other))

NoPrefix ==
  /\ On("prefix")
  /\ previous \notin DOMAIN prefix_rules
                     \union {"INTEGER_LITERAL", "NIL", "IDENTIFIER"}
  /\ Go(<<>>) /\ Stay(TRUE)
  /\ Give(Value(PRIMARY, {}))

\* What follows an infix operator that has been taken.
Operands(token) ==
  CASE token = "LEFT_PAREN" -> <<Task("list", "arguments")>>
    [] token = "AS" -> <<Step("type_set")>>
    [] OTHER -> <<Expression(OperandLevel(token))>>

ParseInfix ==
  /\ On("infix")
  /\ IF Top.arg <= precedence(current)
     THEN Go(Operands(current) \o <<Task("reduce", current), Top>>)
          /\ Advance(FALSE)
     ELSE IF CanAssign(Top.arg) /\ current = "EQUAL"
     THEN Go(<<>>) /\ Advance(TRUE)
     ELSE Go(<<>>) /\ Stay(FALSE)
  /\ UNCHANGED values

Reduce ==
  /\ On("reduce")
  /\ LET r == Reduction(Top.arg)
     IN  values' = Append(Drop(r.takes), r.gives)
  /\ Go(<<>>) /\ Stay(FALSE)

(***************************************************************************)
(* Lists between parentheses or chevrons: arguments, parameters, types.    *)
(***************************************************************************)
lists ==
  [arguments |-> [item |-> <<Expression(ASSIGNMENT), Step("drop")>>,
                  close |-> "RIGHT_PAREN"],
   parameters |-> [item |-> <<Consume("IDENTIFIER"), Consume("COLON"),
                              Step("type_set")>>,
                   close |-> "RIGHT_PAREN"],
   types |-> [item |-> <<Step("type_set")>>, close |-> "RIGHT_CHEVRON"]]

List ==
  /\ On("list")
  /\ Go(IF current = lists[Top.arg].close THEN <<Consume(lists[Top.arg].close)>>
        ELSE lists[Top.arg].item \o <<Task("more", Top.arg)>>)
  /\ Stay(FALSE) /\ UNCHANGED values

MoreOfList ==
  /\ On("more")
  /\ Match("COMMA", <<Task("list", Top.arg)>>, <<Consume(lists[Top.arg].close)>>)
  /\ UNCHANGED values

ReturnType ==
  /\ On("return_type")
  /\ Go(IF current = "LEFT_BRACE" THEN <<>> ELSE <<Step("type_set")>>)
  /\ Stay(FALSE) /\ UNCHANGED values

\* parse_type, and the alternatives of parse_type_set.
ParseType ==
  /\ On("type_set")
  /\ IF current \in {"INT_TYPE", "NIL_TYPE"}
     THEN Go(<<Step("alternatives")>>) /\ Advance(FALSE)
     ELSE IF current = "FN_TYPE"
     THEN /\ Go(<<Consume("LEFT_CHEVRON"), Consume("LEFT_CHEVRON"),
                  Task("list", "types"), Consume("COMMA"), Step("type_set"),
                  Consume("RIGHT_CHEVRON"), Step("alternatives")>>)
          /\ Advance(FALSE)
     ELSE Go(<<Step("alternatives")>>) /\ Stay(TRUE)
  /\ UNCHANGED values

Alternatives ==
  On("alternatives") /\ Match("OR", <<Step("type_set")>>, <<>>) /\ UNCHANGED values

(***************************************************************************)
(* Blocks and what is made of them.                                        *)
(***************************************************************************)
\* block_no_scope: the next item, or the end of a block without a value.
BlockItem ==
  /\ On("block")
  /\ IF current \in {"RIGHT_BRACE", END_OF_FILE}
     THEN Go(<<Consume("RIGHT_BRACE")>>) /\ Give(Value(PRIMARY, nil))
     ELSE Go(<<Step("item"), Step("after_item"), Top>>) /\ UNCHANGED values
  /\ Stay(FALSE)

result == Last(values)

\* Mutant: a block is no statement by itself.
NoBlock == FALSE

NilBlock == result.kind = "EXPRESSION_WITH_BLOCK" /\ result.types = nil

AfterItem ==
  /\ On("after_item")
  /\ IF result.kind = "STATEMENT" THEN Go(<<>>) /\ Stay(FALSE) /\ values' = Drop(1)
     ELSE IF current = "RIGHT_BRACE"
     THEN /\ work' = Tail(Tail(work)) /\ Advance(FALSE)
          /\ Swap(Value(PRIMARY, result.types))
     ELSE /\ Go(<<>>) /\ values' = Drop(1)
          /\ IF current = "SEMICOLON" THEN Advance(FALSE) ELSE Stay(~NilBlock)

Else ==
  /\ On("else")
  /\ Match("ELSE", <<Step("else_body")>>, <<>>)
  /\ UNCHANGED values

ElseBody ==
  /\ On("else_body")
  /\ CASE current = "IF" -> Go(if_expr \o <<Step("join")>>) /\ Advance(FALSE)
       [] current = "LEFT_BRACE" -> Go(block \o <<Step("join")>>) /\ Advance(FALSE)
       [] OTHER -> Go(<<>>) /\ Stay(TRUE)
  /\ UNCHANGED values

JoinBranches ==
  /\ On("join")
  /\ values' = Append(Drop(2), Value(PRIMARY,
                 values[Len(values) - 1].types \union result.types))
  /\ Go(<<>>) /\ Stay(FALSE)

\* The body of a loop is to be nil; its value is what the breaks give.
EndLoop ==
  /\ On("end_loop")
  /\ Swap(Value(PRIMARY, Top.arg))
  /\ Go(<<>>) /\ Stay(result.types # nil)

\* The end of a function's body, and the value of a function expression.
LeaveFunction ==
  /\ On("leave")
  /\ IF Top.arg = {} THEN values' = Drop(1) ELSE Swap(Value(PRIMARY, Top.arg))
  /\ Go(<<>>) /\ Stay(FALSE)

-----------------------------------------------------------------------------
(***************************************************************************)
(* Statements.  Where they stand shows in what is still to do: in a        *)
(* function "leave", in a loop "end_loop" or "end_while", in a block       *)
(* "after_item".                                                           *)
(***************************************************************************)
\* The tasks of the function being compiled.
Inside == {i \in DOMAIN work : \A j \in 1..i : work[j].do # "leave"}

InFunction == \E i \in DOMAIN work : work[i].do = "leave"
InScope == \E i \in DOMAIN work : work[i].do = "after_item"
Loops == {i \in Inside : work[i].do \in {"end_loop", "end_while"}}

ItemTasks ==
  "VAR" :> <<Step("let")>> @@ "LET" :> <<Step("let")>>
  @@ "RETURN" :> <<Step("return")>> @@ "BREAK" :> <<Step("break")>>
  @@ "CONTINUE" :> <<Step("continue")>> @@ "FN" :> <<Step("fn")>>
  @@ "WHILE" :> (<<Expression(ASSIGNMENT), Step("drop"), Consume("LEFT_BRACE")>>
                 \o block
                 \o <<Step("drop"), Step("end_while"), Step("statement_done")>>)

WithBlock == <<Task("prefix", NONE), Task("kind", "EXPRESSION_WITH_BLOCK")>>
WithoutBlock ==
  <<Task("prefix", ASSIGNMENT), Task("kind", "EXPRESSION_WITHOUT_BLOCK")>>

\* statement_or_expression.
Item ==
  /\ On("item")
  /\ Go(IF current \in DOMAIN ItemTasks THEN ItemTasks[current]
        ELSE IF is_block_expr(current) THEN WithBlock ELSE WithoutBlock)
  /\ Advance(FALSE)
  /\ UNCHANGED values

FnItem ==
  /\ On("fn")
  /\ IF current = "IDENTIFIER"
     THEN /\ Go(<<Consume("LEFT_PAREN")>> \o parameter_list
                \o <<Step("fn_body"), Step("statement_done")>>)
          /\ Advance(FALSE)
     ELSE Go(WithoutBlock) /\ Stay(current # "LEFT_PAREN")
  /\ UNCHANGED values

FnBody ==
  /\ On("fn_body")
  /\ Match("LEFT_BRACE", block \o <<Task("leave", {})>>, <<Consume("SEMICOLON")>>)
  /\ UNCHANGED values

SetKind ==
  /\ On("kind")
  /\ Swap([result EXCEPT !.kind = Top.arg])
  /\ Go(<<>>) /\ Stay(FALSE)

\* var_declaration: the name, the type if there is one, the value.
LetName ==
  /\ On("let")
  /\ IF current = "IDENTIFIER"
     THEN Go(<<Step("let_type"), Consume("SEMICOLON"), Step("statement_done")>>)
          /\ Advance(FALSE)
     ELSE Go(<<Step("statement_done")>>) /\ Stay(TRUE)
  /\ UNCHANGED values

LetType ==
  /\ On("let_type")
  /\ Match("COLON", <<Step("type_set"), Task("let_value", TRUE)>>,
                    <<Task("let_value", FALSE)>>)
  /\ UNCHANGED values

LetValue ==
  /\ On("let_value")
  /\ IF current = "EQUAL"
     THEN Go(<<Expression(ASSIGNMENT), Step("drop")>>) /\ Advance(FALSE)
     ELSE Go(<<>>) /\ Stay(~Top.arg \/ InScope)
  /\ UNCHANGED values

WhileDone ==
  On("end_while") /\ Match("SEMICOLON", <<>>, <<>>) /\ UNCHANGED values

Break ==
  /\ On("break")
  /\ IF Loops = {} THEN Go(<<Step("statement_done")>>) /\ Stay(TRUE)
     ELSE IF work[Min(Loops)].do = "end_while"
     THEN Go(<<Consume("SEMICOLON"), Step("statement_done")>>) /\ Stay(FALSE)
     ELSE IF current = "SEMICOLON"
     THEN /\ work' = <<Step("statement_done")>>
                     \o Tail([work EXCEPT ![Min(Loops)].arg = @ \union nil])
          /\ Advance(FALSE)
     ELSE /\ Go(<<Expression(ASSIGNMENT), Step("break_value"),
                  Consume("SEMICOLON"), Step("statement_done")>>)
          /\ Stay(FALSE)
  /\ UNCHANGED values

BreakValue ==
  /\ On("break_value")
  /\ work' = Tail([work EXCEPT ![Min(Loops)].arg = @ \union result.types])
  /\ Stay(FALSE) /\ values' = Drop(1)

Continue ==
  /\ On("continue")
  /\ IF Loops = {} THEN Go(<<Step("statement_done")>>) /\ Stay(TRUE)
     ELSE Go(<<Consume("SEMICOLON"), Step("statement_done")>>) /\ Stay(FALSE)
  /\ UNCHANGED values

Return ==
  /\ On("return")
  /\ IF ~InFunction THEN Go(<<Step("statement_done")>>) /\ Stay(TRUE)
     ELSE Match("SEMICOLON", <<Step("statement_done")>>,
                <<Expression(ASSIGNMENT), Step("drop"), Consume("SEMICOLON"),
                  Step("statement_done")>>)
  /\ UNCHANGED values

(***************************************************************************)
(* The script: compile, statement, synchronize.                            *)
(***************************************************************************)
Statement ==
  /\ On("script")
  /\ IF current = END_OF_FILE THEN Go(<<>>) /\ Advance(FALSE)
     ELSE Go(<<Step("item"), Step("statement"), Top>>) /\ Stay(FALSE)
  /\ UNCHANGED values

\* Mutant: the value of the statement stays.
EndStatementKeeps ==
  /\ On("statement")
  /\ Go(<<Step("panic")>>)
  /\ IF result.kind = "STATEMENT" THEN Stay(FALSE)
     ELSE IF current = "SEMICOLON" THEN Advance(FALSE) ELSE Stay(~NilBlock)
  /\ UNCHANGED values

EndStatement ==
  /\ On("statement")
  /\ Go(<<Step("panic")>>)
  /\ IF result.kind = "STATEMENT" THEN Stay(FALSE)
     ELSE IF current = "SEMICOLON" THEN Advance(FALSE) ELSE Stay(~NilBlock)
  /\ values' = Drop(1)

Panic ==
  /\ On("panic")
  /\ Go(IF panic_mode THEN <<Step("synchronize")>> ELSE <<>>)
  /\ panic_mode' = FALSE
  /\ UNCHANGED <<values, previous, current, input, sample, rest, had_error>>

Starters == {"STRUCT", "FN", "LET", "VAR", "IF", "MATCH", "LOOP", "WHILE",
             "FOR", "RETURN", "IMPORT"}

\* Mutant: the token is looked at again and again.
SynchronizeStuck ==
  /\ On("synchronize")
  /\ IF current = END_OF_FILE \/ previous = "SEMICOLON" \/ current \in Starters
     THEN Go(<<>>) ELSE UNCHANGED work
  /\ Stay(FALSE)
  /\ UNCHANGED values

Synchronize ==
  /\ On("synchronize")
  /\ IF current = END_OF_FILE \/ previous = "SEMICOLON" \/ current \in Starters
     THEN Go(<<>>) /\ Stay(FALSE)
     ELSE UNCHANGED work /\ Advance(FALSE)
  /\ UNCHANGED values

Init ==
  /\ work = <<Step("script")>>
  /\ values = <<>>
  /\ previous = END_OF_FILE
  /\ sample \in Samples
  /\ current \in (Tokens \ {"ERROR"}) \union {END_OF_FILE}
  /\ input = IF current = END_OF_FILE THEN <<>> ELSE <<current>>
  /\ rest = IF current = END_OF_FILE THEN 0 ELSE sample.length - 1
  /\ panic_mode = FALSE
  /\ had_error = FALSE

Next ==
  \/ ConsumeToken \/ DropResult \/ StatementDone
  \/ ParsePrecedence \/ Prefix \/ Literal \/ Variable \/ NoPrefix \/ ParseInfix
  \/ Reduce \/ List \/ MoreOfList \/ ReturnType \/ ParseType \/ Alternatives
  \/ BlockItem \/ AfterItem \/ Else \/ ElseBody \/ JoinBranches \/ EndLoop
  \/ LeaveFunction \/ Item \/ FnItem \/ FnBody \/ SetKind \/ LetName \/ LetType
  \/ LetValue \/ WhileDone \/ Break \/ BreakValue \/ Continue \/ Return
  \/ Statement \/ EndStatement \/ Panic \/ Synchronize

Spec == Init /\ [][Next]_vars

\* The compiler is one thread that nothing waits for.
FairSpec == Spec /\ WF_vars(Next)

-----------------------------------------------------------------------------
(***************************************************************************)
(* Properties.                                                             *)
(***************************************************************************)
\* Results and tasks are in step: while an item is parsed, those wait that are
\* the left operand of something, or the other branch, and none at the end.
TypeOK ==
  /\ input \in Seq(Tokens) /\ rest \in 0..sample.length
  /\ panic_mode => had_error
  /\ work = <<>> => values = <<>> /\ current = END_OF_FILE
  /\ work # <<>> /\ Top.do \in {"script", "item"} =>
       Len(values) = Cardinality({i \in DOMAIN work :
                                    \/ work[i].do = "join"
                                    \/ /\ work[i].do = "reduce"
                                       /\ work[i].arg \in DOMAIN infix_rules})

\* A source that compiles is a program of the grammar of doc/syntax.md.
AcceptsPrograms == work = <<>> /\ ~had_error => input \in Programs

\* An error is reported only when nothing that could follow what was read
\* makes a program of it.
RejectsOthers ==
  had_error => input \notin IF current = END_OF_FILE THEN Programs
                            ELSE Beginnings

\* Exactly the programs compile, and no error comes too early.
ExactlyPrograms == AcceptsPrograms /\ RejectsOthers

\* An operator is applied to its operands, and these bind more tightly: to the
\* left as tightly at least (and, or: more tightly), to the right more tightly
\* (and, or, = and prefix operators: as tightly at least).
BindsAsTabled ==
  /\ TypeOK
  /\ work # <<>> /\ Top.do = "reduce" /\ ~had_error
       /\ Top.arg \in DOMAIN infix_rules
     => LET level == infix_rules[Top.arg]
            right_associative == level \in {AND, OR}
        IN  IF Top.arg \in {"LEFT_PAREN", "AS"} THEN result.level >= level
            ELSE /\ IF right_associative THEN result.level >= level
                    ELSE result.level > level
                 /\ LET left == values[Len(values) - 1].level
                    IN  IF right_associative THEN left > level
                        ELSE left >= level

\* Whatever the text, compiling it comes to an end.
Terminates == <>(work = <<>>)
=============================================================================
