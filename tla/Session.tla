------------------------------- MODULE Session -------------------------------
(***************************************************************************)
(* The globals of a VM over the lines given to it: the one text of a       *)
(* script, or the lines of the prompt, where a line may fail to compile or *)
(* fail while it runs, and the next one goes on with what it left behind.  *)
(* A line is compiled statement by statement to the code of its top level, *)
(* then run.  Of a function, its body: nothing, a use of a global or an    *)
(* assignment to one.  Of a value, its type.                               *)
(***************************************************************************)
EXTENDS Naturals, Sequences, SequencesExt

CONSTANTS DebugBuild,   \* the debug build, which checks stack effects
          Names,        \* the names of globals
          Natives,      \* those the VM defines before the first line
          TypesOf,      \* bound: the types a name is declared with
          MaxLines,     \* bound: lines of the prompt
          MaxStatements \* bound: those of a line, of the prompt and of a script

ASSUME SessionAssumption ==
  /\ DebugBuild \in BOOLEAN
  /\ Natives \subseteq Names /\ IsFiniteSet(Natives)
  /\ MaxStatements \in [{"prompt", "script"} -> Nat]
  /\ \A name \in Natives : "Fn" \in TypesOf[name]
  /\ \A name \in Names : "none" \notin TypesOf[name]

VARIABLES mode,                 \* whether a file is run, or the prompt
          signatures, values,   \* global_signatures and global_values
          phase, had_error,
          code,                 \* the instructions still to run
          stack,
          previous,             \* the statics of assert_stack_effect
          outcome,              \* of the last line
          orphans,              \* globals lines that failed left without a value
          surprised,            \* scope depth 0 met one without a value that is
                                \* no orphan
          lines, statements

vars == <<mode, signatures, values, phase, had_error, code, stack, previous,
          outcome, orphans, surprised, lines, statements>>

Script == mode = "script"

globals == <<signatures, values>>
machine == <<stack, previous, outcome, orphans, surprised>>

Value(type, does, index, stores) ==
  [type |-> type, does |-> does, index |-> index, stores |-> stores]

Plain(type) == Value(type, "nothing", 0, "")
None == Plain("none")
Nil == Plain("Nil")
Native == Value("Fn", "native", 0, "")

Instruction(op, index, value, top) ==
  [op |-> op, index |-> index, value |-> value, top |-> top]

Instr(op) == Instruction(op, 0, None, TRUE)
OnGlobal(op, index, top) == Instruction(op, index, None, top)
Push(value) == Instruction("CONSTANT", 0, value, TRUE)

(***************************************************************************)
(* Compiling.  Globals are looked up by name; 0 stands for "not found".    *)
(***************************************************************************)
Lookup(sigs, name) ==
  LET found == {i \in DOMAIN sigs : sigs[i].name = name}
  IN IF found = {} THEN 0 ELSE CHOOSE i \in found : TRUE

\* Mutant: only the last global is looked at.
FindLast(name) ==
  IF signatures # <<>> /\ Last(signatures).name = name
  THEN Len(signatures) ELSE 0

resolve_global(name) == Lookup(signatures, name)

Signature(name, is_const, types) ==
  [name |-> name, is_defined |-> FALSE, is_const |-> is_const,
   types |-> types]

\* The types are not compared.
SameSignature(sig, global) == sig.is_const = global.is_const

\* Mutant: at the prompt as in a script.
RedefinedAnyhow(global) == FALSE

Redefined(global) == global.is_defined /\ Script

declare_global_variable(name, is_const, types) ==
  LET sig == Signature(name, is_const, types)
      idx == resolve_global(name)
  IN IF idx = 0
     THEN [index |-> Len(signatures) + 1, error |-> FALSE,
           signatures |-> Append(signatures, sig)]
     ELSE [index |-> idx, signatures |-> signatures,
           error |-> \/ ~SameSignature(sig, signatures[idx])
                     \/ Redefined(signatures[idx])]

Defined(sigs, index) == [sigs EXCEPT ![index].is_defined = TRUE]

Declare(sigs) ==
  /\ signatures' = sigs
  /\ values' = values \o [i \in 1..(Len(sigs) - Len(values)) |-> None]

\* The code of a line with an error is thrown away.
Emit(instructions) ==
  code' = IF had_error' THEN <<>> ELSE code \o instructions

(***************************************************************************)
(* Expressions: a literal, a global, a call of one, a function.            *)
(***************************************************************************)
Bodies ==
  [kind : {"get", "set"}, type : {"Fn"}, name : Names]
    \union [kind : {"nothing"}, type : {"Fn"}, name : {""}]
Expressions ==
  Bodies \union [kind : {"literal"}, type : {"Int", "Str"}, name : {""}]
         \union [kind : {"read", "call"}, type : {""}, name : Names]

\* Mutant: a global that is only declared may be read.
ReadableDeclared(sigs, i) == i # 0

\* At scope depth 0; in a function or a block, a declared global is enough.
Readable(sigs, i) == i # 0 /\ sigs[i].is_defined

\* Mutant: constants may be assigned to.
WritableAny(sigs, i) == i # 0

Writable(sigs, i) == i # 0 /\ ~sigs[i].is_const

Accepted(e, sigs) ==
  LET i == Lookup(sigs, e.name)
  IN CASE e.kind \in {"literal", "nothing"} -> TRUE
       [] e.kind = "read" -> Readable(sigs, i)
       [] e.kind = "call" -> Readable(sigs, i) /\ sigs[i].types = "Fn"
       [] e.kind = "get" -> i # 0
       [] e.kind = "set" -> Writable(sigs, i)

ExpressionType(e) ==
  CASE e.kind = "read" -> signatures[resolve_global(e.name)].types
    [] e.kind = "call" -> "Nil"
    [] OTHER -> e.type

\* The function with that body.
FunctionOf(e, sigs) ==
  LET i == Lookup(sigs, e.name)
  IN  Value("Fn", e.kind, i, IF e.kind = "set" THEN sigs[i].types ELSE "")

\* The code of an accepted expression.
ExpressionCode(e, sigs) ==
  LET i == Lookup(sigs, e.name)
      get == OnGlobal("GET_GLOBAL", i, TRUE)
  IN CASE e.kind = "literal" -> <<Push(Plain(e.type))>>
       [] e.kind = "read" -> <<get>>
       [] e.kind = "call" -> <<get, Instr("CALL")>>
       [] OTHER -> <<Push(FunctionOf(e, sigs))>>

BodyCode(fn) ==
  CASE fn.does = "get" -> <<OnGlobal("GET_GLOBAL", fn.index, FALSE),
                            Instr("POP")>>
    [] fn.does = "set" -> <<Push(Plain(fn.stores)),
                            OnGlobal("SET_GLOBAL", fn.index, FALSE),
                            Instr("POP")>>
    [] OTHER -> <<>>

(***************************************************************************)
(* The statements of a line.                                               *)
(***************************************************************************)
Line ==
  /\ phase = "prompt" /\ lines < (IF Script THEN 1 ELSE MaxLines)
  /\ phase' = "compiling" /\ lines' = lines + 1 /\ statements' = 0
  /\ had_error' = FALSE /\ code' = <<>>
  /\ UNCHANGED <<mode, globals, machine>>

Statement ==
  /\ phase = "compiling" /\ statements < MaxStatements[mode]
  /\ statements' = statements + 1
  /\ UNCHANGED <<mode, phase, machine, lines>>

\* Nothing is declared once the line has an error.
var_declaration ==
  \E name \in Names, is_const \in BOOLEAN,
     written, initialised \in BOOLEAN, init \in Expressions :
    \E type \in TypesOf[name] :
      LET right == /\ written \/ initialised
                   /\ initialised => Accepted(init, signatures)
                                     /\ ExpressionType(init) = type
          declared == declare_global_variable(name, is_const, type)
      IN /\ ~initialised => init.kind = "nothing"
         /\ ~written /\ right => type = ExpressionType(init)
         /\ Statement
         /\ IF had_error \/ ~right
            THEN had_error' = TRUE /\ UNCHANGED globals
            ELSE /\ had_error' = declared.error
                 /\ Declare(IF initialised
                            THEN Defined(declared.signatures, declared.index)
                            ELSE declared.signatures)
         /\ Emit(IF ~initialised THEN <<>>
                 ELSE Append(ExpressionCode(init, signatures),
                             OnGlobal("DEFINE_GLOBAL", declared.index, TRUE)))

\* Mutant: a function declared without a body counts as defined.
DefinedAnyhow(sigs, index, has_body) == Defined(sigs, index)

FnSignatures(sigs, index, has_body) ==
  IF has_body THEN Defined(sigs, index) ELSE sigs

fn_declaration ==
  \E name \in {n \in Names : "Fn" \in TypesOf[n]}, has_body \in BOOLEAN,
     body \in Bodies :
    LET declared == declare_global_variable(name, TRUE, "Fn")
        sigs == FnSignatures(declared.signatures, declared.index, has_body)
    IN /\ ~has_body => body.kind = "nothing"
       /\ Statement /\ Declare(sigs)
       /\ had_error' = (had_error \/ declared.error \/ ~Accepted(body, sigs))
       /\ Emit(IF ~has_body THEN <<>>
               ELSE Append(ExpressionCode(body, sigs),
                           OnGlobal("DEFINE_GLOBAL", declared.index, TRUE)))

\* Mutant: a value of any type may be assigned.
AnyAssignable(rhs, i) == TRUE

Assignable(rhs, i) == ExpressionType(rhs) = signatures[i].types

assignment ==
  \E name \in Names, rhs \in Expressions :
    LET i == resolve_global(name)
        right == /\ Readable(signatures, i) /\ Writable(signatures, i)
                 /\ Accepted(rhs, signatures)
                 /\ Assignable(rhs, i)
    IN /\ Statement /\ UNCHANGED globals
       /\ had_error' = (had_error \/ ~right)
       /\ Emit(ExpressionCode(rhs, signatures)
                 \o <<OnGlobal("SET_GLOBAL", i, TRUE), Instr("POP")>>)

expression_statement ==
  \E e \in Expressions :
    /\ e.kind \in {"read", "call"} /\ Statement /\ UNCHANGED globals
    /\ had_error' = (had_error \/ ~Accepted(e, signatures))
    /\ Emit(Append(ExpressionCode(e, signatures), Instr("POP")))

\* A block at the top level that is one expression: a use of a global or an
\* assignment to one, compiled as in a function.
block_statement ==
  \E body \in Bodies :
    /\ body.kind # "nothing" /\ Statement /\ UNCHANGED globals
    /\ had_error' = (had_error \/ ~Accepted(body, signatures))
    /\ Emit(BodyCode(FunctionOf(body, signatures)))

syntax_error ==
  Statement /\ had_error' = TRUE /\ code' = <<>> /\ UNCHANGED globals

Undefined == {i \in DOMAIN signatures : ~signatures[i].is_defined}
LeftBehind == {i \in DOMAIN signatures :
                 signatures[i].is_defined /\ values[i] = None}

\* The end of the line: nothing runs if it has an error.
compile ==
  /\ phase = "compiling" /\ statements > 0
  /\ had_error' = (had_error \/ (Script /\ Undefined # {}))
  /\ IF had_error'
     THEN /\ phase' = "prompt" /\ outcome' = "compile_error"
          /\ orphans' = LeftBehind /\ code' = <<>> /\ UNCHANGED stack
     ELSE /\ phase' = "running" /\ stack' = <<Plain("Fn")>>
          /\ code' = code \o <<Instr("NIL"), Instr("RETURN")>>
          /\ UNCHANGED <<outcome, orphans>>
  /\ UNCHANGED <<mode, globals, previous, surprised, lines, statements>>

(***************************************************************************)
(* Running.  The debug build compares, before each instruction, the size   *)
(* of the stack with what the last one should have made it, and keeps the  *)
(* last one from line to line.                                             *)
(***************************************************************************)
Instr0 == Head(code)
Peek == Last(stack)
Dropped(n) == SubSeq(stack, 1, Len(stack) - n)

\* Mutant: SET_GLOBAL is counted as if it took the value.
set_pops(op) ==
  CASE op \in {"CONSTANT", "NIL", "GET_GLOBAL"} -> 1
    [] op \in {"POP", "DEFINE_GLOBAL", "SET_GLOBAL"} -> -1

stack_effect(op) ==
  CASE op \in {"CONSTANT", "NIL", "GET_GLOBAL"} -> 1
    [] op \in {"POP", "DEFINE_GLOBAL"} -> -1
    [] op = "SET_GLOBAL" -> 0

AsExpected ==
  \/ previous.op \in {"END", "CALL", "RETURN"}
  \/ Len(stack) = previous.size + stack_effect(previous.op)

\* The assertion does not end the program here, so that what comes after it
\* can be told.
assert_stack_effect ==
  previous' = IF DebugBuild THEN [op |-> Instr0.op, size |-> Len(stack)]
              ELSE previous

Dispatch(ops) ==
  /\ phase = "running" /\ Instr0.op \in ops /\ assert_stack_effect
  /\ UNCHANGED <<mode, signatures, had_error, lines, statements>>

Continue(new_stack) ==
  /\ code' = Tail(code) /\ stack' = new_stack
  /\ UNCHANGED <<phase, outcome, orphans, surprised>>

\* Mutant: the values of the line that failed stay on the stack.
KeptStack == stack

reset_stack == <<>>

runtime_error ==
  /\ phase' = "prompt" /\ stack' = reset_stack /\ code' = <<>>
  /\ outcome' = "runtime_error" /\ orphans' = LeftBehind
  /\ UNCHANGED values

undefined_variable ==
  /\ runtime_error
  /\ surprised' = (surprised \/ (Instr0.top /\ Instr0.index \notin orphans))

push ==
  /\ Dispatch({"CONSTANT", "NIL"}) /\ UNCHANGED values
  /\ Continue(Append(stack, IF Instr0.op = "NIL" THEN Nil ELSE Instr0.value))

pop == Dispatch({"POP"}) /\ UNCHANGED values /\ Continue(Dropped(1))

do_get_global ==
  /\ Dispatch({"GET_GLOBAL"})
  /\ IF values[Instr0.index] = None THEN undefined_variable
     ELSE UNCHANGED values /\ Continue(Append(stack, values[Instr0.index]))

do_set_global ==
  /\ Dispatch({"SET_GLOBAL"})
  /\ IF values[Instr0.index] = None THEN undefined_variable
     ELSE /\ values' = [values EXCEPT ![Instr0.index] = Peek]
          /\ Continue(stack)

do_define_global ==
  /\ Dispatch({"DEFINE_GLOBAL"})
  /\ values' = [values EXCEPT ![Instr0.index] = Peek]
  /\ Continue(Dropped(1))

\* The body of the function comes before the rest of the code.
call_value ==
  /\ Dispatch({"CALL"})
  /\ CASE Peek.type # "Fn" -> runtime_error /\ UNCHANGED surprised
       [] Peek.type = "Fn" /\ Peek.does = "native" ->
            UNCHANGED values /\ Continue(Append(Dropped(1), Nil))
       [] OTHER ->
            /\ code' = BodyCode(Peek) \o <<Instr("NIL"), Instr("RETURN")>>
                         \o Tail(code)
            /\ UNCHANGED <<values, stack, phase, outcome, orphans, surprised>>

return ==
  /\ Dispatch({"RETURN"}) /\ UNCHANGED <<values, orphans, surprised>>
  /\ code' = Tail(code)
  /\ IF Tail(code) = <<>>
     THEN phase' = "prompt" /\ outcome' = "ok" /\ stack' = Dropped(2)
     ELSE stack' = Append(Dropped(2), Peek) /\ UNCHANGED <<phase, outcome>>

Init ==
  /\ mode \in {"prompt", "script"}
  /\ signatures = SetToSeq({Defined(<<Signature(n, TRUE, "Fn")>>, 1)[1]
                              : n \in Natives})
  /\ values = [i \in DOMAIN signatures |-> Native]
  /\ phase = "prompt" /\ had_error = FALSE /\ code = <<>> /\ stack = <<>>
  /\ previous = [op |-> "END", size |-> 0]
  /\ outcome = "none" /\ orphans = {} /\ surprised = FALSE
  /\ lines = 0 /\ statements = 0

Next ==
  \/ Line \/ var_declaration \/ fn_declaration \/ assignment
  \/ expression_statement \/ block_statement \/ syntax_error \/ compile
  \/ push \/ pop \/ do_get_global \/ do_set_global \/ do_define_global
  \/ call_value \/ return

Spec == Init /\ [][Next]_vars

(***************************************************************************)
(* Properties.                                                             *)
(***************************************************************************)
\* The type invariant: one index for a name, a value for each signature.
TypeOK ==
  /\ Len(values) = Len(signatures)
  /\ \A i, j \in DOMAIN signatures :
       signatures[i].name = signatures[j].name => i = j
  /\ \A i \in DOMAIN signatures : signatures[i].name \in Names
  /\ phase \in {"prompt", "compiling", "running"}
  /\ had_error => code = <<>>
  /\ orphans \subseteq DOMAIN values

\* The assertion of interpret: whatever became of a line, the next one starts
\* with an empty stack.
EmptyBetweenLines == phase # "running" => stack = <<>>

\* What the compiler takes for defined has a value when the top level, outside
\* of its blocks, comes to read or assign it, unless a line that should have given it one failed.
TopLevelDefined == ~surprised

\* A line that succeeds leaves no global marked as defined and without a value.
NothingLeftBehind == phase = "prompt" => LeftBehind \subseteq orphans

\* A script that ends has given each of its globals a value.
ScriptComplete ==
  Script /\ outcome = "ok" => \A i \in DOMAIN values : values[i] # None

\* The assertion of do_define_global: in a script a global is defined once.
NeverRedefined ==
  Script /\ phase = "running" /\ Instr0.op = "DEFINE_GLOBAL" =>
    values[Instr0.index] = None

\* A constant keeps its value, from line to line and in the functions compiled
\* when it was declared, until the prompt defines it again.
ConstKept ==
  [][\A i \in DOMAIN values :
       signatures[i].is_const /\ values[i] # None /\ values'[i] # values[i]
         => ~Script /\ Instr0.op = "DEFINE_GLOBAL"]_vars

\* doc/values.md: Int and Str have instances of their own.  A global holds a
\* value of the type the compiler knows it by.
ValuesTyped ==
  \A i \in DOMAIN values :
    values[i] # None => values[i].type = signatures[i].types

\* The assertion of assert_stack_effect fails at no instruction but the first
\* of a line, and there only because the line that ran last, whatever lines
\* failed to compile since then, ended at a global without a value.
StackEffect ==
  phase = "running" /\ ~AsExpected =>
    stack = <<Plain("Fn")>> /\ previous.op \in {"GET_GLOBAL", "SET_GLOBAL"}

\* The stack is as the compiler counted it, from line to line and between.
StackAsCounted == EmptyBetweenLines /\ StackEffect

\* The compiler's table of globals is true of their values, whatever lines
\* failed: what is defined has a value, of its type, and just one.
GlobalsAsDeclared ==
  /\ TypeOK /\ TopLevelDefined /\ NothingLeftBehind
  /\ ScriptComplete /\ NeverRedefined /\ ValuesTyped
=============================================================================
