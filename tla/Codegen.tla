------------------------------ MODULE Codegen ------------------------------
(***************************************************************************)
(* The single-pass compiler of compiler_inl.hxx and the code it leaves     *)
(* behind.  The recursive-descent procedures of Parser are a pushdown      *)
(* machine: work holds what the procedures on the call stack still have to *)
(* do, the next thing first.  Each construct of the source text is chosen  *)
(* when its procedure is entered, so a behaviour compiles one program; a   *)
(* choice the compiler reports an error for is not enabled, as no code of  *)
(* such a program ever runs.  When the program is complete, one of its     *)
(* functions is executed, both ways at every branch.                       *)
(*                                                                         *)
(* Kept: which instruction is emitted when, with which operand, the count  *)
(* of stack slots, the tables of locals, upvalues and loops.  Abstracted:  *)
(* a jump's operand is the index of the instruction it lands on, operand   *)
(* widths are those of module Chunk, types those of module Types, constant *)
(* expressions are all alike, a name that is no local is a global.         *)
(*                                                                         *)
(* Variables carry an identity (id) that the code does not have: the size  *)
(* left when they were declared, negated for a parameter.  Stack cells     *)
(* carry the identity of the variable they were made for, 0 for a          *)
(* temporary.  They let the properties say which variable an operand means.*)
(* Nor does the code keep undercount: by how much the count of slots fell  *)
(* short of the stack's height at the jumps out of loops, see StackReserved.*)
(***************************************************************************)
EXTENDS Integers, Sequences, SequencesExt

CONSTANTS Samples,       \* bound: sets of programs, as [names, constructs, size]:
                         \* those of up to so many of these constructs,
                         \* literals aside, with locals of these names
          UnderOperand   \* may a block stand where operands already wait?

ASSUME CodegenAssumption ==
  /\ \A s \in Samples : s.size \in Nat
  /\ UnderOperand \in BOOLEAN

VARIABLES sample,      \* what the program is taken from
          work,        \* what the active procedures have left to do
          compilers,   \* the chain of Compiler structs, innermost last
          functions,   \* the finished functions
          size,        \* constructs the program may still have
          frame        \* the function under execution

vars == <<sample, work, compilers, functions, size, frame>>

Names == sample.names
Constructs == sample.constructs

NoFrame == [fun |-> 0, pc |-> 0, stack |-> <<>>]

(***************************************************************************)
(* A Compiler struct.  Slot 0 of every frame is the closure itself.        *)
(***************************************************************************)
Local(name, depth, id) == [name |-> name, depth |-> depth, id |-> id]

Compiler(depth, params) ==
  [locals |-> <<Local("", 0, 0)>> \o params, upvalues |-> <<>>,
   arity |-> Len(params), scope_depth |-> depth, num_slots |-> 0,
   max_slots |-> 0, loops |-> <<>>, code |-> <<>>, jumps |-> <<>>,
   births |-> {}, undercount |-> 0]

current == Last(compilers)

(***************************************************************************)
(* Emission.                                                               *)
(***************************************************************************)
Pushes == {"CONSTANT", "NIL", "GET_LOCAL", "GET_UPVALUE", "GET_GLOBAL",
           "CLOSURE"}
Pops == {"POP", "BINARY", "DEFINE_GLOBAL"}

\* Mutant: a unary operator is counted like a binary one.
UnaryPops(op, operand) ==
  IF op \in Pushes THEN 1
  ELSE IF op \in Pops \union {"NOT"} THEN -1
  ELSE IF op \in {"CALL", "END_SCOPE"} THEN -operand ELSE 0

StackEffect(op, operand) ==
  IF op \in Pushes THEN 1
  ELSE IF op \in Pops THEN -1
  ELSE IF op \in {"CALL", "END_SCOPE"} THEN -operand ELSE 0

EmitFor(c, op, operand, id) ==
  LET slots == c.num_slots + StackEffect(op, operand)
  IN  [c EXCEPT !.code = Append(@, [op |-> op, arg |-> operand, id |-> id]),
                !.num_slots = slots,
                !.max_slots = Max({@, slots})]

Emit(c, op, operand) == EmitFor(c, op, operand, 0)

Here(c) == Len(c.code) + 1

\* The offsets emit_jump returns wait in the parser's frames, last one first.
EmitJump(c, op) ==
  [Emit(c, op, 0) EXCEPT !.jumps = Append(@, Here(c))]

PatchJump(c) ==
  [c EXCEPT !.code[Last(c.jumps)].arg = Here(c), !.jumps = Front(@)]

\* The jump over an alternative, then the jump to it.
JumpOver(c) ==
  LET over == Emit(c, "JUMP", 0)
  IN  [over EXCEPT !.code[Last(c.jumps)].arg = Here(over),
                   !.jumps = Append(Front(@), Here(c))]

(***************************************************************************)
(* Scopes, locals and loops.                                               *)
(***************************************************************************)
BeginScope(c) == [c EXCEPT !.scope_depth = @ + 1]

\* How many locals lie above depth, counted from the last one down.
LocalsAbove(c, depth) ==
  Len(c.locals) - Max({i \in DOMAIN c.locals : c.locals[i].depth <= depth})

\* Mutant: the locals of the scope are forgotten, not dropped.
EndScopeKept(c) ==
  LET depth == c.scope_depth - 1
  IN  [c EXCEPT !.scope_depth = depth,
                !.locals = SubSeq(@, 1, Len(@) - LocalsAbove(c, depth))]

EndScope(c) ==
  LET depth == c.scope_depth - 1
      count == LocalsAbove(c, depth)
      left  == [c EXCEPT !.scope_depth = depth,
                         !.locals = SubSeq(@, 1, Len(@) - count)]
  IN  IF count > 0 THEN Emit(left, "END_SCOPE", count) ELSE left

Duplicate(c, name) ==
  \E i \in DOMAIN c.locals :
    /\ c.locals[i].name = name
    /\ \A j \in i..Len(c.locals) :
         c.locals[j].depth = -1 \/ c.locals[j].depth >= c.scope_depth

Declare(c, name, depth, id) ==
  IF c.scope_depth = 0 THEN c
  ELSE [c EXCEPT !.locals = Append(@, Local(name, depth, id))]

\* The value on top of the stack becomes the variable.
Define(c, id) ==
  IF c.scope_depth = 0 THEN Emit(c, "DEFINE_GLOBAL", 0)
  ELSE [c EXCEPT !.births = @ \union {<<Here(c), id>>}]

BeginLoop(c, is_loop_expr) ==
  [c EXCEPT !.loops = Append(@, [start |-> Here(c), is_loop_expr |-> is_loop_expr,
                                 scope_depth |-> c.scope_depth])]

EmitLoop(c) == Emit(c, "LOOP", Last(c.loops).start)

\* The count behind a loop falls one short: a while pops its condition once on
\* each way out, and the value of a loop is counted at its breaks.
Shortfall(c) ==
  IF /\ Last(c.loops).is_loop_expr
     /\ \E i \in Last(c.loops).start..Len(c.code) : c.code[i].op = "END"
  THEN 0 ELSE 1

\* Mutant: a break after the first jump of the loop is missed.
EndLoopFirst(c) ==
  LET ends == {i \in DOMAIN c.code :
                 i >= Last(c.loops).start /\ c.code[i].op = "END"}
  IN  [c EXCEPT
         !.undercount = @ + Shortfall(c),
         !.loops = Front(@),
         !.code = [i \in DOMAIN @ |->
                     IF i \in ends /\ \A j \in ends : i <= j
                     THEN [op |-> "JUMP", arg |-> Here(c), id |-> 0] ELSE @[i]]]

\* Patches every placeholder a break left since the loop began.
EndLoop(c) ==
  [c EXCEPT
     !.undercount = @ + Shortfall(c),
     !.loops = Front(@),
     !.code = [i \in DOMAIN @ |->
                 IF i >= Last(c.loops).start /\ @[i].op = "END"
                 THEN [op |-> "JUMP", arg |-> Here(c), id |-> 0] ELSE @[i]]]

\* Drops the locals of the loop's body, from under a result if there is one.
\* They are counted off although the code that follows still has them.
EmitPopInnermostLoop(c, skip_top_expression) ==
  LET count == LocalsAbove(c, Last(c.loops).scope_depth)
      left  == [c EXCEPT !.undercount = @ + count]
  IN  IF count = 0 THEN c
      ELSE IF skip_top_expression THEN Emit(left, "END_SCOPE", count)
      ELSE FoldLeft(LAMBDA d, i : Emit(d, "POP", 0), left,
                    [i \in 1..count |-> i])

(***************************************************************************)
(* Names.                                                                  *)
(***************************************************************************)
\* Mutant: an outer local hides the one that shadows it.
ResolveFirst(c, name) ==
  LET at == {i \in DOMAIN c.locals : c.locals[i].name = name}
  IN  IF at = {} THEN 0 ELSE Min(at)

\* The last local of that name, as a position in locals: the slot is one less.
ResolveLocal(c, name) ==
  Max({0} \union {i \in DOMAIN c.locals : c.locals[i].name = name})

\* Mutant: the index of a new upvalue is the count after it is added.
AddUpvalueNext(c, index, is_local, id) ==
  [c |-> [c EXCEPT !.upvalues = Append(@, [index |-> index, is_local |-> is_local,
                                           id |-> id])],
   index |-> Len(c.upvalues) + 1]

AddUpvalue(c, index, is_local, id) ==
  LET same == {i \in DOMAIN c.upvalues : /\ c.upvalues[i].index = index
                                         /\ c.upvalues[i].is_local = is_local}
      new  == [index |-> index, is_local |-> is_local, id |-> id]
  IN  IF same # {} THEN [c |-> c, index |-> Min(same) - 1]
      ELSE [c |-> [c EXCEPT !.upvalues = Append(@, new)],
            index |-> Len(c.upvalues)]

\* The variable a name means in a function: the one of the innermost scope.
Denoted(c, name) ==
  LET same == {i \in DOMAIN c.locals : c.locals[i].name = name}
  IN  c.locals[CHOOSE i \in same :
                 \A j \in same : c.locals[j].depth <= c.locals[i].depth].id

\* The innermost enclosing function with a local of that name, 0 if none has.
Owner(name) ==
  Max({0} \union {j \in 1..Len(compilers) - 1 :
                    ResolveLocal(compilers[j], name) # 0})

\* The chain of upvalues from the owner's local to the current function.
ResolveUpvalue(name) ==
  LET owner == Owner(name)
      at    == ResolveLocal(compilers[owner], name)
      id    == Denoted(compilers[owner], name)
      via[j \in owner..Len(compilers)] ==
        IF j = owner THEN [c |-> compilers[j], index |-> at - 1]
        ELSE AddUpvalue(compilers[j], via[j - 1].index, j = owner + 1, id)
  IN  [chain |-> [j \in DOMAIN compilers |->
                    IF j < owner THEN compilers[j] ELSE via[j].c],
       index |-> via[Len(compilers)].index, id |-> id]

\* What named_variable finds: where the variable is, and the chain it leaves.
NamedVariable(name) ==
  LET at == ResolveLocal(current, name)
  IN  IF at # 0
      THEN [chain |-> compilers, where |-> "LOCAL", index |-> at - 1,
            id |-> Denoted(current, name)]
      ELSE IF Owner(name) # 0
      THEN LET up == ResolveUpvalue(name)
           IN  [chain |-> up.chain, where |-> "UPVALUE", index |-> up.index,
                id |-> up.id]
      ELSE [chain |-> compilers, where |-> "GLOBAL", index |-> 0, id |-> 0]

-----------------------------------------------------------------------------
(***************************************************************************)
(* The tasks of work: an expression or the rest of a block, with the       *)
(* number of operands that wait on the stack below it, and single steps.   *)
(***************************************************************************)
Task(do, arg) == [do |-> do, arg |-> arg]
Expr(waiting) == Task("expression", waiting)
Items(waiting) == Task("block_items", waiting)
Op(op) == Task("emit", [op |-> op, arg |-> 0, id |-> 0])
Access(verb, v) ==
  Task("emit", [op |-> verb \o v.where, arg |-> v.index, id |-> v.id])
Step(do) == Task(do, 0)
Block(waiting) == <<Step("begin_scope"), Items(waiting), Step("end_scope")>>

Top == Head(work)

\* A step of the innermost procedure that only emits.
Perform(do, c) ==
  /\ work # <<>> /\ Top.do = do
  /\ compilers' = [compilers EXCEPT ![Len(compilers)] = c]
  /\ work' = Tail(work)
  /\ UNCHANGED <<sample, functions, size, frame>>

DoEmit == Perform("emit", EmitFor(current, Top.arg.op, Top.arg.arg, Top.arg.id))
DoJumpIfFalse == Perform("jump_if_false", EmitJump(current, "JUMP_IF_FALSE"))
DoJumpOver == Perform("jump_over", JumpOver(current))
DoPatchJump == Perform("patch_jump", PatchJump(current))
DoBeginScope == Perform("begin_scope", BeginScope(current))
DoEndScope == Perform("end_scope", EndScope(current))
DoBeginLoop == Perform("begin_loop", BeginLoop(current, Top.arg))
DoEmitLoop == Perform("emit_loop", EmitLoop(current))
DoEndLoop == Perform("end_loop", EndLoop(current))
DoDefine == Perform("define", Define(current, Top.arg))
DoBreak ==
  Perform("break",
    Emit(EmitPopInnermostLoop(current, Last(current.loops).is_loop_expr),
         "END", 0))

\* The end of var_declaration: the variable exists once its value does.
DoDeclare ==
  /\ ~(work # <<>> /\ Top.do = "declare" /\ current.scope_depth > 0
       /\ Duplicate(current, Top.arg.name))
  /\ Perform("declare",
       Define(Declare(current, Top.arg.name, current.scope_depth, Top.arg.id),
              Top.arg.id))

Emission ==
  \/ DoEmit \/ DoJumpIfFalse \/ DoJumpOver \/ DoPatchJump \/ DoBeginScope
  \/ DoEndScope \/ DoBeginLoop \/ DoEmitLoop \/ DoEndLoop \/ DoDefine
  \/ DoBreak \/ DoDeclare

(***************************************************************************)
(* Expressions.                                                            *)
(***************************************************************************)
Parse(construct, tasks) ==
  /\ work # <<>> /\ Top.do = "expression"
  /\ construct \in Constructs /\ size > 0
  /\ size' = size - 1
  /\ work' = tasks \o Tail(work)
  /\ UNCHANGED <<sample, functions, frame>>

\* Blocks where no operand waits, or anywhere if UnderOperand.
ParseBlock(construct, tasks) ==
  /\ work # <<>> /\ Top.do = "expression"
  /\ UnderOperand \/ Top.arg = 0
  /\ Parse(construct, tasks)
  /\ UNCHANGED compilers

Literal ==
  /\ work # <<>> /\ Top.do = "expression"
  /\ work' = <<Op("CONSTANT")>> \o Tail(work)
  /\ UNCHANGED <<sample, compilers, functions, size, frame>>

Variable == \E name \in Names :
  LET v == NamedVariable(name)
  IN  Parse("variable", <<Access("GET_", v)>>) /\ compilers' = v.chain

Assignment == \E name \in Names :
  LET v == NamedVariable(name)
  IN  /\ Parse("assignment", <<Expr(Top.arg), Access("SET_", v)>>)
      /\ compilers' = v.chain

Unary == Parse("unary", <<Expr(Top.arg), Op("NOT")>>) /\ UNCHANGED compilers

Binary ==
  /\ Parse("binary", <<Expr(Top.arg), Expr(Top.arg + 1), Op("BINARY")>>)
  /\ UNCHANGED compilers

Call == \E n \in 0..2 :
  /\ Parse("call", <<Expr(Top.arg)>> \o [i \in 1..n |-> Expr(Top.arg + i)]
                   \o <<Task("emit", [op |-> "CALL", arg |-> n, id |-> 0])>>)
  /\ UNCHANGED compilers

And ==
  /\ Parse("and", <<Expr(Top.arg), Step("jump_if_false"), Op("POP"),
                    Expr(Top.arg), Step("patch_jump")>>)
  /\ UNCHANGED compilers

Or ==
  /\ Parse("or", <<Expr(Top.arg), Step("jump_if_false"), Step("jump_over"),
                   Op("POP"), Expr(Top.arg), Step("patch_jump")>>)
  /\ UNCHANGED compilers

BlockExpr == ParseBlock("block", Block(Top.arg))

IfExpr == \E has_else \in BOOLEAN :
  ParseBlock("if",
    <<Expr(Top.arg), Step("jump_if_false"), Op("POP")>> \o Block(Top.arg)
    \o <<Step("jump_over"), Op("POP")>>
    \o (IF has_else THEN Block(Top.arg) ELSE <<Op("NIL")>>)
    \o <<Step("patch_jump")>>)

LoopExpr ==
  ParseBlock("loop",
    <<Task("begin_loop", TRUE)>> \o Block(Top.arg)
    \o <<Op("POP"), Step("emit_loop"), Step("end_loop")>>)

Params == {<<>>} \union {<<Local(name, 1, -size)>> : name \in Names}

FnExpr == \E params \in Params :
  /\ Parse("fn", <<Items(0), Step("end_function")>>)
  /\ compilers' = Append(compilers, Compiler(1, params))

Expression ==
  \/ Literal \/ Variable \/ Assignment \/ Unary \/ Binary \/ Call \/ And \/ Or
  \/ BlockExpr \/ IfExpr \/ LoopExpr \/ FnExpr

(***************************************************************************)
(* Statements: the rest of a block, or of the script, stays in work below  *)
(* the statement.                                                          *)
(***************************************************************************)
AtStatement == work # <<>> /\ Top.do \in {"block_items", "script"}
Waiting == IF Top.do = "script" THEN 0 ELSE Top.arg

\* The value of a block or of a statement: nil unless it is written.
Value(is_written, waiting) == IF is_written THEN Expr(waiting) ELSE Op("NIL")

Statement(construct, tasks) ==
  /\ AtStatement
  /\ construct \in Constructs /\ size > 0
  /\ size' = size - 1
  /\ work' = tasks \o work
  /\ UNCHANGED <<sample, functions, frame>>

ExpressionStatement ==
  Statement("statement", <<Expr(Waiting), Op("POP")>>) /\ UNCHANGED compilers

VarDeclaration == \E name \in Names :
  /\ Statement("let", <<Expr(Waiting),
                        Task("declare", [name |-> name, id |-> size])>>)
  /\ UNCHANGED compilers

FnDeclaration == \E name \in Names, params \in Params :
  /\ AtStatement
  /\ current.scope_depth > 0 => ~Duplicate(current, name)
  /\ Statement("fn_declaration",
               <<Items(0), Step("end_function"), Task("define", size)>>)
  /\ compilers' =
       Append([compilers EXCEPT ![Len(compilers)] =
                 Declare(@, name, @.scope_depth, size)],
              Compiler(1, params))

\* A declaration without a body: a local stays at depth -1, a global does
\* nothing here.
FnForward == \E name \in Names :
  /\ AtStatement
  /\ current.scope_depth > 0 => ~Duplicate(current, name)
  /\ Statement(IF current.scope_depth = 0 THEN "forward" ELSE "local_forward",
               <<>>)
  /\ compilers' = [compilers EXCEPT ![Len(compilers)] =
                     Declare(@, name, -1, size)]

WhileStatement ==
  /\ Statement("while",
       <<Task("begin_loop", FALSE), Expr(Waiting), Step("jump_if_false"),
         Op("POP")>>
       \o Block(Waiting)
       \o <<Op("POP"), Step("emit_loop"), Step("patch_jump"), Op("POP"),
            Step("end_loop")>>)
  /\ UNCHANGED compilers

BreakStatement ==
  /\ AtStatement
  /\ current.loops # <<>>
  /\ \E has_value \in BOOLEAN :
       Statement("break",
                 (IF Last(current.loops).is_loop_expr
                  THEN <<Value(has_value, Waiting)>> ELSE <<>>)
                 \o <<Step("break")>>)
  /\ UNCHANGED compilers

ContinueStatement ==
  /\ AtStatement
  /\ current.loops # <<>>
  /\ Statement("continue", <<>>)
  /\ compilers' = [compilers EXCEPT ![Len(compilers)] =
                     EmitLoop(EmitPopInnermostLoop(@, FALSE))]

ReturnStatement ==
  /\ AtStatement
  /\ Len(compilers) > 1
  /\ \E has_value \in BOOLEAN :
       Statement("return", <<Value(has_value, Waiting), Op("RETURN")>>)
  /\ UNCHANGED compilers

\* A block ends with its last expression or, without one, with nil.
BlockEnds ==
  /\ work # <<>> /\ Top.do = "block_items"
  /\ \E has_value \in BOOLEAN :
       work' = <<Value(has_value, Top.arg)>> \o Tail(work)
  /\ UNCHANGED <<sample, compilers, functions, size, frame>>

Finished(c, is_script) ==
  [code |-> Emit(c, "RETURN", 0).code, max_slots |-> c.max_slots,
   undercount |-> c.undercount,
   arity |-> c.arity, upvalues |-> c.upvalues, births |-> c.births,
   params |-> SubSeq(c.locals, 2, 1 + c.arity), is_script |-> is_script]

\* end_compiler and emit_closure.
FunctionEnds ==
  /\ work # <<>> /\ Top.do = "end_function"
  /\ functions' = Append(functions, Finished(current, FALSE))
  /\ compilers' = [Front(compilers) EXCEPT ![Len(compilers) - 1] =
                     Emit(@, "CLOSURE", Len(functions) + 1)]
  /\ work' = Tail(work)
  /\ UNCHANGED <<sample, size, frame>>

\* Mutant: the script's compiler stays the current one.
ScriptStays ==
  /\ work # <<>> /\ Top.do = "script"
  /\ functions' = Append(functions, Finished(Emit(current, "NIL", 0), TRUE))
  /\ compilers' = compilers
  /\ work' = <<>>
  /\ UNCHANGED <<sample, size, frame>>

\* The end of compile.
ScriptEnds ==
  /\ work # <<>> /\ Top.do = "script"
  /\ functions' = Append(functions, Finished(Emit(current, "NIL", 0), TRUE))
  /\ compilers' = <<>>
  /\ work' = <<>>
  /\ UNCHANGED <<sample, size, frame>>

Statements ==
  \/ ExpressionStatement \/ VarDeclaration \/ FnDeclaration \/ FnForward
  \/ WhileStatement \/ BreakStatement \/ ContinueStatement \/ ReturnStatement
  \/ BlockEnds \/ FunctionEnds \/ ScriptEnds

-----------------------------------------------------------------------------
(***************************************************************************)
(* Execution of one function of the complete program.  A call runs to its  *)
(* end within the step: the callee's cells lie above this frame's.         *)
(***************************************************************************)
fun == functions[frame.fun]
ins == fun.code[frame.pc]
Running == frame.fun # 0 /\ frame.pc \in DOMAIN fun.code

\* VM::call, or VM::interpret for the script.
Start == \E f \in DOMAIN functions :
  /\ work = <<>> /\ frame = NoFrame
  /\ frame' = [fun |-> f, pc |-> 1,
               stack |-> <<0>> \o [i \in 1..functions[f].arity |->
                                     functions[f].params[i].id]]
  /\ UNCHANGED <<sample, work, compilers, functions, size>>

\* The cell on top becomes the variable that is born where control arrives.
Labelled(pc, stack) ==
  IF \E birth \in fun.births : birth[1] = pc
  THEN [stack EXCEPT ![Len(stack)] =
          (CHOOSE birth \in fun.births : birth[1] = pc)[2]]
  ELSE stack

Go(ops, pc, stack) ==
  /\ Running /\ ins.op \in ops
  /\ frame' = [frame EXCEPT !.pc = pc, !.stack = Labelled(pc, stack)]
  /\ UNCHANGED <<sample, work, compilers, functions, size>>

next_pc == frame.pc + 1
Dropped(n) == SubSeq(frame.stack, 1, Len(frame.stack) - n)

ExecPush == Go(Pushes, next_pc, Append(frame.stack, 0))
ExecPop == Go({"POP", "DEFINE_GLOBAL"}, next_pc, Dropped(1))
ExecBinary == Go({"BINARY"}, next_pc, Append(Dropped(2), 0))
ExecInPlace == Go({"NOT", "SET_LOCAL", "SET_UPVALUE", "SET_GLOBAL"}, next_pc,
                  Append(Dropped(1), 0))
ExecCall == Go({"CALL"}, next_pc, Append(Dropped(ins.arg + 1), 0))
ExecEndScope == Go({"END_SCOPE"}, next_pc, Append(Dropped(ins.arg + 1), 0))
ExecJump == Go({"JUMP", "LOOP"}, ins.arg, frame.stack)
ExecJumpIfFalse == \E taken \in BOOLEAN :
  Go({"JUMP_IF_FALSE"}, IF taken THEN ins.arg ELSE next_pc, frame.stack)
ExecReturn == Go({"RETURN"}, Len(fun.code) + 1, Dropped(1))

Execution ==
  \/ Start \/ ExecPush \/ ExecPop \/ ExecBinary \/ ExecInPlace \/ ExecCall
  \/ ExecEndScope \/ ExecJump \/ ExecJumpIfFalse \/ ExecReturn

Init ==
  /\ sample \in Samples
  /\ work = <<Task("script", 0)>>
  /\ compilers = <<Compiler(0, <<>>)>>
  /\ functions = <<>>
  /\ size = sample.size
  /\ frame = NoFrame

Next == Emission \/ Expression \/ Statements \/ Execution

Spec == Init /\ [][Next]_vars

-----------------------------------------------------------------------------
(***************************************************************************)
(* Properties.                                                             *)
(***************************************************************************)
\* Shapes of the parser's tables: a function is never without its slot 0, a
\* loop never deeper than the code it is in, no jump waits once all is parsed.
TypeOK ==
  /\ size \in 0..sample.size
  /\ frame.fun \in 0..Len(functions)
  /\ \A j \in DOMAIN compilers :
       /\ compilers[j].locals[1] = Local("", 0, 0)
       /\ compilers[j].scope_depth \in 0..sample.size + 1
       /\ \A i \in DOMAIN compilers[j].loops :
            compilers[j].loops[i].start <= Here(compilers[j])
  /\ work = <<>> => compilers = <<>>

\* VM::push never finds the stack full (vm.hxx:131): VM::call reserves
\* max_slots cells above the arguments, and no path through the function's code
\* uses more than that and what the count fell short by: one cell for a while,
\* whose two POPs of the condition are both counted, one for a loop without a
\* break, whose value is counted nowhere, and one for each local that a break or
\* a continue drops, counted off where the other paths still have it.  A function
\* without those never uses more than max_slots.
StackReserved ==
  frame.fun # 0
    => Len(frame.stack) <= 1 + fun.arity + fun.max_slots + fun.undercount

\* GET_LOCAL and SET_LOCAL reach the cell of the variable that is in scope
\* under the name at that place of the program, whatever path led there, and
\* not one an earlier round of a loop left behind.
NamesDenote ==
  Running /\ ins.op \in {"GET_LOCAL", "SET_LOCAL"}
    => /\ ins.arg + 1 \in DOMAIN frame.stack
       /\ \A i \in ins.arg + 1..Len(frame.stack) :
            frame.stack[i] = ins.id <=> i = ins.arg + 1

\* The operands of CLOSURE capture, in this frame or from its closure, the very
\* variables the names in the new function's body mean.  The function itself
\* may be one of them: its cell is the one CLOSURE pushes.
CapturesDenote ==
  Running /\ ins.op = "CLOSURE"
    => LET cells == Labelled(next_pc, Append(frame.stack, 0))
       IN  \A i \in DOMAIN functions[ins.arg].upvalues :
             LET up == functions[ins.arg].upvalues[i]
             IN  IF up.is_local THEN /\ up.index + 1 \in DOMAIN cells
                                     /\ cells[up.index + 1] = up.id
                 ELSE /\ up.index + 1 \in DOMAIN fun.upvalues
                      /\ fun.upvalues[up.index + 1].id = up.id

\* Whatever an operand names is the variable the program names there.
OperandsDenote == NamesDenote /\ CapturesDenote

\* What a function returns with: the script leaves the stack empty but for its
\* closure and its result (the assertion of vm_inl.hxx:1007), a function has a
\* result above its parameters.
ReturnsClean ==
  Running /\ ins.op = "RETURN"
    => IF fun.is_script THEN Len(frame.stack) = 2
       ELSE Len(frame.stack) >= 2 + fun.arity

\* Control never runs into a placeholder of a break (unreachable() in
\* VM::run) nor out of the code: it stops right behind a RETURN.
NoPlaceholder ==
  frame.fun # 0
    => IF frame.pc \in DOMAIN fun.code THEN ins.op # "END"
       ELSE /\ frame.pc = Len(fun.code) + 1
            /\ fun.code[Len(fun.code)].op = "RETURN"

\* The compiler keeps its tables in order, and what it has emitted runs from
\* its first instruction to a RETURN, with the stack as the caller expects.
RunsClean == TypeOK /\ ReturnsClean /\ NoPlaceholder
=============================================================================
