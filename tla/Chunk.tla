-------------------------------- MODULE Chunk --------------------------------
(***************************************************************************)
(* The code of a function as bytes: instructions of different lengths,     *)
(* operands of one to three bytes, jumps patched when their distance is    *)
(* known, the table of lines.  It is read in three places that must agree  *)
(* on where an instruction begins: by the VM, by the disassembler and by   *)
(* the compiler itself, which looks for the placeholders of break.         *)
(*                                                                         *)
(* A byte is a number below Base, 256 in the code; the opcodes kept are    *)
(* the numbers from 0 to 7.  Offsets count from 0.                         *)
(***************************************************************************)
EXTENDS Naturals, Sequences, SequencesExt

CONSTANTS Base,
          UpvalueLists, \* bound: what closures capture, as <<is_local, index>>
          LongClosures, \* may a loop hold closures with a long index?
          Samples       \* bound: sets of functions, as [prelude, sizes, lines,
                        \* steps]: the constants they have from the start, the
                        \* lengths of runs of plain instructions, how many
                        \* lines and how many things to emit

\* What a byte counts for in an operand, the lowest one first.
Weight == <<1, Base, Base * Base, Base * Base * Base>>

\* The opcodes are bytes, and the length of an index is told from is_local in
\* one.  Three bytes are enough for an index, which the compiler asserts.
ASSUME ChunkAssumption ==
  /\ Base \in Nat /\ Base >= 8 /\ LongClosures \in BOOLEAN
  /\ UpvalueLists \subseteq Seq(BOOLEAN \X (0..(Weight[4] - 1)))
  /\ \A s \in Samples :
       /\ s.prelude \in Nat /\ s.steps \in Nat
       /\ s.prelude + s.steps <= Weight[4]
       /\ s.sizes \subseteq Nat \ {0} /\ s.lines \in Nat \ {0}

VARIABLES sample,        \* what the function is taken from
          code, lines,
          constants,     \* how many there are
          line,          \* of the token before
          open,          \* jumps to patch and loops, innermost last
          had_error, steps,
          line_of,       \* the line each byte was written for
          instructions,  \* what was emitted: offset, opcode, operand, upvalues
          targets        \* where jumps were meant to go: <<offset, offset>>

vars == <<sample, code, lines, constants, line, open, had_error, steps, line_of,
          instructions, targets>>

Constant == 0
ConstantLong == 1
Nil == 2
Jump == 3
Loop == 4
Closure == 5
ClosureLong == 6
End == 7

\* get_byte_count_following_opcode.
Length(opc) ==
  CASE opc \in {Constant, Closure} -> 1
    [] opc \in {Jump, Loop} -> 2
    [] opc \in {ConstantLong, ClosureLong} -> 3
    [] opc \in {Nil, End} -> 0

write_multibyte_operand(n, value) ==
  [k \in 1..n |-> (value \div Weight[k]) % Base]

Byte(offset) == code[offset + 1]

read_multibyte_operand(n, offset) ==
  LET Digit(k) == Byte(offset + k) * Weight[k + 1]
  IN CASE n = 0 -> 0
       [] n = 1 -> Digit(0)
       [] n = 2 -> Digit(0) + Digit(1)
       [] n = 3 -> Digit(0) + Digit(1) + Digit(2)

(***************************************************************************)
(* The upvalues of a closure: a byte with is_local and the length of the   *)
(* index, then the index.                                                  *)
(***************************************************************************)
LocalFlag == Base \div 2

IndexLength(index) ==
  IF index < Weight[2] THEN 1 ELSE IF index < Weight[3] THEN 2 ELSE 3

ClosureOperand(upvalue) ==
  LET length == IndexLength(upvalue[2])
  IN <<(IF upvalue[1] THEN LocalFlag ELSE 0) + length>>
       \o write_multibyte_operand(length, upvalue[2])

OperandLength(offset) == 1 + (Byte(offset) % LocalFlag)

read_closure_operand(offset) ==
  <<Byte(offset) >= LocalFlag,
    read_multibyte_operand(Byte(offset) % LocalFlag, offset + 1)>>

\* The offset after each of the next closure operands, none of them included.
ClosureOperands(offset, count) ==
  LET after[k \in 0..count] ==
        IF k = 0 THEN offset
        ELSE LET last == after[k - 1] IN last + OperandLength(last)
  IN after

AfterOperands(offset, count) == ClosureOperands(offset, count)[count]

(***************************************************************************)
(* The table of lines: an entry where the line changes.                    *)
(***************************************************************************)
\* Mutant: the entry is for the byte before.
StartBefore(table, offset, at_line) ==
  IF table # <<>> /\ Last(table).line = at_line THEN table
  ELSE Append(table, [offset |-> IF table = <<>> THEN 0 ELSE offset - 1,
                      line |-> at_line])

write_line(table, offset, at_line) ==
  IF table # <<>> /\ Last(table).line = at_line THEN table
  ELSE Append(table, [offset |-> offset, line |-> at_line])

\* The loop of get_line, from <<start, end>>.  It is never left with nothing
\* to search, says LinesFound: there is no line 0.
Search(offset) ==
  LET search[span \in (1..(Len(lines) + 1)) \X (0..Len(lines))] ==
        LET mid == (span[1] + span[2]) \div 2
        IN IF span[1] > span[2] THEN 0
           ELSE IF offset < lines[mid].offset THEN search[<<span[1], mid - 1>>]
           ELSE IF mid = Len(lines) \/ offset < lines[mid + 1].offset
                THEN lines[mid].line
                ELSE search[<<mid + 1, span[2]>>]
  IN search

get_line(offset) == Search(offset)[<<1, Len(lines)>>]

(***************************************************************************)
(* Emitting.                                                               *)
(***************************************************************************)
Emitted(offset, opc, operand, upvalues) ==
  [offset |-> offset, opcode |-> opc, operand |-> operand,
   upvalues |-> upvalues]

Bytes(opc, n, operand, upvalues) ==
  <<opc>> \o write_multibyte_operand(n, operand)
    \o FlattenSeq([i \in DOMAIN upvalues |-> ClosureOperand(upvalues[i])])

\* Mutant: the long form is taken one too late.
VarLengthLate(opc, index) == IF index <= Base THEN opc ELSE opc + 1

\* The long form of an opcode is the next one.
VarLength(opc, index) == IF index < Base THEN opc ELSE opc + 1

Step ==
  ~had_error /\ steps < sample.steps /\ steps' = steps + 1 /\ UNCHANGED sample

Write(bytes) ==
  /\ code' = code \o bytes
  /\ lines' = write_line(lines, Len(code), line)
  /\ line_of' = line_of \o [i \in DOMAIN bytes |-> line]

emit_instruction(opc, n, operand, upvalues) ==
  /\ Write(Bytes(opc, n, operand, upvalues))
  /\ instructions' = instructions \union
                       {Emitted(Len(code), opc, operand, upvalues)}

next_line ==
  /\ ~had_error /\ line < sample.lines /\ line' = line + 1
  /\ UNCHANGED <<sample, code, lines, constants, open, had_error, steps, line_of,
                 instructions, targets>>

\* A run of instructions without operands.
simple_instructions ==
  \E n \in sample.sizes :
    /\ Step /\ Write([i \in 1..n |-> Nil])
    /\ instructions' = instructions \union
         {Emitted(Len(code) + i, Nil, 0, <<>>) : i \in 0..(n - 1)}
    /\ UNCHANGED <<constants, line, open, had_error, targets>>

\* A new constant, or one the function has already.
emit_constant ==
  \E index \in {0, constants} :
    LET opc == VarLength(Constant, index)
    IN /\ index < constants \/ index = constants
       /\ Step /\ emit_instruction(opc, Length(opc), index, <<>>)
       /\ constants' = IF index = constants THEN constants + 1 ELSE constants
       /\ UNCHANGED <<line, open, had_error, targets>>

InLoop == \E i \in DOMAIN open : open[i].kind = "loop"

emit_closure ==
  \E upvalues \in UpvalueLists :
    LET opc == VarLength(Closure, constants)
    IN /\ LongClosures \/ ~InLoop \/ constants < Base
       /\ Step /\ emit_instruction(opc, Length(opc), constants, upvalues)
       /\ constants' = constants + 1
       /\ UNCHANGED <<line, open, had_error, targets>>

MaxOperand == Weight[3] - 1

emit_jump ==
  /\ Step /\ emit_instruction(Jump, 2, MaxOperand, <<>>)
  /\ open' = Append(open, [kind |-> "jump", at |-> Len(code), breaks |-> {}])
  /\ UNCHANGED <<constants, line, had_error, targets>>

begin_loop ==
  /\ Step
  /\ open' = Append(open, [kind |-> "loop", at |-> Len(code), breaks |-> {}])
  /\ UNCHANGED <<code, lines, constants, line, had_error, line_of,
                 instructions, targets>>

Innermost == CHOOSE i \in DOMAIN open :
  /\ open[i].kind = "loop"
  /\ \A j \in DOMAIN open : open[j].kind = "loop" => j <= i

\* The placeholder End with the operand of a jump.
break_statement ==
  /\ InLoop /\ Step
  /\ Write(Bytes(End, 2, MaxOperand, <<>>))
  /\ instructions' = instructions \union {Emitted(Len(code), Jump, 0, <<>>)}
  /\ open' = [open EXCEPT ![Innermost].breaks = @ \union {Len(code)}]
  /\ UNCHANGED <<constants, line, had_error, targets>>

(***************************************************************************)
(* Patching.  The distance is counted from the end of the jump.            *)
(***************************************************************************)
Patched(bytes, offset, distance) ==
  LET operand == write_multibyte_operand(2, distance)
  IN [bytes EXCEPT ![offset + 1] = operand[1], ![offset + 2] = operand[2]]

\* Mutant: a distance of one too much is let through.
TooFarLate(distance) == distance > MaxOperand + 1

TooFar(distance) == distance > MaxOperand

Distance(offset, end) == end - offset - 2

patch_jump ==
  /\ open # <<>> /\ Last(open).kind = "jump" /\ Step
  /\ LET at == Last(open).at
         distance == Distance(at + 1, Len(code))
     IN /\ code' = Patched(code, at + 1, distance)
        /\ had_error' = TooFar(distance)
        /\ targets' = targets \union {<<at, Len(code)>>}
  /\ open' = Front(open)
  /\ UNCHANGED <<lines, constants, line, line_of, instructions>>

\* The upvalues of the function a Closure's operand names; what is read of a
\* constant that is no function is left as none.
upvalue_count(index) ==
  LET closures == {e \in instructions :
        e.opcode \in {Closure, ClosureLong} /\ e.operand = index}
  IN IF closures = {} THEN 0
     ELSE Len((CHOOSE e \in closures : TRUE).upvalues)

\* Mutant: the upvalues of a closure are not skipped.
NextNoUpvalues(offset) ==
  offset + 1 + (IF Byte(offset) = End THEN 2 ELSE Length(Byte(offset)))

\* Where the compiler's own walk goes next.  After ClosureLong it goes on one
\* byte after the opcode's, as after Closure.
NextInLoop(offset) ==
  IF Byte(offset) \in {Closure, ClosureLong}
  THEN AfterOperands(offset + 2,
         upvalue_count(read_multibyte_operand(Length(Byte(offset)), offset + 1)))
  ELSE offset + 1 + (IF Byte(offset) = End THEN 2 ELSE Length(Byte(offset)))

\* A walk goes forward, and ends with the code.
Forward(offset, next) ==
  IF next \in (offset + 1)..Len(code) THEN next ELSE Len(code)

\* The placeholders a walk from here finds.
Placeholders[offset \in 0..Len(code)] ==
  IF offset = Len(code) THEN {}
  ELSE (IF Byte(offset) = End THEN {offset} ELSE {})
         \union Placeholders[Forward(offset, NextInLoop(offset))]

\* The jumps out of the loop go to where it ends, after the Loop.
BreaksPatched(bytes, found) ==
  [i \in DOMAIN bytes |->
     LET of == {f \in found : i - 1 \in f..(f + 2)}
     IN IF of = {} THEN bytes[i]
        ELSE LET f == CHOOSE f \in of : TRUE
             IN IF i - 1 = f THEN Jump
                ELSE write_multibyte_operand(2,
                       Distance(f + 1, Len(bytes)))[i - 1 - f]]

LoopOffset(start) == Len(code) - start + 2 + 1

emit_loop ==
  /\ InLoop /\ Step
  /\ LET start == open[Innermost].at
     IN /\ emit_instruction(Loop, 2, LoopOffset(start), <<>>)
        /\ had_error' = TooFar(LoopOffset(start))
        /\ targets' = targets \union {<<Len(code), start>>}
  /\ UNCHANGED <<constants, line, open>>

\* The jump back to the start of the loop has been emitted.
end_loop ==
  /\ open # <<>> /\ Last(open).kind = "loop" /\ Step
  /\ \E t \in targets : t[1] >= Last(open).at /\ t[2] = Last(open).at
  /\ LET loop == Last(open)
         found == Placeholders[loop.at]
     IN /\ code' = BreaksPatched(code, found)
        /\ had_error' =
             \E f \in found : TooFar(Distance(f + 1, Len(code)))
        /\ targets' = targets \union {<<b, Len(code)>> : b \in loop.breaks}
  /\ open' = Front(open)
  /\ UNCHANGED <<lines, constants, line, line_of, instructions>>

(***************************************************************************)
(* The function starts with its first constants, each dropped again.       *)
(***************************************************************************)
PreludeCode(n) ==
  FlattenSeq([i \in 1..n |->
    LET opc == IF i - 1 < Base THEN Constant ELSE ConstantLong
    IN <<opc>> \o write_multibyte_operand(Length(opc), i - 1) \o <<Nil>>])

\* Where constant i of them is loaded, and what there is to read.
PreludeOffset(i) == IF i < Base THEN 3 * i ELSE 3 * Base + 5 * (i - Base)

PreludeInstructions(n) ==
  UNION {LET opc == IF i < Base THEN Constant ELSE ConstantLong
         IN {Emitted(PreludeOffset(i), opc, i, <<>>),
             Emitted(PreludeOffset(i) + 1 + Length(opc), Nil, 0, <<>>)}
           : i \in 0..(n - 1)}

Init ==
  /\ sample \in Samples
  /\ code = PreludeCode(sample.prelude) /\ constants = sample.prelude /\ line = 1
  /\ lines = IF code = <<>> THEN <<>> ELSE <<[offset |-> 0, line |-> 1]>>
  /\ line_of = [i \in DOMAIN code |-> 1]
  /\ instructions = PreludeInstructions(sample.prelude)
  /\ targets = {} /\ open = <<>> /\ had_error = FALSE /\ steps = 0

Next ==
  \/ next_line \/ simple_instructions \/ emit_constant \/ emit_closure
  \/ emit_jump \/ begin_loop \/ break_statement \/ patch_jump \/ emit_loop
  \/ end_loop

Spec == Init /\ [][Next]_vars

(***************************************************************************)
(* Reading the code: the VM and the disassembler.                          *)
(***************************************************************************)
Operand(offset) == read_multibyte_operand(Length(Byte(offset)), offset + 1)

OperandsEnd(offset) == offset + 1 + Length(Byte(offset))

NextInstruction(offset) ==
  IF Byte(offset) \in {Closure, ClosureLong}
  THEN AfterOperands(OperandsEnd(offset), upvalue_count(Operand(offset)))
  ELSE OperandsEnd(offset)

\* Where the instructions from here on begin.
Disassembled[offset \in 0..Len(code)] ==
  IF offset = Len(code) THEN {}
  ELSE {offset} \union Disassembled[Forward(offset, NextInstruction(offset))]

Upvalues(offset) ==
  IF Byte(offset) \notin {Closure, ClosureLong} THEN <<>>
  ELSE LET count == upvalue_count(Operand(offset))
           after == ClosureOperands(OperandsEnd(offset), count)
       IN [i \in 1..count |-> read_closure_operand(after[i - 1])]

Destination(offset) ==
  IF Byte(offset) = Loop THEN offset + 3 - Operand(offset)
  ELSE offset + 3 + Operand(offset)

(***************************************************************************)
(* Properties.                                                             *)
(***************************************************************************)
\* The code of a function the compiler is done with.
Complete == open = <<>> /\ ~had_error

\* The type invariant: everything written fits into bytes, the table of lines
\* goes up.
TypeOK ==
  /\ \A i \in DOMAIN code : code[i] \in 0..(Base - 1)
  /\ Len(line_of) = Len(code) /\ line \in 1..sample.lines
  /\ \A i \in DOMAIN lines :
       /\ lines[i].offset < Len(code)
       /\ i > 1 => /\ lines[i].offset > lines[i - 1].offset
                   /\ lines[i].line > lines[i - 1].line

\* A runtime error names the line an instruction was written for, whatever
\* byte of the code execution stands at; the binary search always ends.
LinesFound == \A o \in DOMAIN code : get_line(o - 1) = line_of[o]

\* Read from its start, the code is what was emitted: each instruction at its
\* place, with its operand and its upvalues, and nothing else.
InstructionsFound ==
  Complete =>
    /\ Disassembled[0] = {e.offset : e \in instructions}
    /\ \A e \in instructions :
         /\ Byte(e.offset) = e.opcode
         /\ e.opcode \notin {Jump, Loop} => Operand(e.offset) = e.operand
         /\ Upvalues(e.offset) = e.upvalues

\* What was emitted is read again, with the lines it was emitted for.
ReadAsEmitted == TypeOK /\ InstructionsFound /\ LinesFound

\* The VM holds End for unreachable: no placeholder is left in code that runs.
NoPlaceholder == Complete => \A o \in Disassembled[0] : Byte(o) # End

\* Every jump of code without errors, a break included, goes to the place it
\* was meant for, and no break is without its jump.
JumpsLand ==
  /\ Complete => \A t \in targets : Destination(t[1]) = t[2]
  /\ NoPlaceholder
=============================================================================
