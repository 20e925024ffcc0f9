------------------------------ MODULE ClosureVM ------------------------------
(***************************************************************************)
(* The virtual machine of tx-runtime/include/tx/vm_inl.hxx as far as calls *)
(* and closures are concerned: the value stack and its relocation, the     *)
(* call frames, and the list of open upvalues through which closures share *)
(* the local variables of the functions that enclose them.                 *)
(*                                                                         *)
(* A running program is any sequence of instructions a compiled function   *)
(* may execute.  What the compiler knows and the machine does not keep,    *)
(* how many of a frame's slots are local variables, is the history field   *)
(* nlocals of a frame; the values above them are temporaries.              *)
(***************************************************************************)
EXTENDS Integers, Sequences, SequencesExt

CONSTANTS
  Data,         \* what a program computes with: nil, numbers, strings ...
  Natives,      \* the native functions (ObjNative)
  None,         \* Value{val_none}, the content of an undefined global
  Functions,    \* the compiled functions (ObjFunction) of the program
  Script,       \* the one that stands for the top-level code
  Arity,        \* ObjFunction::arity, a number for each function
  Captures,     \* the operands of the CLOSURE instruction of each function
  MaxSlots,     \* ObjFunction::max_slots
  MAX_FRAMES,   \* common.hxx: the number of frames "Stack overflow" is about
  START_STACK,  \* common.hxx: the capacity the stack is created with
  PowersOfTwo,  \* 1, 2, 4, ... as far as the model needs them
  IS_DEBUG_BUILD, \* whether the machine is built for debugging
  MaxClosures,  \* bound of the model: closures made
  MaxUpvalues   \* bound of the model: upvalues made

ASSUME FunctionsAssumption ==
  /\ Script \in Functions
  /\ Arity \in [Functions -> Nat]
  /\ Arity[Script] = 0
  /\ MaxSlots \in [Functions -> Nat]
  /\ Captures \in [Functions -> Seq([is_local : BOOLEAN, index : Nat])]
  /\ Captures[Script] = <<>>

ASSUME SizesAssumption ==
  /\ MAX_FRAMES \in Nat \ {0}
  /\ START_STACK \in Nat \ {0}
  /\ PowersOfTwo \subseteq Nat
  /\ IS_DEBUG_BUILD \in BOOLEAN

\* A program has no value that is an upvalue: an ObjUpvalue is only ever in
\* the list and in closures, never on the stack (see Shared below).
ASSUME ValuesAssumption ==
  \A v \in Data \cup Natives \cup {None} : v \notin [box : Nat]

VARIABLES
  stack,      \* the values on the stack, slot off at stack[off + 1]
  buf,        \* which memory block holds them: stack.begin()
  capacity,   \* stack.capacity()
  frames,     \* the call frames, innermost last
  open,       \* the list headed by open_upvalues: upvalues, in list order
  upvalues,   \* every ObjUpvalue made, by its number
  closures,   \* every ObjClosure made, by its number
  global,     \* the value of a global variable
  status      \* what the machine is doing

vars == <<stack, buf, capacity, frames, open, upvalues, closures, global,
          status>>

-----------------------------------------------------------------------------
(***************************************************************************)
(* Values and pointers.  A pointer names a memory block and an offset in   *)
(* it.  Block 0 stands for the upvalue's own field closed; every block the *)
(* stack has occupied has a number of its own, so a pointer that was not   *)
(* moved with the stack is one into a block that no longer exists.         *)
(***************************************************************************)
Atoms == Data \cup Natives \cup {None}
ClosureRef(c) == [closure |-> c]
IsClosure(v) == v \notin Atoms
Value == Atoms \cup [closure : Nat]

Own == 0
Pointer == [block : Nat, off : Nat]
Upvalue == [location : Pointer, closed : Value]
Closure == [function : Functions, upvalues : Seq(Nat)]
Frame == [closure : Nat, slots : Pointer, nlocals : Nat]

Status == {"idle", "running", "capturing", "error", "aborted"}

Slot(off) == [block |-> buf, off |-> off]
Top == frames[Len(frames)]
Base == Top.slots.off
Callable == closures[Top.closure]
Height == Len(stack) - Base
Peek(distance) == stack[Len(stack) - distance]

\* The slots call() makes room for: the callee, its arguments and max_slots.
Window(f) == 1 + Arity[f] + MaxSlots[f]

\* Where an open upvalue points to; open[k] is the k-th of the list.
OpenOff(k) == upvalues[open[k]].location.off

-----------------------------------------------------------------------------
Init ==
  /\ stack = <<>>
  /\ buf = 1
  /\ capacity = START_STACK
  /\ frames = <<>>
  /\ open = <<>>
  /\ upvalues = <<>>
  /\ closures = <<>>
  /\ global = None
  /\ status = "idle"

Running == status = "running"

\* Compiled code keeps its temporaries within the slots of its function, so
\* that push() never has to make room.
HasTemporary == Height > Top.nlocals
HasRoom == Height < Window(Callable.function)

Truncate(n) == SubSeq(stack, 1, n)

MachineUnchanged ==
  UNCHANGED <<buf, capacity, frames, open, upvalues, closures, status>>

\* reset_stack() as runtime_error_impl() calls it: the list of open upvalues
\* is forgotten, the upvalues in it are left as they are.  A debug build also
\* frees the memory of the stack.
RuntimeError ==
  /\ stack' = <<>>
  /\ frames' = <<>>
  /\ open' = <<>>
  /\ status' = "error"
  /\ IF IS_DEBUG_BUILD
     THEN capacity' = 0 /\ buf' = buf + 1
     ELSE UNCHANGED <<capacity, buf>>
  /\ UNCHANGED <<upvalues, closures, global>>

-----------------------------------------------------------------------------
(***************************************************************************)
(* Constants, temporaries and local variables.                             *)
(***************************************************************************)
Constant(v) ==
  /\ Running /\ HasRoom
  /\ stack' = Append(stack, v)
  /\ MachineUnchanged /\ UNCHANGED global

Pop ==
  /\ Running /\ HasTemporary
  /\ stack' = Truncate(Len(stack) - 1)
  /\ MachineUnchanged /\ UNCHANGED global

\* The value a variable is initialised with becomes the variable: this is a
\* step of the compiler only (define_variable emits nothing for a local).
Declare ==
  /\ Running
  /\ Height = Top.nlocals + 1
  /\ frames' = [frames EXCEPT ![Len(frames)].nlocals = @ + 1]
  /\ UNCHANGED <<stack, buf, capacity, open, upvalues, closures, global,
                 status>>

GetLocal(slot) ==
  /\ Running /\ HasRoom
  /\ slot < Top.nlocals
  /\ stack' = Append(stack, stack[Base + slot + 1])
  /\ MachineUnchanged /\ UNCHANGED global

SetLocal(slot) ==
  /\ Running /\ HasTemporary
  /\ slot < Top.nlocals
  /\ stack' = [stack EXCEPT ![Base + slot + 1] = Peek(0)]
  /\ MachineUnchanged /\ UNCHANGED global

\* An operator replaces its operands by a result, or fails: an operand is not
\* a number, or the divisor is zero.
Compute(operands) ==
  /\ Running
  /\ Height >= Top.nlocals + operands
  /\ \/ /\ \E v \in Data : stack' = Append(Truncate(Len(stack) - operands), v)
        /\ MachineUnchanged /\ UNCHANGED global
     \/ RuntimeError

GetGlobal ==
  /\ Running /\ HasRoom
  /\ IF global = None
     THEN RuntimeError
     ELSE /\ stack' = Append(stack, global)
          /\ MachineUnchanged /\ UNCHANGED global

DefineGlobal ==
  /\ Running /\ HasTemporary
  /\ global' = Peek(0)
  /\ stack' = Truncate(Len(stack) - 1)
  /\ MachineUnchanged

SetGlobal ==
  /\ Running /\ HasTemporary
  /\ IF global = None
     THEN RuntimeError
     ELSE /\ global' = Peek(0)
          /\ MachineUnchanged /\ UNCHANGED stack

-----------------------------------------------------------------------------
(***************************************************************************)
(* Upvalues.                                                               *)
(***************************************************************************)
GetUpvalue(slot) ==
  LET u == Callable.upvalues[slot]
      p == upvalues[u].location
  IN  /\ Running /\ HasRoom
      /\ stack' = Append(stack, IF p.block = Own THEN upvalues[u].closed
                                                 ELSE stack[p.off + 1])
      /\ MachineUnchanged /\ UNCHANGED global

SetUpvalue(slot) ==
  LET u == Callable.upvalues[slot]
      p == upvalues[u].location
  IN  /\ Running /\ HasTemporary
      /\ IF p.block = Own
         THEN /\ upvalues' = [upvalues EXCEPT ![u].closed = Peek(0)]
              /\ UNCHANGED stack
         ELSE /\ stack' = [stack EXCEPT ![p.off + 1] = Peek(0)]
              /\ UNCHANGED upvalues
      /\ UNCHANGED <<buf, capacity, frames, open, closures, global, status>>

\* Mutants: the walks stop one upvalue too late or too early.
WalkAboveOrAt(off, k) ==
  /\ \A j \in 1..k : OpenOff(j) >= off
  /\ k < Len(open) => OpenOff(k + 1) < off

WalkFromAbove(off, k) ==
  /\ \A j \in 1..k : OpenOff(j) > off
  /\ k < Len(open) => OpenOff(k + 1) <= off

\* How far capture_upvalue and close_upvalues walk down the list: past the
\* first k upvalues, each of which is above (or at) the slot looked for.
WalkAbove(off, k) ==
  /\ \A j \in 1..k : OpenOff(j) > off
  /\ k < Len(open) => OpenOff(k + 1) <= off

WalkFrom(off, k) ==
  /\ \A j \in 1..k : OpenOff(j) >= off
  /\ k < Len(open) => OpenOff(k + 1) < off

\* Mutants: the upvalue is given the address of the variable, not its value;
\* it is not redirected to its own field.
CloseWithAddress(last) ==
  \E k \in 0..Len(open) :
    /\ WalkFrom(last, k)
    /\ upvalues' = [u \in DOMAIN upvalues |->
                      IF \E j \in 1..k : open[j] = u
                      THEN [location |-> [block |-> Own, off |-> 0],
                            closed   |-> upvalues[u].location]
                      ELSE upvalues[u]]
    /\ open' = SubSeq(open, k + 1, Len(open))

CloseWithoutRedirect(last) ==
  \E k \in 0..Len(open) :
    /\ WalkFrom(last, k)
    /\ upvalues' = [u \in DOMAIN upvalues |->
                      IF \E j \in 1..k : open[j] = u
                      THEN [upvalues[u] EXCEPT
                              !.closed = stack[upvalues[u].location.off + 1]]
                      ELSE upvalues[u]]
    /\ open' = SubSeq(open, k + 1, Len(open))

\* close_upvalues(last): the variables move from the stack to the upvalues.
CloseUpvalues(last) ==
  \E k \in 0..Len(open) :
    /\ WalkFrom(last, k)
    /\ upvalues' = [u \in DOMAIN upvalues |->
                      IF \E j \in 1..k : open[j] = u
                      THEN [location |-> [block |-> Own, off |-> 0],
                            closed   |-> stack[upvalues[u].location.off + 1]]
                      ELSE upvalues[u]]
    /\ open' = SubSeq(open, k + 1, Len(open))

\* The variables the compiler resolves the names in f to exist.
CanCapture(f, nlocals) ==
  \A i \in DOMAIN Captures[f] :
    LET c == Captures[f][i]
    IN  IF c.is_local THEN c.index \in 1..(nlocals - 1)
                      ELSE c.index < Len(Callable.upvalues)

\* do_closure first pushes the closure, with all its upvalues null ...
PushClosure(f) ==
  /\ Running /\ HasRoom
  /\ Len(closures) < MaxClosures
  /\ closures' = Append(closures, [function |-> f, upvalues |-> <<>>])
  /\ stack' = Append(stack, ClosureRef(Len(closures) + 1))
  /\ status' = IF Captures[f] = <<>> THEN "running" ELSE "capturing"
  /\ UNCHANGED <<buf, capacity, open, upvalues, global>>

\* (a function expression)
MakeClosure(f) ==
  /\ CanCapture(f, Top.nlocals)
  /\ PushClosure(f)
  /\ UNCHANGED frames

\* (a local function, whose name is declared before its body is compiled, so
\* that it may capture the variable its closure is about to become)
DeclareFunction(f) ==
  /\ Height = Top.nlocals
  /\ CanCapture(f, Top.nlocals + 1)
  /\ PushClosure(f)
  /\ frames' = [frames EXCEPT ![Len(frames)].nlocals = @ + 1]

\* ... then fills them in one by one.
New == Len(closures)
NextCapture == Captures[closures[New].function][Len(closures[New].upvalues) + 1]

Captured(u) ==
  /\ closures' = [closures EXCEPT ![New].upvalues = Append(@, u)]
  /\ status' = IF Len(closures[New].upvalues) + 1
                  = Len(Captures[closures[New].function])
               THEN "running" ELSE "capturing"
  /\ UNCHANGED <<stack, buf, capacity, frames, global>>

\* Mutant: an upvalue that is open already is not looked for.
CaptureLocalAfresh ==
  LET off == Base + NextCapture.index
  IN  /\ status = "capturing"
      /\ NextCapture.is_local
      /\ Len(upvalues) < MaxUpvalues
      /\ upvalues' = Append(upvalues, [location |-> Slot(off), closed |-> None])
      /\ open' = <<Len(upvalues) + 1>> \o open
      /\ Captured(Len(upvalues) + 1)

CaptureLocal ==
  LET off == Base + NextCapture.index
  IN  /\ status = "capturing"
      /\ NextCapture.is_local
      /\ \E k \in 0..Len(open) :
           /\ WalkAbove(off, k)
           /\ IF k < Len(open) /\ OpenOff(k + 1) = off
              THEN /\ Captured(open[k + 1])
                   /\ UNCHANGED <<open, upvalues>>
              ELSE /\ Len(upvalues) < MaxUpvalues
                   /\ upvalues' = Append(upvalues, [location |-> Slot(off),
                                                    closed |-> None])
                   /\ open' = InsertAt(open, k + 1, Len(upvalues) + 1)
                   /\ Captured(Len(upvalues) + 1)

CaptureEnclosing ==
  /\ status = "capturing"
  /\ ~NextCapture.is_local
  /\ Captured(Callable.upvalues[NextCapture.index + 1])
  /\ UNCHANGED <<open, upvalues>>

-----------------------------------------------------------------------------
(***************************************************************************)
(* Leaving a scope.                                                        *)
(***************************************************************************)
\* END_SCOPE: the value of the block stays, its count locals go.
EndScope(count) ==
  LET result == Peek(0)
      keep   == Len(stack) - 1 - count
  IN  /\ Running
      /\ Height = Top.nlocals + 1
      /\ count \in 1..(Top.nlocals - 1 - Arity[Callable.function])
      /\ CloseUpvalues(keep)
      /\ stack' = Append(Truncate(keep), result)
      /\ frames' = [frames EXCEPT ![Len(frames)].nlocals = @ - count]
      /\ UNCHANGED <<buf, capacity, closures, global, status>>

\* break and continue in a while loop: emit_pop_innermost_loop emits a plain
\* POP for each local of the loop.
LoopExit(count) ==
  /\ Running
  /\ Height = Top.nlocals
  /\ count \in 1..(Top.nlocals - 1 - Arity[Callable.function])
  /\ stack' = Truncate(Len(stack) - count)
  /\ frames' = [frames EXCEPT ![Len(frames)].nlocals = @ - count]
  /\ UNCHANGED <<buf, capacity, open, upvalues, closures, global, status>>

\* The loops none of whose locals is captured when they are left.
PlainLoopExit(count) ==
  /\ Running
  /\ \A k \in DOMAIN open : OpenOff(k) < Len(stack) - count
  /\ LoopExit(count)

-----------------------------------------------------------------------------
(***************************************************************************)
(* Calls.                                                                  *)
(***************************************************************************)
\* ensure_stack_space() gives the stack the next power of two, in a debug
\* build exactly what is needed, so that it moves as often as it can.
GrowsLate(needed) == capacity + 1 < needed   \* a mutant

Grows(needed) == capacity < needed

Ceiling(needed) ==
  IF IS_DEBUG_BUILD
  THEN {needed}
  ELSE {c \in PowersOfTwo : /\ c >= needed
                            /\ \A d \in PowersOfTwo : d >= needed => c <= d}

Moved(p, needed) == IF Grows(needed) THEN [p EXCEPT !.block = buf + 1] ELSE p

FramesLeft(needed) == frames   \* a mutant: frames are not relocated

MovedFrames(needed) ==
  [i \in DOMAIN frames |->
     [frames[i] EXCEPT !.slots = Moved(frames[i].slots, needed)]]

\* Mutant: open upvalues are not relocated.
EnsureStackSpaceOnly(needed) ==
  /\ IF Grows(needed)
     THEN capacity' \in Ceiling(needed) /\ buf' = buf + 1
     ELSE UNCHANGED <<capacity, buf>>
  /\ UNCHANGED upvalues

EnsureStackSpace(needed) ==
  /\ IF Grows(needed)
     THEN capacity' \in Ceiling(needed) /\ buf' = buf + 1
     ELSE UNCHANGED <<capacity, buf>>
  /\ upvalues' = [u \in DOMAIN upvalues |->
                    IF \E k \in DOMAIN open : open[k] = u
                    THEN [upvalues[u] EXCEPT
                            !.location = Moved(upvalues[u].location, needed)]
                    ELSE upvalues[u]]

Call(arg_c) ==
  LET callee == Peek(arg_c)
      f      == closures[callee.closure].function
      needed == Len(stack) + MaxSlots[f]
  IN  /\ Running
      /\ Height > Top.nlocals + arg_c
      /\ IsClosure(callee)
      /\ IF arg_c # Arity[f] \/ Len(frames) = MAX_FRAMES
         THEN RuntimeError
         ELSE /\ EnsureStackSpace(needed)
              /\ frames' = Append(MovedFrames(needed),
                             [closure |-> callee.closure,
                              slots   |-> Moved(Slot(Len(stack) - arg_c - 1),
                                                needed),
                              nlocals |-> arg_c + 1])
              /\ UNCHANGED <<stack, open, closures, global, status>>

\* An assertion of a debug build fails, which ends the process.
Abort ==
  /\ status' = "aborted"
  /\ UNCHANGED <<stack, buf, capacity, frames, open, upvalues, closures, global>>

\* erase() asserts that it has something to erase.
CanErase(n) == IS_DEBUG_BUILD => n > 0

\* A native function leaves its result in the callee's slot, from where its
\* arguments are erased, or fails.
CallNative(arg_c) ==
  /\ Running
  /\ Height > Top.nlocals + arg_c
  /\ Peek(arg_c) \in Natives
  /\ \/ /\ CanErase(arg_c)
        /\ \E v \in Data :
             stack' = Append(Truncate(Len(stack) - arg_c - 1), v)
        /\ MachineUnchanged /\ UNCHANGED global
     \/ ~CanErase(arg_c) /\ Abort
     \/ RuntimeError

CallOther(arg_c) ==
  /\ Running
  /\ Height > Top.nlocals + arg_c
  /\ Peek(arg_c) \in Data \cup {None}
  /\ RuntimeError

\* A script ends after its last statement, with nothing but nil to return.
Return ==
  /\ Running /\ HasTemporary
  /\ Callable.function = Script => Height = 2
  /\ CloseUpvalues(Base)
  /\ frames' = SubSeq(frames, 1, Len(frames) - 1)
  /\ IF Len(frames) = 1
     THEN /\ stack' = Truncate(Len(stack) - 2)
          /\ status' = "idle"
     ELSE /\ stack' = Append(Truncate(Base), Peek(0))
          /\ UNCHANGED status
  /\ UNCHANGED <<buf, capacity, closures, global>>

\* interpret(): the closure of the script is pushed and called.  (The growth
\* to one slot that compile() asks for is a part of the one done here.)
Interpret ==
  LET needed == 1 + MaxSlots[Script]
  IN  /\ status = "idle"
      /\ Len(closures) < MaxClosures
      /\ closures' = Append(closures, [function |-> Script, upvalues |-> <<>>])
      /\ stack' = <<ClosureRef(Len(closures) + 1)>>
      /\ EnsureStackSpace(needed)
      /\ frames' = <<[closure |-> Len(closures) + 1,
                      slots   |-> Moved(Slot(0), needed),
                      nlocals |-> 1]>>
      /\ status' = "running"
      /\ UNCHANGED <<open, global>>

-----------------------------------------------------------------------------
Literals == Data \cup Natives
Locals == 1..(Top.nlocals - 1)   \* slot 0, the callee, has no name

\* The instructions; frames is not empty while the machine is running.
Instruction ==
  \/ \E v \in Literals : Constant(v)
  \/ Pop
  \/ Declare
  \/ \E slot \in Locals : GetLocal(slot) \/ SetLocal(slot)
  \/ \E operands \in 1..2 : Compute(operands)
  \/ GetGlobal
  \/ DefineGlobal
  \/ SetGlobal
  \/ \E slot \in DOMAIN Callable.upvalues : GetUpvalue(slot) \/ SetUpvalue(slot)
  \/ \E f \in Functions \ {Script} : MakeClosure(f) \/ DeclareFunction(f)
  \/ \E count \in Locals : EndScope(count) \/ PlainLoopExit(count)
  \/ \E arg_c \in 0..2 : Call(arg_c) \/ CallNative(arg_c) \/ CallOther(arg_c)
  \/ Return

\* A session: lines are interpreted one after the other until one fails.
Next ==
  \/ Interpret
  \/ Running /\ Instruction
  \/ CaptureLocal
  \/ CaptureEnclosing

Spec == Init /\ [][Next]_vars

\* What the code also allows: a loop left by break or continue with captured
\* locals, and a prompt that goes on after a runtime error (run_repl).
CapturingLoops ==
  Next \/ (Running /\ \E count \in Locals : LoopExit(count))

LoopSpec == Init /\ [][CapturingLoops]_vars

Prompt ==
  /\ status = "error"
  /\ status' = "idle"
  /\ UNCHANGED <<stack, buf, capacity, frames, open, upvalues, closures,
                 global>>

ReplSpec == Init /\ [][Next \/ Prompt]_vars

-----------------------------------------------------------------------------
(***************************************************************************)
(* Properties.                                                             *)
(***************************************************************************)
\* Type invariant.
TypeOK ==
  /\ stack \in Seq(Value)
  /\ buf \in Nat
  /\ capacity \in Nat
  /\ frames \in Seq(Frame)
  /\ open \in Seq(Nat)
  /\ upvalues \in Seq(Upvalue)
  /\ closures \in Seq(Closure)
  /\ global \in Value
  /\ status \in Status

OpenUpvalues == {open[k] : k \in DOMAIN open}

\* The slots that hold a local variable of the i-th frame.
Variables(i) ==
  frames[i].slots.off .. (frames[i].slots.off + frames[i].nlocals - 1)

\* capture_upvalue and close_upvalues stop at the first upvalue below the one
\* they look for, so the list must be sorted, and no variable may have two
\* upvalues or its closures would no longer share it.
OpenListSorted ==
  \A j, k \in DOMAIN open : j < k => OpenOff(j) > OpenOff(k)

\* Every open upvalue points into the block the stack is in now, at a local
\* variable of a function that has not returned.
OpenPointToVariables ==
  \A k \in DOMAIN open :
    /\ upvalues[open[k]].location.block = buf
    /\ \E i \in DOMAIN frames : OpenOff(k) \in Variables(i)

\* No upvalue is lost: one that is not in the list has been closed.  (After
\* an error there is no program left that could use one.)
NoneLost ==
  status # "error" =>
    \A u \in DOMAIN upvalues :
      u \in OpenUpvalues <=> upvalues[u].location.block # Own

\* The machine never writes past the end of the stack (the assertion of
\* push()), although only call() ever makes room, once for the whole call.
StackFits ==
  /\ Len(stack) <= capacity
  /\ \A i \in DOMAIN frames :
       frames[i].slots.off + Window(closures[frames[i].closure].function)
         <= capacity

\* Frames follow one another on the stack and have moved with it; each starts
\* with its closure, which nothing has overwritten, and which has all the
\* upvalues its code refers to.
FramesInPlace ==
  \A i \in DOMAIN frames :
    LET frame == frames[i]
        c     == frame.closure
        end   == IF i = Len(frames) THEN Len(stack)
                                    ELSE frames[i + 1].slots.off
    IN  /\ frame.slots.block = buf
        /\ frame.slots.off + frame.nlocals <= end
        /\ stack[frame.slots.off + 1] = ClosureRef(c)
        /\ Len(closures[c].upvalues) = Len(Captures[closures[c].function])

\* The value of a captured variable.
VariableOf(u) ==
  IF upvalues[u].location.block = Own
  THEN upvalues[u].closed
  ELSE stack[upvalues[u].location.off + 1]

\* The machine implements shared variables.
EntryAt(off) ==
  IF \E k \in DOMAIN open : OpenOff(k) = off
  THEN [box |-> CHOOSE u \in OpenUpvalues : upvalues[u].location.off = off]
  ELSE stack[off + 1]

Environment == [i \in DOMAIN stack |-> EntryAt(i - 1)]

CallsInProgress ==
  [i \in DOMAIN frames |->
     [closure |-> frames[i].closure, base |-> frames[i].slots.off]]

Boxes ==
  IF status = "error" THEN <<>>
                      ELSE [u \in DOMAIN upvalues |-> VariableOf(u)]

ClosuresMade ==
  [c \in DOMAIN closures |->
     [function |-> closures[c].function, boxes |-> closures[c].upvalues]]

Progress == IF status = "aborted" THEN "running" ELSE status

Shared == INSTANCE SharedVariables WITH
  env      <- Environment,
  calls    <- CallsInProgress,
  boxes    <- Boxes,
  closures <- ClosuresMade,
  status   <- Progress

\* What a program observes of the machine is what SharedVariables promises:
\* only an assignment changes a captured variable, not a call, a return, a move
\* of the stack, leaving its scope or the reuse of its slot.
ImplementsSharedVariables == Shared!Spec
=============================================================================
