-------------------------- MODULE ClosureVM_proofs --------------------------
(***************************************************************************)
(* Proofs about ClosureVM, for any program, any number of frames and any   *)
(* growth of the stack.  The inductive invariant IInv relates the frames,  *)
(* the list of open upvalues and the closure do_closure is filling in; the *)
(* last part is about the refinement of SharedVariables.                   *)
(***************************************************************************)
EXTENDS ClosureVM, SequenceTheorems, TLAPS

\* The values that refer to nothing or to a closure that exists.
Known == Atoms \cup [closure : DOMAIN closures]

\* TypeOK, with every reference one to something that exists.
TypeInv ==
  /\ stack \in Seq(Known)
  /\ buf \in Nat \ {0}
  /\ capacity \in Nat
  /\ frames \in Seq([closure : DOMAIN closures, slots : Pointer, nlocals : Nat])
  /\ open \in Seq(DOMAIN upvalues)
  /\ upvalues \in Seq([location : Pointer, closed : Known])
  /\ closures \in Seq([function : Functions, upvalues : Seq(DOMAIN upvalues)])
  /\ global \in Known
  /\ status \in Status

\* There is code to run exactly while there are frames.
ControlInv ==
  status \in {"running", "capturing", "aborted"} <=> frames # <<>>

FunctionOf(i) == closures[frames[i].closure].function

\* The variables of a frame end before the next frame and the top of stack.
PlacesInv ==
  /\ \A i \in DOMAIN frames :
       /\ frames[i].slots.block = buf
       /\ frames[i].nlocals >= 1 + Arity[FunctionOf(i)]
       /\ frames[i].slots.off + frames[i].nlocals <= Len(stack)
  /\ \A i, j \in DOMAIN frames : i < j =>
       frames[i].slots.off + frames[i].nlocals <= frames[j].slots.off

\* Each frame keeps within its window, and the windows within the stack.
RoomInv ==
  /\ Len(stack) <= capacity
  /\ \A i \in DOMAIN frames :
       frames[i].slots.off + Window(FunctionOf(i)) <= capacity
  /\ \A i, j \in DOMAIN frames : j = i + 1 =>
       frames[j].slots.off < frames[i].slots.off + Window(FunctionOf(i))
  /\ frames # <<>> => Height <= Window(Callable.function)

\* The closure being filled in lacks an upvalue, and those it lacks are of
\* variables its maker has.
CapturingInv ==
  status = "capturing" =>
    /\ closures # <<>>
    /\ Len(closures[New].upvalues) < Len(Captures[closures[New].function])
    /\ CanCapture(closures[New].function, Top.nlocals)

OpenInv == OpenListSorted /\ OpenPointToVariables /\ NoneLost

IInv ==
  /\ TypeInv /\ ControlInv /\ PlacesInv /\ RoomInv /\ CapturingInv /\ OpenInv

-----------------------------------------------------------------------------
\* The types of what the sequences hold.
LEMMA FrameIndices ==
  ASSUME TypeInv
  PROVE  DOMAIN frames = 1..Len(frames) /\ Len(frames) \in Nat
BY DEF TypeInv

LEMMA FrameAt ==
  ASSUME TypeInv, NEW i \in DOMAIN frames
  PROVE  frames[i] \in [closure : DOMAIN closures, slots : Pointer,
                        nlocals : Nat]
<1> DEFINE LiveFrame ==
      [closure : DOMAIN closures, slots : Pointer, nlocals : Nat]
<1>1. frames \in Seq(LiveFrame) /\ i \in 1..Len(frames)
  BY FrameIndices DEF TypeInv
<1> HIDE DEF LiveFrame
<1>2. frames[i] \in LiveFrame
  BY <1>1, ElementOfSeq
<1> QED BY <1>2 DEF LiveFrame

LEMMA ClosureAt ==
  ASSUME TypeInv, NEW c \in DOMAIN closures
  PROVE  closures[c] \in [function : Functions, upvalues : Seq(DOMAIN upvalues)]
<1> DEFINE Live == [function : Functions, upvalues : Seq(DOMAIN upvalues)]
<1>1. closures \in Seq(Live) /\ c \in 1..Len(closures)
  BY DEF TypeInv
<1> HIDE DEF Live
<1>2. closures[c] \in Live
  BY <1>1, ElementOfSeq
<1> QED BY <1>2 DEF Live

LEMMA FrameNumbers ==
  ASSUME TypeInv, NEW i \in DOMAIN frames
  PROVE  /\ frames[i].closure \in DOMAIN closures
         /\ frames[i].slots.off \in Nat
         /\ frames[i].nlocals \in Nat
BY FrameAt DEF Pointer

\* The innermost frame: what the invariant says of the frame the machine runs.
LEMMA TopFrame ==
  ASSUME IInv, frames # <<>>
  PROVE  /\ Len(frames) \in DOMAIN frames
         /\ Top.closure \in DOMAIN closures
         /\ Callable \in [function : Functions, upvalues : Seq(DOMAIN upvalues)]
         /\ Base \in Nat /\ Top.nlocals \in Nat /\ Len(stack) \in Nat
         /\ Top.slots \in Pointer /\ Top.slots.block = buf
         /\ Arity[Callable.function] \in Nat
         /\ Window(Callable.function) \in Nat
         /\ Top.nlocals >= 1 + Arity[Callable.function]
         /\ Base + Top.nlocals <= Len(stack)
         /\ Len(stack) <= Base + Window(Callable.function)
         /\ Base + Window(Callable.function) <= capacity
<1>1. Len(frames) \in DOMAIN frames
  BY DEF IInv, TypeInv
<1>2. /\ Top.closure \in DOMAIN closures
      /\ Top.slots \in Pointer /\ Base \in Nat /\ Top.nlocals \in Nat
  <2>1. Top \in [closure : DOMAIN closures, slots : Pointer, nlocals : Nat]
    BY <1>1, FrameAt DEF IInv, TypeInv, Top
  <2> QED BY <2>1 DEF Base, Pointer
<1>3. Callable \in [function : Functions, upvalues : Seq(DOMAIN upvalues)]
  BY <1>2, ClosureAt DEF IInv, Callable
<1>4. /\ Arity[Callable.function] \in Nat
      /\ Window(Callable.function) \in Nat
  BY <1>3, FunctionsAssumption DEF Window
<1>5. Len(stack) \in Nat
  BY DEF IInv, TypeInv
<1>6. FunctionOf(Len(frames)) = Callable.function
  BY DEF FunctionOf, Callable, Top
<1>7. /\ Top.slots.block = buf
      /\ Top.nlocals >= 1 + Arity[Callable.function]
      /\ Base + Top.nlocals <= Len(stack)
  BY <1>1, <1>6 DEF IInv, PlacesInv, Top, Base
<1>8. Base + Window(Callable.function) <= capacity
  BY <1>1, <1>6 DEF IInv, RoomInv, Top, Base
<1>9. Len(stack) - Base <= Window(Callable.function)
  BY DEF IInv, RoomInv, Height
<1> QED BY <1>1, <1>2, <1>3, <1>4, <1>5, <1>7, <1>8, <1>9

\* Of these, the numbers, for the steps that only count slots.
LEMMA TopNumbers ==
  ASSUME IInv, frames # <<>>
  PROVE  /\ Base \in Nat /\ Top.nlocals \in Nat /\ Len(stack) \in Nat
         /\ Window(Callable.function) \in Nat
         /\ Arity[Callable.function] \in Nat
         /\ Top.nlocals >= 1 + Arity[Callable.function]
         /\ Base + Top.nlocals <= Len(stack)
         /\ Len(stack) <= Base + Window(Callable.function)
BY TopFrame

\* An instruction that only pushes, pops and assigns: it leaves the variables
\* of the frame in place and stays within its window.
LEMMA StackStep ==
  ASSUME IInv, frames # <<>>,
         stack' \in Seq(Known), global' \in Known,
         UNCHANGED <<buf, capacity, frames, open, closures, status>>,
         upvalues' \in Seq([location : Pointer, closed : Known]),
         DOMAIN upvalues' = DOMAIN upvalues,
         \A u \in DOMAIN upvalues : upvalues'[u].location = upvalues[u].location,
         Base + Top.nlocals <= Len(stack'),
         Len(stack') <= Base + Window(Callable.function)
  PROVE  IInv'
<1>1. TypeInv'
  BY DEF IInv, TypeInv, Known
<1>2. ControlInv'
  BY DEF IInv, ControlInv
<1>3. PlacesInv'
  <2>1. ASSUME NEW i \in DOMAIN frames
        PROVE  frames[i].slots.off + frames[i].nlocals <= Len(stack')
    <3>1. CASE i = Len(frames)
      BY <3>1 DEF Top, Base
    <3>2. CASE i # Len(frames)
      <4>1. Len(frames) \in DOMAIN frames /\ i < Len(frames)
        BY <3>2, TopFrame, FrameIndices DEF IInv
      <4>2. frames[i].slots.off + frames[i].nlocals <= Base
        BY <4>1 DEF IInv, PlacesInv, Top, Base
      <4>3. /\ frames[i].slots.off \in Nat /\ frames[i].nlocals \in Nat
            /\ Base \in Nat /\ Top.nlocals \in Nat
        BY TopFrame, FrameNumbers DEF IInv
      <4>4. Len(stack') \in Nat
        OBVIOUS
      <4> QED BY <4>2, <4>3, <4>4
    <3> QED BY <3>1, <3>2
  <2> QED BY <2>1 DEF IInv, PlacesInv, FunctionOf
<1>4. RoomInv'
  <2>1. Len(stack') <= capacity
    <3>1. Len(stack') \in Nat /\ capacity \in Nat
      BY DEF IInv, TypeInv
    <3> QED BY <3>1, TopFrame
  <2>2. Len(stack') - Base <= Window(Callable.function)
    <3>1. Len(stack') \in Nat
      OBVIOUS
    <3> QED BY <3>1, TopFrame
  <2> QED BY <2>1, <2>2 DEF IInv, RoomInv, FunctionOf, Height, Base, Top, Callable, Window
<1>5. CapturingInv'
  BY DEF IInv, CapturingInv, New, CanCapture, Top, Callable
<1>6. OpenInv'
  <2>1. \A k \in DOMAIN open : open[k] \in DOMAIN upvalues
    BY DEF IInv, TypeInv
  <2>2. OpenListSorted'
    BY <2>1 DEF IInv, OpenInv, OpenListSorted, OpenOff
  <2>3. OpenPointToVariables'
    BY <2>1 DEF IInv, OpenInv, OpenPointToVariables, OpenOff, Variables
  <2>4. NoneLost'
    BY DEF IInv, OpenInv, NoneLost, OpenUpvalues, Own
  <2> QED BY <2>2, <2>3, <2>4 DEF OpenInv
<1> QED BY <1>1, <1>2, <1>3, <1>4, <1>5, <1>6 DEF IInv

LEMMA MachineStep ==
  ASSUME IInv, frames # <<>>, MachineUnchanged,
         stack' \in Seq(Known), global' \in Known,
         Base + Top.nlocals <= Len(stack'),
         Len(stack') <= Base + Window(Callable.function)
  PROVE  IInv'
<1>1. upvalues \in Seq([location : Pointer, closed : Known])
  BY DEF IInv, TypeInv
<1> QED BY <1>1, StackStep DEF MachineUnchanged

\* The values a running machine finds on its stack.
LEMMA StackAt ==
  ASSUME IInv, NEW i \in 1..Len(stack)
  PROVE  stack[i] \in Known
<1>1. stack \in Seq(Known)
  BY DEF IInv, TypeInv
<1> QED BY <1>1, ElementOfSeq

LEMMA Truncated ==
  ASSUME IInv, NEW n \in 0..Len(stack)
  PROVE  /\ Truncate(n) \in Seq(Known)
         /\ Len(Truncate(n)) = n
         /\ \A i \in 1..n : Truncate(n)[i] = stack[i]
<1>1. stack \in Seq(Known)
  BY DEF IInv, TypeInv
<1> QED BY <1>1, SubSeqProperties DEF Truncate

LEMMA Pushed ==
  ASSUME IInv, NEW n \in 0..Len(stack), NEW v \in Known
  PROVE  /\ Append(Truncate(n), v) \in Seq(Known)
         /\ Len(Append(Truncate(n), v)) = n + 1
BY Truncated, AppendProperties

LEMMA RunningHasFrame ==
  ASSUME IInv, Running
  PROVE  frames # <<>>
BY DEF IInv, ControlInv, Running

LEMMA PushPreserves ==
  ASSUME IInv, Running, HasRoom, NEW v \in Known,
         stack' = Append(stack, v), MachineUnchanged, UNCHANGED global
  PROVE  IInv'
<1>1. stack \in Seq(Known) /\ global \in Known
  BY DEF IInv, TypeInv
<1>2. stack' \in Seq(Known) /\ Len(stack') = Len(stack) + 1
  BY <1>1, AppendProperties
<1>3. frames # <<>>
  BY RunningHasFrame
<1>4. Len(stack) - Base < Window(Callable.function)
  BY DEF HasRoom, Height
<1>5. /\ Base + Top.nlocals <= Len(stack')
      /\ Len(stack') <= Base + Window(Callable.function)
  BY <1>2, <1>3, <1>4, TopFrame
<1> QED BY <1>1, <1>2, <1>3, <1>5, MachineStep

\* Operands are popped, and a result may be pushed in their place.
LEMMA ReplacePreserves ==
  ASSUME IInv, Running, NEW n \in Nat, Height >= Top.nlocals + n, n > 0,
         NEW v \in Known, stack' = Append(Truncate(Len(stack) - n), v),
         MachineUnchanged, UNCHANGED global
  PROVE  IInv'
<1>1. frames # <<>>
  BY RunningHasFrame
<1>2. Len(stack) - Base >= Top.nlocals + n
  BY DEF Height
<1>3. Len(stack) - n \in 0..Len(stack)
  <2>1. Len(stack) \in Nat /\ Base \in Nat /\ Top.nlocals \in Nat
    BY <1>1, TopNumbers
  <2>2. n <= Len(stack)
    BY <1>2, <2>1
  <2> QED BY <2>1, <2>2
<1>4. stack' \in Seq(Known) /\ Len(stack') = (Len(stack) - n) + 1
  BY <1>3, Pushed
<1>5. /\ Base + Top.nlocals <= Len(stack')
      /\ Len(stack') <= Base + Window(Callable.function)
  <2>1. Base + Top.nlocals <= Len(stack')
    BY <1>1, <1>2, <1>4, TopNumbers
  <2>2. Len(stack') <= Len(stack)
    BY <1>1, <1>4, TopNumbers
  <2>3. Len(stack') <= Base + Window(Callable.function)
    BY <1>1, <1>4, <2>2, TopNumbers
  <2> QED BY <2>1, <2>3
<1>6. global \in Known
  BY DEF IInv, TypeInv
<1> QED BY <1>1, <1>4, <1>5, <1>6, MachineStep

LEMMA PopPreserves ==
  ASSUME IInv, Running, HasTemporary,
         stack' = Truncate(Len(stack) - 1), MachineUnchanged, global' \in Known
  PROVE  IInv'
<1>1. frames # <<>>
  BY RunningHasFrame
<1>2. Len(stack) - Base > Top.nlocals
  BY DEF Height, HasTemporary
<1>3. Len(stack) - 1 \in 0..Len(stack)
  BY <1>1, <1>2, TopFrame
<1>4. stack' \in Seq(Known) /\ Len(stack') = Len(stack) - 1
  BY <1>3, Truncated
<1>5. /\ Base + Top.nlocals <= Len(stack')
      /\ Len(stack') <= Base + Window(Callable.function)
  BY <1>1, <1>2, <1>4, TopFrame
<1> QED BY <1>1, <1>4, <1>5, MachineStep

\* The value an assignment or a definition takes.
LEMMA PeekKnown ==
  ASSUME IInv, Running, NEW d \in Nat, Height > Top.nlocals + d
  PROVE  Len(stack) - d \in 1..Len(stack) /\ Peek(d) \in Known
<1>1. frames # <<>>
  BY RunningHasFrame
<1>2. Len(stack) - Base > Top.nlocals + d
  BY DEF Height
<1>3. Len(stack) - d \in 1..Len(stack)
  BY <1>1, <1>2, TopFrame
<1> QED BY <1>3, StackAt DEF Peek

-----------------------------------------------------------------------------
\* The instructions that push, pop, compute and assign.
LEMMA ConstantPreserves ==
  ASSUME IInv, NEW v \in Literals, Constant(v)
  PROVE  IInv'
<1>1. v \in Known
  BY DEF Literals, Known, Atoms
<1> QED BY <1>1, PushPreserves DEF Constant

LEMMA GetLocalPreserves ==
  ASSUME IInv, Running, NEW slot \in Locals, GetLocal(slot)
  PROVE  IInv'
<1>1. frames # <<>>
  BY RunningHasFrame
<1>2. slot \in Nat /\ slot < Top.nlocals
  BY <1>1, TopFrame DEF Locals
<1>3. Base + slot + 1 \in 1..Len(stack)
  BY <1>1, <1>2, TopFrame
<1>4. stack[Base + slot + 1] \in Known
  BY <1>3, StackAt
<1> QED BY <1>4, PushPreserves DEF GetLocal

LEMMA SetLocalPreserves ==
  ASSUME IInv, Running, NEW slot \in Locals, SetLocal(slot)
  PROVE  IInv'
<1>1. frames # <<>>
  BY RunningHasFrame
<1>2. Peek(0) \in Known
  BY <1>1, PeekKnown, TopFrame DEF SetLocal, HasTemporary
<1>3. stack \in Seq(Known) /\ global' \in Known
  BY DEF IInv, TypeInv, SetLocal
<1>4. stack' \in Seq(Known) /\ Len(stack') = Len(stack)
  <2>1. slot \in Nat /\ slot < Top.nlocals
    BY <1>1, TopFrame DEF Locals
  <2>2. Base + slot + 1 \in 1..Len(stack)
    BY <1>1, <2>1, TopFrame
  <2> QED BY <1>2, <1>3, <2>2, ExceptSeq DEF SetLocal
<1> QED BY <1>1, <1>3, <1>4, TopFrame, MachineStep DEF SetLocal

LEMMA ComputePreserves ==
  ASSUME IInv, Running, NEW operands \in 1..2, Compute(operands),
         ~RuntimeError
  PROVE  IInv'
<1>1. PICK v \in Data : stack' = Append(Truncate(Len(stack) - operands), v)
  BY DEF Compute
<1>2. v \in Known
  BY DEF Known, Atoms
<1> QED BY <1>1, <1>2, ReplacePreserves DEF Compute

\* An assertion that fails changes nothing but that the machine stops.
LEMMA AbortPreserves ==
  ASSUME IInv, Running, Abort
  PROVE  IInv'
<1>1. frames # <<>> /\ status = "running"
  BY RunningHasFrame DEF Running
<1> USE DEF IInv, Abort
<1>2. TypeInv' /\ ControlInv' /\ CapturingInv'
  BY <1>1 DEF TypeInv, Known, Status, ControlInv, CapturingInv
<1>3. PlacesInv' /\ RoomInv'
  BY DEF PlacesInv, RoomInv, FunctionOf, Height, Base, Top, Callable, Window
<1>4. OpenInv'
  BY <1>1 DEF OpenInv, OpenListSorted, OpenPointToVariables, NoneLost,
              OpenUpvalues, OpenOff, Variables
<1> QED BY <1>2, <1>3, <1>4

LEMMA CallNativePreserves ==
  ASSUME IInv, Running, NEW arg_c \in 0..2, CallNative(arg_c),
         ~RuntimeError, ~Abort
  PROVE  IInv'
<1>1. PICK v \in Data : stack' = Append(Truncate(Len(stack) - arg_c - 1), v)
  BY DEF CallNative
<1>2. v \in Known
  BY DEF Known, Atoms
<1>3. frames # <<>>
  BY RunningHasFrame
<1>4. /\ Len(stack) - arg_c - 1 = Len(stack) - (arg_c + 1)
      /\ Height >= Top.nlocals + (arg_c + 1)
  <2>1. Height > Top.nlocals + arg_c
    BY DEF CallNative
  <2> QED BY <1>3, <2>1, TopNumbers DEF Height
<1> QED BY <1>1, <1>2, <1>4, ReplacePreserves DEF CallNative

LEMMA GlobalsPreserve ==
  ASSUME IInv, Running, GetGlobal \/ DefineGlobal \/ SetGlobal, ~RuntimeError
  PROVE  IInv'
<1>1. frames # <<>>
  BY RunningHasFrame
<1>2. global \in Known /\ stack \in Seq(Known)
  BY DEF IInv, TypeInv
<1>3. CASE GetGlobal
  BY <1>2, <1>3, PushPreserves DEF GetGlobal
<1>4. HasTemporary => Peek(0) \in Known
  <2> SUFFICES ASSUME HasTemporary PROVE Peek(0) \in Known
    OBVIOUS
  <2>1. Height > Top.nlocals + 0
    BY <1>1, TopNumbers DEF HasTemporary
  <2> QED BY <2>1, PeekKnown
<1>5. CASE DefineGlobal
  BY <1>4, <1>5, PopPreserves DEF DefineGlobal
<1>6. CASE SetGlobal
  <2>1. UNCHANGED stack /\ MachineUnchanged /\ global' \in Known
    BY <1>4, <1>6 DEF SetGlobal
  <2> QED BY <1>1, <1>2, <2>1, TopFrame, MachineStep
<1> QED BY <1>3, <1>5, <1>6

\* A variable an open upvalue stands for is on the stack.
LEMMA OpenOnStack ==
  ASSUME IInv, NEW k \in DOMAIN open
  PROVE  /\ open[k] \in DOMAIN upvalues
         /\ OpenOff(k) \in Nat
         /\ OpenOff(k) < Len(stack)
<1>1. open[k] \in DOMAIN upvalues
  BY DEF IInv, TypeInv
<1>2. PICK i \in DOMAIN frames : OpenOff(k) \in Variables(i)
  BY DEF IInv, OpenInv, OpenPointToVariables
<1>3. /\ frames[i].slots.off \in Nat /\ frames[i].nlocals \in Nat
      /\ Len(stack) \in Nat
  BY FrameNumbers DEF IInv, TypeInv
<1>4. frames[i].slots.off + frames[i].nlocals <= Len(stack)
  BY DEF IInv, PlacesInv
<1> QED BY <1>1, <1>2, <1>3, <1>4 DEF Variables

LEMMA UpvalueAt ==
  ASSUME IInv, frames # <<>>, NEW u \in DOMAIN upvalues
  PROVE  /\ upvalues[u] \in [location : Pointer, closed : Known]
         /\ upvalues[u].location \in Pointer
         /\ upvalues[u].closed \in Known
         /\ upvalues[u].location.block # Own =>
              upvalues[u].location.off + 1 \in 1..Len(stack)
<1> DEFINE Live == [location : Pointer, closed : Known]
<1>1. upvalues \in Seq(Live) /\ u \in 1..Len(upvalues)
  BY DEF IInv, TypeInv
<1>2. upvalues[u] \in Live
  <2> HIDE DEF Live
  <2> QED BY <1>1, ElementOfSeq
<1>3. ASSUME upvalues[u].location.block # Own
      PROVE  upvalues[u].location.off + 1 \in 1..Len(stack)
  <2>1. status # "error"
    BY DEF IInv, ControlInv
  <2>2. PICK k \in DOMAIN open : open[k] = u
    BY <1>3, <2>1 DEF IInv, OpenInv, NoneLost, OpenUpvalues
  <2>3. Len(stack) \in Nat
    BY DEF IInv, TypeInv
  <2> QED BY <2>2, <2>3, OpenOnStack DEF OpenOff
<1> QED BY <1>2, <1>3

LEMMA CallableUpvalue ==
  ASSUME IInv, frames # <<>>, NEW slot \in DOMAIN Callable.upvalues
  PROVE  Callable.upvalues[slot] \in DOMAIN upvalues
<1>1. Callable.upvalues \in Seq(DOMAIN upvalues)
  BY TopFrame
<1> QED BY <1>1, ElementOfSeq

LEMMA GetUpvaluePreserves ==
  ASSUME IInv, Running, NEW slot \in DOMAIN Callable.upvalues, GetUpvalue(slot)
  PROVE  IInv'
<1>1. frames # <<>>
  BY RunningHasFrame
<1> DEFINE u == Callable.upvalues[slot]
           v == IF upvalues[u].location.block = Own
                THEN upvalues[u].closed
                ELSE stack[upvalues[u].location.off + 1]
<1>2. u \in DOMAIN upvalues
  BY <1>1, CallableUpvalue
<1>3. v \in Known
  BY <1>1, <1>2, UpvalueAt, StackAt
<1>4. HasRoom /\ MachineUnchanged /\ UNCHANGED global /\ stack' = Append(stack, v)
  BY DEF GetUpvalue
<1> HIDE DEF v
<1> QED BY <1>3, <1>4, PushPreserves

LEMMA SetUpvaluePreserves ==
  ASSUME IInv, Running, NEW slot \in DOMAIN Callable.upvalues, SetUpvalue(slot)
  PROVE  IInv'
<1>1. frames # <<>>
  BY RunningHasFrame
<1> DEFINE u == Callable.upvalues[slot]
           Live == [location : Pointer, closed : Known]
<1>2. u \in DOMAIN upvalues
  BY <1>1, CallableUpvalue
<1>3. Peek(0) \in Known
  BY <1>1, PeekKnown, TopFrame DEF SetUpvalue, HasTemporary
<1>4. stack \in Seq(Known) /\ upvalues \in Seq(Live) /\ global \in Known
  BY DEF IInv, TypeInv
<1>5. UNCHANGED <<buf, capacity, frames, open, closures, global, status>>
  BY DEF SetUpvalue
<1>6. CASE upvalues[u].location.block = Own
  <2>1. upvalues' = [upvalues EXCEPT ![u].closed = Peek(0)] /\ UNCHANGED stack
    BY <1>6 DEF SetUpvalue
  <2>2. [upvalues[u] EXCEPT !.closed = Peek(0)] \in Live
    BY <1>1, <1>2, <1>3, UpvalueAt
  <2>3. upvalues' = [upvalues EXCEPT ![u] = [upvalues[u] EXCEPT !.closed = Peek(0)]]
    BY <2>1
  <2>4. /\ upvalues' \in Seq(Live) /\ DOMAIN upvalues' = DOMAIN upvalues
    <3> HIDE DEF Live
    <3> QED BY <1>2, <1>4, <2>2, <2>3, ExceptSeq
  <2>5. \A w \in DOMAIN upvalues : upvalues'[w].location = upvalues[w].location
    BY <1>1, <1>2, <2>3, UpvalueAt
  <2>6. /\ stack' \in Seq(Known) /\ global' \in Known
        /\ Base + Top.nlocals <= Len(stack')
        /\ Len(stack') <= Base + Window(Callable.function)
    BY <1>1, <1>4, <1>5, <2>1, TopFrame
  <2> QED BY <1>1, <1>5, <2>4, <2>5, <2>6, StackStep
<1>7. CASE upvalues[u].location.block # Own
  <2>1. /\ stack' = [stack EXCEPT ![upvalues[u].location.off + 1] = Peek(0)]
        /\ UNCHANGED upvalues
    BY <1>7 DEF SetUpvalue
  <2>2. upvalues[u].location.off + 1 \in 1..Len(stack)
    BY <1>1, <1>2, <1>7, UpvalueAt
  <2>3. stack' \in Seq(Known) /\ Len(stack') = Len(stack)
    BY <1>3, <1>4, <2>1, <2>2, ExceptSeq
  <2> QED BY <1>1, <1>4, <1>5, <2>1, <2>3, TopFrame, MachineStep
             DEF MachineUnchanged
<1> QED BY <1>6, <1>7

\* A runtime error leaves nothing on the stack and nothing to run.
LEMMA RuntimeErrorPreserves ==
  ASSUME IInv, RuntimeError
  PROVE  IInv'
<1>1. TypeInv'
  BY DEF IInv, TypeInv, RuntimeError, Known, Status
<1>2. ControlInv' /\ PlacesInv' /\ CapturingInv'
  BY DEF RuntimeError, ControlInv, PlacesInv, CapturingInv
<1>3. RoomInv'
  BY DEF IInv, TypeInv, RuntimeError, RoomInv
<1>4. OpenInv'
  BY DEF RuntimeError, OpenInv, OpenListSorted, OpenPointToVariables, NoneLost
<1> QED BY <1>1, <1>2, <1>3, <1>4 DEF IInv

-----------------------------------------------------------------------------
(***************************************************************************)
(* Closures.                                                               *)
(***************************************************************************)
\* A sequence over a set is one over every larger set.
LEMMA SeqMonotone ==
  ASSUME NEW S, NEW T, S \subseteq T, NEW s \in Seq(S)
  PROVE  s \in Seq(T)
<1>1. Len(s) \in Nat /\ s = [i \in 1..Len(s) |-> s[i]]
  OBVIOUS
<1>2. \A i \in 1..Len(s) : s[i] \in T
  BY ElementOfSeq
<1> QED BY <1>1, <1>2, IsASeq

LEMMA NewClosure ==
  ASSUME TypeInv, NEW f \in Functions,
         closures' = Append(closures, [function |-> f, upvalues |-> <<>>])
  PROVE  /\ closures' \in Seq([function : Functions,
                               upvalues : Seq(DOMAIN upvalues)])
         /\ Len(closures) \in Nat
         /\ Len(closures') = Len(closures) + 1
         /\ DOMAIN closures' = 1..(Len(closures) + 1)
         /\ \A c \in DOMAIN closures :
              c \in DOMAIN closures' /\ closures'[c] = closures[c]
         /\ closures'[Len(closures) + 1] = [function |-> f, upvalues |-> <<>>]
         /\ Known \subseteq Known'
         /\ ClosureRef(Len(closures) + 1) \in Known'
<1> DEFINE Live == [function : Functions, upvalues : Seq(DOMAIN upvalues)]
           new  == [function |-> f, upvalues |-> <<>>]
<1>1. closures \in Seq(Live) /\ new \in Live
  BY DEF TypeInv
<1>2. DOMAIN closures = 1..Len(closures) /\ Len(closures) \in Nat
  BY <1>1
<1>3. /\ closures' \in Seq(Live)
      /\ Len(closures') = Len(closures) + 1
      /\ \A c \in 1..Len(closures) : closures'[c] = closures[c]
      /\ closures'[Len(closures) + 1] = new
  <2> HIDE DEF Live, new
  <2>1. closures' = Append(closures, new)
    BY DEF new
  <2> QED BY <1>1, <2>1, AppendProperties
<1>4. DOMAIN closures' = 1..(Len(closures) + 1)
  BY <1>3
<1>5. DOMAIN closures \subseteq DOMAIN closures'
  BY <1>2, <1>4
<1>6. Known \subseteq Known' /\ ClosureRef(Len(closures) + 1) \in Known'
  BY <1>2, <1>4, <1>5 DEF Known, ClosureRef
<1> QED BY <1>2, <1>3, <1>4, <1>5, <1>6

\* Types are kept when a closure is added.
LEMMA NewClosureTypes ==
  ASSUME TypeInv, NEW f \in Functions,
         closures' = Append(closures, [function |-> f, upvalues |-> <<>>]),
         UNCHANGED <<open, global>>, buf' \in Nat \ {0}, capacity' \in Nat,
         stack' \in Seq(Known'), status' \in Status,
         frames' \in Seq([closure : DOMAIN closures', slots : Pointer,
                          nlocals : Nat]),
         upvalues' \in Seq([location : Pointer, closed : Known]),
         DOMAIN upvalues' = DOMAIN upvalues
  PROVE  TypeInv'
<1>1. /\ closures' \in Seq([function : Functions, upvalues : Seq(DOMAIN upvalues)])
      /\ Known \subseteq Known'
  BY NewClosure
<1>2. upvalues' \in Seq([location : Pointer, closed : Known'])
  <2>1. [location : Pointer, closed : Known] \subseteq
          [location : Pointer, closed : Known']
    BY <1>1
  <2> QED BY <2>1, SeqMonotone
<1>3. /\ global' \in Known'
      /\ open' \in Seq(DOMAIN upvalues')
      /\ closures' \in Seq([function : Functions, upvalues : Seq(DOMAIN upvalues')])
  BY <1>1 DEF TypeInv
<1> QED BY <1>2, <1>3 DEF TypeInv

\* The innermost frame gets n local variables.
LEMMA Resized ==
  ASSUME TypeInv, frames # <<>>, NEW n \in Nat,
         frames' = [frames EXCEPT ![Len(frames)].nlocals = n]
  PROVE  /\ frames' \in Seq([closure : DOMAIN closures, slots : Pointer,
                             nlocals : Nat])
         /\ frames' # <<>>
         /\ Len(frames') = Len(frames)
         /\ DOMAIN frames' = DOMAIN frames
         /\ \A i \in DOMAIN frames :
              /\ frames'[i].closure = frames[i].closure
              /\ frames'[i].slots = frames[i].slots
              /\ frames'[i].nlocals = IF i = Len(frames) THEN n
                                      ELSE frames[i].nlocals
<1> DEFINE Live == [closure : DOMAIN closures, slots : Pointer, nlocals : Nat]
           L == Len(frames)
           top == [frames[L] EXCEPT !.nlocals = n]
<1>1. L \in 1..Len(frames) /\ L \in DOMAIN frames /\ frames \in Seq(Live)
  BY DEF TypeInv
<1>2. top \in Live
  BY <1>1, FrameAt
<1>3. /\ top.closure = frames[L].closure
      /\ top.slots = frames[L].slots
      /\ top.nlocals = n
  BY <1>1, FrameAt
<1>4. frames' = [frames EXCEPT ![L] = top]
  OBVIOUS
<1> HIDE DEF Live, top
<1>5. /\ frames' \in Seq(Live)
      /\ Len(frames') = Len(frames)
      /\ \A i \in 1..Len(frames) : frames'[i] = IF i = L THEN top ELSE frames[i]
  <2>1. PICK g : g = [frames EXCEPT ![L] = top]
    OBVIOUS
  <2>2. g \in Seq(Live) /\ Len(g) = Len(frames)
    BY <1>1, <1>2, <2>1, ExceptSeq
  <2>3. \A i \in 1..Len(frames) : g[i] = IF i = L THEN top ELSE frames[i]
    BY <1>1, <1>2, <2>1, ExceptSeq
  <2> QED BY <1>4, <2>1, <2>2, <2>3
<1>6. DOMAIN frames' = DOMAIN frames /\ DOMAIN frames = 1..Len(frames)
  BY <1>1, <1>5
<1>7. frames' # <<>>
  BY <1>1, <1>6
<1>8. \A i \in DOMAIN frames :
         /\ frames'[i].closure = frames[i].closure
         /\ frames'[i].slots = frames[i].slots
         /\ frames'[i].nlocals = IF i = Len(frames) THEN n
                                 ELSE frames[i].nlocals
  BY <1>3, <1>5, <1>6
<1> QED BY <1>5, <1>6, <1>7, <1>8 DEF Live

\* Where the frames are when the innermost one gets n local variables and
\* the stack changes above them.
LEMMA ResizedPlaces ==
  ASSUME IInv, frames # <<>>, NEW n \in Nat,
         frames' = [frames EXCEPT ![Len(frames)].nlocals = n],
         n >= 1 + Arity[Callable.function],
         Len(stack') \in Nat,
         Base + n <= Len(stack'),
         Len(stack') <= Base + Window(Callable.function),
         UNCHANGED <<buf, capacity>>,
         \A c \in DOMAIN closures : closures'[c].function = closures[c].function
  PROVE  PlacesInv' /\ RoomInv'
<1> DEFINE L == Len(frames)
<1> USE DEF IInv
<1>1. /\ frames' # <<>> /\ Len(frames') = L /\ DOMAIN frames' = DOMAIN frames
      /\ \A i \in DOMAIN frames :
           /\ frames'[i].closure = frames[i].closure
           /\ frames'[i].slots = frames[i].slots
           /\ frames'[i].nlocals = IF i = L THEN n ELSE frames[i].nlocals
  BY Resized
<1>2. \A i \in DOMAIN frames : /\ frames[i].closure \in DOMAIN closures
                               /\ frames[i].slots.off \in Nat
                               /\ frames[i].nlocals \in Nat
  BY FrameNumbers
<1>3. \A i \in DOMAIN frames : FunctionOf(i)' = FunctionOf(i)
  BY <1>1, <1>2 DEF FunctionOf
<1>4. /\ L \in DOMAIN frames /\ DOMAIN frames = 1..L /\ L \in Nat
      /\ FunctionOf(L) = Callable.function /\ frames[L].slots.off = Base
  BY TopFrame, FrameIndices DEF FunctionOf, Callable, Top, Base
<1>5. PlacesInv'
  <2>1. ASSUME NEW i \in DOMAIN frames
        PROVE  /\ frames'[i].slots.block = buf'
               /\ frames'[i].nlocals >= 1 + Arity[FunctionOf(i)]
               /\ frames'[i].slots.off + frames'[i].nlocals <= Len(stack')
    <3>1. CASE i = L
      BY <1>1, <1>4, <3>1 DEF PlacesInv
    <3>2. CASE i # L
      <4>1. frames[i].slots.off + frames[i].nlocals <= Base
        BY <1>4, <3>2 DEF PlacesInv
      <4>2. frames'[i].slots.off + frames'[i].nlocals <= Len(stack')
        BY <1>1, <1>2, <1>4, <3>2, <4>1
      <4> QED BY <1>1, <3>2, <4>2 DEF PlacesInv
    <3> QED BY <3>1, <3>2
  <2>2. ASSUME NEW i \in DOMAIN frames, NEW j \in DOMAIN frames, i < j
        PROVE  frames'[i].slots.off + frames'[i].nlocals <= frames'[j].slots.off
    <3>1. i # L
      BY <1>4, <2>2
    <3> QED BY <1>1, <2>2, <3>1 DEF PlacesInv
  <2> QED BY <1>1, <1>3, <2>1, <2>2 DEF PlacesInv
<1>6. RoomInv'
  <2>1. Len(stack') <= capacity
    <3>1. capacity \in Nat
      BY DEF TypeInv
    <3> QED BY <3>1, TopFrame
  <2>2. Height' <= Window(Callable.function)'
    <3>1. Base' = Base /\ Callable'.function = Callable.function
      BY <1>1, <1>2, <1>4 DEF Base, Top, Callable
    <3> QED BY <3>1, TopFrame DEF Height, Window
  <2>3. \A i \in DOMAIN frames :
           frames'[i].slots.off + Window(FunctionOf(i)) <= capacity
    BY <1>1 DEF RoomInv
  <2>4. \A i, j \in DOMAIN frames : j = i + 1 =>
           frames'[j].slots.off < frames'[i].slots.off + Window(FunctionOf(i))
    BY <1>1 DEF RoomInv
  <2> QED BY <1>1, <1>3, <2>1, <2>2, <2>3, <2>4 DEF RoomInv, Window
<1> QED BY <1>5, <1>6

\* The list is right if it and what it points to do not change and no
\* variable it points to goes.
LEMMA OpenKept ==
  ASSUME IInv, frames # <<>>, NEW n \in Nat,
         frames' = [frames EXCEPT ![Len(frames)].nlocals = n],
         UNCHANGED <<buf, open, upvalues>>, status' # "error",
         \A k \in DOMAIN open : OpenOff(k) < Base + n
  PROVE  OpenInv'
<1> DEFINE L == Len(frames)
<1> USE DEF IInv
<1>1. /\ DOMAIN frames' = DOMAIN frames
      /\ \A i \in DOMAIN frames :
           /\ frames'[i].slots = frames[i].slots
           /\ frames'[i].nlocals = IF i = L THEN n ELSE frames[i].nlocals
  BY Resized
<1>2. OpenListSorted'
  BY DEF OpenInv, OpenListSorted, OpenOff
<1>3. OpenPointToVariables'
  <2>1. ASSUME NEW k \in DOMAIN open
        PROVE  \E i \in DOMAIN frames : OpenOff(k) \in Variables(i)'
    <3>1. PICK i \in DOMAIN frames : OpenOff(k) \in Variables(i)
      BY DEF OpenInv, OpenPointToVariables
    <3>2. /\ frames[i].slots.off \in Nat /\ frames[i].nlocals \in Nat
          /\ OpenOff(k) \in Nat
      BY FrameNumbers, OpenOnStack
    <3>3. CASE i = L
      BY <1>1, <3>1, <3>2, <3>3 DEF Variables, Base, Top
    <3>4. CASE i # L
      BY <1>1, <3>1, <3>4 DEF Variables
    <3> QED BY <3>3, <3>4
  <2> QED BY <1>1, <2>1 DEF OpenInv, OpenPointToVariables, OpenOff
<1>4. NoneLost'
  <2>1. status # "error"
    BY DEF ControlInv
  <2> QED BY <2>1 DEF OpenInv, NoneLost, OpenUpvalues
<1> QED BY <1>2, <1>3, <1>4 DEF OpenInv

\* Every open upvalue points below the variables of the innermost frame's end.
LEMMA OpenBelowTop ==
  ASSUME IInv, frames # <<>>, NEW k \in DOMAIN open
  PROVE  OpenOff(k) < Base + Top.nlocals
<1> USE DEF IInv
<1>1. PICK i \in DOMAIN frames : OpenOff(k) \in Variables(i)
  BY DEF OpenInv, OpenPointToVariables
<1>2. /\ frames[i].slots.off \in Nat /\ frames[i].nlocals \in Nat
      /\ OpenOff(k) \in Nat
  BY FrameNumbers, OpenOnStack
<1>3. CASE i = Len(frames)
  BY <1>1, <1>2, <1>3 DEF Variables, Base, Top
<1>4. CASE i # Len(frames)
  <2>1. i < Len(frames) /\ Len(frames) \in DOMAIN frames
    BY <1>4, FrameIndices, TopFrame
  <2>2. frames[i].slots.off + frames[i].nlocals <= Base
    BY <2>1 DEF PlacesInv, Base, Top
  <2>3. OpenOff(k) < frames[i].slots.off + frames[i].nlocals
    BY <1>1, <1>2 DEF Variables
  <2>4. Base \in Nat /\ Top.nlocals \in Nat
    BY TopNumbers
  <2> QED BY <1>2, <2>2, <2>3, <2>4
<1> QED BY <1>3, <1>4

LEMMA DeclarePreserves ==
  ASSUME IInv, Declare
  PROVE  IInv'
<1> USE DEF IInv
<1>1. frames # <<>> /\ status = "running"
  BY RunningHasFrame DEF Declare, Running
<1> DEFINE n == Top.nlocals + 1
<1>2. n \in Nat /\ Base + n <= Len(stack) /\ n >= 1 + Arity[Callable.function]
  <2>1. Len(stack) - Base = n
    BY DEF Declare, Height
  <2> QED BY <1>1, <2>1, TopNumbers
<1>3. /\ frames' = [frames EXCEPT ![Len(frames)].nlocals = n]
      /\ UNCHANGED <<stack, buf, capacity, open, upvalues, closures, global, status>>
  BY DEF Declare, Top
<1> HIDE DEF n
<1>4. PlacesInv' /\ RoomInv'
  BY <1>1, <1>2, <1>3, TopFrame, ResizedPlaces
<1>5. OpenInv'
  <2>1. \A k \in DOMAIN open : OpenOff(k) < Base + n
    BY <1>1, OpenBelowTop, OpenOnStack, TopFrame DEF n
  <2> QED BY <1>1, <1>2, <1>3, <2>1, OpenKept
<1>6. TypeInv'
  BY <1>1, <1>2, <1>3, Resized DEF TypeInv, Known
<1>7. ControlInv' /\ CapturingInv'
  BY <1>1, <1>2, <1>3, Resized DEF ControlInv, CapturingInv
<1> QED BY <1>4, <1>5, <1>6, <1>7

\* Pushing a closure may declare a variable at the same time: the innermost
\* frame then has n variables instead of one less.
LEMMA PushClosurePreserves ==
  ASSUME IInv, NEW f \in Functions, PushClosure(f), NEW n \in Nat,
         CanCapture(f, n),
         n = Top.nlocals \/ (n = Top.nlocals + 1 /\ Height = Top.nlocals),
         frames' = [frames EXCEPT ![Len(frames)].nlocals = n]
  PROVE  IInv'
<1> USE DEF IInv
<1>1. frames # <<>> /\ status = "running"
  BY RunningHasFrame DEF PushClosure, Running
<1>2. /\ closures' = Append(closures, [function |-> f, upvalues |-> <<>>])
      /\ UNCHANGED <<buf, capacity, open, upvalues, global>>
      /\ status' = IF Captures[f] = <<>> THEN "running" ELSE "capturing"
      /\ stack' = Append(stack, ClosureRef(Len(closures) + 1))
      /\ Len(stack) - Base < Window(Callable.function)
  BY DEF PushClosure, HasRoom, Height
<1>3. stack' \in Seq(Known') /\ Len(stack') = Len(stack) + 1
  <2>1. stack \in Seq(Known')
    BY <1>2, NewClosure, SeqMonotone DEF TypeInv
  <2>2. ClosureRef(Len(closures) + 1) \in Known'
    BY <1>2, NewClosure
  <2> QED BY <1>2, <2>1, <2>2, AppendProperties
<1>4. /\ n >= 1 + Arity[Callable.function]
      /\ Base + n <= Len(stack')
      /\ Len(stack') <= Base + Window(Callable.function)
      /\ Base + Top.nlocals <= Base + n
  <2>1. /\ Base \in Nat /\ Top.nlocals \in Nat /\ Len(stack) \in Nat
        /\ Window(Callable.function) \in Nat
        /\ Arity[Callable.function] \in Nat
        /\ Top.nlocals >= 1 + Arity[Callable.function]
        /\ Base + Top.nlocals <= Len(stack)
    BY <1>1, TopNumbers
  <2>2. CASE n = Top.nlocals
    <3>1. Base + n <= Len(stack')
      BY <1>3, <2>1, <2>2
    <3>2. Len(stack') <= Base + Window(Callable.function)
      BY <1>2, <1>3, <2>1
    <3> QED BY <2>1, <2>2, <3>1, <3>2
  <2>3. CASE n = Top.nlocals + 1 /\ Len(stack) - Base = Top.nlocals
    <3>1. Len(stack) = Base + Top.nlocals
      BY <2>1, <2>3
    <3>2. Len(stack') = Base + n
      BY <1>3, <2>1, <2>3, <3>1
    <3>3. Len(stack') <= Base + Window(Callable.function)
      BY <1>2, <1>3, <2>1
    <3>4. n >= 1 + Arity[Callable.function]
      BY <2>1, <2>3
    <3>5. Base + Top.nlocals <= Base + n /\ Base + n <= Len(stack')
      BY <2>1, <2>3, <3>2
    <3> QED BY <3>3, <3>4, <3>5
  <2> QED BY <2>2, <2>3 DEF Height
<1>5. PlacesInv' /\ RoomInv'
  <2>1. \A c \in DOMAIN closures : closures'[c].function = closures[c].function
    BY <1>2, NewClosure
  <2>2. Len(stack') \in Nat
    BY <1>1, <1>3, TopFrame
  <2> QED BY <1>1, <1>2, <1>4, <2>1, <2>2, ResizedPlaces
<1>6. OpenInv'
  <2>1. \A k \in DOMAIN open : OpenOff(k) < Base + n
    BY <1>1, <1>4, OpenBelowTop, OpenOnStack, TopFrame
  <2>2. status' # "error"
    BY <1>2
  <2> QED BY <1>1, <1>2, <2>1, <2>2, OpenKept
<1>7. TypeInv'
  <2>1. frames' \in Seq([closure : DOMAIN closures', slots : Pointer, nlocals : Nat])
    <3> DEFINE Live(c) == [closure : c, slots : Pointer, nlocals : Nat]
    <3>1. DOMAIN closures \subseteq DOMAIN closures'
      BY <1>2, NewClosure
    <3>2. Live(DOMAIN closures) \subseteq Live(DOMAIN closures')
      BY <3>1
    <3>3. frames' \in Seq(Live(DOMAIN closures))
      BY <1>1, Resized
    <3> HIDE DEF Live
    <3>4. frames' \in Seq(Live(DOMAIN closures'))
      BY <3>2, <3>3, SeqMonotone
    <3> QED BY <3>4 DEF Live
  <2>2. /\ upvalues' \in Seq([location : Pointer, closed : Known])
        /\ buf' \in Nat \ {0} /\ capacity' \in Nat
        /\ UNCHANGED <<open, global>> /\ DOMAIN upvalues' = DOMAIN upvalues
    BY <1>2 DEF TypeInv
  <2>3. status' \in Status
    BY <1>2 DEF Status
  <2> QED BY <1>2, <1>3, <2>1, <2>2, <2>3, NewClosureTypes
<1>8. ControlInv'
  BY <1>1, <1>2, Resized DEF ControlInv
<1>9. CapturingInv'
  <2> SUFFICES ASSUME status' = "capturing"
               PROVE  CapturingInv'
    BY DEF CapturingInv
  <2>1. Captures[f] # <<>> /\ Len(Captures[f]) \in Nat
    BY <1>2, FunctionsAssumption
  <2>2. Len(Captures[f]) > 0
    BY <2>1, FunctionsAssumption, EmptySeq
  <2>3. /\ New' = Len(closures) + 1 /\ closures' # <<>>
        /\ closures'[New'].function = f
        /\ closures'[New'].upvalues = <<>>
    BY <1>2, NewClosure DEF New
  <2>4. Top'.nlocals = n /\ Callable' = Callable
    <3>1. Len(frames) \in DOMAIN frames /\ Top.closure \in DOMAIN closures
      BY <1>1, TopFrame
    <3>2. Top'.nlocals = n /\ Top'.closure = Top.closure
      BY <1>1, <3>1, Resized DEF Top
    <3> QED BY <1>2, <3>1, <3>2, NewClosure DEF Callable
  <2>5. CanCapture(f, n)'
    BY <2>4 DEF CanCapture
  <2>6. CanCapture(closures[New].function, Top.nlocals)'
    BY <2>3, <2>4, <2>5 DEF CanCapture
  <2> QED BY <2>2, <2>3, <2>6 DEF CapturingInv
<1> QED BY <1>5, <1>6, <1>7, <1>8, <1>9

LEMMA MakeClosurePreserves ==
  ASSUME IInv, NEW f \in Functions, Running, MakeClosure(f) \/ DeclareFunction(f)
  PROVE  IInv'
<1>1. frames # <<>>
  BY RunningHasFrame
<1>2. /\ Len(frames) \in DOMAIN frames /\ Top.nlocals \in Nat
      /\ Top \in [closure : DOMAIN closures, slots : Pointer, nlocals : Nat]
  BY <1>1, TopFrame, FrameAt DEF Top, IInv
<1>3. CASE MakeClosure(f)
  <2>1. frames' = [frames EXCEPT ![Len(frames)].nlocals = Top.nlocals]
    <3>1. [frames[Len(frames)] EXCEPT !.nlocals = Top.nlocals] = frames[Len(frames)]
      BY <1>2 DEF Top
    <3>2. frames \in Seq([closure : DOMAIN closures, slots : Pointer, nlocals : Nat])
      BY DEF IInv, TypeInv
    <3> QED BY <1>2, <1>3, <3>1, <3>2 DEF MakeClosure
  <2> QED BY <1>2, <1>3, <2>1, PushClosurePreserves DEF MakeClosure
<1>4. CASE DeclareFunction(f)
  <2>1. frames' = [frames EXCEPT ![Len(frames)].nlocals = Top.nlocals + 1]
    BY <1>4 DEF DeclareFunction, Top
  <2>2. Top.nlocals + 1 \in Nat
    BY <1>2
  <2> QED BY <1>4, <2>1, <2>2, PushClosurePreserves DEF DeclareFunction
<1> QED BY <1>3, <1>4

\* The list after an element was inserted at position n.
IsInsertion(t, s, n, e, S) ==
  /\ t \in Seq(S)
  /\ DOMAIN t = 1..(Len(s) + 1)
  /\ \A i \in 1..(Len(s) + 1) :
       /\ i < n => t[i] = s[i]
       /\ i = n => t[i] = e
       /\ i > n => t[i] = s[i - 1]

LEMMA Inserted ==
  ASSUME NEW S, NEW s \in Seq(S), NEW e \in S, NEW n \in 1..(Len(s) + 1),
         NEW t, t = InsertAt(s, n, e)
  PROVE  IsInsertion(t, s, n, e, S)
<1> DEFINE a == SubSeq(s, 1, n - 1)
           b == SubSeq(s, n, Len(s))
           c == a \o <<e>>
<1>1. t = c \o b /\ Len(s) \in Nat
  BY DEF InsertAt
<1>2. /\ a \in Seq(S) /\ Len(a) = n - 1
      /\ \A i \in 1..(n - 1) : a[i] = s[i]
  OBVIOUS
<1>3. /\ b \in Seq(S) /\ Len(b) = Len(s) - (n - 1)
      /\ \A i \in 1..(Len(s) - (n - 1)) : b[i] = s[(n - 1) + i]
  OBVIOUS
<1>4. /\ c \in Seq(S) /\ Len(c) = n
      /\ \A i \in 1..n : c[i] = IF i < n THEN s[i] ELSE e
  <2> HIDE DEF a
  <2> QED BY <1>2
<1> HIDE DEF b, c
<1>5. /\ t \in Seq(S) /\ Len(t) = Len(c) + Len(b)
      /\ \A i \in 1..(Len(c) + Len(b)) :
            t[i] = IF i <= Len(c) THEN c[i] ELSE b[i - Len(c)]
  <2>1. /\ c \o b \in Seq(S) /\ Len(c \o b) = Len(c) + Len(b)
        /\ \A i \in 1..(Len(c) + Len(b)) :
              (c \o b)[i] = IF i <= Len(c) THEN c[i] ELSE b[i - Len(c)]
    BY <1>3, <1>4, ConcatProperties
  <2> QED BY <1>1, <2>1
<1>6. Len(c) + Len(b) = Len(s) + 1
  BY <1>1, <1>3, <1>4
<1>7. DOMAIN t = 1..(Len(s) + 1)
  BY <1>5, <1>6
<1>8. ASSUME NEW i \in 1..(Len(s) + 1)
      PROVE  /\ i < n => t[i] = s[i]
             /\ i = n => t[i] = e
             /\ i > n => t[i] = s[i - 1]
  <2>1. t[i] = IF i <= n THEN c[i] ELSE b[i - n]
    BY <1>4, <1>5, <1>6
  <2>2. i <= n => c[i] = IF i < n THEN s[i] ELSE e
    BY <1>1, <1>4
  <2>3. ASSUME i > n PROVE b[i - n] = s[i - 1]
    <3>1. i - n \in 1..(Len(s) - (n - 1)) /\ (n - 1) + (i - n) = i - 1
      BY <1>1, <2>3
    <3> QED BY <1>3, <3>1
  <2> QED BY <1>1, <2>1, <2>2, <2>3
<1> QED BY <1>5, <1>7, <1>8 DEF IsInsertion

LEMMA CaptureAt ==
  ASSUME NEW f \in Functions, NEW i \in DOMAIN Captures[f]
  PROVE  /\ Captures[f][i].index \in Nat
         /\ Captures[f][i].is_local \in BOOLEAN
<1> DEFINE Operand == [is_local : BOOLEAN, index : Nat]
<1>1. Captures[f] \in Seq(Operand) /\ i \in 1..Len(Captures[f])
  BY FunctionsAssumption
<1> HIDE DEF Operand
<1>2. Captures[f][i] \in Operand
  BY <1>1, ElementOfSeq
<1> QED BY <1>2 DEF Operand

\* What do_closure does with the upvalue it has found or made.
LEMMA CapturedUpvalue ==
  ASSUME TypeInv, ControlInv, CapturingInv, status = "capturing",
         NEW u \in DOMAIN upvalues', Captured(u),
         DOMAIN upvalues \subseteq DOMAIN upvalues'
  PROVE  /\ closures' \in Seq([function : Functions,
                               upvalues : Seq(DOMAIN upvalues')])
         /\ DOMAIN closures' = DOMAIN closures
         /\ \A c \in DOMAIN closures :
              /\ closures'[c].function = closures[c].function
              /\ Len(closures'[c].upvalues) >= Len(closures[c].upvalues)
         /\ CapturingInv'
         /\ status' \in {"running", "capturing"}
         /\ UNCHANGED <<stack, buf, capacity, frames, global>>
<1> DEFINE Live == [function : Functions, upvalues : Seq(DOMAIN upvalues)]
           Live2 == [function : Functions, upvalues : Seq(DOMAIN upvalues')]
           more == Append(closures[New].upvalues, u)
           new == [closures[New] EXCEPT !.upvalues = more]
<1>1. closures \in Seq(Live) /\ New \in 1..Len(closures)
      /\ New \in DOMAIN closures
  BY EmptySeq DEF TypeInv, CapturingInv, New
<1>2. /\ closures[New].function \in Functions
      /\ closures[New].upvalues \in Seq(DOMAIN upvalues')
      /\ closures[New] \in Live
  BY <1>1, ClosureAt, SeqMonotone
<1>3. more \in Seq(DOMAIN upvalues') /\ Len(more) = Len(closures[New].upvalues) + 1
  BY <1>2, AppendProperties
<1>4. /\ new \in Live2
      /\ new.function = closures[New].function
      /\ new.upvalues = more
  BY <1>2, <1>3
<1>5. closures \in Seq(Live2)
  <2>1. Seq(DOMAIN upvalues) \subseteq Seq(DOMAIN upvalues')
    BY SeqMonotone
  <2>2. Live \subseteq Live2
    BY <2>1
  <2> HIDE DEF Live, Live2
  <2> QED BY <1>1, <2>2, SeqMonotone
<1>6. closures' = [closures EXCEPT ![New] = new]
  BY DEF Captured
<1> HIDE DEF Live, Live2, new, more
<1>7. /\ closures' \in Seq(Live2)
      /\ Len(closures') = Len(closures)
      /\ \A c \in 1..Len(closures) :
            closures'[c] = IF c = New THEN new ELSE closures[c]
  BY <1>1, <1>4, <1>5, <1>6, ExceptSeq
<1>8. /\ DOMAIN closures' = DOMAIN closures
      /\ DOMAIN closures = 1..Len(closures)
  BY <1>5, <1>7
<1>9. ASSUME NEW c \in DOMAIN closures
      PROVE  /\ closures'[c].function = closures[c].function
             /\ Len(closures'[c].upvalues) >= Len(closures[c].upvalues)
  <2>1. CASE c = New
    BY <1>2, <1>3, <1>4, <1>7, <1>8, <2>1
  <2>2. CASE c # New
    <3>1. Len(closures[c].upvalues) \in Nat
      BY ClosureAt
    <3> QED BY <1>7, <1>8, <2>2, <3>1
  <2> QED BY <2>1, <2>2
<1>10. UNCHANGED <<stack, buf, capacity, frames, global>>
  BY DEF Captured
<1>11. /\ status' \in {"running", "capturing"}
       /\ status' = "capturing" =>
             Len(more) # Len(Captures[closures[New].function])
  BY <1>3 DEF Captured
<1>12. CapturingInv'
  <2> SUFFICES ASSUME status' = "capturing" PROVE CapturingInv'
    BY DEF CapturingInv
  <2>1. /\ New' = New /\ closures'[New].upvalues = more
        /\ closures'[New].function = closures[New].function
    BY <1>1, <1>4, <1>7 DEF New
  <2>2. Len(Captures[closures[New].function]) \in Nat
    BY <1>2, FunctionsAssumption
  <2>3. Len(more) < Len(Captures[closures[New].function])
    BY <1>2, <1>3, <1>11, <2>2 DEF CapturingInv
  <2>4. closures' # <<>>
    BY <1>1, <1>7, <1>8
  <2>5. CanCapture(closures[New].function, Top.nlocals)
    BY DEF CapturingInv
  <2>6. /\ Top' = Top
        /\ Len(Callable'.upvalues) >= Len(Callable.upvalues)
        /\ Len(Callable'.upvalues) \in Nat /\ Len(Callable.upvalues) \in Nat
    <3>1. Top' = Top /\ Top.closure \in DOMAIN closures
      BY <1>10, FrameAt, FrameIndices, EmptySeq DEF Top, ControlInv
    <3>2. Callable'.upvalues = closures'[Top.closure].upvalues
      BY <3>1 DEF Callable
    <3>3. closures'[Top.closure] \in Live2 /\ Len(closures[Top.closure].upvalues) \in Nat
      BY <1>7, <1>8, <3>1, ElementOfSeq, ClosureAt
    <3>4. Len(closures'[Top.closure].upvalues) \in Nat
      BY <3>3 DEF Live2
    <3> QED BY <1>9, <3>1, <3>2, <3>3, <3>4 DEF Callable
  <2>7. CanCapture(closures[New].function, Top.nlocals)'
    BY <1>2, <2>1, <2>5, <2>6, CaptureAt DEF CanCapture
  <2> QED BY <2>1, <2>3, <2>4, <2>7 DEF CapturingInv
<1> QED BY <1>7, <1>8, <1>9, <1>10, <1>11, <1>12 DEF Live2

\* Nothing moves while a closure is filled in.
LEMMA CapturedPlaces ==
  ASSUME IInv, UNCHANGED <<stack, buf, capacity, frames>>, frames # <<>>,
         \A c \in DOMAIN closures : closures'[c].function = closures[c].function
  PROVE  PlacesInv' /\ RoomInv'
<1> USE DEF IInv
<1>1. \A i \in DOMAIN frames : frames[i].closure \in DOMAIN closures
  BY FrameNumbers
<1>2. \A i \in DOMAIN frames : FunctionOf(i)' = FunctionOf(i)
  BY <1>1 DEF FunctionOf
<1>3. PlacesInv'
  BY <1>2 DEF PlacesInv
<1>4. Height' = Height /\ Callable'.function = Callable.function
  BY TopFrame DEF Height, Base, Top, Callable
<1>5. RoomInv'
  BY <1>2, <1>4 DEF RoomInv, Window
<1> QED BY <1>3, <1>5

LEMMA CaptureEnclosingPreserves ==
  ASSUME IInv, CaptureEnclosing
  PROVE  IInv'
<1> USE DEF IInv
<1> DEFINE u == Callable.upvalues[NextCapture.index + 1]
<1>1. frames # <<>> /\ status = "capturing" /\ Captured(u)
      /\ UNCHANGED <<open, upvalues>>
  BY DEF CaptureEnclosing, ControlInv
<1>2. u \in DOMAIN upvalues
  <2> DEFINE f == closures[New].function
             i == Len(closures[New].upvalues) + 1
  <2>1. New \in DOMAIN closures /\ f \in Functions /\ i \in Nat \ {0}
        /\ i <= Len(Captures[f])
    <3>1. New \in DOMAIN closures
      BY <1>1, EmptySeq DEF TypeInv, CapturingInv, New
    <3>2. closures[New] \in [function : Functions, upvalues : Seq(DOMAIN upvalues)]
      BY <3>1, ClosureAt
    <3>3. Len(closures[New].upvalues) \in Nat /\ f \in Functions
      BY <3>2
    <3>4. Len(Captures[f]) \in Nat
      BY <3>3, FunctionsAssumption
    <3> QED BY <1>1, <3>1, <3>3, <3>4 DEF CapturingInv
  <2>2. i \in DOMAIN Captures[f]
    BY <2>1, FunctionsAssumption
  <2>3. NextCapture = Captures[f][i] /\ ~NextCapture.is_local
    BY DEF NextCapture, CaptureEnclosing
  <2> HIDE DEF f, i
  <2>4. NextCapture.index \in Nat /\ NextCapture.index < Len(Callable.upvalues)
    BY <1>1, <2>1, <2>2, <2>3, CaptureAt DEF CapturingInv, CanCapture, f
  <2>5. NextCapture.index + 1 \in DOMAIN Callable.upvalues
    <3>1. Callable.upvalues \in Seq(DOMAIN upvalues)
      BY <1>1, TopFrame
    <3> QED BY <2>4, <3>1
  <2> QED BY <1>1, <2>5, CallableUpvalue
<1> HIDE DEF u
<1>3. /\ closures' \in Seq([function : Functions, upvalues : Seq(DOMAIN upvalues')])
      /\ DOMAIN closures' = DOMAIN closures
      /\ \A c \in DOMAIN closures : closures'[c].function = closures[c].function
      /\ CapturingInv'
      /\ status' \in {"running", "capturing"}
      /\ UNCHANGED <<stack, buf, capacity, frames, global>>
  BY <1>1, <1>2, CapturedUpvalue
<1>4. TypeInv'
  BY <1>1, <1>3 DEF TypeInv, Known, Status
<1>5. ControlInv'
  BY <1>1, <1>3 DEF ControlInv
<1>6. PlacesInv' /\ RoomInv'
  BY <1>1, <1>3, CapturedPlaces
<1>7. OpenInv'
  <2>1. OpenListSorted'
    BY <1>1 DEF OpenInv, OpenListSorted, OpenOff
  <2>2. OpenPointToVariables'
    BY <1>1, <1>3 DEF OpenInv, OpenPointToVariables, OpenOff, Variables
  <2>3. NoneLost'
    BY <1>1, <1>3 DEF OpenInv, NoneLost, OpenUpvalues
  <2> QED BY <2>1, <2>2, <2>3 DEF OpenInv
<1> QED BY <1>3, <1>4, <1>5, <1>6, <1>7

\* The variable a closure is about to capture is one of its maker's.
LEMMA CaptureLocalSlot ==
  ASSUME IInv, status = "capturing", NextCapture.is_local
  PROVE  /\ NextCapture.index \in 1..(Top.nlocals - 1)
         /\ Base + NextCapture.index \in Nat
         /\ Base + NextCapture.index \in Variables(Len(frames))
<1> USE DEF IInv
<1> DEFINE f == closures[New].function
           i == Len(closures[New].upvalues) + 1
<1>1. frames # <<>>
  BY DEF ControlInv
<1>2. New \in DOMAIN closures
  BY EmptySeq DEF TypeInv, CapturingInv, New
<1>3. closures[New] \in [function : Functions, upvalues : Seq(DOMAIN upvalues)]
  BY <1>2, ClosureAt
<1>4. Len(closures[New].upvalues) \in Nat /\ f \in Functions
  BY <1>3
<1>5. Len(Captures[f]) \in Nat /\ DOMAIN Captures[f] = 1..Len(Captures[f])
  BY <1>4, FunctionsAssumption
<1>6. i \in DOMAIN Captures[f]
  BY <1>4, <1>5 DEF CapturingInv
<1>7. NextCapture = Captures[f][i]
  BY DEF NextCapture
<1> HIDE DEF i, f
<1>8. NextCapture.index \in 1..(Top.nlocals - 1)
  BY <1>6, <1>7 DEF CapturingInv, CanCapture, f
<1> QED BY <1>1, <1>8, TopFrame DEF Variables, Base, Top

\* A new upvalue for the variable at off, inserted where the walk has ended.
LEMMA InsertedUpvalue ==
  ASSUME IInv, frames # <<>>, NEW off \in Nat, NEW k \in 0..Len(open),
         off \in Variables(Len(frames)),
         WalkAbove(off, k), ~(k < Len(open) /\ OpenOff(k + 1) = off),
         upvalues' = Append(upvalues, [location |-> Slot(off), closed |-> None]),
         open' = InsertAt(open, k + 1, Len(upvalues) + 1),
         UNCHANGED <<frames, buf, stack>>, status' # "error"
  PROVE  /\ upvalues' \in Seq([location : Pointer, closed : Known])
         /\ DOMAIN upvalues' = 1..(Len(upvalues) + 1)
         /\ DOMAIN upvalues \subseteq DOMAIN upvalues'
         /\ open' \in Seq(DOMAIN upvalues')
         /\ OpenInv'
<1> USE DEF IInv
<1> DEFINE Live == [location : Pointer, closed : Known]
           new == [location |-> Slot(off), closed |-> None]
           U == Len(upvalues) + 1
<1>1. upvalues \in Seq(Live) /\ new \in Live /\ Len(upvalues) \in Nat
      /\ DOMAIN upvalues = 1..Len(upvalues)
  BY DEF TypeInv, Slot, Pointer, Known, Atoms
<1>2. new.location.off = off /\ new.location.block = buf
  BY DEF Slot
<1> HIDE DEF Live, new
<1>3. /\ upvalues' \in Seq(Live)
      /\ DOMAIN upvalues' = 1..U
      /\ upvalues'[U] = new
      /\ \A u \in DOMAIN upvalues : upvalues'[u] = upvalues[u]
  <2>1. upvalues' = Append(upvalues, new)
    BY DEF new
  <2> QED BY <1>1, <2>1, AppendProperties
<1>4. DOMAIN upvalues \subseteq DOMAIN upvalues' /\ U \in DOMAIN upvalues'
      /\ U \notin DOMAIN upvalues
  BY <1>1, <1>3
<1>5. open \in Seq(DOMAIN upvalues) /\ open \in Seq(DOMAIN upvalues')
      /\ Len(open) \in Nat /\ DOMAIN open = 1..Len(open)
  BY <1>4, SeqMonotone DEF TypeInv
<1>6. /\ open' \in Seq(DOMAIN upvalues')
      /\ DOMAIN open' = 1..(Len(open) + 1)
      /\ \A j \in 1..(Len(open) + 1) :
           /\ j <= k => open'[j] = open[j]
           /\ j = k + 1 => open'[j] = U
           /\ j > k + 1 => open'[j] = open[j - 1]
  <2> DEFINE n == k + 1
             D == DOMAIN upvalues'
             list == open'
  <2>1. n \in 1..(Len(open) + 1) /\ list = InsertAt(open, n, U)
    BY <1>5
  <2>2. open \in Seq(D) /\ U \in D
    BY <1>4, <1>5
  <2> HIDE DEF U, n, D, list
  <2>3. IsInsertion(list, open, n, U, D)
    BY <2>1, <2>2, Inserted
  <2>4. \A j \in 1..(Len(open) + 1) : j <= k <=> j < n
    BY <1>5 DEF n
  <2> QED BY <2>3, <2>4 DEF n, D, list, IsInsertion
<1> HIDE DEF U
<1>7. ASSUME NEW j \in DOMAIN open
      PROVE  /\ open[j] \in DOMAIN upvalues /\ OpenOff(j) \in Nat
             /\ upvalues'[open[j]] = upvalues[open[j]]
  BY <1>3, OpenOnStack
<1>8. ASSUME NEW j \in 1..(Len(open) + 1)
      PROVE  /\ j <= k => /\ j \in DOMAIN open
                          /\ OpenOff(j)' = OpenOff(j)
                          /\ upvalues'[open'[j]] = upvalues[open[j]]
             /\ j = k + 1 => /\ OpenOff(j)' = off
                             /\ upvalues'[open'[j]] = new
             /\ j > k + 1 => /\ j - 1 \in DOMAIN open
                             /\ OpenOff(j)' = OpenOff(j - 1)
                             /\ upvalues'[open'[j]] = upvalues[open[j - 1]]
  <2>1. (j <= k => j \in DOMAIN open) /\ (j > k + 1 => j - 1 \in DOMAIN open)
    BY <1>5
  <2>2. ASSUME j <= k
        PROVE  upvalues'[open'[j]] = upvalues[open[j]]
    BY <1>6, <1>7, <2>1, <2>2
  <2>3. ASSUME j = k + 1
        PROVE  upvalues'[open'[j]] = new
    BY <1>3, <1>6, <2>3
  <2>4. ASSUME j > k + 1
        PROVE  upvalues'[open'[j]] = upvalues[open[j - 1]]
    BY <1>6, <1>7, <2>1, <2>4
  <2> QED BY <1>2, <2>1, <2>2, <2>3, <2>4 DEF OpenOff
<1>9. OpenListSorted'
  <2>1. \A j \in 1..k : OpenOff(j) > off
    BY DEF WalkAbove
  <2>2. ASSUME NEW j \in DOMAIN open, j > k
        PROVE  OpenOff(j) < off
    <3>1. k + 1 \in DOMAIN open /\ k < Len(open)
      BY <1>5, <2>2
    <3>2. OpenOff(k + 1) < off
      BY <1>7, <3>1 DEF WalkAbove
    <3>3. CASE j = k + 1
      BY <3>2, <3>3
    <3>4. CASE j > k + 1
      <4>1. OpenOff(j) < OpenOff(k + 1)
        BY <3>1, <3>4 DEF OpenInv, OpenListSorted
      <4> QED BY <1>7, <3>1, <3>2, <4>1
    <3>5. j = k + 1 \/ j > k + 1
      BY <1>5, <2>2
    <3> QED BY <3>3, <3>4, <3>5
  <2>3. ASSUME NEW i \in 1..(Len(open) + 1), NEW j \in 1..(Len(open) + 1), i < j
        PROVE  OpenOff(i)' > OpenOff(j)'
    <3>1. CASE i <= k /\ j <= k
      BY <1>8, <2>3, <3>1 DEF OpenInv, OpenListSorted
    <3>2. CASE i <= k /\ j = k + 1
      BY <1>8, <2>1, <3>2
    <3>3. CASE i <= k /\ j > k + 1
      <4>1. i < j - 1 /\ i \in DOMAIN open /\ j - 1 \in DOMAIN open
        BY <1>8, <3>3
      <4> QED BY <1>8, <3>3, <4>1 DEF OpenInv, OpenListSorted
    <3>4. CASE i = k + 1 /\ j > k + 1
      <4>1. j - 1 \in DOMAIN open /\ j - 1 > k
        BY <1>8, <3>4
      <4> QED BY <1>8, <2>2, <3>4, <4>1
    <3>5. CASE i > k + 1 /\ j > k + 1
      <4>1. i - 1 < j - 1 /\ i - 1 \in DOMAIN open /\ j - 1 \in DOMAIN open
        BY <1>8, <2>3, <3>5
      <4> QED BY <1>8, <3>5, <4>1 DEF OpenInv, OpenListSorted
    <3> QED BY <2>3, <3>1, <3>2, <3>3, <3>4, <3>5
  <2> QED BY <1>6, <2>3 DEF OpenListSorted
<1>10. OpenPointToVariables'
  <2>1. ASSUME NEW j \in 1..(Len(open) + 1)
        PROVE  /\ upvalues'[open'[j]].location.block = buf
               /\ \E i \in DOMAIN frames : OpenOff(j)' \in Variables(i)
    <3>1. CASE j <= k
      <4>1. /\ j \in DOMAIN open
            /\ OpenOff(j)' = OpenOff(j)
            /\ upvalues'[open'[j]] = upvalues[open[j]]
        BY <1>8, <3>1
      <4> QED BY <4>1 DEF OpenInv, OpenPointToVariables
    <3>2. CASE j = k + 1
      <4>1. OpenOff(j)' = off /\ upvalues'[open'[j]] = new
        BY <1>5, <1>8, <3>2
      <4> QED BY <1>2, <4>1, TopFrame
    <3>3. CASE j > k + 1
      <4>1. /\ j - 1 \in DOMAIN open /\ OpenOff(j)' = OpenOff(j - 1)
            /\ upvalues'[open'[j]] = upvalues[open[j - 1]]
        BY <1>5, <1>8, <3>3
      <4> QED BY <4>1 DEF OpenInv, OpenPointToVariables
    <3>4. j <= k \/ j = k + 1 \/ j > k + 1
      BY <1>5
    <3> QED BY <3>1, <3>2, <3>3, <3>4
  <2> QED BY <1>6, <2>1 DEF OpenPointToVariables, Variables
<1>11. NoneLost'
  <2>1. status # "error"
    BY DEF ControlInv
  <2>2. ASSUME NEW u \in DOMAIN upvalues, u \in OpenUpvalues
        PROVE  u \in OpenUpvalues'
    <3>1. PICK j \in DOMAIN open : open[j] = u
      BY <2>2 DEF OpenUpvalues
    <3>2. CASE j <= k
      <4>1. j \in 1..(Len(open) + 1)
        BY <1>5
      <4>2. j \in DOMAIN open' /\ open'[j] = u
        BY <1>6, <3>1, <3>2, <4>1
      <4> QED BY <4>2 DEF OpenUpvalues
    <3>3. CASE j > k
      <4>1. j + 1 \in 1..(Len(open) + 1) /\ j + 1 > k + 1 /\ (j + 1) - 1 = j
        BY <1>5, <3>3
      <4>2. open'[j + 1] = open[j]
        BY <1>5, <1>6, <4>1
      <4> QED BY <1>6, <3>1, <4>1, <4>2 DEF OpenUpvalues
    <3> QED BY <1>5, <3>2, <3>3
  <2>3. ASSUME NEW u \in DOMAIN upvalues, u \in OpenUpvalues'
        PROVE  u \in OpenUpvalues
    <3>1. PICK j \in 1..(Len(open) + 1) : open'[j] = u
      BY <1>6, <2>3 DEF OpenUpvalues
    <3>2. CASE j <= k
      BY <1>6, <1>8, <3>1, <3>2 DEF OpenUpvalues
    <3>3. CASE j > k + 1
      BY <1>6, <1>8, <3>1, <3>3 DEF OpenUpvalues
    <3>4. j # k + 1
      BY <1>4, <1>6, <3>1
    <3> QED BY <3>2, <3>3, <3>4
  <2>4. U \in OpenUpvalues'
    <3>1. k + 1 \in 1..(Len(open) + 1)
      BY <1>5
    <3>2. k + 1 \in DOMAIN open' /\ open'[k + 1] = U
      BY <1>6, <3>1
    <3> QED BY <3>2 DEF OpenUpvalues
  <2>5. upvalues'[U].location.block # Own
    BY <1>2, <1>3 DEF TypeInv, Own
  <2>6. ASSUME NEW u \in DOMAIN upvalues'
        PROVE  u \in OpenUpvalues' <=> upvalues'[u].location.block # Own
    <3>1. CASE u = U
      BY <2>4, <2>5, <3>1
    <3>2. CASE u # U
      <4>1. u \in DOMAIN upvalues
        BY <1>1, <1>3, <3>2 DEF U
      <4> QED BY <1>3, <2>1, <2>2, <2>3, <4>1 DEF OpenInv, NoneLost
    <3> QED BY <3>1, <3>2
  <2> QED BY <2>6 DEF NoneLost, Own
<1> QED BY <1>3, <1>4, <1>6, <1>9, <1>10, <1>11 DEF OpenInv, Live, U

LEMMA CaptureLocalPreserves ==
  ASSUME IInv, CaptureLocal
  PROVE  IInv'
<1> USE DEF IInv
<1> DEFINE off == Base + NextCapture.index
           U == Len(upvalues) + 1
<1>1. frames # <<>> /\ status = "capturing" /\ NextCapture.is_local
  BY DEF CaptureLocal, ControlInv
<1>2. off \in Nat /\ off \in Variables(Len(frames))
  BY <1>1, CaptureLocalSlot
<1>3. PICK k \in 0..Len(open) :
        /\ WalkAbove(off, k)
        /\ IF k < Len(open) /\ OpenOff(k + 1) = off
           THEN /\ Captured(open[k + 1])
                /\ UNCHANGED <<open, upvalues>>
           ELSE /\ Len(upvalues) < MaxUpvalues
                /\ upvalues' = Append(upvalues, [location |-> Slot(off),
                                                 closed |-> None])
                /\ open' = InsertAt(open, k + 1, U)
                /\ Captured(U)
  BY DEF CaptureLocal
<1>4. \E u \in DOMAIN upvalues' : Captured(u) /\ DOMAIN upvalues \subseteq DOMAIN upvalues'
  <2>1. CASE k < Len(open) /\ OpenOff(k + 1) = off
    <3>1. k + 1 \in DOMAIN open
      BY <2>1 DEF TypeInv
    <3>2. open[k + 1] \in DOMAIN upvalues
      BY <3>1, OpenOnStack
    <3> QED BY <1>3, <2>1, <3>2
  <2>2. CASE ~(k < Len(open) /\ OpenOff(k + 1) = off)
    <3>1. /\ upvalues \in Seq([location : Pointer, closed : Known])
          /\ [location |-> Slot(off), closed |-> None]
               \in [location : Pointer, closed : Known]
      BY <1>2 DEF TypeInv, Slot, Pointer, Known, Atoms
    <3>2. U \in DOMAIN upvalues' /\ DOMAIN upvalues \subseteq DOMAIN upvalues'
      BY <1>3, <2>2, <3>1, AppendProperties
    <3> QED BY <1>3, <2>2, <3>2
  <2> QED BY <2>1, <2>2
<1>5. /\ closures' \in Seq([function : Functions, upvalues : Seq(DOMAIN upvalues')])
      /\ DOMAIN closures' = DOMAIN closures
      /\ \A c \in DOMAIN closures : closures'[c].function = closures[c].function
      /\ CapturingInv'
      /\ status' \in {"running", "capturing"}
      /\ UNCHANGED <<stack, buf, capacity, frames, global>>
  BY <1>1, <1>4, CapturedUpvalue
<1>6. /\ upvalues' \in Seq([location : Pointer, closed : Known])
      /\ open' \in Seq(DOMAIN upvalues')
      /\ OpenInv'
  <2>1. CASE k < Len(open) /\ OpenOff(k + 1) = off
    <3>1. UNCHANGED <<open, upvalues>>
      BY <1>3, <2>1
    <3>2. OpenListSorted'
      BY <3>1 DEF OpenInv, OpenListSorted, OpenOff
    <3>3. OpenPointToVariables'
      BY <1>5, <3>1 DEF OpenInv, OpenPointToVariables, OpenOff, Variables
    <3>4. NoneLost'
      BY <1>1, <1>5, <3>1 DEF OpenInv, NoneLost, OpenUpvalues
    <3> QED BY <3>1, <3>2, <3>3, <3>4 DEF OpenInv, TypeInv
  <2>2. CASE ~(k < Len(open) /\ OpenOff(k + 1) = off)
    <3>1. /\ upvalues' = Append(upvalues, [location |-> Slot(off),
                                           closed |-> None])
          /\ open' = InsertAt(open, k + 1, Len(upvalues) + 1)
      BY <1>3, <2>2
    <3>2. UNCHANGED <<frames, buf, stack>> /\ status' # "error"
      BY <1>5
    <3> HIDE DEF off
    <3> QED BY <1>1, <1>2, <1>3, <2>2, <3>1, <3>2, InsertedUpvalue
  <2> QED BY <2>1, <2>2
<1>7. TypeInv'
  BY <1>5, <1>6 DEF TypeInv, Known, Status
<1>8. ControlInv'
  BY <1>1, <1>5 DEF ControlInv
<1>9. PlacesInv' /\ RoomInv'
  BY <1>1, <1>5, CapturedPlaces
<1> QED BY <1>5, <1>6, <1>7, <1>8, <1>9

-----------------------------------------------------------------------------
(***************************************************************************)
(* Leaving a scope.                                                        *)
(***************************************************************************)
\* The upvalues at or above last are closed, the others stay in the list.
LEMMA Closed ==
  ASSUME IInv, frames # <<>>, NEW last \in Nat, CloseUpvalues(last),
         status' # "error"
  PROVE  /\ upvalues' \in Seq([location : Pointer, closed : Known])
         /\ DOMAIN upvalues' = DOMAIN upvalues
         /\ open' \in Seq(DOMAIN upvalues)
         /\ \A j \in DOMAIN open' :
              \E i \in DOMAIN open : /\ open'[j] = open[i]
                                     /\ OpenOff(j)' = OpenOff(i)
                                     /\ upvalues'[open'[j]] = upvalues[open[i]]
                                     /\ OpenOff(i) < last
         /\ OpenListSorted'
         /\ NoneLost'
<1> USE DEF IInv
<1> DEFINE Live == [location : Pointer, closed : Known]
<1>1. PICK k \in 0..Len(open) :
        /\ WalkFrom(last, k)
        /\ upvalues' = [u \in DOMAIN upvalues |->
             IF \E j \in 1..k : open[j] = u
             THEN [location |-> [block |-> Own, off |-> 0],
                   closed   |-> stack[upvalues[u].location.off + 1]]
             ELSE upvalues[u]]
        /\ open' = SubSeq(open, k + 1, Len(open))
  BY DEF CloseUpvalues
<1>2. open \in Seq(DOMAIN upvalues) /\ Len(open) \in Nat
      /\ DOMAIN open = 1..Len(open)
  BY DEF TypeInv
<1>3. /\ open' \in Seq(DOMAIN upvalues)
      /\ DOMAIN open' = 1..(Len(open) - k)
      /\ \A j \in 1..(Len(open) - k) : open'[j] = open[k + j]
  BY <1>1, <1>2, SubSeqProperties
<1>4. \A i, j \in DOMAIN open : open[i] = open[j] => i = j
  <2> SUFFICES ASSUME NEW i \in DOMAIN open, NEW j \in DOMAIN open, i < j
               PROVE  open[i] # open[j]
    BY <1>2
  <2>1. OpenOff(i) > OpenOff(j) /\ OpenOff(i) \in Nat /\ OpenOff(j) \in Nat
    BY OpenOnStack DEF OpenInv, OpenListSorted
  <2> QED BY <2>1 DEF OpenOff
<1>5. ASSUME NEW j \in 1..(Len(open) - k)
      PROVE  /\ k + j \in DOMAIN open
             /\ open'[j] = open[k + j]
             /\ upvalues'[open'[j]] = upvalues[open[k + j]]
             /\ OpenOff(j)' = OpenOff(k + j)
             /\ OpenOff(k + j) < last
  <2>1. k + j \in DOMAIN open /\ open'[j] = open[k + j]
    BY <1>2, <1>3
  <2>2. open[k + j] \in DOMAIN upvalues
    BY <2>1, OpenOnStack
  <2>3. ~ \E i \in 1..k : open[i] = open[k + j]
    <3>1. \A i \in 1..k : i \in DOMAIN open /\ i # k + j
      BY <1>2
    <3> QED BY <1>4, <2>1, <3>1
  <2>4. upvalues'[open'[j]] = upvalues[open[k + j]]
    BY <1>1, <2>1, <2>2, <2>3
  <2>5. OpenOff(j)' = OpenOff(k + j)
    BY <2>4 DEF OpenOff
  <2>6. OpenOff(k + j) < last
    <3>1. k + 1 \in DOMAIN open /\ k < Len(open)
      BY <1>2
    <3>2. OpenOff(k + 1) < last
      BY <1>1, <3>1 DEF WalkFrom
    <3>3. CASE j = 1
      BY <3>2, <3>3
    <3>4. CASE j # 1
      <4>1. k + 1 < k + j
        BY <3>4
      <4>2. OpenOff(k + 1) > OpenOff(k + j)
        BY <2>1, <3>1, <4>1 DEF OpenInv, OpenListSorted
      <4>3. OpenOff(k + 1) \in Nat /\ OpenOff(k + j) \in Nat
        BY <2>1, <3>1, OpenOnStack
      <4> QED BY <3>2, <4>2, <4>3
    <3> QED BY <3>3, <3>4
  <2> QED BY <2>1, <2>4, <2>5, <2>6
<1>6. upvalues' \in Seq(Live) /\ DOMAIN upvalues' = DOMAIN upvalues
  <2>1. DOMAIN upvalues' = DOMAIN upvalues
    BY <1>1
  <2>2. ASSUME NEW u \in DOMAIN upvalues
        PROVE  upvalues'[u] \in Live
    <3>1. CASE \E j \in 1..k : open[j] = u
      <4>1. PICK j \in 1..k : open[j] = u
        BY <3>1
      <4>2. j \in DOMAIN open
        BY <1>2
      <4>3. upvalues[u].location.off + 1 \in 1..Len(stack)
        <5>1. OpenOff(j) \in Nat /\ OpenOff(j) < Len(stack) /\ Len(stack) \in Nat
          BY <4>2, OpenOnStack DEF TypeInv
        <5> QED BY <4>1, <5>1 DEF OpenOff
      <4>4. stack[upvalues[u].location.off + 1] \in Known
        BY <4>3, StackAt
      <4> QED BY <1>1, <3>1, <4>4 DEF Pointer, Own
    <3>2. CASE ~ \E j \in 1..k : open[j] = u
      BY <1>1, <3>2, UpvalueAt
    <3> QED BY <3>1, <3>2
  <2>3. DOMAIN upvalues = 1..Len(upvalues) /\ Len(upvalues) \in Nat
    BY DEF TypeInv
  <2> HIDE DEF Live
  <2>4. upvalues' = [u \in 1..Len(upvalues) |-> upvalues'[u]]
    BY <1>1, <2>3
  <2> QED BY <2>1, <2>2, <2>3, <2>4, IsASeq
<1>7. OpenListSorted'
  <2>1. ASSUME NEW i \in 1..(Len(open) - k), NEW j \in 1..(Len(open) - k), i < j
        PROVE  OpenOff(i)' > OpenOff(j)'
    <3>1. k + i < k + j
      BY <1>2, <2>1
    <3>2. OpenOff(k + i) > OpenOff(k + j)
      BY <1>5, <3>1 DEF OpenInv, OpenListSorted
    <3> QED BY <1>5, <3>2
  <2> QED BY <1>3, <2>1 DEF OpenListSorted
<1>8. NoneLost'
  <2>1. status # "error"
    BY DEF ControlInv
  <2>2. ASSUME NEW u \in DOMAIN upvalues
        PROVE  u \in OpenUpvalues' <=> upvalues'[u].location.block # Own
    <3>1. CASE \E j \in 1..k : open[j] = u
      <4>1. upvalues'[u].location.block = Own
        BY <1>1, <3>1
      <4>2. ASSUME u \in OpenUpvalues'
            PROVE  FALSE
        <5>1. PICK j \in 1..(Len(open) - k) : open'[j] = u
          BY <1>3, <4>2 DEF OpenUpvalues
        <5>2. PICK i \in 1..k : open[i] = u
          BY <3>1
        <5>3. i \in DOMAIN open /\ i # k + j
          BY <1>2
        <5> QED BY <1>4, <1>5, <5>1, <5>2, <5>3
      <4> QED BY <4>1, <4>2
    <3>2. CASE ~ \E j \in 1..k : open[j] = u
      <4>1. upvalues'[u] = upvalues[u]
        BY <1>1, <3>2
      <4>2. ASSUME u \in OpenUpvalues
            PROVE  u \in OpenUpvalues'
        <5>1. PICK i \in DOMAIN open : open[i] = u
          BY <4>2 DEF OpenUpvalues
        <5>2. i - k \in 1..(Len(open) - k) /\ k + (i - k) = i
          BY <1>2, <3>2, <5>1
        <5>3. open'[i - k] = u /\ i - k \in DOMAIN open'
          BY <1>3, <5>1, <5>2
        <5> QED BY <5>3 DEF OpenUpvalues
      <4>3. ASSUME u \in OpenUpvalues'
            PROVE  u \in OpenUpvalues
        <5>1. PICK j \in 1..(Len(open) - k) : open'[j] = u
          BY <1>3, <4>3 DEF OpenUpvalues
        <5> QED BY <1>5, <5>1 DEF OpenUpvalues
      <4> QED BY <2>1, <4>1, <4>2, <4>3 DEF OpenInv, NoneLost
    <3> QED BY <3>1, <3>2
  <2> QED BY <1>6, <2>2 DEF NoneLost, Own
<1>9. \A j \in DOMAIN open' :
        \E i \in DOMAIN open : /\ open'[j] = open[i]
                               /\ OpenOff(j)' = OpenOff(i)
                               /\ upvalues'[open'[j]] = upvalues[open[i]]
                               /\ OpenOff(i) < last
  <2> SUFFICES ASSUME NEW j \in 1..(Len(open) - k)
               PROVE  \E i \in DOMAIN open :
                         /\ open'[j] = open[i]
                         /\ OpenOff(j)' = OpenOff(i)
                         /\ upvalues'[open'[j]] = upvalues[open[i]]
                         /\ OpenOff(i) < last
    BY <1>3
  <2> QED BY <1>5
<1> QED BY <1>3, <1>6, <1>7, <1>8, <1>9

\* What a scope leaves in the list are upvalues of variables that stay.
LEMMA ClosedPoints ==
  ASSUME IInv, frames # <<>>, NEW n \in Nat, NEW last \in Nat,
         CloseUpvalues(last), status' # "error", last <= Base + n,
         frames' = [frames EXCEPT ![Len(frames)].nlocals = n], UNCHANGED buf
  PROVE  OpenPointToVariables'
<1> USE DEF IInv
<1>1. /\ DOMAIN frames' = DOMAIN frames
      /\ \A i \in DOMAIN frames :
           /\ frames'[i].slots = frames[i].slots
           /\ frames'[i].nlocals = IF i = Len(frames) THEN n ELSE frames[i].nlocals
  BY Resized
<1>2. ASSUME NEW j \in DOMAIN open'
      PROVE  /\ upvalues'[open'[j]].location.block = buf
             /\ \E f \in DOMAIN frames : OpenOff(j)' \in Variables(f)'
  <2>1. PICK i \in DOMAIN open : /\ OpenOff(j)' = OpenOff(i)
                                 /\ upvalues'[open'[j]] = upvalues[open[i]]
                                 /\ OpenOff(i) < last
    BY Closed
  <2>2. PICK f \in DOMAIN frames : OpenOff(i) \in Variables(f)
    BY DEF OpenInv, OpenPointToVariables
  <2>3. upvalues'[open'[j]].location.block = buf
    BY <2>1 DEF OpenInv, OpenPointToVariables
  <2>4. /\ frames[f].slots.off \in Nat /\ frames[f].nlocals \in Nat
        /\ OpenOff(i) \in Nat /\ Base \in Nat
    BY FrameNumbers, OpenOnStack, TopFrame
  <2>5. CASE f = Len(frames)
    <3>1. frames'[f].slots.off = Base /\ frames'[f].nlocals = n
          /\ frames[f].slots.off = Base
      BY <1>1, <2>5 DEF Base, Top
    <3> QED BY <2>1, <2>2, <2>3, <2>4, <3>1 DEF Variables
  <2>6. CASE f # Len(frames)
    BY <1>1, <2>1, <2>2, <2>3, <2>6 DEF Variables
  <2> QED BY <2>5, <2>6
<1> QED BY <1>1, <1>2 DEF OpenPointToVariables

\* The numbers in the windows of scopes that end.
LEMMA ScopeNumbers ==
  ASSUME IInv, frames # <<>>, NEW count,
         count \in 1..(Top.nlocals - 1 - Arity[Callable.function])
  PROVE  /\ Top.nlocals - count \in Nat
         /\ Top.nlocals - count >= 1 + Arity[Callable.function]
         /\ count \in Nat
<1> DEFINE m == Top.nlocals
           a == Arity[Callable.function]
<1>1. m \in Nat /\ a \in Nat
  BY TopFrame
<1>2. count \in 1..(m - 1 - a)
  OBVIOUS
<1> HIDE DEF m, a
<1>3. /\ m - count \in Nat
      /\ m - count >= 1 + a
      /\ count \in Nat
  BY <1>1, <1>2
<1> QED BY <1>3 DEF m, a

LEMMA EndScopePreserves ==
  ASSUME IInv, NEW count \in Locals, EndScope(count)
  PROVE  IInv'
<1> USE DEF IInv
<1> DEFINE n == Top.nlocals - count
           keep == Len(stack) - 1 - count
<1>1. frames # <<>> /\ status = "running"
  BY RunningHasFrame DEF EndScope, Running
<1>2. count \in 1..(Top.nlocals - 1 - Arity[Callable.function])
  BY DEF EndScope
<1>3. n \in Nat /\ n >= 1 + Arity[Callable.function]
  BY <1>1, <1>2, ScopeNumbers
<1>4. Len(stack) - Base = Top.nlocals + 1
  BY DEF EndScope, Height
<1>5. /\ keep = Base + n /\ keep \in Nat /\ keep \in 0..Len(stack)
      /\ Base + n + 1 <= Base + Window(Callable.function)
  <2>1. /\ Len(stack) \in Nat /\ Base \in Nat /\ Top.nlocals \in Nat
        /\ Window(Callable.function) \in Nat /\ count \in Nat
        /\ Len(stack) <= Base + Window(Callable.function)
    BY <1>1, <1>2, TopNumbers, ScopeNumbers
  <2>2. n = Top.nlocals - count /\ keep = Len(stack) - 1 - count
    OBVIOUS
  <2> HIDE DEF n, keep
  <2>3. keep = Base + n
    <3>1. Len(stack) = (Base + Top.nlocals) + 1
      BY <1>4, <2>1
    <3>2. Top.nlocals = n + count
      BY <1>3, <2>1, <2>2
    <3>3. Len(stack) - 1 - count = Base + n
      BY <1>3, <2>1, <3>1, <3>2
    <3> QED BY <2>2, <3>3
  <2>4. Len(stack) = keep + 1 + count
    BY <2>1, <2>2, <2>3, <1>3
  <2>5. keep \in Nat /\ keep <= Len(stack) /\ keep + 1 <= Len(stack)
    BY <1>3, <2>1, <2>3, <2>4, <1>2
  <2>6. Base + n + 1 <= Base + Window(Callable.function)
    BY <1>3, <2>1, <2>3, <2>5
  <2> QED BY <2>1, <2>3, <2>5, <2>6
<1>6. /\ CloseUpvalues(keep)
      /\ stack' = Append(Truncate(keep), Peek(0))
      /\ UNCHANGED <<buf, capacity, closures, global, status>>
  BY DEF EndScope
<1>7. frames' = [frames EXCEPT ![Len(frames)].nlocals = n]
  BY DEF EndScope, Top
<1>8. Peek(0) \in Known
  BY <1>1, <1>4, TopFrame, StackAt DEF Peek
<1>9. stack' \in Seq(Known) /\ Len(stack') = Base + n + 1
  BY <1>5, <1>6, <1>8, Pushed
<1> HIDE DEF n, keep
<1>10. PlacesInv' /\ RoomInv'
  <2>1. /\ Len(stack') \in Nat /\ Base + n <= Len(stack')
        /\ Len(stack') <= Base + Window(Callable.function)
    BY <1>1, <1>3, <1>5, <1>9, TopFrame
  <2> QED BY <1>1, <1>3, <1>6, <1>7, <2>1, ResizedPlaces
<1>11. /\ upvalues' \in Seq([location : Pointer, closed : Known])
       /\ DOMAIN upvalues' = DOMAIN upvalues
       /\ open' \in Seq(DOMAIN upvalues)
       /\ OpenListSorted' /\ NoneLost'
  BY <1>1, <1>5, <1>6, Closed
<1>12. OpenPointToVariables'
  <2>1. keep <= Base + n
    BY <1>5
  <2> QED BY <1>1, <1>3, <1>5, <1>6, <1>7, <2>1, ClosedPoints
<1>13. TypeInv'
  BY <1>1, <1>3, <1>6, <1>7, <1>9, <1>11, Resized DEF TypeInv, Known
<1>14. ControlInv' /\ CapturingInv'
  BY <1>1, <1>3, <1>6, <1>7, Resized DEF ControlInv, CapturingInv
<1> QED BY <1>10, <1>11, <1>12, <1>13, <1>14 DEF OpenInv

LEMMA PlainLoopExitPreserves ==
  ASSUME IInv, NEW count \in Locals, PlainLoopExit(count)
  PROVE  IInv'
<1> USE DEF IInv
<1> DEFINE n == Top.nlocals - count
<1>1. frames # <<>> /\ status = "running"
  BY RunningHasFrame DEF PlainLoopExit, Running
<1>2. count \in 1..(Top.nlocals - 1 - Arity[Callable.function])
  BY DEF PlainLoopExit, LoopExit
<1>3. n \in Nat /\ n >= 1 + Arity[Callable.function]
  BY <1>1, <1>2, ScopeNumbers
<1>4. Len(stack) - Base = Top.nlocals
  BY DEF PlainLoopExit, LoopExit, Height
<1>5. /\ Len(stack) - count = Base + n /\ Len(stack) - count \in 0..Len(stack)
      /\ Base + n <= Base + Window(Callable.function)
  <2>1. /\ Len(stack) \in Nat /\ Base \in Nat /\ Top.nlocals \in Nat
        /\ Window(Callable.function) \in Nat /\ count \in Nat
        /\ Len(stack) <= Base + Window(Callable.function)
    BY <1>1, <1>2, TopNumbers, ScopeNumbers
  <2>2. n = Top.nlocals - count
    OBVIOUS
  <2> HIDE DEF n
  <2>3. Len(stack) = Base + Top.nlocals
    BY <1>4, <2>1
  <2>4. Len(stack) = (Base + n) + count
    BY <1>3, <2>1, <2>2, <2>3
  <2>5. Len(stack) - count = Base + n
    BY <1>3, <2>1, <2>4
  <2>6. Base + n \in 0..Len(stack)
    BY <1>3, <2>1, <2>4
  <2>7. Base + n <= Base + Window(Callable.function)
    BY <1>3, <2>1, <2>4
  <2> QED BY <2>5, <2>6, <2>7
<1>6. /\ stack' = Truncate(Len(stack) - count)
      /\ UNCHANGED <<buf, capacity, open, upvalues, closures, global, status>>
      /\ \A k \in DOMAIN open : OpenOff(k) < Len(stack) - count
  BY DEF PlainLoopExit, LoopExit
<1>7. frames' = [frames EXCEPT ![Len(frames)].nlocals = n]
  BY DEF PlainLoopExit, LoopExit, Top
<1>8. stack' \in Seq(Known) /\ Len(stack') = Base + n
  BY <1>5, <1>6, Truncated
<1> HIDE DEF n
<1>9. PlacesInv' /\ RoomInv'
  <2>1. /\ Len(stack') \in Nat /\ Base + n <= Len(stack')
        /\ Len(stack') <= Base + Window(Callable.function)
    BY <1>1, <1>3, <1>5, <1>8, TopFrame
  <2> QED BY <1>1, <1>3, <1>6, <1>7, <2>1, ResizedPlaces
<1>10. OpenInv'
  <2>1. \A k \in DOMAIN open : OpenOff(k) < Base + n
    BY <1>5, <1>6
  <2>2. status' # "error"
    BY <1>1, <1>6
  <2> QED BY <1>1, <1>3, <1>6, <1>7, <2>1, <2>2, OpenKept
<1>11. TypeInv'
  BY <1>1, <1>3, <1>6, <1>7, <1>8, Resized DEF TypeInv, Known
<1>12. ControlInv' /\ CapturingInv'
  BY <1>1, <1>3, <1>6, <1>7, Resized DEF ControlInv, CapturingInv
<1> QED BY <1>9, <1>10, <1>11, <1>12

-----------------------------------------------------------------------------
(***************************************************************************)
(* Calls.                                                                  *)
(***************************************************************************)
\* What ensure_stack_space does to pointers.
LEMMA MovedPointer ==
  ASSUME IInv, NEW needed \in Nat, EnsureStackSpace(needed), NEW p \in Pointer
  PROVE  /\ Moved(p, needed) \in Pointer
         /\ Moved(p, needed).off = p.off
         /\ p.block = buf => Moved(p, needed).block = buf'
         /\ buf' \in Nat \ {0}
<1>1. buf \in Nat \ {0} /\ p.block \in Nat /\ p.off \in Nat
  BY DEF IInv, TypeInv, Pointer
<1>2. CASE Grows(needed)
  <2>1. buf' = buf + 1 /\ buf + 1 \in Nat \ {0}
    BY <1>1, <1>2 DEF EnsureStackSpace
  <2>2. Moved(p, needed) = [p EXCEPT !.block = buf + 1]
    BY <1>2 DEF Moved
  <2> QED BY <1>1, <2>1, <2>2 DEF Pointer
<1>3. CASE ~Grows(needed)
  BY <1>1, <1>3 DEF EnsureStackSpace, Moved
<1> QED BY <1>2, <1>3

\* There is room for what was asked for, and no less than before.
LEMMA Grown ==
  ASSUME IInv, NEW needed \in Nat, EnsureStackSpace(needed)
  PROVE  capacity' \in Nat /\ capacity' >= needed /\ capacity' >= capacity
<1>1. capacity \in Nat
  BY DEF IInv, TypeInv
<1>2. CASE Grows(needed)
  <2>1. capacity' \in Ceiling(needed)
    BY <1>2 DEF EnsureStackSpace
  <2>2. capacity' \in Nat /\ capacity' >= needed
    BY <2>1, SizesAssumption DEF Ceiling
  <2> QED BY <1>1, <1>2, <2>2 DEF Grows
<1>3. CASE ~Grows(needed)
  BY <1>1, <1>3 DEF Grows, EnsureStackSpace
<1> QED BY <1>2, <1>3

LEMMA MovedUpvalues ==
  ASSUME IInv, NEW needed \in Nat, EnsureStackSpace(needed)
  PROVE  /\ upvalues' \in Seq([location : Pointer, closed : Known])
         /\ DOMAIN upvalues' = DOMAIN upvalues
         /\ \A u \in DOMAIN upvalues :
              /\ upvalues'[u].location.off = upvalues[u].location.off
              /\ u \in OpenUpvalues => upvalues'[u].location.block = buf'
              /\ u \notin OpenUpvalues => upvalues'[u] = upvalues[u]
<1> USE DEF IInv
<1> DEFINE Live == [location : Pointer, closed : Known]
<1>1. upvalues' = [u \in DOMAIN upvalues |->
                     IF u \in OpenUpvalues
                     THEN [upvalues[u] EXCEPT
                             !.location = Moved(upvalues[u].location, needed)]
                     ELSE upvalues[u]]
  BY DEF EnsureStackSpace, OpenUpvalues
<1>2. DOMAIN upvalues = 1..Len(upvalues) /\ Len(upvalues) \in Nat
      /\ upvalues \in Seq(Live)
  BY DEF TypeInv
<1>3. ASSUME NEW u \in DOMAIN upvalues
      PROVE  /\ upvalues'[u] \in Live
             /\ upvalues'[u].location.off = upvalues[u].location.off
             /\ u \in OpenUpvalues => upvalues'[u].location.block = buf'
             /\ u \notin OpenUpvalues => upvalues'[u] = upvalues[u]
  <2>1. upvalues[u] \in Live /\ upvalues[u].location \in Pointer
    <3>1. upvalues[u] \in Live
      <4> HIDE DEF Live
      <4> QED BY <1>2, ElementOfSeq
    <3> QED BY <3>1
  <2>2. CASE u \in OpenUpvalues
    <3>1. PICK k \in DOMAIN open : open[k] = u
      BY <2>2 DEF OpenUpvalues
    <3>2. upvalues[u].location.block = buf
      BY <3>1 DEF OpenInv, OpenPointToVariables
    <3>3. upvalues'[u] = [upvalues[u] EXCEPT
                            !.location = Moved(upvalues[u].location, needed)]
      BY <1>1, <2>2
    <3>4. upvalues'[u].location = Moved(upvalues[u].location, needed)
      BY <2>1, <3>3
    <3>5. upvalues'[u] \in Live
      BY <2>1, <3>3, MovedPointer
    <3> QED BY <2>1, <2>2, <3>2, <3>4, <3>5, MovedPointer
  <2>3. CASE u \notin OpenUpvalues
    BY <1>1, <2>1, <2>3
  <2> QED BY <2>2, <2>3
<1>4. upvalues' \in Seq(Live) /\ DOMAIN upvalues' = DOMAIN upvalues
  <2>1. upvalues' = [u \in 1..Len(upvalues) |-> upvalues'[u]]
        /\ DOMAIN upvalues' = DOMAIN upvalues
    BY <1>1, <1>2
  <2> HIDE DEF Live
  <2> QED BY <1>2, <1>3, <2>1, IsASeq
<1> QED BY <1>3, <1>4

LEMMA FramesMoved ==
  ASSUME IInv, NEW needed \in Nat, EnsureStackSpace(needed)
  PROVE  /\ MovedFrames(needed) \in Seq([closure : DOMAIN closures,
                                         slots : Pointer, nlocals : Nat])
         /\ Len(MovedFrames(needed)) = Len(frames)
         /\ \A i \in DOMAIN frames :
              LET moved == MovedFrames(needed)[i]
              IN  /\ moved.closure = frames[i].closure
                  /\ moved.slots.off = frames[i].slots.off
                  /\ moved.slots.block = buf'
                  /\ moved.nlocals = frames[i].nlocals
<1> USE DEF IInv
<1> DEFINE Live == [closure : DOMAIN closures, slots : Pointer, nlocals : Nat]
           F == MovedFrames(needed)
<1>1. DOMAIN frames = 1..Len(frames) /\ Len(frames) \in Nat
  BY FrameIndices
<1>2. ASSUME NEW i \in DOMAIN frames
      PROVE  /\ F[i] \in Live
             /\ F[i].closure = frames[i].closure
             /\ F[i].slots.off = frames[i].slots.off
             /\ F[i].slots.block = buf'
             /\ F[i].nlocals = frames[i].nlocals
  <2>1. frames[i] \in Live
    BY FrameAt
  <2>2. F[i] = [frames[i] EXCEPT !.slots = Moved(frames[i].slots, needed)]
    BY DEF MovedFrames
  <2>3. frames[i].slots \in Pointer /\ frames[i].slots.block = buf
    BY <2>1 DEF PlacesInv
  <2> HIDE DEF F
  <2> QED BY <2>1, <2>2, <2>3, MovedPointer
<1>3. F = [i \in 1..Len(frames) |-> F[i]]
  BY <1>1 DEF MovedFrames
<1>4. F \in Seq(Live)
  <2> HIDE DEF Live, F
  <2> QED BY <1>1, <1>2, <1>3, IsASeq
<1>5. Len(F) = Len(frames)
  BY <1>1, <1>3, <1>4
<1> QED BY <1>2, <1>4, <1>5

\* Frames, the list and what it points to move together: the list stays right
\* when the frames keep their places, or another one is added.
LEMMA OpenMoved ==
  ASSUME IInv, NEW needed \in Nat, EnsureStackSpace(needed),
         frames # <<>> \/ open = <<>>, status # "error",
         UNCHANGED open,
         DOMAIN frames \subseteq DOMAIN frames',
         \A i \in DOMAIN frames :
           /\ frames'[i].slots.off = frames[i].slots.off
           /\ frames'[i].nlocals = frames[i].nlocals
  PROVE  OpenInv'
<1> USE DEF IInv
<1>1. /\ DOMAIN upvalues' = DOMAIN upvalues
      /\ \A u \in DOMAIN upvalues :
           /\ upvalues'[u].location.off = upvalues[u].location.off
           /\ u \in OpenUpvalues => upvalues'[u].location.block = buf'
           /\ u \notin OpenUpvalues => upvalues'[u] = upvalues[u]
  BY MovedUpvalues
<1>2. \A k \in DOMAIN open : /\ open[k] \in DOMAIN upvalues
                             /\ open[k] \in OpenUpvalues
                             /\ OpenOff(k)' = OpenOff(k)
  BY <1>1 DEF TypeInv, OpenUpvalues, OpenOff
<1>3. OpenListSorted'
  BY <1>2 DEF OpenInv, OpenListSorted
<1>4. OpenPointToVariables'
  <2>1. ASSUME NEW k \in DOMAIN open
        PROVE  /\ upvalues'[open[k]].location.block = buf'
               /\ \E i \in DOMAIN frames' : OpenOff(k)' \in Variables(i)'
    <3>1. PICK i \in DOMAIN frames : OpenOff(k) \in Variables(i)
      BY DEF OpenInv, OpenPointToVariables
    <3>2. i \in DOMAIN frames' /\ Variables(i)' = Variables(i)
      BY DEF Variables
    <3> QED BY <1>1, <1>2, <3>1, <3>2
  <2> QED BY <2>1 DEF OpenPointToVariables
<1>5. NoneLost'
  <2>1. OpenUpvalues' = OpenUpvalues
    BY DEF OpenUpvalues
  <2>2. buf' # Own
    <3>1. [block |-> 0, off |-> 0] \in Pointer
      BY DEF Pointer
    <3> QED BY <3>1, MovedPointer DEF Own
  <2>3. \A u \in DOMAIN upvalues :
           u \in OpenUpvalues <=> upvalues[u].location.block # Own
    BY DEF OpenInv, NoneLost
  <2>4. \A u \in DOMAIN upvalues :
           u \in OpenUpvalues <=> upvalues'[u].location.block # Own
    BY <1>1, <2>2, <2>3
  <2> QED BY <1>1, <2>1, <2>4 DEF NoneLost, Own
<1> QED BY <1>3, <1>4, <1>5 DEF OpenInv

\* The slots of a callee and its arguments, and those it is given.
LEMMA CallNumbers ==
  ASSUME IInv, Running, NEW arg_c \in Nat, Height > Top.nlocals + arg_c,
         NEW f \in Functions, arg_c = Arity[f]
  PROVE  LET off == Len(stack) - arg_c - 1
         IN  /\ off \in Nat /\ off + arg_c + 1 = Len(stack)
             /\ Base + Top.nlocals <= off
             /\ off < Base + Window(Callable.function)
             /\ Window(f) = 1 + arg_c + MaxSlots[f]
             /\ MaxSlots[f] \in Nat
             /\ off + Window(f) = Len(stack) + MaxSlots[f]
<1>1. frames # <<>>
  BY RunningHasFrame
<1> DEFINE m == Top.nlocals
           w == Window(Callable.function)
<1>2. /\ Len(stack) \in Nat /\ Base \in Nat /\ m \in Nat /\ w \in Nat
      /\ Len(stack) <= Base + w
  BY <1>1, TopFrame
<1>3. Len(stack) - Base > m + arg_c
  BY DEF Height
<1>4. Window(f) = 1 + arg_c + MaxSlots[f] /\ MaxSlots[f] \in Nat
  BY FunctionsAssumption DEF Window
<1> DEFINE off == Len(stack) - arg_c - 1
           own == MaxSlots[f]
           new == Window(f)
<1> HIDE DEF m, w, own, new
<1>5. /\ off \in Nat /\ off + arg_c + 1 = Len(stack)
      /\ Base + m <= off
      /\ off < Base + w
  BY <1>2, <1>3
<1>6. off + new = Len(stack) + own
  <2>1. new = 1 + arg_c + own /\ own \in Nat
    BY <1>4 DEF own, new
  <2> QED BY <1>2, <2>1
<1> QED BY <1>4, <1>5, <1>6 DEF m, w, own, new

\* A call that succeeds adds a frame over the callee and its arguments.
LEMMA CallPreserves ==
  ASSUME IInv, NEW arg_c \in 0..2, Call(arg_c), ~RuntimeError
  PROVE  IInv'
<1> USE DEF IInv
<1> DEFINE callee == Peek(arg_c)
           f == closures[callee.closure].function
           needed == Len(stack) + MaxSlots[f]
           off == Len(stack) - arg_c - 1
           slots == Moved(Slot(off), needed)
           L == Len(frames)
           F == MovedFrames(needed)
           new == [closure |-> callee.closure, slots |-> slots,
                   nlocals |-> arg_c + 1]
           Live == [closure : DOMAIN closures, slots : Pointer, nlocals : Nat]
<1>1. frames # <<>> /\ status = "running" /\ Running
      /\ Height > Top.nlocals + arg_c
  BY RunningHasFrame DEF Call, Running
<1>2. callee.closure \in DOMAIN closures /\ f \in Functions
  <2>1. callee \in Known /\ callee \notin Atoms
    BY <1>1, PeekKnown DEF Call, IsClosure
  <2>2. callee.closure \in DOMAIN closures
    BY <2>1 DEF Known
  <2> QED BY <2>2, ClosureAt
<1>3. /\ arg_c = Arity[f]
      /\ EnsureStackSpace(needed)
      /\ frames' = Append(F, new)
      /\ UNCHANGED <<stack, open, closures, global, status>>
  BY DEF Call
<1>4. /\ off \in Nat /\ off + arg_c + 1 = Len(stack)
      /\ Base + Top.nlocals <= off
      /\ off < Base + Window(Callable.function)
      /\ Window(f) = 1 + arg_c + MaxSlots[f]
      /\ MaxSlots[f] \in Nat
      /\ off + Window(f) = Len(stack) + MaxSlots[f]
  BY <1>1, <1>2, <1>3, CallNumbers
<1>5. Len(stack) \in Nat /\ needed \in Nat
  <2>1. Len(stack) \in Nat
    BY DEF TypeInv
  <2> HIDE DEF f
  <2> QED BY <1>4, <2>1
<1> HIDE DEF needed, off
<1>6. /\ slots \in Pointer /\ slots.off = off /\ slots.block = buf'
      /\ buf' \in Nat \ {0}
  <2>1. Slot(off) \in Pointer /\ Slot(off).block = buf /\ Slot(off).off = off
    BY <1>4 DEF Slot, Pointer, TypeInv
  <2> QED BY <1>3, <1>5, <2>1, MovedPointer
<1>7. /\ F \in Seq(Live) /\ Len(F) = L
      /\ DOMAIN frames = 1..L /\ L \in Nat /\ L \in DOMAIN frames
      /\ \A i \in DOMAIN frames :
           /\ F[i].closure = frames[i].closure
           /\ F[i].slots.off = frames[i].slots.off
           /\ F[i].slots.block = buf'
           /\ F[i].nlocals = frames[i].nlocals
  BY <1>1, <1>3, <1>5, FramesMoved, FrameIndices, TopFrame
<1> HIDE DEF F, slots
<1>8. /\ new \in Live
      /\ new.closure = callee.closure /\ new.slots = slots
      /\ new.nlocals = arg_c + 1
  BY <1>2, <1>6
<1> HIDE DEF new, Live
<1>9. /\ frames' \in Seq(Live) /\ Len(frames') = L + 1
      /\ DOMAIN frames' = 1..(L + 1)
      /\ \A i \in 1..L : frames'[i] = F[i]
      /\ frames'[L + 1] = new
  <2>1. /\ frames' \in Seq(Live) /\ Len(frames') = L + 1
        /\ \A i \in 1..L : frames'[i] = F[i]
        /\ frames'[L + 1] = new
    BY <1>3, <1>7, <1>8, AppendProperties
  <2> QED BY <2>1
<1>10. \A i \in DOMAIN frames : FunctionOf(i)' = FunctionOf(i)
  BY <1>3, <1>7, <1>9 DEF FunctionOf
<1>11. closures'[frames'[L + 1].closure].function = f
  BY <1>3, <1>8, <1>9
<1> HIDE DEF f, callee
<1>12. capacity' \in Nat /\ capacity' >= needed /\ capacity' >= capacity
       /\ capacity \in Nat
  BY <1>3, <1>5, Grown DEF TypeInv
<1>13. \A i \in DOMAIN frames :
          /\ frames[i].slots.off \in Nat /\ frames[i].nlocals \in Nat
          /\ frames[i].slots.off + frames[i].nlocals <= off
  <2>1. ASSUME NEW i \in DOMAIN frames
        PROVE  frames[i].slots.off + frames[i].nlocals <= off
    <3>1. CASE i = L
      BY <1>4, <3>1 DEF Base, Top
    <3>2. CASE i # L
      <4>1. frames[i].slots.off + frames[i].nlocals <= Base
        BY <1>7, <3>2 DEF PlacesInv, Base, Top
      <4>2. /\ frames[i].slots.off \in Nat /\ frames[i].nlocals \in Nat
            /\ Base \in Nat /\ Top.nlocals \in Nat
        BY <1>1, FrameNumbers, TopFrame
      <4>3. Base <= off
        BY <1>4, <4>2
      <4> QED BY <1>4, <4>1, <4>2, <4>3
    <3> QED BY <3>1, <3>2
  <2> QED BY <2>1, FrameNumbers
<1>14. TypeInv'
  <2>1. frames' \in Seq([closure : DOMAIN closures, slots : Pointer, nlocals : Nat])
    BY <1>9 DEF Live
  <2>2. /\ upvalues' \in Seq([location : Pointer, closed : Known])
        /\ DOMAIN upvalues' = DOMAIN upvalues
    BY <1>3, <1>5, MovedUpvalues
  <2> QED BY <1>3, <1>6, <1>12, <2>1, <2>2 DEF TypeInv, Known
<1>15. ControlInv' /\ CapturingInv'
  BY <1>1, <1>3, <1>7, <1>9 DEF ControlInv, CapturingInv
<1>16. PlacesInv'
  <2>1. ASSUME NEW i \in 1..(L + 1)
        PROVE  /\ frames'[i].slots.block = buf'
               /\ frames'[i].nlocals >= 1 + Arity[FunctionOf(i)']
               /\ frames'[i].slots.off + frames'[i].nlocals <= Len(stack')
    <3>1. CASE i = L + 1
      <4>1. FunctionOf(i)' = f
        BY <1>11, <3>1 DEF FunctionOf
      <4>2. arg_c + 1 >= 1 + Arity[f] /\ off + (arg_c + 1) <= Len(stack)
        BY <1>3, <1>4, <1>5
      <4> QED BY <1>3, <1>6, <1>8, <1>9, <3>1, <4>1, <4>2
    <3>2. CASE i # L + 1
      BY <1>3, <1>7, <1>9, <1>10, <3>2 DEF PlacesInv
    <3> QED BY <3>1, <3>2
  <2>2. ASSUME NEW i \in 1..(L + 1), NEW j \in 1..(L + 1), i < j
        PROVE  frames'[i].slots.off + frames'[i].nlocals <= frames'[j].slots.off
    <3>1. i \in DOMAIN frames
      BY <1>7, <2>2
    <3>2. CASE j = L + 1
      BY <1>6, <1>7, <1>8, <1>9, <1>13, <3>1, <3>2
    <3>3. CASE j # L + 1
      BY <1>7, <1>9, <2>2, <3>1, <3>3 DEF PlacesInv
    <3> QED BY <3>2, <3>3
  <2> QED BY <1>9, <2>1, <2>2 DEF PlacesInv
<1>17. RoomInv'
  <2>1. Len(stack') <= capacity'
    BY <1>3, <1>5, <1>12 DEF RoomInv
  <2>2. ASSUME NEW i \in 1..(L + 1)
        PROVE  frames'[i].slots.off + Window(FunctionOf(i)') <= capacity'
    <3>1. CASE i = L + 1
      <4>1. off + Window(f) = needed
        BY <1>4 DEF needed
      <4>2. FunctionOf(i)' = f
        BY <1>11, <3>1 DEF FunctionOf
      <4> QED BY <1>6, <1>8, <1>9, <1>12, <3>1, <4>1, <4>2
    <3>2. CASE i # L + 1
      <4>1. i \in DOMAIN frames
        BY <1>7, <3>2
      <4>2. frames[i].slots.off + Window(FunctionOf(i)) <= capacity
        BY <4>1 DEF RoomInv
      <4>3. Window(FunctionOf(i)) \in Nat
        BY <4>1, FrameNumbers, ClosureAt, FunctionsAssumption DEF FunctionOf, Window
      <4> QED BY <1>7, <1>9, <1>10, <1>12, <1>13, <4>1, <4>2, <4>3
    <3> QED BY <3>1, <3>2
  <2>3. ASSUME NEW i \in 1..(L + 1), NEW j \in 1..(L + 1), j = i + 1
        PROVE  frames'[j].slots.off < frames'[i].slots.off + Window(FunctionOf(i)')
    <3>1. i \in DOMAIN frames
      BY <1>7, <2>3
    <3>2. CASE i = L
      <4>1. frames'[i].slots.off = Base /\ FunctionOf(i)' = Callable.function
        BY <1>7, <1>9, <1>10, <3>1, <3>2 DEF Base, Top, FunctionOf, Callable
      <4> QED BY <1>4, <1>6, <1>8, <1>9, <2>3, <3>2, <4>1
    <3>3. CASE i # L
      <4>1. j \in DOMAIN frames
        BY <1>7, <2>3, <3>3
      <4> QED BY <1>7, <1>9, <1>10, <2>3, <3>1, <4>1 DEF RoomInv
    <3> QED BY <3>2, <3>3
  <2>4. Height' <= Window(Callable.function)'
    <3>1. Base' = off /\ Callable'.function = f
      BY <1>6, <1>8, <1>9, <1>11 DEF Base, Top, Callable
    <3>2. Window(f) \in Nat /\ Len(stack) - off <= Window(f)
      BY <1>4, <1>5
    <3> QED BY <1>3, <3>1, <3>2 DEF Height, Window
  <2> QED BY <1>9, <2>1, <2>2, <2>3, <2>4 DEF RoomInv, Window
<1>18. OpenInv'
  <2>1. DOMAIN frames \subseteq DOMAIN frames'
    BY <1>7, <1>9
  <2>2. \A i \in DOMAIN frames :
           /\ frames'[i].slots.off = frames[i].slots.off
           /\ frames'[i].nlocals = frames[i].nlocals
    BY <1>7, <1>9
  <2> QED BY <1>1, <1>3, <1>5, <2>1, <2>2, OpenMoved
<1> QED BY <1>14, <1>15, <1>16, <1>17, <1>18

\* A return drops the innermost frame; what is left of the list points below.
LEMMA ReturnPreserves ==
  ASSUME IInv, Return
  PROVE  IInv'
<1> USE DEF IInv
<1> DEFINE L == Len(frames)
           Live == [closure : DOMAIN closures, slots : Pointer, nlocals : Nat]
<1>1. frames # <<>> /\ status = "running" /\ Running
  BY RunningHasFrame DEF Return, Running
<1>2. /\ CloseUpvalues(Base)
      /\ frames' = SubSeq(frames, 1, L - 1)
      /\ UNCHANGED <<buf, capacity, closures, global>>
      /\ status' # "error"
  BY <1>1 DEF Return
<1>3. /\ L \in Nat /\ L >= 1 /\ DOMAIN frames = 1..L
      /\ frames \in Seq(Live)
  BY <1>1, FrameIndices, TopFrame DEF TypeInv
<1> HIDE DEF Live
<1>4. /\ frames' \in Seq(Live) /\ Len(frames') = L - 1
      /\ DOMAIN frames' = 1..(L - 1)
      /\ \A i \in 1..(L - 1) : frames'[i] = frames[i] /\ i \in DOMAIN frames
  BY <1>2, <1>3, SubSeqProperties
<1> HIDE DEF L
<1>5. /\ upvalues' \in Seq([location : Pointer, closed : Known])
      /\ DOMAIN upvalues' = DOMAIN upvalues
      /\ open' \in Seq(DOMAIN upvalues)
      /\ OpenListSorted' /\ NoneLost'
      /\ \A j \in DOMAIN open' :
           \E i \in DOMAIN open : /\ OpenOff(j)' = OpenOff(i)
                                  /\ upvalues'[open'[j]] = upvalues[open[i]]
                                  /\ OpenOff(i) < Base
  BY <1>1, <1>2, Closed, TopFrame
<1>6. OpenPointToVariables'
  <2>1. ASSUME NEW j \in DOMAIN open'
        PROVE  /\ upvalues'[open'[j]].location.block = buf
               /\ \E f \in DOMAIN frames' : OpenOff(j)' \in Variables(f)'
    <3>1. PICK i \in DOMAIN open : /\ OpenOff(j)' = OpenOff(i)
                                   /\ upvalues'[open'[j]] = upvalues[open[i]]
                                   /\ OpenOff(i) < Base
      BY <1>5
    <3>2. PICK f \in DOMAIN frames : OpenOff(i) \in Variables(f)
      BY DEF OpenInv, OpenPointToVariables
    <3>3. upvalues'[open'[j]].location.block = buf
      BY <3>1 DEF OpenInv, OpenPointToVariables
    <3>4. f # L
      <4>1. frames[L].slots.off = Base
        BY DEF Base, Top, L
      <4>2. OpenOff(i) \in Nat /\ Base \in Nat /\ Top.nlocals \in Nat
        BY <1>1, OpenOnStack, TopFrame
      <4>3. OpenOff(i) >= frames[f].slots.off
        BY <3>2, <4>2, FrameNumbers DEF Variables
      <4> QED BY <3>1, <4>1, <4>2, <4>3
    <3>5. f \in 1..(L - 1)
      BY <1>3, <3>4
    <3>6. f \in DOMAIN frames' /\ Variables(f)' = Variables(f)
      BY <1>4, <3>5 DEF Variables
    <3> QED BY <3>1, <3>2, <3>3, <3>6
  <2> QED BY <1>2, <2>1 DEF OpenPointToVariables
<1>7. OpenInv'
  BY <1>5, <1>6 DEF OpenInv
<1>8. Len(stack) - Base > Top.nlocals
  BY DEF Return, HasTemporary, Height
<1>9. CapturingInv'
  BY <1>1, <1>2 DEF Return, CapturingInv
<1>10. frames' \in Seq([closure : DOMAIN closures, slots : Pointer, nlocals : Nat])
  BY <1>4 DEF Live
<1>11. \A i \in 1..(L - 1) : FunctionOf(i)' = FunctionOf(i)
  BY <1>2, <1>4 DEF FunctionOf
<1>12. CASE L = 1
  <2>1. frames' = <<>>
    BY <1>4, <1>12, EmptySeq
  <2>2. stack' = Truncate(Len(stack) - 2) /\ status' = "idle"
    BY <1>12 DEF Return, L
  <2>3. Len(stack) - 2 \in 0..Len(stack)
    <3>1. /\ Len(stack) \in Nat /\ Base \in Nat /\ Top.nlocals \in Nat
          /\ Arity[Callable.function] \in Nat
          /\ Top.nlocals >= 1 + Arity[Callable.function]
      BY <1>1, TopFrame
    <3> HIDE DEF IInv
    <3>2. Top.nlocals >= 1
      BY <3>1
    <3> QED BY <1>8, <3>1, <3>2
  <2>4. stack' \in Seq(Known) /\ Len(stack') = Len(stack) - 2
    BY <2>2, <2>3, Truncated
  <2>5. TypeInv'
    BY <1>2, <1>5, <1>10, <2>2, <2>4 DEF TypeInv, Known, Status
  <2>6. ControlInv' /\ PlacesInv'
    BY <2>1, <2>2 DEF ControlInv, PlacesInv
  <2>7. RoomInv'
    <3>1. capacity \in Nat /\ Len(stack) <= capacity
      BY DEF TypeInv, RoomInv
    <3>2. Len(stack') <= capacity
      BY <2>3, <2>4, <3>1
    <3>3. capacity' = capacity /\ \A i \in DOMAIN frames' : FALSE
      BY <1>2, <1>4, <1>12
    <3> QED BY <2>1, <3>2, <3>3 DEF RoomInv
  <2> QED BY <1>7, <1>9, <2>5, <2>6, <2>7
<1>13. CASE L # 1
  <2>1. /\ stack' = Append(Truncate(Base), Peek(0))
        /\ UNCHANGED status
    BY <1>13 DEF Return, L
  <2>2. /\ Base \in Nat /\ Base \in 0..Len(stack) /\ Len(stack) \in Nat
        /\ Base < Len(stack)
    <3>1. Len(stack) \in Nat /\ Base \in Nat /\ Top.nlocals \in Nat
      BY <1>1, TopFrame
    <3> QED BY <1>8, <3>1
  <2>3. Peek(0) \in Known
    BY <1>1, PeekKnown, TopFrame DEF Return, HasTemporary
  <2>4. stack' \in Seq(Known) /\ Len(stack') = Base + 1
    BY <2>1, <2>2, <2>3, Pushed
  <2>5. TypeInv'
    BY <1>2, <1>5, <1>10, <2>1, <2>4 DEF TypeInv, Known
  <2>6. L - 1 \in DOMAIN frames' /\ frames' # <<>>
    BY <1>3, <1>4, <1>13
  <2>7. ControlInv'
    BY <1>1, <2>1, <2>6 DEF ControlInv
  <2>8. \A i \in 1..(L - 1) :
           frames[i].slots.off + frames[i].nlocals <= Base
    <3>1. \A i \in 1..(L - 1) : i < L /\ i \in DOMAIN frames
      BY <1>3
    <3>2. L \in DOMAIN frames /\ frames[L].slots.off = Base
      BY <1>3 DEF Base, Top, L
    <3>3. \A i, j \in DOMAIN frames : i < j =>
             frames[i].slots.off + frames[i].nlocals <= frames[j].slots.off
      BY DEF PlacesInv
    <3> HIDE DEF IInv
    <3> QED BY <3>1, <3>2, <3>3
  <2>9. PlacesInv'
    <3>1. ASSUME NEW i \in 1..(L - 1)
          PROVE  /\ frames'[i].slots.block = buf
                 /\ frames'[i].nlocals >= 1 + Arity[FunctionOf(i)']
                 /\ frames'[i].slots.off + frames'[i].nlocals <= Len(stack')
      <4>1. frames[i].slots.off \in Nat /\ frames[i].nlocals \in Nat
        BY <1>4, FrameNumbers
      <4>2. frames[i].slots.off + frames[i].nlocals <= Base + 1
        BY <2>2, <2>8, <4>1
      <4> QED BY <1>4, <1>11, <2>4, <4>2 DEF PlacesInv
    <3>2. ASSUME NEW i \in 1..(L - 1), NEW j \in 1..(L - 1), i < j
          PROVE  frames'[i].slots.off + frames'[i].nlocals <= frames'[j].slots.off
      BY <1>4, <3>2 DEF PlacesInv
    <3> QED BY <1>2, <1>4, <3>1, <3>2 DEF PlacesInv
  <2>10. RoomInv'
    <3>1. Len(stack') <= capacity
      <4>1. capacity \in Nat /\ Len(stack) <= capacity
        BY DEF TypeInv, RoomInv
      <4> QED BY <2>2, <2>4, <4>1
    <3>2. \A i \in 1..(L - 1) :
             frames'[i].slots.off + Window(FunctionOf(i)') <= capacity
      BY <1>4, <1>11 DEF RoomInv
    <3>3. \A i, j \in 1..(L - 1) : j = i + 1 =>
             frames'[j].slots.off < frames'[i].slots.off + Window(FunctionOf(i)')
      BY <1>4, <1>11 DEF RoomInv
    <3>4. Height' <= Window(Callable'.function)
      <4> DEFINE k == L - 1
      <4>1. k \in DOMAIN frames /\ L \in DOMAIN frames /\ L = k + 1
        BY <1>3, <1>13
      <4>2. Base < frames[k].slots.off + Window(FunctionOf(k))
        BY <4>1 DEF RoomInv, Base, Top, L
      <4>3. Top' = frames[k]
        BY <1>4, <2>6 DEF Top
      <4>4. Base' = frames[k].slots.off /\ Callable'.function = FunctionOf(k)
        BY <1>2, <4>3 DEF Base, Callable, FunctionOf
      <4>5. frames[k].slots.off \in Nat /\ Window(FunctionOf(k)) \in Nat
        BY <4>1, FrameNumbers, ClosureAt, FunctionsAssumption DEF FunctionOf, Window
      <4> HIDE DEF k
      <4>6. (Base + 1) - frames[k].slots.off <= Window(FunctionOf(k))
        BY <2>2, <4>2, <4>5
      <4> QED BY <2>4, <4>4, <4>6 DEF Height
    <3> QED BY <1>2, <1>4, <3>1, <3>2, <3>3, <3>4 DEF RoomInv, Window
  <2> QED BY <1>7, <1>9, <2>5, <2>7, <2>9, <2>10
<1> QED BY <1>12, <1>13

\* A new script starts with an empty list and nothing on the stack but itself.
LEMMA InterpretPreserves ==
  ASSUME IInv, Interpret
  PROVE  IInv'
<1> USE DEF IInv
<1> DEFINE c == Len(closures) + 1
           needed == 1 + MaxSlots[Script]
           slots == Moved(Slot(0), needed)
           new == [closure |-> c, slots |-> slots, nlocals |-> 1]
<1>1. frames = <<>> /\ status = "idle"
  BY DEF Interpret, ControlInv
<1>2. open = <<>>
  <2>1. \A k \in DOMAIN open : FALSE
    BY <1>1 DEF OpenInv, OpenPointToVariables
  <2>2. Len(open) \in Nat /\ DOMAIN open = 1..Len(open)
        /\ open \in Seq(DOMAIN upvalues)
    BY DEF TypeInv
  <2>3. Len(open) = 0
    <3>1. ~(1 \in DOMAIN open)
      BY <2>1
    <3> QED BY <2>2, <3>1
  <2> QED BY <2>2, <2>3, EmptySeq
<1>3. /\ closures' = Append(closures, [function |-> Script, upvalues |-> <<>>])
      /\ stack' = <<ClosureRef(c)>>
      /\ EnsureStackSpace(needed)
      /\ frames' = <<new>>
      /\ status' = "running"
      /\ UNCHANGED <<open, global>>
  BY DEF Interpret
<1>4. /\ Script \in Functions /\ MaxSlots[Script] \in Nat /\ needed \in Nat
      /\ Window(Script) = needed /\ needed >= 1 /\ Arity[Script] = 0
  BY FunctionsAssumption DEF Window
<1>5. /\ c \in Nat /\ c \in DOMAIN closures'
      /\ closures'[c] = [function |-> Script, upvalues |-> <<>>]
      /\ ClosureRef(c) \in Known'
  BY <1>3, <1>4, NewClosure
<1> HIDE DEF needed, c
<1>6. /\ slots \in Pointer /\ slots.off = 0 /\ slots.block = buf'
      /\ buf' \in Nat \ {0}
  <2>1. Slot(0) \in Pointer /\ Slot(0).block = buf /\ Slot(0).off = 0
    BY DEF Slot, Pointer, TypeInv
  <2> QED BY <1>3, <1>4, <2>1, MovedPointer
<1>7. capacity' \in Nat /\ capacity' >= needed
  BY <1>3, <1>4, Grown
<1> HIDE DEF slots
<1>8. /\ new \in [closure : DOMAIN closures', slots : Pointer, nlocals : Nat]
      /\ new.closure = c /\ new.slots = slots /\ new.nlocals = 1
  BY <1>5, <1>6
<1> HIDE DEF new
<1>9. /\ frames' \in Seq([closure : DOMAIN closures', slots : Pointer,
                          nlocals : Nat])
      /\ DOMAIN frames' = {1} /\ Len(frames') = 1 /\ frames'[1] = new
      /\ frames' # <<>>
  BY <1>3, <1>8
<1>10. stack' \in Seq(Known') /\ Len(stack') = 1
  BY <1>3, <1>5
<1>11. TypeInv'
  <2>1. /\ upvalues' \in Seq([location : Pointer, closed : Known])
        /\ DOMAIN upvalues' = DOMAIN upvalues
    BY <1>3, <1>4, MovedUpvalues
  <2> QED BY <1>3, <1>4, <1>6, <1>7, <1>9, <1>10, <2>1, NewClosureTypes DEF Status
<1>12. ControlInv' /\ CapturingInv'
  BY <1>3, <1>9 DEF ControlInv, CapturingInv
<1>13. FunctionOf(1)' = Script
  BY <1>5, <1>8, <1>9 DEF FunctionOf
<1>14. PlacesInv'
  <2>1. /\ frames'[1].slots.block = buf'
        /\ frames'[1].nlocals >= 1 + Arity[FunctionOf(1)']
        /\ frames'[1].slots.off + frames'[1].nlocals <= Len(stack')
    BY <1>4, <1>6, <1>8, <1>9, <1>10, <1>13
  <2> QED BY <1>9, <2>1 DEF PlacesInv
<1>15. RoomInv'
  <2>1. /\ Len(stack') <= capacity'
        /\ frames'[1].slots.off + Window(Script) <= capacity'
    BY <1>4, <1>6, <1>7, <1>8, <1>9, <1>10
  <2>2. Base' = 0 /\ Callable'.function = Script
    BY <1>5, <1>6, <1>8, <1>9 DEF Base, Top, Callable
  <2>3. Height' <= Window(Callable'.function)
    BY <1>4, <1>10, <2>2 DEF Height
  <2> QED BY <1>9, <1>13, <2>1, <2>3 DEF RoomInv, Window
<1>16. OpenInv'
  <2>1. DOMAIN frames \subseteq DOMAIN frames'
    BY <1>1
  <2>2. \A i \in DOMAIN frames :
           /\ frames'[i].slots.off = frames[i].slots.off
           /\ frames'[i].nlocals = frames[i].nlocals
    BY <1>1
  <2> QED BY <1>1, <1>2, <1>3, <1>4, <2>1, <2>2, OpenMoved
<1> QED BY <1>11, <1>12, <1>14, <1>15, <1>16

-----------------------------------------------------------------------------
(***************************************************************************)
(* The theorems.                                                           *)
(***************************************************************************)
LEMMA InitIInv == Init => IInv
<1> SUFFICES ASSUME Init PROVE IInv
  OBVIOUS
<1>1. TypeInv
  BY SizesAssumption DEF Init, TypeInv, Known, Atoms, Status
<1>2. ControlInv /\ PlacesInv /\ CapturingInv
  BY DEF Init, ControlInv, PlacesInv, CapturingInv
<1>3. RoomInv
  BY SizesAssumption DEF Init, RoomInv
<1>4. OpenInv
  BY DEF Init, OpenInv, OpenListSorted, OpenPointToVariables, NoneLost, OpenUpvalues
<1> QED BY <1>1, <1>2, <1>3, <1>4 DEF IInv

LEMMA StutterPreserves ==
  ASSUME IInv, UNCHANGED vars
  PROVE  IInv'
<1> USE DEF vars
<1>1. TypeInv' /\ ControlInv'
  BY DEF IInv, TypeInv, Known, ControlInv
<1>2. PlacesInv' /\ RoomInv'
  BY DEF IInv, PlacesInv, RoomInv, FunctionOf, Height, Base, Top, Callable, Window
<1>3. CapturingInv'
  BY DEF IInv, CapturingInv, CanCapture, New, Top, Callable
<1>4. OpenInv'
  BY DEF IInv, OpenInv, OpenListSorted, OpenPointToVariables, NoneLost,
         OpenUpvalues, OpenOff, Variables
<1> QED BY <1>1, <1>2, <1>3, <1>4 DEF IInv

LEMMA InstructionPreserves ==
  ASSUME IInv, Running, Instruction
  PROVE  IInv'
<1>1. CASE RuntimeError
  BY <1>1, RuntimeErrorPreserves
<1>2. CASE Abort
  BY <1>2, AbortPreserves
<1>3. CASE ~RuntimeError /\ ~Abort
  <2>1. CASE \E v \in Literals : Constant(v)
    BY <2>1, ConstantPreserves
  <2>2. CASE Pop
    <3>1. global' \in Known
      BY <2>2 DEF Pop, IInv, TypeInv
    <3> QED BY <2>2, <3>1, PopPreserves DEF Pop
  <2>3. CASE Declare
    BY <2>3, DeclarePreserves
  <2>4. CASE \E slot \in Locals : GetLocal(slot) \/ SetLocal(slot)
    BY <2>4, GetLocalPreserves, SetLocalPreserves
  <2>5. CASE \E operands \in 1..2 : Compute(operands)
    BY <1>3, <2>5, ComputePreserves
  <2>6. CASE GetGlobal \/ DefineGlobal \/ SetGlobal
    BY <1>3, <2>6, GlobalsPreserve
  <2>7. CASE \E slot \in DOMAIN Callable.upvalues :
                GetUpvalue(slot) \/ SetUpvalue(slot)
    BY <2>7, GetUpvaluePreserves, SetUpvaluePreserves
  <2>8. CASE \E f \in Functions \ {Script} : MakeClosure(f) \/ DeclareFunction(f)
    BY <2>8, MakeClosurePreserves
  <2>9. CASE \E count \in Locals : EndScope(count) \/ PlainLoopExit(count)
    BY <2>9, EndScopePreserves, PlainLoopExitPreserves
  <2>10. CASE \E arg_c \in 0..2 : Call(arg_c) \/ CallNative(arg_c) \/ CallOther(arg_c)
    BY <1>3, <2>10, CallPreserves, CallNativePreserves DEF CallOther
  <2>11. CASE Return
    BY <2>11, ReturnPreserves
  <2> QED BY <2>1, <2>2, <2>3, <2>4, <2>5, <2>6, <2>7, <2>8, <2>9, <2>10, <2>11
          DEF Instruction
<1> QED BY <1>1, <1>2, <1>3

LEMMA NextPreserves == IInv /\ [Next]_vars => IInv'
<1> SUFFICES ASSUME IInv, [Next]_vars PROVE IInv'
  OBVIOUS
<1>1. CASE Interpret
  BY <1>1, InterpretPreserves
<1>2. CASE Running /\ Instruction
  BY <1>2, InstructionPreserves
<1>3. CASE CaptureLocal
  BY <1>3, CaptureLocalPreserves
<1>4. CASE CaptureEnclosing
  BY <1>4, CaptureEnclosingPreserves
<1>5. CASE UNCHANGED vars
  BY <1>5, StutterPreserves
<1> QED BY <1>1, <1>2, <1>3, <1>4, <1>5 DEF Next

LEMMA Invariance == Spec => []IInv
BY InitIInv, NextPreserves, PTL DEF Spec

\* The machine's state is always well formed (vm.hxx, object.hxx).
THEOREM TypeCorrect == Spec => []TypeOK
<1>1. IInv => TypeOK
  <2> SUFFICES ASSUME IInv PROVE TypeOK
    OBVIOUS
  <2> USE DEF IInv, TypeInv
  <2>1. DOMAIN closures \subseteq Nat /\ DOMAIN upvalues \subseteq Nat
    OBVIOUS
  <2>2. Known \subseteq Value
    BY <2>1 DEF Known, Value
  <2>3. stack \in Seq(Value) /\ global \in Value
    BY <2>2, SeqMonotone
  <2>4. frames \in Seq(Frame)
    <3> DEFINE Live == [closure : DOMAIN closures, slots : Pointer, nlocals : Nat]
    <3>1. Live \subseteq Frame /\ frames \in Seq(Live)
      BY <2>1 DEF Frame
    <3> HIDE DEF Live
    <3> QED BY <3>1, SeqMonotone
  <2>5. open \in Seq(Nat)
    BY <2>1, SeqMonotone
  <2>6. upvalues \in Seq(Upvalue)
    <3> DEFINE Live == [location : Pointer, closed : Known]
    <3>1. Live \subseteq Upvalue /\ upvalues \in Seq(Live)
      BY <2>2 DEF Upvalue
    <3> HIDE DEF Live
    <3> QED BY <3>1, SeqMonotone
  <2>7. closures \in Seq(Closure)
    <3> DEFINE Live == [function : Functions, upvalues : Seq(DOMAIN upvalues)]
    <3>1. Seq(DOMAIN upvalues) \subseteq Seq(Nat)
      BY <2>1, SeqMonotone
    <3>2. Live \subseteq Closure /\ closures \in Seq(Live)
      BY <3>1 DEF Closure
    <3> HIDE DEF Live
    <3> QED BY <3>2, SeqMonotone
  <2> QED BY <2>3, <2>4, <2>5, <2>6, <2>7 DEF TypeOK
<1> QED BY <1>1, Invariance, PTL

\* The list that capture_upvalue and close_upvalues walk is sorted, and no
\* variable is in it twice.
THEOREM OpenUpvaluesSorted == Spec => []OpenListSorted
<1>1. IInv => OpenListSorted
  BY DEF IInv, OpenInv
<1> QED BY <1>1, Invariance, PTL

\* Every open upvalue points to a variable of a function that still runs, in
\* the memory the stack is in, however often ensure_stack_space moves it.
THEOREM OpenUpvaluesPointToVariables == Spec => []OpenPointToVariables
<1>1. IInv => OpenPointToVariables
  BY DEF IInv, OpenInv
<1> QED BY <1>1, Invariance, PTL

\* An upvalue that is not in the list has its variable's value itself
\* (close_upvalues), so that no closure depends on a slot that was left.
THEOREM NoUpvalueLost == Spec => []NoneLost
<1>1. IInv => NoneLost
  BY DEF IInv, OpenInv
<1> QED BY <1>1, Invariance, PTL

\* What call() reserves is enough: no instruction of any function writes past
\* the end of the stack.
THEOREM StackSufficient == Spec => []StackFits
<1>1. IInv => StackFits
  BY DEF IInv, RoomInv, StackFits, FunctionOf
<1> QED BY <1>1, Invariance, PTL
-----------------------------------------------------------------------------
(***************************************************************************)
(* The callee of a frame.  Its slot is the first of the frame, which no    *)
(* variable has: nothing captures it, so nothing assigns to it, and its    *)
(* closure was complete before it could be called.                         *)
(***************************************************************************)
CalleesKept ==
  \A i \in DOMAIN frames :
    stack[frames[i].slots.off + 1] = ClosureRef(frames[i].closure)

CalleesNotCaptured ==
  \A k \in DOMAIN open, i \in DOMAIN frames : OpenOff(k) # frames[i].slots.off

ClosuresComplete ==
  \A c \in DOMAIN closures :
    \/ Len(closures[c].upvalues) = Len(Captures[closures[c].function])
    \/ status = "capturing" /\ c = New

NewNotCalled ==
  status = "capturing" => \A i \in DOMAIN frames : frames[i].closure # New

CalleeInv ==
  /\ CalleesKept /\ CalleesNotCaptured /\ ClosuresComplete /\ NewNotCalled

LEMMA CalleeSlot ==
  ASSUME IInv, frames # <<>>, NEW i \in DOMAIN frames
  PROVE  /\ frames[i].slots.off \in Nat
         /\ frames[i].slots.off + 1 \in 1..(Base + 1)
         /\ frames[i].slots.off + 1 \in 1..Len(stack)
         /\ i # Len(frames) => frames[i].slots.off + 1 \in 1..Base
<1>1. /\ Base \in Nat /\ Top.nlocals \in Nat /\ Len(stack) \in Nat
      /\ Arity[Callable.function] \in Nat
      /\ Top.nlocals >= 1 + Arity[Callable.function]
      /\ Base + Top.nlocals <= Len(stack)
  BY TopNumbers
<1>2. Base + 1 <= Len(stack)
  BY <1>1
<1>3. CASE i = Len(frames)
  BY <1>1, <1>2, <1>3 DEF Base, Top
<1>4. CASE i # Len(frames)
  <2>1. i < Len(frames) /\ Len(frames) \in DOMAIN frames
    BY <1>4, FrameIndices, TopFrame DEF IInv
  <2>2. frames[i].slots.off + frames[i].nlocals <= Base
    BY <2>1 DEF IInv, PlacesInv, Base, Top
  <2>3. frames[i].closure \in DOMAIN closures
    BY FrameNumbers DEF IInv
  <2>4. Arity[FunctionOf(i)] \in Nat
    BY <2>3, ClosureAt, FunctionsAssumption DEF IInv, FunctionOf
  <2>5. frames[i].nlocals >= 1 + Arity[FunctionOf(i)]
    BY DEF IInv, PlacesInv
  <2>6. frames[i].slots.off \in Nat /\ frames[i].nlocals \in Nat
    BY FrameNumbers DEF IInv
  <2>7. PICK arity : arity = Arity[FunctionOf(i)]
    OBVIOUS
  <2>8. PICK off : off = frames[i].slots.off
    OBVIOUS
  <2>9. off \in Nat /\ off + 1 \in 1..Base
    <3>1. PICK n : n = frames[i].nlocals
      OBVIOUS
    <3>2. off \in Nat /\ n \in Nat /\ arity \in Nat /\ n >= 1 + arity
      BY <2>4, <2>5, <2>6, <2>7, <2>8, <3>1
    <3>3. off + n <= Base
      BY <2>2, <2>8, <3>1
    <3> QED BY <1>1, <3>2, <3>3
  <2>10. off + 1 \in 1..(Base + 1) /\ off + 1 \in 1..Len(stack)
    BY <1>1, <1>2, <2>9
  <2> QED BY <2>8, <2>9, <2>10
<1> QED BY <1>3, <1>4

\* An instruction that leaves the frames, their callees and the closures, and
\* opens no upvalue.
LEMMA CalleesStay ==
  ASSUME CalleeInv, Running, status' # "capturing", UNCHANGED closures,
         DOMAIN frames' = DOMAIN frames,
         \A i \in DOMAIN frames :
           /\ frames'[i].closure = frames[i].closure
           /\ frames'[i].slots = frames[i].slots
           /\ stack'[frames[i].slots.off + 1] = stack[frames[i].slots.off + 1],
         \A j \in DOMAIN open' : \E k \in DOMAIN open : OpenOff(j)' = OpenOff(k)
  PROVE  CalleeInv'
<1>1. CalleesKept'
  BY DEF CalleeInv, CalleesKept, ClosureRef
<1>2. CalleesNotCaptured'
  BY DEF CalleeInv, CalleesNotCaptured
<1>3. ClosuresComplete' /\ NewNotCalled'
  BY DEF CalleeInv, ClosuresComplete, NewNotCalled, Running
<1> QED BY <1>1, <1>2, <1>3 DEF CalleeInv

LEMMA CalleesUntouched ==
  ASSUME IInv, CalleeInv, Running, status' # "capturing",
         UNCHANGED <<frames, open, upvalues, closures>>,
         \A i \in 1..(Base + 1) : stack'[i] = stack[i]
  PROVE  CalleeInv'
<1>1. frames # <<>>
  BY RunningHasFrame
<1>2. \A i \in DOMAIN frames :
        stack'[frames[i].slots.off + 1] = stack[frames[i].slots.off + 1]
  BY <1>1, CalleeSlot
<1>3. \A j \in DOMAIN open' : \E k \in DOMAIN open : OpenOff(j)' = OpenOff(k)
  BY DEF OpenOff
<1> QED BY <1>2, <1>3, CalleesStay

\* What is below the top of the stack stays when it is truncated or grows.
LEMMA StackBelow ==
  ASSUME IInv, frames # <<>>, NEW n \in 0..Len(stack), Base + 1 <= n,
         NEW v, stack' = Truncate(n) \/ stack' = Append(Truncate(n), v)
                \/ stack' = Append(stack, v)
  PROVE  \A i \in 1..(Base + 1) : stack'[i] = stack[i]
<1>1. stack \in Seq(Known) /\ Base \in Nat /\ Len(stack) \in Nat
  BY TopNumbers DEF IInv, TypeInv
<1>2. /\ Truncate(n) \in Seq(Known) /\ Len(Truncate(n)) = n
      /\ \A i \in 1..n : Truncate(n)[i] = stack[i]
  BY Truncated
<1>3. CASE stack' = Truncate(n)
  BY <1>1, <1>2, <1>3
<1>4. CASE stack' = Append(Truncate(n), v)
  <2>1. ASSUME NEW i \in 1..n PROVE Append(Truncate(n), v)[i] = Truncate(n)[i]
    BY <1>2
  <2> QED BY <1>1, <1>2, <1>4, <2>1
<1>5. CASE stack' = Append(stack, v)
  BY <1>1, <1>5
<1> QED BY <1>3, <1>4, <1>5

\* The instructions that push or replace values, and those that assign.
LEMMA PushesKeepCallees ==
  ASSUME IInv, CalleeInv, Running, HasRoom, NEW v, stack' = Append(stack, v),
         MachineUnchanged
  PROVE  CalleeInv'
<1>1. frames # <<>>
  BY RunningHasFrame
<1>2. Len(stack) \in 0..Len(stack) /\ Base + 1 <= Len(stack)
  BY <1>1, TopNumbers
<1>3. \A i \in 1..(Base + 1) : stack'[i] = stack[i]
  BY <1>1, <1>2, StackBelow
<1>4. status' # "capturing" /\ UNCHANGED <<frames, open, upvalues, closures>>
  BY DEF MachineUnchanged, Running
<1> QED BY <1>3, <1>4, CalleesUntouched

LEMMA PopsKeepCallees ==
  ASSUME IInv, CalleeInv, Running, NEW n \in Nat, Height >= Top.nlocals + n,
         NEW v, MachineUnchanged,
         \/ stack' = Truncate(Len(stack) - n)
         \/ stack' = Append(Truncate(Len(stack) - n), v)
  PROVE  CalleeInv'
<1>1. frames # <<>>
  BY RunningHasFrame
<1>2. Len(stack) - n \in 0..Len(stack) /\ Base + 1 <= Len(stack) - n
  BY <1>1, TopNumbers DEF Height
<1>3. \A i \in 1..(Base + 1) : stack'[i] = stack[i]
  BY <1>1, <1>2, StackBelow
<1>4. status' # "capturing" /\ UNCHANGED <<frames, open, upvalues, closures>>
  BY DEF MachineUnchanged, Running
<1> QED BY <1>3, <1>4, CalleesUntouched

LEMMA TemporariesKeepCallees ==
  ASSUME IInv, CalleeInv, Running, ~RuntimeError, ~Abort,
         \/ \E v \in Literals : Constant(v)
         \/ Pop
         \/ \E slot \in Locals : GetLocal(slot)
         \/ \E operands \in 1..2 : Compute(operands)
         \/ GetGlobal \/ DefineGlobal \/ SetGlobal
         \/ \E slot \in DOMAIN Callable.upvalues : GetUpvalue(slot)
         \/ \E arg_c \in 0..2 : CallNative(arg_c)
  PROVE  CalleeInv'
<1>1. frames # <<>>
  BY RunningHasFrame
<1>2. /\ Base \in Nat /\ Top.nlocals \in Nat /\ Len(stack) \in Nat
      /\ HasTemporary => Height >= Top.nlocals + 1
  BY <1>1, TopNumbers DEF HasTemporary, Height
<1>3. ASSUME NEW v \in Literals, Constant(v) PROVE CalleeInv'
  BY <1>3, PushesKeepCallees DEF Constant
<1>4. ASSUME NEW slot \in Locals, GetLocal(slot) PROVE CalleeInv'
  BY <1>4, PushesKeepCallees DEF GetLocal
<1>5. CASE GetGlobal
  BY <1>5, PushesKeepCallees DEF GetGlobal
<1>6. ASSUME NEW slot \in DOMAIN Callable.upvalues, GetUpvalue(slot)
      PROVE  CalleeInv'
  BY <1>6, PushesKeepCallees DEF GetUpvalue
<1>7. CASE Pop \/ DefineGlobal
  BY <1>2, <1>7, PopsKeepCallees DEF Pop, DefineGlobal
<1>8. CASE SetGlobal
  <2>1. UNCHANGED stack /\ MachineUnchanged
    BY <1>8 DEF SetGlobal
  <2> QED BY <2>1, CalleesUntouched DEF MachineUnchanged, Running
<1>9. ASSUME NEW operands \in 1..2, Compute(operands) PROVE CalleeInv'
  <2>1. PICK v \in Data : stack' = Append(Truncate(Len(stack) - operands), v)
    BY <1>9 DEF Compute
  <2>2. Height >= Top.nlocals + operands /\ MachineUnchanged /\ operands \in Nat
    BY <1>9 DEF Compute
  <2> QED BY <2>1, <2>2, PopsKeepCallees
<1>10. ASSUME NEW arg_c \in 0..2, CallNative(arg_c) PROVE CalleeInv'
  <2>1. PICK v \in Data : stack' = Append(Truncate(Len(stack) - arg_c - 1), v)
    BY <1>10 DEF CallNative
  <2>2. Height > Top.nlocals + arg_c /\ MachineUnchanged
    BY <1>10 DEF CallNative
  <2>3. /\ Len(stack) - arg_c - 1 = Len(stack) - (arg_c + 1)
        /\ arg_c + 1 \in Nat
        /\ Height >= Top.nlocals + (arg_c + 1)
    BY <1>2, <2>2 DEF Height
  <2> QED BY <2>1, <2>2, <2>3, PopsKeepCallees
<1> QED BY <1>3, <1>4, <1>5, <1>6, <1>7, <1>8, <1>9, <1>10

LEMMA SetLocalKeepsCallees ==
  ASSUME IInv, CalleeInv, Running, NEW slot \in Locals, SetLocal(slot)
  PROVE  CalleeInv'
<1>1. frames # <<>>
  BY RunningHasFrame
<1>2. slot \in Nat /\ slot >= 1 /\ Base \in Nat
  BY <1>1, TopNumbers DEF Locals
<1>3. stack \in Seq(Known) /\ stack' = [stack EXCEPT ![Base + slot + 1] = Peek(0)]
  BY DEF IInv, TypeInv, SetLocal
<1>4. \A i \in 1..(Base + 1) : stack'[i] = stack[i]
  <2>1. Base + 1 <= Len(stack) /\ Len(stack) \in Nat
    BY <1>1, TopNumbers
  <2>2. ASSUME NEW i \in 1..(Base + 1) PROVE i \in DOMAIN stack /\ i # Base + slot + 1
    BY <1>2, <1>3, <2>1
  <2> QED BY <1>3, <2>2
<1>5. status' # "capturing" /\ UNCHANGED <<frames, open, upvalues, closures>>
  BY DEF SetLocal, MachineUnchanged, Running
<1> QED BY <1>4, <1>5, CalleesUntouched

LEMMA SetUpvalueKeepsCallees ==
  ASSUME IInv, CalleeInv, Running, NEW slot \in DOMAIN Callable.upvalues,
         SetUpvalue(slot)
  PROVE  CalleeInv'
<1> DEFINE u == Callable.upvalues[slot]
<1>1. frames # <<>>
  BY RunningHasFrame
<1>2. u \in DOMAIN upvalues
  BY <1>1, CallableUpvalue
<1>3. status' # "capturing" /\ UNCHANGED <<frames, open, closures>>
  BY DEF SetUpvalue, Running
<1>4. CASE upvalues[u].location.block = Own
  <2>1. UNCHANGED stack /\ upvalues' = [upvalues EXCEPT ![u].closed = Peek(0)]
    BY <1>4 DEF SetUpvalue
  <2>2. \A w \in DOMAIN upvalues : upvalues'[w].location = upvalues[w].location
    BY <1>1, <1>2, <2>1, UpvalueAt
  <2>3. \A j \in DOMAIN open' : \E k \in DOMAIN open : OpenOff(j)' = OpenOff(k)
    BY <1>3, <2>2, OpenOnStack DEF OpenOff
  <2> QED BY <1>3, <2>1, <2>3, CalleesStay
<1>5. CASE upvalues[u].location.block # Own
  <2>1. /\ stack' = [stack EXCEPT ![upvalues[u].location.off + 1] = Peek(0)]
        /\ UNCHANGED upvalues
    BY <1>5 DEF SetUpvalue
  <2>2. PICK k \in DOMAIN open : open[k] = u
    BY <1>2, <1>5 DEF IInv, OpenInv, NoneLost, OpenUpvalues, Running
  <2>3. upvalues[u].location.off = OpenOff(k) /\ OpenOff(k) \in Nat
    BY <2>2, OpenOnStack DEF OpenOff
  <2>4. ASSUME NEW i \in DOMAIN frames
        PROVE  stack'[frames[i].slots.off + 1] = stack[frames[i].slots.off + 1]
    <3>1. frames[i].slots.off \in Nat /\ frames[i].slots.off + 1 \in 1..Len(stack)
      BY <1>1, CalleeSlot
    <3>2. OpenOff(k) # frames[i].slots.off
      BY DEF CalleeInv, CalleesNotCaptured
    <3>3. upvalues[u].location.off + 1 # frames[i].slots.off + 1
      BY <2>3, <3>1, <3>2
    <3>4. stack \in Seq(Known)
      BY DEF IInv, TypeInv
    <3> QED BY <2>1, <3>1, <3>3, <3>4
  <2>5. \A j \in DOMAIN open' : \E n \in DOMAIN open : OpenOff(j)' = OpenOff(n)
    BY <1>3, <2>1 DEF OpenOff
  <2> QED BY <1>3, <2>4, <2>5, CalleesStay
<1> QED BY <1>4, <1>5

\* A runtime error leaves no frame, an assertion that fails changes nothing.
LEMMA FailuresKeepCallees ==
  ASSUME CalleeInv, Running, RuntimeError \/ Abort
  PROVE  CalleeInv'
<1>1. CASE RuntimeError
  BY <1>1 DEF CalleeInv, RuntimeError, CalleesKept, CalleesNotCaptured,
              ClosuresComplete, NewNotCalled, Running
<1>2. CASE Abort
  BY <1>2, CalleesStay DEF Abort, OpenOff
<1> QED BY <1>1, <1>2

\* The innermost frame gets or loses variables: it keeps its callee.
LEMMA ScopesKeepCallees ==
  ASSUME IInv, CalleeInv, Running,
         \/ Declare
         \/ \E count \in Locals : EndScope(count) \/ PlainLoopExit(count)
  PROVE  CalleeInv'
<1>1. frames # <<>> /\ TypeInv
  BY RunningHasFrame DEF IInv
<1>2. /\ Base \in Nat /\ Top.nlocals \in Nat /\ Len(stack) \in Nat
      /\ Arity[Callable.function] \in Nat
  BY <1>1, TopNumbers
<1>3. CASE Declare
  <2>1. frames' = [frames EXCEPT ![Len(frames)].nlocals = Top.nlocals + 1]
        /\ Top.nlocals + 1 \in Nat
    BY <1>2, <1>3 DEF Declare, Top
  <2>2. /\ DOMAIN frames' = DOMAIN frames
        /\ \A i \in DOMAIN frames : /\ frames'[i].closure = frames[i].closure
                                    /\ frames'[i].slots = frames[i].slots
    BY <1>1, <2>1, Resized
  <2>3. status' # "capturing" /\ UNCHANGED <<stack, open, upvalues, closures>>
    BY <1>3 DEF Declare, Running
  <2>4. \A j \in DOMAIN open' : \E k \in DOMAIN open : OpenOff(j)' = OpenOff(k)
    BY <2>3 DEF OpenOff
  <2> QED BY <2>2, <2>3, <2>4, CalleesStay
<1>4. ASSUME NEW count \in Locals, EndScope(count) \/ PlainLoopExit(count)
      PROVE  CalleeInv'
  <2> DEFINE m == Top.nlocals - count
             keep == Len(stack) - 1 - count
  <2>1. /\ count \in 1..(Top.nlocals - 1 - Arity[Callable.function])
        /\ frames' = [frames EXCEPT ![Len(frames)].nlocals = m]
        /\ UNCHANGED closures /\ status' # "capturing"
    BY <1>4 DEF EndScope, PlainLoopExit, LoopExit, Running, Top
  <2>2. m \in Nat /\ m >= 1 /\ count \in Nat /\ m = Top.nlocals - count
    BY <1>1, <1>2, <2>1, ScopeNumbers
  <2> HIDE DEF m
  <2>3. /\ DOMAIN frames' = DOMAIN frames
        /\ \A i \in DOMAIN frames : /\ frames'[i].closure = frames[i].closure
                                    /\ frames'[i].slots = frames[i].slots
    BY <1>1, <2>1, <2>2, Resized
  <2>4. CASE EndScope(count)
    <3>1. Height = Top.nlocals + 1 /\ CloseUpvalues(keep)
          /\ stack' = Append(Truncate(keep), Peek(0))
      BY <2>4 DEF EndScope
    <3>2. keep \in Nat /\ keep \in 0..Len(stack) /\ Base + 1 <= keep
      BY <1>2, <2>2, <3>1 DEF Height
    <3>3. \A i \in 1..(Base + 1) : stack'[i] = stack[i]
      BY <1>1, <3>1, <3>2, StackBelow
    <3>4. \A i \in DOMAIN frames :
            stack'[frames[i].slots.off + 1] = stack[frames[i].slots.off + 1]
      BY <1>1, <3>3, CalleeSlot
    <3>5. status' # "error"
      BY <2>4 DEF EndScope, Running
    <3>6. \A j \in DOMAIN open' : \E k \in DOMAIN open : OpenOff(j)' = OpenOff(k)
      BY <1>1, <3>1, <3>2, <3>5, Closed
    <3> QED BY <2>1, <2>3, <3>4, <3>6, CalleesStay
  <2>5. CASE PlainLoopExit(count)
    <3>1. Height = Top.nlocals /\ stack' = Truncate(Len(stack) - count)
          /\ UNCHANGED <<open, upvalues>>
      BY <2>5 DEF PlainLoopExit, LoopExit
    <3>2. Len(stack) - count \in 0..Len(stack) /\ Base + 1 <= Len(stack) - count
      BY <1>2, <2>2, <3>1 DEF Height
    <3>3. \A i \in 1..(Base + 1) : stack'[i] = stack[i]
      BY <1>1, <3>1, <3>2, StackBelow
    <3>4. \A i \in DOMAIN frames :
            stack'[frames[i].slots.off + 1] = stack[frames[i].slots.off + 1]
      BY <1>1, <3>3, CalleeSlot
    <3>5. \A j \in DOMAIN open' : \E k \in DOMAIN open : OpenOff(j)' = OpenOff(k)
      BY <3>1 DEF OpenOff
    <3> QED BY <2>1, <2>3, <3>4, <3>5, CalleesStay
  <2> QED BY <1>4, <2>4, <2>5
<1> QED BY <1>3, <1>4

\* A new closure is not called before it is complete.
LEMMA MakeClosureKeepsCallees ==
  ASSUME IInv, CalleeInv, NEW f \in Functions, Running,
         MakeClosure(f) \/ DeclareFunction(f)
  PROVE  CalleeInv'
<1> DEFINE new == [function |-> f, upvalues |-> <<>>]
<1>1. frames # <<>> /\ TypeInv
  BY RunningHasFrame DEF IInv
<1>2. /\ closures' = Append(closures, new)
      /\ stack' = Append(stack, ClosureRef(Len(closures) + 1))
      /\ status' = IF Captures[f] = <<>> THEN "running" ELSE "capturing"
      /\ UNCHANGED <<open, upvalues>>
  BY DEF MakeClosure, DeclareFunction, PushClosure
<1>3. /\ DOMAIN frames' = DOMAIN frames
      /\ \A i \in DOMAIN frames : /\ frames'[i].closure = frames[i].closure
                                  /\ frames'[i].slots = frames[i].slots
  <2>1. CASE MakeClosure(f)
    BY <2>1 DEF MakeClosure
  <2>2. CASE DeclareFunction(f)
    <3>1. frames' = [frames EXCEPT ![Len(frames)].nlocals = Top.nlocals + 1]
          /\ Top.nlocals + 1 \in Nat
      BY <1>1, <2>2, TopNumbers DEF DeclareFunction, Top
    <3> QED BY <1>1, <3>1, Resized
  <2> QED BY <2>1, <2>2
<1>4. CalleesKept'
  <2>1. Len(stack) \in 0..Len(stack) /\ Base + 1 <= Len(stack)
    BY <1>1, TopNumbers
  <2>2. \A i \in 1..(Base + 1) : stack'[i] = stack[i]
    BY <1>1, <1>2, <2>1, StackBelow
  <2>3. \A i \in DOMAIN frames :
          stack'[frames[i].slots.off + 1] = stack[frames[i].slots.off + 1]
    BY <1>1, <2>2, CalleeSlot
  <2> QED BY <1>3, <2>3 DEF CalleeInv, CalleesKept, ClosureRef
<1>5. CalleesNotCaptured'
  BY <1>2, <1>3 DEF CalleeInv, CalleesNotCaptured, OpenOff
<1>6. /\ Len(closures) \in Nat /\ Len(closures') = Len(closures) + 1
      /\ DOMAIN closures = 1..Len(closures)
      /\ DOMAIN closures' = 1..(Len(closures) + 1)
      /\ \A c \in DOMAIN closures : closures'[c] = closures[c]
      /\ closures'[Len(closures) + 1] = new
  BY <1>1, <1>2, NewClosure DEF TypeInv
<1>7. ClosuresComplete'
  <2>1. ASSUME NEW c \in 1..(Len(closures) + 1)
        PROVE  \/ Len(closures'[c].upvalues) = Len(Captures[closures'[c].function])
               \/ status' = "capturing" /\ c = Len(closures')
    <3>1. CASE c = Len(closures) + 1
      <4>1. closures'[c].function = f /\ closures'[c].upvalues = <<>>
        BY <1>6, <3>1
      <4> QED BY <1>2, <1>6, <3>1, <4>1
    <3>2. CASE c # Len(closures) + 1
      <4>1. c \in DOMAIN closures
        BY <1>6, <3>2
      <4> QED BY <1>6, <4>1 DEF CalleeInv, ClosuresComplete, Running
    <3> QED BY <3>1, <3>2
  <2> QED BY <1>6, <2>1 DEF ClosuresComplete, New
<1>8. NewNotCalled'
  <2>1. \A i \in DOMAIN frames : frames[i].closure \in DOMAIN closures
    BY <1>1, FrameNumbers
  <2> QED BY <1>3, <1>6, <2>1 DEF NewNotCalled, New
<1> QED BY <1>4, <1>5, <1>7, <1>8 DEF CalleeInv

\* do_closure's loop: it ends when the closure has all its upvalues.
LEMMA CapturedComplete ==
  ASSUME IInv, CalleeInv, status = "capturing", NEW u, Captured(u)
  PROVE  CalleesKept' /\ ClosuresComplete' /\ NewNotCalled'
<1>1. closures # <<>> /\ TypeInv
  BY DEF IInv, CapturingInv
<1>2. /\ closures' = [closures EXCEPT ![New].upvalues = Append(@, u)]
      /\ status' = IF Len(closures[New].upvalues) + 1
                      = Len(Captures[closures[New].function])
                   THEN "running" ELSE "capturing"
      /\ UNCHANGED <<stack, frames>>
  BY DEF Captured
<1>3. New \in DOMAIN closures /\ DOMAIN closures = 1..Len(closures)
      /\ Len(closures) \in Nat
  BY <1>1, EmptySeq DEF TypeInv, New
<1>4. closures[New] \in [function : Functions, upvalues : Seq(DOMAIN upvalues)]
  BY <1>1, <1>3, ClosureAt
<1>5. /\ DOMAIN closures' = DOMAIN closures /\ Len(closures') = Len(closures)
      /\ \A c \in DOMAIN closures : c # New => closures'[c] = closures[c]
      /\ closures'[New].function = closures[New].function
      /\ closures'[New].upvalues = Append(closures[New].upvalues, u)
  BY <1>2, <1>3, <1>4 DEF TypeInv
<1>6. Len(closures'[New].upvalues) = Len(closures[New].upvalues) + 1
  BY <1>4, <1>5
<1>7. New' = New
  BY <1>5 DEF New
<1>8. ClosuresComplete'
  <2>1. ASSUME NEW c \in DOMAIN closures
        PROVE  \/ Len(closures'[c].upvalues) = Len(Captures[closures'[c].function])
               \/ status' = "capturing" /\ c = New
    <3>1. CASE c = New
      BY <1>2, <1>5, <1>6, <3>1
    <3>2. CASE c # New
      BY <1>5, <3>2 DEF CalleeInv, ClosuresComplete
    <3> QED BY <3>1, <3>2
  <2> QED BY <1>5, <1>7, <2>1 DEF ClosuresComplete
<1>9. CalleesKept'
  BY <1>2 DEF CalleeInv, CalleesKept, ClosureRef
<1>10. NewNotCalled'
  BY <1>2, <1>7 DEF CalleeInv, NewNotCalled
<1> QED BY <1>8, <1>9, <1>10

LEMMA CapturesKeepCallees ==
  ASSUME IInv, CalleeInv, CaptureLocal \/ CaptureEnclosing
  PROVE  CalleeInv'
<1>1. CASE CaptureEnclosing
  <2>1. status = "capturing" /\ UNCHANGED <<open, upvalues, frames>>
        /\ Captured(Callable.upvalues[NextCapture.index + 1])
    BY <1>1 DEF CaptureEnclosing, Captured
  <2>2. CalleesKept' /\ ClosuresComplete' /\ NewNotCalled'
    BY <2>1, CapturedComplete
  <2>3. CalleesNotCaptured'
    BY <2>1 DEF CalleeInv, CalleesNotCaptured, OpenOff
  <2> QED BY <2>2, <2>3 DEF CalleeInv
<1>2. CASE CaptureLocal
  <2> DEFINE off == Base + NextCapture.index
             U == Len(upvalues) + 1
             new == [location |-> Slot(off), closed |-> None]
  <2>1. status = "capturing" /\ NextCapture.is_local /\ frames # <<>>
        /\ TypeInv
    BY <1>2 DEF CaptureLocal, IInv, ControlInv
  <2>2. PICK k \in 0..Len(open) :
          IF k < Len(open) /\ OpenOff(k + 1) = off
          THEN Captured(open[k + 1]) /\ UNCHANGED <<open, upvalues>>
          ELSE /\ upvalues' = Append(upvalues, new)
               /\ open' = InsertAt(open, k + 1, U)
               /\ Captured(U)
    BY <1>2 DEF CaptureLocal
  <2>3. (\E u : Captured(u)) /\ UNCHANGED frames
    BY <2>2 DEF Captured
  <2>4. CalleesKept' /\ ClosuresComplete' /\ NewNotCalled'
    BY <2>1, <2>3, CapturedComplete
  <2>5. /\ off \in Nat
        /\ \A i \in DOMAIN frames : off # frames[i].slots.off
    <3>1. /\ NextCapture.index \in 1..(Top.nlocals - 1)
          /\ off \in Nat
      BY <2>1, CaptureLocalSlot
    <3>2. Base \in Nat /\ Top.nlocals \in Nat
      BY <2>1, TopNumbers
    <3>3. ASSUME NEW i \in DOMAIN frames PROVE off # frames[i].slots.off
      <4>1. /\ frames[i].slots.off \in Nat
            /\ frames[i].slots.off + 1 \in 1..(Base + 1)
        BY <2>1, CalleeSlot
      <4> QED BY <3>1, <3>2, <4>1
    <3> QED BY <3>1, <3>3
  <2> HIDE DEF off
  <2>6. \A j \in DOMAIN open' :
          OpenOff(j)' = off \/ \E n \in DOMAIN open : OpenOff(j)' = OpenOff(n)
    <3>1. CASE k < Len(open) /\ OpenOff(k + 1) = off
      BY <2>2, <3>1 DEF OpenOff
    <3>2. CASE ~(k < Len(open) /\ OpenOff(k + 1) = off)
      <4>1. /\ upvalues' = Append(upvalues, new)
            /\ open' = InsertAt(open, k + 1, U)
        BY <2>2, <3>2
      <4>2. /\ Len(upvalues) \in Nat /\ DOMAIN upvalues = 1..Len(upvalues)
            /\ open \in Seq(DOMAIN upvalues)
            /\ Len(open) \in Nat /\ DOMAIN open = 1..Len(open)
        BY <2>1 DEF TypeInv
      <4>3. /\ \A u \in DOMAIN upvalues : upvalues'[u] = upvalues[u]
            /\ upvalues'[U] = new
        BY <2>1, <4>1 DEF TypeInv
      <4>4. new.location.off = off
        BY DEF Slot
      <4>5. IsInsertion(open', open, k + 1, U, 1..U)
        <5>1. k + 1 \in 1..(Len(open) + 1) /\ U \in 1..U
          BY <4>2
        <5>2. open \in Seq(1..U)
          <6>1. DOMAIN upvalues \subseteq 1..U
            BY <4>2
          <6> QED BY <4>2, <6>1, SeqMonotone
        <5> HIDE DEF U
        <5> QED BY <4>1, <5>1, <5>2, Inserted
      <4>6. ASSUME NEW j \in 1..(Len(open) + 1)
            PROVE  OpenOff(j)' = off \/ \E n \in DOMAIN open : OpenOff(j)' = OpenOff(n)
        <5>1. CASE j = k + 1
          BY <4>3, <4>4, <4>5, <5>1 DEF IsInsertion, OpenOff
        <5>2. ASSUME NEW n \in DOMAIN open, open'[j] = open[n]
              PROVE  OpenOff(j)' = OpenOff(n)
          <6>1. open[n] \in DOMAIN upvalues
            BY OpenOnStack
          <6> QED BY <4>3, <5>2, <6>1 DEF OpenOff
        <5>3. CASE j < k + 1
          <6>1. j \in DOMAIN open /\ open'[j] = open[j]
            BY <4>2, <4>5, <5>3 DEF IsInsertion
          <6> QED BY <5>2, <6>1
        <5>4. CASE j > k + 1
          <6>1. j - 1 \in DOMAIN open /\ open'[j] = open[j - 1]
            BY <4>2, <4>5, <5>4 DEF IsInsertion
          <6> QED BY <5>2, <6>1
        <5> QED BY <4>2, <5>1, <5>3, <5>4
      <4> QED BY <4>5, <4>6 DEF IsInsertion
    <3> QED BY <3>1, <3>2
  <2>7. CalleesNotCaptured'
    BY <2>3, <2>5, <2>6 DEF CalleeInv, CalleesNotCaptured
  <2> QED BY <2>4, <2>7 DEF CalleeInv
<1> QED BY <1>1, <1>2

\* The callee of a call is in its slot already.
LEMMA CallKeepsCallees ==
  ASSUME IInv, CalleeInv, NEW arg_c \in 0..2, Call(arg_c), ~RuntimeError
  PROVE  CalleeInv'
<1> DEFINE callee == Peek(arg_c)
           f == closures[callee.closure].function
           needed == Len(stack) + MaxSlots[f]
           off == Len(stack) - arg_c - 1
           slots == Moved(Slot(off), needed)
           L == Len(frames)
           F == MovedFrames(needed)
           new == [closure |-> callee.closure, slots |-> slots,
                   nlocals |-> arg_c + 1]
<1>1. frames # <<>> /\ status = "running" /\ Running /\ TypeInv
      /\ Height > Top.nlocals + arg_c
  BY RunningHasFrame DEF Call, Running, IInv
<1>2. callee \in Known /\ callee \notin Atoms
  BY <1>1, PeekKnown DEF Call, IsClosure
<1>3. /\ callee = ClosureRef(callee.closure) /\ callee.closure \in DOMAIN closures
      /\ f \in Functions
  <2>1. callee = [closure |-> callee.closure] /\ callee.closure \in DOMAIN closures
    BY <1>2 DEF Known
  <2> QED BY <1>1, <2>1, ClosureAt DEF ClosureRef
<1>4. /\ arg_c = Arity[f]
      /\ EnsureStackSpace(needed)
      /\ frames' = Append(F, new)
      /\ UNCHANGED <<stack, open, closures, status>>
  BY DEF Call
<1>5. /\ off \in Nat /\ off + arg_c + 1 = Len(stack)
      /\ Base + Top.nlocals <= off /\ MaxSlots[f] \in Nat
  BY <1>1, <1>3, <1>4, CallNumbers
<1>6. needed \in Nat
  <2>1. Len(stack) \in Nat
    BY <1>1 DEF TypeInv
  <2> HIDE DEF f
  <2> QED BY <1>5, <2>1
<1>7. stack[off + 1] = callee
  <2>1. off + 1 = Len(stack) - arg_c
    BY <1>1 DEF TypeInv
  <2> QED BY <2>1 DEF Peek
<1> HIDE DEF needed, off
<1>8. slots.off = off
  <2>1. Slot(off) \in Pointer /\ Slot(off).off = off
    BY <1>1, <1>5 DEF Slot, Pointer, TypeInv
  <2> QED BY <1>4, <1>6, <2>1, MovedPointer
<1>9. /\ F \in Seq([closure : DOMAIN closures, slots : Pointer, nlocals : Nat])
      /\ Len(F) = L /\ DOMAIN frames = 1..L /\ L \in Nat
      /\ \A i \in DOMAIN frames : /\ F[i].closure = frames[i].closure
                                  /\ F[i].slots.off = frames[i].slots.off
  BY <1>1, <1>4, <1>6, FramesMoved, FrameIndices
<1> HIDE DEF F, slots
<1>10. new.closure = callee.closure /\ new.slots.off = off
  BY <1>8
<1> HIDE DEF new
<1>11. /\ DOMAIN frames' = 1..(L + 1)
       /\ frames'[L + 1] = new
       /\ \A i \in DOMAIN frames : frames'[i] = F[i]
  BY <1>4, <1>9
<1>12. \A k \in DOMAIN open : OpenOff(k)' = OpenOff(k)
  <2>1. \A u \in DOMAIN upvalues :
          upvalues'[u].location.off = upvalues[u].location.off
    BY <1>4, <1>6, MovedUpvalues
  <2> QED BY <1>4, <2>1, OpenOnStack DEF OpenOff
<1> HIDE DEF callee, L
<1>13. CalleesKept'
  BY <1>3, <1>4, <1>7, <1>9, <1>10, <1>11 DEF CalleeInv, CalleesKept, ClosureRef
<1>14. CalleesNotCaptured'
  <2>1. ASSUME NEW k \in DOMAIN open PROVE OpenOff(k) # off
    <3>1. OpenOff(k) < Base + Top.nlocals /\ OpenOff(k) \in Nat
          /\ Base \in Nat /\ Top.nlocals \in Nat
      BY <1>1, OpenBelowTop, OpenOnStack, TopNumbers
    <3> QED BY <1>5, <3>1
  <2>2. ASSUME NEW k \in DOMAIN open, NEW i \in 1..(L + 1)
        PROVE  OpenOff(k) # frames'[i].slots.off
    <3>1. CASE i = L + 1
      BY <1>10, <1>11, <2>1, <3>1
    <3>2. CASE i # L + 1
      <4>1. i \in DOMAIN frames
        BY <1>9, <3>2
      <4> QED BY <1>9, <1>11, <4>1 DEF CalleeInv, CalleesNotCaptured
    <3> QED BY <3>1, <3>2
  <2> QED BY <1>4, <1>11, <1>12, <2>2 DEF CalleesNotCaptured
<1>15. ClosuresComplete' /\ NewNotCalled'
  BY <1>1, <1>4 DEF CalleeInv, ClosuresComplete, NewNotCalled
<1> QED BY <1>13, <1>14, <1>15 DEF CalleeInv

LEMMA ReturnKeepsCallees ==
  ASSUME IInv, CalleeInv, Return
  PROVE  CalleeInv'
<1> DEFINE L == Len(frames)
           Live == [closure : DOMAIN closures, slots : Pointer, nlocals : Nat]
<1>1. frames # <<>> /\ status = "running" /\ Running /\ TypeInv
  BY RunningHasFrame DEF Return, Running, IInv
<1>2. /\ CloseUpvalues(Base)
      /\ frames' = SubSeq(frames, 1, L - 1)
      /\ UNCHANGED closures
      /\ status' \notin {"error", "capturing"}
  BY <1>1 DEF Return
<1>3. /\ L \in Nat /\ L >= 1 /\ DOMAIN frames = 1..L
      /\ frames \in Seq(Live)
  BY <1>1, FrameIndices, TopFrame DEF TypeInv
<1> HIDE DEF Live
<1>4. /\ DOMAIN frames' = 1..(L - 1)
      /\ \A i \in 1..(L - 1) : frames'[i] = frames[i] /\ i \in DOMAIN frames
  BY <1>2, <1>3, SubSeqProperties
<1>5. CalleesKept'
  <2>1. ASSUME NEW i \in 1..(L - 1)
        PROVE  stack'[frames[i].slots.off + 1] = stack[frames[i].slots.off + 1]
    <3>1. L # 1 /\ i # L
      <4> HIDE DEF L
      <4> QED BY <1>3
    <3>2. stack' = Append(Truncate(Base), Peek(0))
      BY <3>1 DEF Return
    <3>3. frames[i].slots.off + 1 \in 1..Base
      BY <1>1, <1>4, <3>1, CalleeSlot
    <3>4. Base \in 0..Len(stack) /\ Base \in Nat
      BY <1>1, TopNumbers
    <3>5. /\ Truncate(Base) \in Seq(Known) /\ Len(Truncate(Base)) = Base
          /\ \A n \in 1..Base : Truncate(Base)[n] = stack[n]
      BY <3>4, Truncated
    <3> QED BY <3>2, <3>3, <3>5
  <2> QED BY <1>4, <2>1 DEF CalleeInv, CalleesKept, ClosureRef
<1>6. CalleesNotCaptured'
  <2>1. \A j \in DOMAIN open' : \E k \in DOMAIN open : OpenOff(j)' = OpenOff(k)
    BY <1>1, <1>2, Closed, TopNumbers
  <2> QED BY <1>4, <2>1 DEF CalleeInv, CalleesNotCaptured
<1>7. ClosuresComplete' /\ NewNotCalled'
  BY <1>1, <1>2 DEF CalleeInv, ClosuresComplete, NewNotCalled
<1> QED BY <1>5, <1>6, <1>7 DEF CalleeInv

LEMMA InterpretKeepsCallees ==
  ASSUME IInv, CalleeInv, Interpret
  PROVE  CalleeInv'
<1> DEFINE c == Len(closures) + 1
           needed == 1 + MaxSlots[Script]
           slots == Moved(Slot(0), needed)
           new == [closure |-> c, slots |-> slots, nlocals |-> 1]
           script == [function |-> Script, upvalues |-> <<>>]
<1>1. frames = <<>> /\ status = "idle" /\ TypeInv
  BY DEF Interpret, IInv, ControlInv
<1>2. /\ closures' = Append(closures, script)
      /\ stack' = <<ClosureRef(c)>>
      /\ EnsureStackSpace(needed)
      /\ frames' = <<new>>
      /\ status' = "running"
      /\ UNCHANGED open
  BY DEF Interpret
<1>3. Script \in Functions /\ needed \in Nat /\ Captures[Script] = <<>>
  BY FunctionsAssumption
<1>4. slots.off = 0
  <2>1. Slot(0) \in Pointer /\ Slot(0).off = 0
    BY <1>1 DEF Slot, Pointer, TypeInv
  <2> QED BY <1>2, <1>3, <2>1, MovedPointer
<1>5. \A k \in DOMAIN open : FALSE
  BY <1>1 DEF IInv, OpenInv, OpenPointToVariables
<1>6. CalleesKept' /\ CalleesNotCaptured' /\ NewNotCalled'
  <2>1. DOMAIN frames' = {1} /\ frames'[1].closure = c /\ frames'[1].slots.off = 0
    <3> HIDE DEF slots, c
    <3> QED BY <1>2, <1>4
  <2>2. stack'[0 + 1] = ClosureRef(c)
    BY <1>2
  <2> HIDE DEF c
  <2>3. CalleesKept'
    BY <2>1, <2>2 DEF CalleesKept, ClosureRef
  <2>4. CalleesNotCaptured' /\ NewNotCalled'
    BY <1>2, <1>5 DEF CalleesNotCaptured, NewNotCalled
  <2> QED BY <2>3, <2>4
<1>7. ClosuresComplete'
  <2>1. /\ Len(closures) \in Nat
        /\ DOMAIN closures = 1..Len(closures)
        /\ DOMAIN closures' = 1..c
        /\ \A d \in DOMAIN closures : closures'[d] = closures[d]
        /\ closures'[c] = script
    BY <1>1, <1>2, <1>3, NewClosure DEF TypeInv
  <2>2. ASSUME NEW d \in 1..c
        PROVE  Len(closures'[d].upvalues) = Len(Captures[closures'[d].function])
    <3>1. CASE d = c
      BY <1>3, <2>1, <3>1
    <3>2. CASE d # c
      <4>1. d \in DOMAIN closures
        BY <2>1, <3>2
      <4> QED BY <1>1, <2>1, <4>1 DEF CalleeInv, ClosuresComplete
    <3> QED BY <3>1, <3>2
  <2> QED BY <2>1, <2>2 DEF ClosuresComplete
<1> QED BY <1>6, <1>7 DEF CalleeInv

LEMMA InitCallees == Init => CalleeInv
BY DEF Init, CalleeInv, CalleesKept, CalleesNotCaptured, ClosuresComplete,
       NewNotCalled

LEMMA NextKeepsCallees == IInv /\ CalleeInv /\ [Next]_vars => CalleeInv'
<1> SUFFICES ASSUME IInv, CalleeInv, [Next]_vars PROVE CalleeInv'
  OBVIOUS
<1>1. CASE Interpret
  BY <1>1, InterpretKeepsCallees
<1>2. CASE CaptureLocal \/ CaptureEnclosing
  BY <1>2, CapturesKeepCallees
<1>3. CASE UNCHANGED vars
  BY <1>3 DEF vars, CalleeInv, CalleesKept, CalleesNotCaptured,
              ClosuresComplete, NewNotCalled, New, OpenOff
<1>4. CASE Running /\ Instruction
  <2> USE <1>4
  <2>1. CASE RuntimeError \/ Abort
    BY <2>1, FailuresKeepCallees
  <2>2. CASE ~RuntimeError /\ ~Abort
    <3>1. CASE \/ \E v \in Literals : Constant(v)
               \/ Pop
               \/ \E slot \in Locals : GetLocal(slot)
               \/ \E operands \in 1..2 : Compute(operands)
               \/ GetGlobal \/ DefineGlobal \/ SetGlobal
               \/ \E slot \in DOMAIN Callable.upvalues : GetUpvalue(slot)
               \/ \E arg_c \in 0..2 : CallNative(arg_c)
      BY <2>2, <3>1, TemporariesKeepCallees
    <3>2. CASE \/ Declare
               \/ \E count \in Locals : EndScope(count) \/ PlainLoopExit(count)
      BY <3>2, ScopesKeepCallees
    <3>3. CASE \E slot \in Locals : SetLocal(slot)
      BY <3>3, SetLocalKeepsCallees
    <3>4. CASE \E slot \in DOMAIN Callable.upvalues : SetUpvalue(slot)
      BY <3>4, SetUpvalueKeepsCallees
    <3>5. CASE \E f \in Functions \ {Script} : MakeClosure(f) \/ DeclareFunction(f)
      BY <3>5, MakeClosureKeepsCallees
    <3>6. CASE \E arg_c \in 0..2 : Call(arg_c) \/ CallOther(arg_c)
      BY <2>2, <3>6, CallKeepsCallees DEF CallOther
    <3>7. CASE Return
      BY <3>7, ReturnKeepsCallees
    <3> QED BY <3>1, <3>2, <3>3, <3>4, <3>5, <3>6, <3>7 DEF Instruction
  <2> QED BY <2>1, <2>2
<1> QED BY <1>1, <1>2, <1>3, <1>4 DEF Next

LEMMA CalleesInvariance == Spec => []CalleeInv
BY InitCallees, NextKeepsCallees, Invariance, PTL DEF Spec

\* Frames follow one another on the stack and move with it; each still starts
\* with the closure that was called, which is complete (call(), do_closure).
THEOREM FramesStayInPlace == Spec => []FramesInPlace
<1>1. IInv /\ CalleeInv => FramesInPlace
  <2> SUFFICES ASSUME IInv, CalleeInv, NEW i \in DOMAIN frames
               PROVE  LET end == IF i = Len(frames) THEN Len(stack)
                                 ELSE frames[i + 1].slots.off
                      IN  /\ frames[i].slots.block = buf
                          /\ frames[i].slots.off + frames[i].nlocals <= end
                          /\ stack[frames[i].slots.off + 1]
                               = ClosureRef(frames[i].closure)
                          /\ Len(closures[frames[i].closure].upvalues)
                               = Len(Captures[FunctionOf(i)])
    BY DEF FramesInPlace, FunctionOf
  <2>1. /\ frames[i].slots.block = buf
        /\ frames[i].slots.off + frames[i].nlocals <= Len(stack)
    BY DEF IInv, PlacesInv
  <2>2. i # Len(frames) =>
          frames[i].slots.off + frames[i].nlocals <= frames[i + 1].slots.off
    <3> SUFFICES ASSUME i # Len(frames)
                 PROVE  frames[i].slots.off + frames[i].nlocals
                          <= frames[i + 1].slots.off
      OBVIOUS
    <3>1. i + 1 \in DOMAIN frames /\ i < i + 1
      BY FrameIndices DEF IInv
    <3> QED BY <3>1 DEF IInv, PlacesInv
  <2>3. stack[frames[i].slots.off + 1] = ClosureRef(frames[i].closure)
    BY DEF CalleeInv, CalleesKept
  <2>4. Len(closures[frames[i].closure].upvalues) = Len(Captures[FunctionOf(i)])
    <3>1. frames[i].closure \in DOMAIN closures
      BY FrameNumbers DEF IInv
    <3> QED BY <3>1 DEF CalleeInv, ClosuresComplete, NewNotCalled, FunctionOf
  <2> QED BY <2>1, <2>2, <2>3, <2>4
<1> QED BY <1>1, Invariance, CalleesInvariance, PTL

-----------------------------------------------------------------------------
(***************************************************************************)
(* The machine of ClosureVM implements SharedVariables: what a program can *)
(* tell of its variables does not depend on pointers, on the list of open  *)
(* upvalues or on where the stack is.  One lemma for each kind of step.    *)
(***************************************************************************)

-----------------------------------------------------------------------------
(***************************************************************************)
(* The first frame is the script's.  (It is what Return needs to know: the *)
(* script ends with nothing but nil above its callee.)                     *)
(***************************************************************************)
BottomInv ==
  frames # <<>> => frames[1].slots.off = 0 /\ FunctionOf(1) = Script

-----------------------------------------------------------------------------
(***************************************************************************)
(* Entries of the environment.                                             *)
(***************************************************************************)
\* The open upvalues of the variable at off: one at most.
CapturedAt(off) == {u \in OpenUpvalues : upvalues[u].location.off = off}

LEMMA CapturedAtOpen ==
  ASSUME NEW off, NEW u
  PROVE  u \in CapturedAt(off)
           <=> \E k \in DOMAIN open : open[k] = u /\ OpenOff(k) = off
BY DEF CapturedAt, OpenUpvalues, OpenOff

EntriesRight ==
  \A off \in Nat :
    /\ CapturedAt(off) = {} => EntryAt(off) = stack[off + 1]
    /\ \A u \in CapturedAt(off) : EntryAt(off) = [box |-> u]

LEMMA Entries == IInv => EntriesRight
<1> SUFFICES ASSUME IInv PROVE EntriesRight
  OBVIOUS
<1>1. ASSUME NEW off \in Nat, NEW u \in CapturedAt(off)
      PROVE  EntryAt(off) = [box |-> u]
  <2>1. PICK k \in DOMAIN open : open[k] = u /\ OpenOff(k) = off
    BY CapturedAtOpen
  <2>2. ASSUME NEW w \in OpenUpvalues, upvalues[w].location.off = off
        PROVE  w = u
    <3>1. PICK j \in DOMAIN open : open[j] = w /\ OpenOff(j) = off
      BY <2>2 DEF OpenUpvalues, OpenOff
    <3>2. /\ j < k => OpenOff(j) > OpenOff(k)
          /\ k < j => OpenOff(k) > OpenOff(j)
      BY DEF IInv, OpenInv, OpenListSorted
    <3>3. ~(j < k) /\ ~(k < j)
      BY <2>1, <3>1, <3>2
    <3>4. j \in Nat /\ k \in Nat
      BY DEF IInv, TypeInv
    <3>5. j = k
      BY <3>3, <3>4
    <3> QED BY <2>1, <3>1, <3>5
  <2>3. u \in OpenUpvalues /\ upvalues[u].location.off = off
    BY DEF CapturedAt
  <2>4. (CHOOSE w \in OpenUpvalues : upvalues[w].location.off = off) = u
    BY <2>2, <2>3
  <2> QED BY <2>1, <2>4 DEF EntryAt
<1>2. ASSUME NEW off \in Nat, CapturedAt(off) = {}
      PROVE  EntryAt(off) = stack[off + 1]
  <2>1. ~\E k \in DOMAIN open : OpenOff(k) = off
    BY <1>2, CapturedAtOpen
  <2> QED BY <2>1 DEF EntryAt
<1> QED BY <1>1, <1>2 DEF EntriesRight

LEMMA EntriesNext == (IInv => EntriesRight)'
BY Entries, PTL

\* An entry stays what it is if its variable is captured by the same upvalue,
\* or by none and has the same value.
LEMMA EntryKept ==
  ASSUME IInv, IInv', NEW off \in Nat, CapturedAt(off)' = CapturedAt(off),
         CapturedAt(off) = {} => stack'[off + 1] = stack[off + 1]
  PROVE  EntryAt(off)' = EntryAt(off)
<1>1. EntriesRight /\ EntriesRight'
  BY Entries, EntriesNext
<1> QED BY <1>1 DEF EntriesRight

LEMMA FreeAbove ==
  ASSUME IInv, frames # <<>>, NEW off \in Nat, off >= Base + Top.nlocals
  PROVE  CapturedAt(off) = {}
<1> SUFFICES ASSUME NEW k \in DOMAIN open, OpenOff(k) = off PROVE FALSE
  BY CapturedAtOpen
<1>1. OpenOff(k) < Base + Top.nlocals
  BY OpenBelowTop
<1>2. Base \in Nat /\ Top.nlocals \in Nat
  BY TopNumbers
<1> QED BY <1>1, <1>2

LEMMA CapturedKept ==
  ASSUME IInv, UNCHANGED open, NEW off,
         \A u \in DOMAIN upvalues :
           upvalues'[u].location.off = upvalues[u].location.off
  PROVE  CapturedAt(off)' = CapturedAt(off)
<1>1. OpenUpvalues \subseteq DOMAIN upvalues /\ OpenUpvalues' = OpenUpvalues
  BY OpenOnStack DEF OpenUpvalues
<1> QED BY <1>1 DEF CapturedAt

\* The environment has one entry for each slot.
Content == {EntryAt(i - 1) : i \in DOMAIN stack}

EnvironmentRight ==
  /\ Environment \in Seq(Content)
  /\ Len(stack) \in Nat
  /\ Len(Environment) = Len(stack)
  /\ \A i \in 1..Len(stack) : Environment[i] = EntryAt(i - 1)

LEMMA EnvironmentIs == IInv => EnvironmentRight
<1> SUFFICES ASSUME IInv PROVE EnvironmentRight
  OBVIOUS
<1>1. Len(stack) \in Nat /\ DOMAIN stack = 1..Len(stack)
  BY DEF IInv, TypeInv
<1>2. Environment = [i \in 1..Len(stack) |-> EntryAt(i - 1)]
  BY <1>1 DEF Environment
<1>3. \A i \in 1..Len(stack) : EntryAt(i - 1) \in Content
  BY <1>1 DEF Content
<1>4. Environment \in Seq(Content)
  BY <1>1, <1>2, <1>3, IsASeq
<1>5. DOMAIN Environment = 1..Len(stack)
  BY <1>2
<1>6. Len(Environment) = Len(stack)
  BY <1>1, <1>4, <1>5
<1> QED BY <1>1, <1>2, <1>4, <1>6 DEF EnvironmentRight

LEMMA EnvironmentNext == (IInv => EnvironmentRight)'
BY EnvironmentIs, PTL

\* The two environments are compared slot by slot.
LEMMA EnvironmentSame ==
  ASSUME IInv, IInv', Len(stack') = Len(stack),
         \A i \in 1..Len(stack) : EntryAt(i - 1)' = EntryAt(i - 1)
  PROVE  Environment' = Environment
<1>1. EnvironmentRight /\ EnvironmentRight'
  BY EnvironmentIs, EnvironmentNext
<1>2. /\ Environment \in Seq(Content) /\ Environment' \in Seq(Content')
      /\ Len(Environment') = Len(Environment)
      /\ \A i \in 1..Len(Environment) : Environment'[i] = Environment[i]
  BY <1>1 DEF EnvironmentRight
<1> QED BY <1>2, SeqEqual

LEMMA EnvironmentCut ==
  ASSUME IInv, IInv', NEW n \in 0..Len(stack), Len(stack') = n,
         \A i \in 1..n : EntryAt(i - 1)' = EntryAt(i - 1)
  PROVE  Environment' = SubSeq(Environment, 1, n)
<1>1. EnvironmentRight /\ EnvironmentRight'
  BY EnvironmentIs, EnvironmentNext
<1> DEFINE cut == SubSeq(Environment, 1, n)
<1>2. /\ cut \in Seq(Content) /\ Len(cut) = n
      /\ \A i \in 1..n : cut[i] = Environment[i]
  BY <1>1, SubSeqProperties DEF EnvironmentRight
<1> HIDE DEF cut
<1>a. /\ Environment' \in Seq(Content') /\ Len(Environment') = n
      /\ \A i \in 1..n : Environment'[i] = EntryAt(i - 1)'
  BY <1>1 DEF EnvironmentRight
<1>b. \A i \in 1..n : Environment[i] = EntryAt(i - 1)
  <2>1. \A i \in 1..n : i \in 1..Len(stack)
    BY <1>1 DEF EnvironmentRight
  <2> QED BY <1>1, <2>1 DEF EnvironmentRight
<1>3. /\ Environment' \in Seq(Content')
      /\ Len(Environment') = Len(cut)
      /\ \A i \in 1..Len(cut) : Environment'[i] = cut[i]
  BY <1>2, <1>a, <1>b
<1>4. Environment' = cut
  BY <1>2, <1>3, SeqEqual
<1> QED BY <1>4 DEF cut

LEMMA EnvironmentPushed ==
  ASSUME IInv, IInv', NEW n \in 0..Len(stack), Len(stack') = n + 1,
         \A i \in 1..n : EntryAt(i - 1)' = EntryAt(i - 1),
         NEW v, EntryAt(n)' = v
  PROVE  /\ Environment' = Append(SubSeq(Environment, 1, n), v)
         /\ n = Len(stack) => Environment' = Append(Environment, v)
<1>1. EnvironmentRight /\ EnvironmentRight'
  BY EnvironmentIs, EnvironmentNext
<1> DEFINE cut == SubSeq(Environment, 1, n)
           all == Append(cut, v)
           T == Content \cup {v}
<1>2. /\ cut \in Seq(Content) /\ Len(cut) = n
      /\ \A i \in 1..n : cut[i] = Environment[i]
  BY <1>1, SubSeqProperties DEF EnvironmentRight
<1>3. n = Len(stack) => cut = Environment
  <2>1. n = Len(Environment) => cut = Environment
    BY <1>1 DEF EnvironmentRight
  <2> QED BY <1>1, <2>1 DEF EnvironmentRight
<1> HIDE DEF cut
<1>4. cut \in Seq(T) /\ v \in T
  <2>1. Content \subseteq T
    OBVIOUS
  <2> HIDE DEF T
  <2> QED BY <1>2, <2>1, SeqMonotone DEF T
<1> HIDE DEF T
<1>5. /\ all \in Seq(T) /\ Len(all) = n + 1
      /\ \A i \in 1..n : all[i] = cut[i]
      /\ all[n + 1] = v
  BY <1>2, <1>4, AppendProperties
<1> HIDE DEF all
<1>6. \A i \in 1..n : Environment'[i] = all[i]
  <2> TAKE i \in 1..n
  <2>1. i \in 1..Len(stack) /\ i \in 1..Len(stack')
    OBVIOUS
  <2> QED BY <1>1, <1>2, <1>5, <2>1 DEF EnvironmentRight
<1>7. Environment'[n + 1] = all[n + 1]
  <2>1. n + 1 \in 1..Len(stack') /\ (n + 1) - 1 = n
    OBVIOUS
  <2>2. Environment'[n + 1] = EntryAt((n + 1) - 1)'
    BY <1>1, <2>1 DEF EnvironmentRight
  <2> QED BY <1>5, <2>1, <2>2
<1>8. Environment' = all
  <2>1. /\ Environment' \in Seq(Content')
        /\ Len(Environment') = Len(all)
        /\ \A i \in 1..Len(all) : Environment'[i] = all[i]
    BY <1>1, <1>5, <1>6, <1>7 DEF EnvironmentRight
  <2> QED BY <1>5, <2>1, SeqEqual
<1> QED BY <1>3, <1>8 DEF all, cut

-----------------------------------------------------------------------------
(***************************************************************************)
(* The parts of the abstract state, by the names of the machine.           *)
(***************************************************************************)
LEMMA SharedCalls ==
  ASSUME IInv
  PROVE  /\ CallsInProgress \in Seq([closure : DOMAIN closures, base : Nat])
         /\ Len(CallsInProgress) = Len(frames)
         /\ \A i \in DOMAIN frames :
              CallsInProgress[i] = [closure |-> frames[i].closure,
                                    base |-> frames[i].slots.off]
<1> DEFINE call(i) == [closure |-> frames[i].closure,
                       base |-> frames[i].slots.off]
           AbstractCall == [closure : DOMAIN closures, base : Nat]
<1>1. DOMAIN frames = 1..Len(frames) /\ Len(frames) \in Nat
  BY FrameIndices DEF IInv
<1>2. CallsInProgress = [i \in 1..Len(frames) |-> call(i)]
  BY <1>1 DEF CallsInProgress
<1>3. \A i \in 1..Len(frames) : call(i) \in AbstractCall
  BY <1>1, FrameNumbers DEF IInv
<1>4. CallsInProgress \in Seq(AbstractCall)
  <2> HIDE DEF call, AbstractCall
  <2> QED BY <1>1, <1>2, <1>3, IsASeq
<1>5. Len(CallsInProgress) = Len(frames)
  BY <1>1, <1>2, <1>4
<1> QED BY <1>1, <1>2, <1>4, <1>5

LEMMA SharedNames ==
  ASSUME IInv, frames # <<>>
  PROVE  /\ Shared!Top = [closure |-> Top.closure, base |-> Base]
         /\ Shared!Top.base = Base
         /\ Shared!Callable = [function |-> Callable.function,
                               boxes |-> Callable.upvalues]
         /\ Shared!Height = Height
<1>1. Len(frames) \in DOMAIN frames /\ Top.closure \in DOMAIN closures
  BY TopFrame
<1>2. Shared!Top = [closure |-> Top.closure, base |-> Base]
  BY <1>1, SharedCalls DEF Shared!Top, Top, Base
<1>3. Shared!Callable = [function |-> Callable.function,
                         boxes |-> Callable.upvalues]
  BY <1>1, <1>2 DEF Shared!Callable, ClosuresMade, Callable
<1>4. Shared!Height = Height
  BY <1>2, EnvironmentIs DEF Shared!Height, EnvironmentRight, Height
<1> QED BY <1>2, <1>3, <1>4

LEMMA SharedBoxes ==
  ASSUME IInv, frames # <<>>
  PROVE  /\ status # "error" /\ Progress \in {"running", "capturing"}
         /\ Boxes = [u \in DOMAIN upvalues |-> VariableOf(u)]
         /\ DOMAIN Boxes = DOMAIN upvalues
         /\ Boxes \in Seq(Known)
         /\ Len(Boxes) = Len(upvalues)
<1>1. status \in {"running", "capturing", "aborted"}
  BY DEF IInv, ControlInv
<1>2. /\ Len(upvalues) \in Nat /\ DOMAIN upvalues = 1..Len(upvalues)
      /\ stack \in Seq(Known)
  BY DEF IInv, TypeInv
<1>3. Boxes = [u \in 1..Len(upvalues) |-> VariableOf(u)]
  BY <1>1, <1>2 DEF Boxes
<1>4. \A u \in 1..Len(upvalues) : VariableOf(u) \in Known
  BY <1>2, UpvalueAt, StackAt DEF VariableOf
<1>5. Boxes \in Seq(Known)
  BY <1>2, <1>3, <1>4, IsASeq
<1>6. Len(Boxes) = Len(upvalues)
  BY <1>2, <1>3, <1>5
<1> QED BY <1>1, <1>2, <1>3, <1>5, <1>6 DEF Progress

\* No value is a box.
LEMMA KnownIsNoBox ==
  ASSUME NEW v \in Known
  PROVE  \A b \in Nat : v # [box |-> b]
<1> SUFFICES ASSUME NEW b \in Nat, v = [box |-> b] PROVE FALSE
  OBVIOUS
<1>1. v \in [box : Nat]
  OBVIOUS
<1>2. v \notin Atoms
  BY <1>1, ValuesAssumption DEF Atoms
<1>3. PICK c : v = [closure |-> c]
  BY <1>2 DEF Known
<1>4. DOMAIN v = {"box"} /\ DOMAIN v = {"closure"}
  BY <1>3
<1> QED BY <1>4

\* What the environment tells of a slot: whether it was captured, by which
\* upvalue, and the value of the variable in it.
LEMMA LookIs ==
  ASSUME IInv, frames # <<>>, NEW i \in 1..Len(stack)
  PROVE  /\ Shared!Look(i) = stack[i]
         /\ Environment[i] \in Shared!BoxRefs <=> CapturedAt(i - 1) # {}
         /\ \A u \in CapturedAt(i - 1) :
              /\ Environment[i] = [box |-> u] /\ Environment[i].box = u
              /\ u \in DOMAIN upvalues
              /\ VariableOf(u) = stack[i]
         /\ CapturedAt(i - 1) = {} => Environment[i] = stack[i]
<1>1. i - 1 \in Nat /\ (i - 1) + 1 = i
  OBVIOUS
<1>2. Environment[i] = EntryAt(i - 1)
  BY EnvironmentIs DEF EnvironmentRight
<1>3. Shared!BoxRefs = {[box |-> b] : b \in DOMAIN upvalues}
  BY SharedBoxes DEF Shared!BoxRefs, Shared!Box
<1>4. CASE CapturedAt(i - 1) = {}
  <2>1. Environment[i] = stack[i]
    BY <1>1, <1>2, <1>4, Entries DEF EntriesRight
  <2>2. stack[i] \in Known
    BY StackAt
  <2>3. DOMAIN upvalues \subseteq Nat
    BY DEF IInv, TypeInv
  <2>4. Environment[i] \notin Shared!BoxRefs
    BY <1>3, <2>1, <2>2, <2>3, KnownIsNoBox
  <2> QED BY <1>4, <2>1, <2>4 DEF Shared!Look
<1>5. CASE CapturedAt(i - 1) # {}
  <2>1. ASSUME NEW u \in CapturedAt(i - 1)
        PROVE  /\ Environment[i] = [box |-> u] /\ Environment[i].box = u
               /\ u \in DOMAIN upvalues
               /\ VariableOf(u) = stack[i]
    <3>1. Environment[i] = [box |-> u]
      BY <1>1, <1>2, Entries DEF EntriesRight
    <3>2. PICK k \in DOMAIN open : open[k] = u /\ OpenOff(k) = i - 1
      BY CapturedAtOpen
    <3>3. u \in DOMAIN upvalues
      BY <3>2, OpenOnStack
    <3>4. upvalues[u].location.block = buf /\ upvalues[u].location.off = i - 1
      BY <3>2 DEF IInv, OpenInv, OpenPointToVariables, OpenOff
    <3>5. buf # Own
      BY DEF IInv, TypeInv, Own
    <3>6. Environment[i].box = u
      BY <3>1
    <3> QED BY <1>1, <3>1, <3>3, <3>4, <3>5, <3>6 DEF VariableOf
  <2>2. PICK u : u \in CapturedAt(i - 1)
    BY <1>5
  <2>3. Environment[i] \in Shared!BoxRefs
    BY <1>3, <2>1, <2>2
  <2>4. Shared!Look(i) = Boxes[u]
    BY <2>1, <2>2, <2>3 DEF Shared!Look
  <2>5. Boxes[u] = VariableOf(u)
    BY <2>1, <2>2, SharedBoxes
  <2> QED BY <1>5, <2>1, <2>2, <2>3, <2>4, <2>5
<1> QED BY <1>4, <1>5

-----------------------------------------------------------------------------
(***************************************************************************)
(* Instructions that push, pop and compute.                                *)
(***************************************************************************)
\* A step that only changes slots above the variables of the running function.
LEMMA AboveShared ==
  ASSUME IInv, IInv', frames # <<>>, UNCHANGED <<open, upvalues>>, status' # "error",
         \A i \in 1..(Base + Top.nlocals) : stack'[i] = stack[i]
  PROVE  /\ UNCHANGED Boxes
         /\ \A off \in Nat : stack'[off + 1] = stack[off + 1] =>
              EntryAt(off)' = EntryAt(off)
         /\ \A off \in Nat : off >= Base + Top.nlocals =>
              EntryAt(off)' = stack'[off + 1]
<1>1. status # "error"
  BY DEF IInv, ControlInv
<1>2. \A off : CapturedAt(off)' = CapturedAt(off)
  BY CapturedKept
<1>3. \A off \in Nat : stack'[off + 1] = stack[off + 1] =>
        EntryAt(off)' = EntryAt(off)
  BY <1>2, EntryKept
<1>4. \A off \in Nat : off >= Base + Top.nlocals =>
        EntryAt(off)' = stack'[off + 1]
  BY <1>1, <1>2, FreeAbove, EntriesNext DEF EntriesRight
<1>5. ASSUME NEW u \in DOMAIN upvalues
      PROVE  VariableOf(u)' = VariableOf(u)
  <2>1. CASE upvalues[u].location.block = Own
    BY <2>1 DEF VariableOf, Own
  <2>2. CASE upvalues[u].location.block # Own
    <3>1. PICK k \in DOMAIN open : open[k] = u
      BY <1>1, <2>2 DEF IInv, OpenInv, NoneLost, OpenUpvalues
    <3>2. OpenOff(k) < Base + Top.nlocals /\ OpenOff(k) \in Nat
          /\ Base \in Nat /\ Top.nlocals \in Nat
      BY <1>1, OpenBelowTop, OpenOnStack, TopNumbers
    <3>3. OpenOff(k) = upvalues[u].location.off
      BY <3>1 DEF OpenOff
    <3>4. upvalues[u].location.off + 1 \in 1..(Base + Top.nlocals)
      BY <3>2, <3>3
    <3> QED BY <2>2, <3>4 DEF VariableOf, Own
  <2> QED BY <2>1, <2>2
<1>6. Boxes' = Boxes
  BY <1>1, <1>5 DEF Boxes
<1> QED BY <1>3, <1>4, <1>6

LEMMA StackStepShared ==
  ASSUME IInv, IInv', Running, UNCHANGED <<frames, open, upvalues, closures>>,
         status' \in {"running", "aborted"},
         \A i \in 1..(Base + Top.nlocals) : stack'[i] = stack[i]
  PROVE  /\ UNCHANGED <<CallsInProgress, Boxes, ClosuresMade, Progress>>
         /\ \A off \in Nat : stack'[off + 1] = stack[off + 1] =>
              EntryAt(off)' = EntryAt(off)
         /\ \A off \in Nat : off >= Base + Top.nlocals =>
              EntryAt(off)' = stack'[off + 1]
<1>1. UNCHANGED <<CallsInProgress, ClosuresMade, Progress>>
  BY DEF CallsInProgress, ClosuresMade, Progress, Running
<1> QED BY <1>1, RunningHasFrame, AboveShared DEF Running

LEMMA PushShared ==
  ASSUME IInv, IInv', Running, NEW v, stack' = Append(stack, v),
         UNCHANGED <<open, upvalues>>, status' # "error"
  PROVE  /\ Environment' = Append(Environment, v)
         /\ UNCHANGED Boxes
<1>1. frames # <<>>
  BY RunningHasFrame
<1>2. /\ Base \in Nat /\ Top.nlocals \in Nat /\ Len(stack) \in Nat
      /\ Base + Top.nlocals <= Len(stack) /\ stack \in Seq(Known)
  BY <1>1, TopNumbers DEF IInv, TypeInv
<1>3. /\ Len(stack') = Len(stack) + 1
      /\ \A i \in 1..Len(stack) : stack'[i] = stack[i]
      /\ stack'[Len(stack) + 1] = v
  BY <1>2, AppendProperties
<1>4. \A i \in 1..(Base + Top.nlocals) : stack'[i] = stack[i]
  BY <1>2, <1>3
<1>6. /\ UNCHANGED Boxes
      /\ \A off \in Nat : stack'[off + 1] = stack[off + 1] =>
           EntryAt(off)' = EntryAt(off)
      /\ \A off \in Nat : off >= Base + Top.nlocals =>
           EntryAt(off)' = stack'[off + 1]
  BY <1>1, <1>4, AboveShared
<1>7. PICK m : m = Len(stack)
  OBVIOUS
<1>8. \A i \in 1..m : EntryAt(i - 1)' = EntryAt(i - 1)
  <2> TAKE i \in 1..m
  <2>1. i - 1 \in Nat /\ (i - 1) + 1 = i
    BY <1>2, <1>7
  <2> QED BY <1>3, <1>6, <1>7, <2>1
<1>9. EntryAt(m)' = v
  BY <1>2, <1>3, <1>6, <1>7
<1>10. Environment' = Append(Environment, v)
  <2>1. m \in 0..Len(stack) /\ Len(stack') = m + 1
    BY <1>2, <1>3, <1>7
  <2> QED BY <1>7, <1>8, <1>9, <2>1, EnvironmentPushed
<1> QED BY <1>6, <1>10

\* n operands go, and a result may come in their place.
LEMMA CutShared ==
  ASSUME IInv, IInv', Running, NEW n \in Nat, Height >= Top.nlocals + n, NEW v,
         UNCHANGED <<frames, open, upvalues, closures, status>>
  PROVE  /\ stack' = Truncate(Len(stack) - n) =>
              /\ Environment' = Shared!Forget(n)
              /\ UNCHANGED <<CallsInProgress, Boxes, ClosuresMade, Progress>>
         /\ stack' = Append(Truncate(Len(stack) - n), v) =>
              /\ Environment' = Append(Shared!Forget(n), v)
              /\ UNCHANGED <<CallsInProgress, Boxes, ClosuresMade, Progress>>
         /\ n <= Shared!Height
<1>0. PICK m : m = Len(stack) - n
  OBVIOUS
<1>1. frames # <<>>
  BY RunningHasFrame
<1>2. /\ Base \in Nat /\ Top.nlocals \in Nat /\ Len(stack) \in Nat
      /\ m \in 0..Len(stack) /\ Base + Top.nlocals <= m
      /\ n <= Height
  BY <1>0, <1>1, TopNumbers DEF Height
<1>3. /\ Truncate(m) \in Seq(Known) /\ Len(Truncate(m)) = m
      /\ \A i \in 1..m : Truncate(m)[i] = stack[i]
  BY <1>2, Truncated
<1>4. Shared!Forget(n) = SubSeq(Environment, 1, m)
  BY <1>0, EnvironmentIs DEF Shared!Forget, EnvironmentRight
<1>5. n <= Shared!Height
  BY <1>1, <1>2, SharedNames
<1>6. status' \in {"running", "aborted"}
  BY DEF Running
<1>7. ASSUME \A i \in 1..m : stack'[i] = stack[i]
      PROVE  /\ UNCHANGED <<CallsInProgress, Boxes, ClosuresMade, Progress>>
             /\ \A i \in 1..m : EntryAt(i - 1)' = EntryAt(i - 1)
             /\ EntryAt(m)' = stack'[m + 1]
  <2>1. \A i \in 1..(Base + Top.nlocals) : stack'[i] = stack[i]
    BY <1>2, <1>7
  <2>2. /\ UNCHANGED <<CallsInProgress, Boxes, ClosuresMade, Progress>>
        /\ \A off \in Nat : stack'[off + 1] = stack[off + 1] =>
             EntryAt(off)' = EntryAt(off)
        /\ \A off \in Nat : off >= Base + Top.nlocals =>
             EntryAt(off)' = stack'[off + 1]
    BY <1>6, <2>1, StackStepShared
  <2>3. ASSUME NEW i \in 1..m PROVE EntryAt(i - 1)' = EntryAt(i - 1)
    <3>1. i - 1 \in Nat /\ (i - 1) + 1 = i
      OBVIOUS
    <3> QED BY <1>7, <2>2, <3>1
  <2>4. m \in Nat /\ m >= Base + Top.nlocals
    BY <1>2
  <2> QED BY <2>2, <2>3, <2>4
<1>8. ASSUME stack' = Truncate(m)
      PROVE  /\ Environment' = SubSeq(Environment, 1, m)
             /\ UNCHANGED <<CallsInProgress, Boxes, ClosuresMade, Progress>>
  <2>1. Len(stack') = m /\ \A i \in 1..m : stack'[i] = stack[i]
    BY <1>3, <1>8
  <2> QED BY <1>2, <1>7, <2>1, EnvironmentCut
<1>9. ASSUME stack' = Append(Truncate(m), v)
      PROVE  /\ Environment' = Append(SubSeq(Environment, 1, m), v)
             /\ UNCHANGED <<CallsInProgress, Boxes, ClosuresMade, Progress>>
  <2>1. /\ Len(stack') = m + 1 /\ stack'[m + 1] = v
        /\ \A i \in 1..m : stack'[i] = stack[i]
    BY <1>2, <1>3, <1>9
  <2> QED BY <1>2, <1>7, <2>1, EnvironmentPushed
<1> QED BY <1>0, <1>4, <1>5, <1>8, <1>9

LEMMA SharedRunning ==
  ASSUME Running
  PROVE  Shared!Running
BY DEF Running, Shared!Running, Progress

LEMMA PushesRefine ==
  ASSUME IInv, IInv', Running, ~RuntimeError,
         \/ \E v \in Literals : Constant(v)
         \/ \E slot \in Locals : GetLocal(slot)
         \/ GetGlobal
         \/ \E slot \in DOMAIN Callable.upvalues : GetUpvalue(slot)
  PROVE  Shared!Instruction
<1>1. frames # <<>>
  BY RunningHasFrame
<1>2. ASSUME NEW v, stack' = Append(stack, v), MachineUnchanged, UNCHANGED global
      PROVE  Shared!Push(v)
  <2>1. UNCHANGED <<frames, open, upvalues, closures, status>>
    BY <1>2 DEF MachineUnchanged
  <2>2. Environment' = Append(Environment, v) /\ UNCHANGED Boxes
    BY <1>2, <2>1, PushShared DEF Running
  <2>3. UNCHANGED <<CallsInProgress, ClosuresMade, Progress>>
    BY <2>1 DEF CallsInProgress, ClosuresMade, Progress
  <2> QED BY <1>2, <2>2, <2>3 DEF Shared!Push, Shared!Entries
<1>3. ASSUME NEW v \in Literals, Constant(v) PROVE Shared!Instruction
  <2>1. Shared!Push(v) /\ v \in Data \cup Natives
    BY <1>2, <1>3 DEF Constant, Literals
  <2> QED BY <2>1 DEF Shared!Instruction
<1>4. ASSUME NEW slot \in Locals, GetLocal(slot) PROVE Shared!Instruction
  <2>1. /\ Base \in Nat /\ Top.nlocals \in Nat /\ Len(stack) \in Nat
        /\ Base + Top.nlocals <= Len(stack)
    BY <1>1, TopNumbers
  <2>2. slot \in 1..(Height - 1) /\ Base + slot + 1 \in 1..Len(stack)
    BY <2>1 DEF Locals, Height
  <2>3. Shared!Look(Base + slot + 1) = stack[Base + slot + 1]
    BY <1>1, <2>2, LookIs
  <2>4. Shared!Push(stack[Base + slot + 1])
    BY <1>2, <1>4 DEF GetLocal
  <2>5. Shared!GetLocal(slot) /\ slot \in 1..(Shared!Height - 1)
    BY <1>1, <2>2, <2>3, <2>4, SharedNames DEF Shared!GetLocal
  <2> QED BY <2>5 DEF Shared!Instruction
<1>5. CASE GetGlobal
  <2>1. global # None /\ Shared!Push(global)
    BY <1>2, <1>5 DEF GetGlobal
  <2> QED BY <2>1 DEF Shared!Instruction, Shared!GetGlobal
<1>6. ASSUME NEW slot \in DOMAIN Callable.upvalues, GetUpvalue(slot)
      PROVE  Shared!Instruction
  <2> DEFINE u == Callable.upvalues[slot]
  <2>1. u \in DOMAIN upvalues
    BY <1>1, CallableUpvalue
  <2>2. Boxes[u] = VariableOf(u)
    BY <1>1, <2>1, SharedBoxes
  <2>3. Shared!Push(VariableOf(u))
    BY <1>2, <1>6 DEF GetUpvalue, VariableOf
  <2>4. Shared!Callable.boxes = Callable.upvalues
    BY <1>1, SharedNames
  <2>5. Shared!GetCaptured(slot) /\ slot \in DOMAIN Shared!Callable.boxes
    BY <2>2, <2>3, <2>4 DEF Shared!GetCaptured
  <2> QED BY <2>5 DEF Shared!Instruction
<1> QED BY <1>3, <1>4, <1>5, <1>6

\* The value on top of the stack is that of the last entry.
LEMMA ResultIs ==
  ASSUME IInv, frames # <<>>
  PROVE  Shared!Result = Peek(0) /\ Len(stack) \in 1..Len(stack)
<1>1. /\ Base \in Nat /\ Top.nlocals \in Nat /\ Len(stack) \in Nat
      /\ Top.nlocals >= 1 /\ Base + Top.nlocals <= Len(stack)
  <2>1. /\ Base \in Nat /\ Top.nlocals \in Nat /\ Len(stack) \in Nat
        /\ Arity[Callable.function] \in Nat
        /\ Top.nlocals >= 1 + Arity[Callable.function]
        /\ Base + Top.nlocals <= Len(stack)
    BY TopNumbers
  <2> QED BY <2>1
<1>2. Len(stack) \in 1..Len(stack)
  BY <1>1
<1>3. Len(Environment) = Len(stack)
  BY EnvironmentIs DEF EnvironmentRight
<1>4. Shared!Look(Len(stack)) = stack[Len(stack)]
  BY <1>2, LookIs
<1>5. Len(stack) - 0 = Len(stack)
  BY <1>1
<1> QED BY <1>2, <1>3, <1>4, <1>5 DEF Shared!Result, Peek

LEMMA PopsRefine ==
  ASSUME IInv, IInv', Running, ~RuntimeError, ~Abort,
         \/ Pop
         \/ \E operands \in 1..2 : Compute(operands)
         \/ DefineGlobal \/ SetGlobal
         \/ \E arg_c \in 0..2 : CallNative(arg_c)
  PROVE  Shared!Instruction
<1>1. frames # <<>>
  BY RunningHasFrame
<1>2. /\ Base \in Nat /\ Top.nlocals \in Nat /\ Len(stack) \in Nat
      /\ HasTemporary => Height >= Top.nlocals + 1
  BY <1>1, TopNumbers DEF HasTemporary, Height
<1>3. CASE Pop \/ DefineGlobal
  <2>1. /\ stack' = Truncate(Len(stack) - 1) /\ Height >= Top.nlocals + 1
        /\ UNCHANGED <<frames, open, upvalues, closures, status>>
    BY <1>2, <1>3 DEF Pop, DefineGlobal, MachineUnchanged
  <2>2. /\ Environment' = Shared!Forget(1) /\ 1 <= Shared!Height
        /\ UNCHANGED <<CallsInProgress, Boxes, ClosuresMade, Progress>>
    BY <2>1, CutShared
  <2>3. CASE Pop
    <3>1. UNCHANGED global
      BY <2>3 DEF Pop
    <3>2. Shared!Drop(1)
      BY <2>2, <3>1 DEF Shared!Drop, Shared!Entries
    <3>3. 1 \in 1..Shared!Height
      BY <1>1, <1>2, <2>2, SharedNames DEF Height
    <3> QED BY <3>2, <3>3 DEF Shared!Instruction
  <2>4. CASE DefineGlobal
    <3>1. global' = Peek(0)
      BY <2>4 DEF DefineGlobal
    <3>2. Shared!DefineGlobal
      BY <1>1, <2>2, <3>1, ResultIs DEF Shared!DefineGlobal
    <3> QED BY <3>2 DEF Shared!Instruction
  <2> QED BY <1>3, <2>3, <2>4
<1>4. CASE SetGlobal
  <2>1. global # None /\ global' = Peek(0) /\ UNCHANGED stack /\ MachineUnchanged
    BY <1>4 DEF SetGlobal
  <2>2. UNCHANGED <<frames, open, upvalues, closures, stack>>
        /\ status' \in {"running", "aborted"}
    BY <2>1 DEF MachineUnchanged, Running
  <2>3. /\ UNCHANGED <<CallsInProgress, Boxes, ClosuresMade, Progress>>
        /\ \A off \in Nat : EntryAt(off)' = EntryAt(off)
    BY <2>2, StackStepShared
  <2>4. UNCHANGED Environment
    <3>1. \A i \in 1..Len(stack) : i - 1 \in Nat
      BY <1>2
    <3> QED BY <2>2, <2>3, <3>1, EnvironmentSame
  <2>5. Shared!SetGlobal
    BY <1>1, <2>1, <2>3, <2>4, ResultIs DEF Shared!SetGlobal
  <2> QED BY <2>5 DEF Shared!Instruction
<1>5. ASSUME NEW n \in 1..3, NEW v \in Data, Height >= Top.nlocals + n,
             stack' = Append(Truncate(Len(stack) - n), v),
             MachineUnchanged, UNCHANGED global
      PROVE  Shared!Instruction
  <2>1. UNCHANGED <<frames, open, upvalues, closures, status>> /\ n \in Nat
    BY <1>5 DEF MachineUnchanged
  <2>2. /\ Environment' = Append(Shared!Forget(n), v) /\ n <= Shared!Height
        /\ UNCHANGED <<CallsInProgress, Boxes, ClosuresMade, Progress>>
    BY <1>5, <2>1, CutShared
  <2>3. Shared!Compute(n, v)
    BY <1>5, <2>2 DEF Shared!Compute, Shared!Entries
  <2> QED BY <2>3 DEF Shared!Instruction
<1>6. ASSUME NEW operands \in 1..2, Compute(operands)
      PROVE  Shared!Instruction
  <2>1. PICK v \in Data : stack' = Append(Truncate(Len(stack) - operands), v)
    BY <1>6 DEF Compute
  <2>2. /\ Height >= Top.nlocals + operands /\ MachineUnchanged
        /\ UNCHANGED global /\ operands \in 1..3
    BY <1>6 DEF Compute
  <2> QED BY <1>5, <2>1, <2>2
<1>7. ASSUME NEW arg_c \in 0..2, CallNative(arg_c)
      PROVE  Shared!Instruction
  <2>1. PICK v \in Data : stack' = Append(Truncate(Len(stack) - arg_c - 1), v)
    BY <1>7 DEF CallNative
  <2>2. Height > Top.nlocals + arg_c /\ MachineUnchanged /\ UNCHANGED global
    BY <1>7, <2>1 DEF CallNative
  <2>3. /\ Len(stack) - arg_c - 1 = Len(stack) - (arg_c + 1)
        /\ arg_c + 1 \in 1..3
        /\ Height >= Top.nlocals + (arg_c + 1)
    BY <1>2, <2>2 DEF Height
  <2> QED BY <1>5, <2>1, <2>2, <2>3
<1> QED BY <1>3, <1>4, <1>6, <1>7

-----------------------------------------------------------------------------
(***************************************************************************)
(* Assignments.                                                            *)
(***************************************************************************)
\* A slot is assigned to: the box of the variable in it changes if it was
\* captured, else its entry.
LEMMA AssignShared ==
  ASSUME IInv, IInv', Running, NEW p \in 1..Len(stack), NEW v,
         stack' = [stack EXCEPT ![p] = v],
         UNCHANGED <<frames, open, upvalues, closures, status>>
  PROVE  /\ UNCHANGED <<CallsInProgress, ClosuresMade, Progress>>
         /\ \A u \in CapturedAt(p - 1) :
              Boxes' = [Boxes EXCEPT ![u] = v] /\ UNCHANGED Environment
         /\ CapturedAt(p - 1) = {} =>
              Environment' = [Environment EXCEPT ![p] = v] /\ UNCHANGED Boxes
<1>1. frames # <<>> /\ status = "running"
  BY RunningHasFrame DEF Running
<1>2. /\ Len(stack) \in Nat /\ stack \in Seq(Known) /\ DOMAIN stack = 1..Len(stack)
      /\ Len(stack') = Len(stack)
      /\ \A i \in 1..Len(stack) : stack'[i] = IF i = p THEN v ELSE stack[i]
      /\ p - 1 \in Nat /\ (p - 1) + 1 = p
  BY DEF IInv, TypeInv
<1>3. \A off : CapturedAt(off)' = CapturedAt(off)
  BY CapturedKept
<1>4. UNCHANGED <<CallsInProgress, ClosuresMade, Progress>>
  BY DEF CallsInProgress, ClosuresMade, Progress
<1>5. /\ Boxes = [u \in DOMAIN upvalues |-> VariableOf(u)]
      /\ Boxes' = [u \in DOMAIN upvalues |-> VariableOf(u)']
  BY <1>1 DEF Boxes
<1>6. ASSUME NEW u \in DOMAIN upvalues
      PROVE  VariableOf(u)' = IF u \in CapturedAt(p - 1) THEN v ELSE VariableOf(u)
  <2>1. CASE upvalues[u].location.block = Own
    <3>1. u \notin CapturedAt(p - 1)
      <4> SUFFICES ASSUME u \in CapturedAt(p - 1) PROVE FALSE
        OBVIOUS
      <4>1. PICK k \in DOMAIN open : open[k] = u
        BY CapturedAtOpen
      <4>2. upvalues[u].location.block = buf /\ buf # Own
        BY <4>1 DEF IInv, OpenInv, OpenPointToVariables, TypeInv, Own
      <4> QED BY <2>1, <4>2
    <3> QED BY <2>1, <3>1 DEF VariableOf, Own
  <2>2. CASE upvalues[u].location.block # Own
    <3>1. u \in OpenUpvalues
      BY <1>1, <2>2 DEF IInv, OpenInv, NoneLost
    <3>2. upvalues[u].location.off + 1 \in 1..Len(stack)
          /\ upvalues[u].location.off \in Nat
      BY <1>1, <2>2, UpvalueAt DEF Pointer
    <3>3. u \in CapturedAt(p - 1) <=> upvalues[u].location.off + 1 = p
      BY <1>2, <3>1, <3>2 DEF CapturedAt
    <3> QED BY <1>2, <2>2, <3>2, <3>3 DEF VariableOf, Own
  <2> QED BY <2>1, <2>2
<1>7. ASSUME NEW u \in CapturedAt(p - 1)
      PROVE  Boxes' = [Boxes EXCEPT ![u] = v] /\ UNCHANGED Environment
  <2>1. \A w \in CapturedAt(p - 1) : w = u
    BY <1>1, LookIs
  <2>2. u \in DOMAIN upvalues
    BY <1>1, LookIs
  <2>3. Boxes' = [Boxes EXCEPT ![u] = v]
    BY <1>5, <1>6, <2>1, <2>2
  <2>4. ASSUME NEW i \in 1..Len(stack)
        PROVE  EntryAt(i - 1)' = EntryAt(i - 1)
    <3>1. i - 1 \in Nat /\ (i - 1) + 1 = i
      OBVIOUS
    <3>2. CapturedAt(i - 1) = {} => i # p
      OBVIOUS
    <3>3. CapturedAt(i - 1) = {} => stack'[(i - 1) + 1] = stack[(i - 1) + 1]
      BY <1>2, <3>1, <3>2
    <3> QED BY <1>3, <3>1, <3>3, EntryKept
  <2>5. UNCHANGED Environment
    BY <1>2, <2>4, EnvironmentSame
  <2> QED BY <2>3, <2>5
<1>8. ASSUME CapturedAt(p - 1) = {}
      PROVE  Environment' = [Environment EXCEPT ![p] = v] /\ UNCHANGED Boxes
  <2>1. UNCHANGED Boxes
    BY <1>5, <1>6, <1>8
  <2>2. ASSUME NEW i \in 1..Len(stack)
        PROVE  EntryAt(i - 1)' = IF i = p THEN v ELSE EntryAt(i - 1)
    <3>1. i - 1 \in Nat /\ (i - 1) + 1 = i
      OBVIOUS
    <3>2. CASE i = p
      <4>1. CapturedAt(p - 1)' = {}
        BY <1>3, <1>8
      <4>2. EntryAt(p - 1)' = stack'[(p - 1) + 1]
        BY <1>2, <4>1, EntriesNext DEF EntriesRight
      <4> QED BY <1>2, <3>2, <4>2
    <3>3. CASE i # p
      <4>1. stack'[(i - 1) + 1] = stack[(i - 1) + 1]
        BY <1>2, <3>1, <3>3
      <4> QED BY <1>3, <3>1, <3>3, <4>1, EntryKept
    <3> QED BY <3>2, <3>3
  <2>3. /\ Environment = [i \in 1..Len(stack) |-> EntryAt(i - 1)]
        /\ Environment' = [i \in 1..Len(stack) |-> EntryAt(i - 1)']
    <3>1. DOMAIN stack' = 1..Len(stack)
      BY <1>2
    <3> QED BY <1>2, <3>1 DEF Environment
  <2>4. Environment' = [Environment EXCEPT ![p] = v]
    BY <2>2, <2>3
  <2> QED BY <2>1, <2>4
<1> QED BY <1>4, <1>7, <1>8

LEMMA SetLocalRefines ==
  ASSUME IInv, IInv', Running, NEW slot \in Locals, SetLocal(slot)
  PROVE  Shared!Instruction
<1>1. frames # <<>>
  BY RunningHasFrame
<1>2. /\ Base \in Nat /\ Top.nlocals \in Nat /\ Len(stack) \in Nat
      /\ Base + Top.nlocals <= Len(stack)
  BY <1>1, TopNumbers
<1>3. PICK p : p = Base + slot + 1
  OBVIOUS
<1>4. slot \in 1..(Height - 1) /\ p \in 1..Len(stack)
  BY <1>2, <1>3 DEF Locals, Height
<1>5. /\ stack' = [stack EXCEPT ![p] = Peek(0)]
      /\ UNCHANGED <<frames, open, upvalues, closures, status, global>>
  BY <1>3 DEF SetLocal, MachineUnchanged
<1>6. PICK v : v = Peek(0)
  OBVIOUS
<1>7. /\ UNCHANGED <<CallsInProgress, ClosuresMade, Progress>>
      /\ \A u \in CapturedAt(p - 1) :
           Boxes' = [Boxes EXCEPT ![u] = v] /\ UNCHANGED Environment
      /\ CapturedAt(p - 1) = {} =>
           Environment' = [Environment EXCEPT ![p] = v] /\ UNCHANGED Boxes
  BY <1>4, <1>5, <1>6, AssignShared
<1>8. /\ Environment[p] \in Shared!BoxRefs <=> CapturedAt(p - 1) # {}
      /\ \A u \in CapturedAt(p - 1) : Environment[p].box = u
  BY <1>1, <1>4, LookIs
<1>9. Shared!Result = v
  BY <1>1, <1>6, ResultIs
<1>10. Shared!SetLocal(slot)
  <2>1. Shared!Top.base + slot + 1 = p
    BY <1>1, <1>3, SharedNames
  <2>2. IF Environment[p] \in Shared!BoxRefs
        THEN Boxes' = [Boxes EXCEPT ![Environment[p].box] = v]
             /\ UNCHANGED Environment
        ELSE Environment' = [Environment EXCEPT ![p] = v] /\ UNCHANGED Boxes
    <3>1. CASE CapturedAt(p - 1) = {}
      BY <1>7, <1>8, <3>1
    <3>2. CASE CapturedAt(p - 1) # {}
      <4>1. PICK u : u \in CapturedAt(p - 1)
        BY <3>2
      <4> QED BY <1>7, <1>8, <3>2, <4>1
    <3> QED BY <3>1, <3>2
  <2> QED BY <1>5, <1>7, <1>9, <2>1, <2>2 DEF Shared!SetLocal
<1>11. slot \in 1..(Shared!Height - 1)
  BY <1>1, <1>4, SharedNames
<1> QED BY <1>10, <1>11 DEF Shared!Instruction

LEMMA SetUpvalueRefines ==
  ASSUME IInv, IInv', Running, NEW slot \in DOMAIN Callable.upvalues,
         SetUpvalue(slot)
  PROVE  Shared!Instruction
<1>1. frames # <<>> /\ status = "running"
  BY RunningHasFrame DEF Running
<1>2. PICK u : u = Callable.upvalues[slot]
  OBVIOUS
<1>3. PICK v : v = Peek(0)
  OBVIOUS
<1>4. u \in DOMAIN upvalues
  BY <1>1, <1>2, CallableUpvalue
<1>5. UNCHANGED <<frames, open, closures, global, status>>
  BY DEF SetUpvalue
<1>6. /\ Boxes' = [Boxes EXCEPT ![u] = v]
      /\ UNCHANGED <<Environment, CallsInProgress, ClosuresMade, Progress>>
  <2>1. CASE upvalues[u].location.block = Own
    <3>1. UNCHANGED stack /\ upvalues' = [upvalues EXCEPT ![u].closed = v]
      BY <1>2, <1>3, <2>1 DEF SetUpvalue
    <3>2. \A w \in DOMAIN upvalues :
            upvalues[w] \in [location : Pointer, closed : Known]
      BY <1>1, UpvalueAt
    <3>3. /\ DOMAIN upvalues' = DOMAIN upvalues
          /\ \A w \in DOMAIN upvalues :
               /\ upvalues'[w].location = upvalues[w].location
               /\ upvalues'[w].closed = IF w = u THEN v ELSE upvalues[w].closed
      BY <1>4, <3>1, <3>2
    <3>4. \A w \in DOMAIN upvalues :
            VariableOf(w)' = IF w = u THEN v ELSE VariableOf(w)
      BY <2>1, <3>1, <3>3 DEF VariableOf, Own
    <3>5. Boxes' = [Boxes EXCEPT ![u] = v]
      <4>1. /\ Boxes = [w \in DOMAIN upvalues |-> VariableOf(w)]
            /\ Boxes' = [w \in DOMAIN upvalues |-> VariableOf(w)']
        BY <1>1, <1>5, <3>3 DEF Boxes
      <4> QED BY <1>4, <3>4, <4>1
    <3>6. \A off : CapturedAt(off)' = CapturedAt(off)
      BY <1>5, <3>3, CapturedKept
    <3>7. \A off \in Nat : EntryAt(off)' = EntryAt(off)
      BY <3>1, <3>6, EntryKept
    <3>8. UNCHANGED Environment
      <4>1. \A i \in 1..Len(stack) : i - 1 \in Nat
        BY DEF IInv, TypeInv
      <4> QED BY <3>1, <3>7, <4>1, EnvironmentSame
    <3> QED BY <1>5, <3>5, <3>8 DEF CallsInProgress, ClosuresMade, Progress
  <2>2. CASE upvalues[u].location.block # Own
    <3>1. PICK p : p = upvalues[u].location.off + 1
      OBVIOUS
    <3>2. stack' = [stack EXCEPT ![p] = v] /\ UNCHANGED upvalues
      BY <1>2, <1>3, <2>2, <3>1 DEF SetUpvalue
    <3>3. p \in 1..Len(stack) /\ upvalues[u].location.off = p - 1
      BY <1>1, <1>4, <2>2, <3>1, UpvalueAt DEF Pointer
    <3>4. u \in CapturedAt(p - 1)
      BY <1>1, <1>4, <2>2, <3>3 DEF IInv, OpenInv, NoneLost, CapturedAt
    <3> QED BY <1>5, <3>2, <3>3, <3>4, AssignShared
  <2> QED BY <2>1, <2>2
<1>7. Shared!SetCaptured(slot)
  <2>1. Shared!Result = v /\ Shared!Callable.boxes = Callable.upvalues
    BY <1>1, <1>3, ResultIs, SharedNames
  <2> QED BY <1>2, <1>5, <1>6, <2>1 DEF Shared!SetCaptured
<1>8. slot \in DOMAIN Shared!Callable.boxes
  BY <1>1, SharedNames
<1> QED BY <1>7, <1>8 DEF Shared!Instruction

-----------------------------------------------------------------------------
(***************************************************************************)
(* Leaving a scope or a function.                                          *)
(***************************************************************************)
LEMMA CallsKept ==
  ASSUME TypeInv, frames # <<>>, NEW n \in Nat,
         frames' = [frames EXCEPT ![Len(frames)].nlocals = n]
  PROVE  CallsInProgress' = CallsInProgress
BY Resized DEF CallsInProgress

\* Closing upvalues changes no variable; those above last are forgotten.
LEMMA CloseShared ==
  ASSUME IInv, IInv', Running, status' # "error", NEW last \in Nat,
         CloseUpvalues(last), \A i \in 1..last : stack'[i] = stack[i]
  PROVE  /\ UNCHANGED Boxes
         /\ \A off \in Nat : off < last => EntryAt(off)' = EntryAt(off)
         /\ \A off \in Nat : off >= last => EntryAt(off)' = stack'[off + 1]
<1>1. frames # <<>> /\ status = "running"
  BY RunningHasFrame DEF Running
<1>2. PICK k \in 0..Len(open) :
        /\ WalkFrom(last, k)
        /\ upvalues' = [u \in DOMAIN upvalues |->
                          IF \E j \in 1..k : open[j] = u
                          THEN [location |-> [block |-> Own, off |-> 0],
                                closed   |-> stack[upvalues[u].location.off + 1]]
                          ELSE upvalues[u]]
        /\ open' = SubSeq(open, k + 1, Len(open))
  BY DEF CloseUpvalues
<1>3. /\ DOMAIN upvalues' = DOMAIN upvalues
      /\ \A j \in DOMAIN open' :
           \E i \in DOMAIN open : /\ open'[j] = open[i]
                                  /\ OpenOff(j)' = OpenOff(i)
                                  /\ upvalues'[open'[j]] = upvalues[open[i]]
                                  /\ OpenOff(i) < last
  BY <1>1, Closed
<1>4. Len(open) \in Nat /\ DOMAIN open = 1..Len(open) /\ open \in Seq(DOMAIN upvalues)
  BY DEF IInv, TypeInv
<1>5. \A j \in 1..k : j \in DOMAIN open /\ OpenOff(j) >= last /\ OpenOff(j) \in Nat
  <2>1. \A j \in 1..k : j \in DOMAIN open
    BY <1>4
  <2>2. \A j \in 1..k : OpenOff(j) >= last
    BY <1>2 DEF WalkFrom
  <2>3. \A j \in DOMAIN open : OpenOff(j) \in Nat
    BY OpenOnStack
  <2> QED BY <2>1, <2>2, <2>3
<1>6. ASSUME NEW j \in DOMAIN open, OpenOff(j) < last
      PROVE  /\ upvalues'[open[j]] = upvalues[open[j]]
             /\ \E i \in DOMAIN open' : open'[i] = open[j]
  <2>1. OpenOff(j) \in Nat /\ open[j] \in DOMAIN upvalues
    BY OpenOnStack
  <2>2. ASSUME NEW i \in 1..k, open[i] = open[j] PROVE FALSE
    <3>1. OpenOff(i) = OpenOff(j)
      BY <2>2 DEF OpenOff
    <3> QED BY <1>5, <1>6, <2>1, <3>1
  <2>3. upvalues'[open[j]] = upvalues[open[j]]
    BY <1>2, <2>1, <2>2
  <2>4. j > k
    BY <1>4, <2>2
  <2>5. j - k \in DOMAIN open' /\ open'[j - k] = open[j]
    BY <1>2, <1>4, <2>4
  <2> QED BY <2>3, <2>5
<1>7. ASSUME NEW j \in DOMAIN open, ~(OpenOff(j) < last)
      PROVE  \E i \in 1..k : open[i] = open[j]
  <2>1. OpenOff(j) \in Nat /\ OpenOff(j) >= last
    BY <1>7, OpenOnStack
  <2>2. CASE j <= k
    BY <1>4, <2>2
  <2>3. CASE j > k
    <3>1. k + 1 \in DOMAIN open /\ OpenOff(k + 1) < last /\ OpenOff(k + 1) \in Nat
      BY <1>2, <1>4, <2>3, OpenOnStack DEF WalkFrom
    <3>2. j = k + 1 \/ OpenOff(k + 1) > OpenOff(j)
      BY <1>4, <2>3, <3>1 DEF IInv, OpenInv, OpenListSorted
    <3> QED BY <2>1, <3>1, <3>2
  <2> QED BY <1>4, <2>2, <2>3
<1>8. ASSUME NEW off \in Nat, off < last
      PROVE  EntryAt(off)' = EntryAt(off)
  <2>1. ASSUME NEW u \in CapturedAt(off) PROVE u \in CapturedAt(off)'
    <3>1. PICK j \in DOMAIN open : open[j] = u /\ OpenOff(j) = off
      BY CapturedAtOpen
    <3>2. upvalues'[u] = upvalues[u] /\ \E i \in DOMAIN open' : open'[i] = u
      BY <1>6, <1>8, <3>1
    <3> QED BY <3>2 DEF CapturedAt, OpenUpvalues
  <2>2. ASSUME NEW u \in CapturedAt(off)' PROVE u \in CapturedAt(off)
    <3>1. PICK j \in DOMAIN open' : open'[j] = u /\ upvalues'[u].location.off = off
      BY DEF CapturedAt, OpenUpvalues
    <3>2. PICK i \in DOMAIN open : u = open[i] /\ upvalues'[u] = upvalues[u]
      BY <1>3, <3>1
    <3> QED BY <3>1, <3>2 DEF CapturedAt, OpenUpvalues
  <2>3. stack'[off + 1] = stack[off + 1]
    BY <1>8
  <2>4. CapturedAt(off)' = CapturedAt(off)
    BY <2>1, <2>2
  <2> QED BY <2>3, <2>4, EntryKept
<1>9. ASSUME NEW off \in Nat, off >= last
      PROVE  EntryAt(off)' = stack'[off + 1]
  <2>1. ASSUME NEW u \in CapturedAt(off)' PROVE FALSE
    <3>1. PICK j \in DOMAIN open' : open'[j] = u /\ upvalues'[u].location.off = off
      BY DEF CapturedAt, OpenUpvalues
    <3>2. PICK i \in DOMAIN open : /\ u = open[i] /\ upvalues'[u] = upvalues[u]
                                   /\ OpenOff(i) < last
      BY <1>3, <3>1
    <3> QED BY <1>9, <3>1, <3>2 DEF OpenOff
  <2>2. CapturedAt(off)' = {}
    BY <2>1
  <2> QED BY <2>2, EntriesNext DEF EntriesRight
<1>10. ASSUME NEW u \in DOMAIN upvalues PROVE VariableOf(u)' = VariableOf(u)
  <2>1. CASE upvalues[u].location.block = Own
    <3>1. ~\E j \in 1..k : open[j] = u
      BY <1>5, <2>1 DEF IInv, OpenInv, OpenPointToVariables, TypeInv, Own
    <3>2. upvalues'[u] = upvalues[u]
      BY <1>2, <3>1
    <3> QED BY <2>1, <3>2 DEF VariableOf, Own
  <2>2. CASE upvalues[u].location.block # Own
    <3>1. PICK j \in DOMAIN open : open[j] = u
      BY <1>1, <2>2 DEF IInv, OpenInv, NoneLost, OpenUpvalues
    <3>2. OpenOff(j) = upvalues[u].location.off /\ OpenOff(j) \in Nat
      BY <3>1, OpenOnStack DEF OpenOff
    <3>3. CASE OpenOff(j) < last
      <4>1. upvalues'[u] = upvalues[u]
        BY <1>6, <3>1, <3>3
      <4>2. OpenOff(j) + 1 \in 1..last
        BY <3>2, <3>3
      <4> QED BY <2>2, <3>2, <4>1, <4>2 DEF VariableOf, Own
    <3>4. CASE ~(OpenOff(j) < last)
      <4>1. \E i \in 1..k : open[i] = u
        BY <1>7, <3>1, <3>4
      <4>2. upvalues'[u] = [location |-> [block |-> Own, off |-> 0],
                            closed   |-> stack[upvalues[u].location.off + 1]]
        BY <1>2, <4>1
      <4> QED BY <2>2, <4>2 DEF VariableOf, Own
    <3> QED BY <3>3, <3>4
  <2> QED BY <2>1, <2>2
<1>11. UNCHANGED Boxes
  BY <1>1, <1>3, <1>10 DEF Boxes
<1> QED BY <1>8, <1>9, <1>11

\* A declaration is a step of the compiler, an abort one of the machine: the
\* program sees neither.
LEMMA UnseenSteps ==
  ASSUME IInv, IInv', Running, Declare \/ Abort
  PROVE  UNCHANGED Shared!vars
<1>1. frames # <<>> /\ TypeInv
  BY RunningHasFrame DEF IInv
<1>2. UNCHANGED <<stack, open, upvalues, closures, global>>
      /\ status' \in {"running", "aborted"}
  BY DEF Declare, Abort, Running
<1>3. /\ UNCHANGED Boxes
      /\ \A off \in Nat : EntryAt(off)' = EntryAt(off)
  BY <1>1, <1>2, AboveShared
<1>4. UNCHANGED Environment
  <2>1. \A i \in 1..Len(stack) : i - 1 \in Nat
    BY <1>1 DEF TypeInv
  <2> QED BY <1>2, <1>3, <2>1, EnvironmentSame
<1>5. UNCHANGED CallsInProgress
  <2>1. CASE Declare
    <3>1. frames' = [frames EXCEPT ![Len(frames)].nlocals = Top.nlocals + 1]
          /\ Top.nlocals + 1 \in Nat
      BY <1>1, <2>1, TopNumbers DEF Declare, Top
    <3> QED BY <1>1, <3>1, CallsKept
  <2>2. CASE Abort
    BY <2>2 DEF Abort, CallsInProgress
  <2> QED BY <2>1, <2>2
<1>6. UNCHANGED <<ClosuresMade, Progress>>
  BY <1>2 DEF ClosuresMade, Progress, Running
<1> QED BY <1>2, <1>3, <1>4, <1>5, <1>6 DEF Shared!vars

LEMMA ErrorRefines ==
  ASSUME RuntimeError
  PROVE  Shared!Instruction
<1>1. stack' = <<>> /\ frames' = <<>> /\ status' = "error"
      /\ UNCHANGED <<closures, global>>
  BY DEF RuntimeError
<1>2. Environment' = <<>> /\ CallsInProgress' = <<>> /\ Boxes' = <<>>
  BY <1>1 DEF Environment, CallsInProgress, Boxes
<1>3. Progress' = "error" /\ UNCHANGED ClosuresMade
  BY <1>1 DEF Progress, ClosuresMade
<1>4. Shared!RuntimeError
  BY <1>1, <1>2, <1>3 DEF Shared!RuntimeError
<1> QED BY <1>4 DEF Shared!Instruction

LEMMA EndScopeRefines ==
  ASSUME IInv, IInv', Running, NEW count \in Locals, EndScope(count)
  PROVE  Shared!Instruction
<1>1. frames # <<>> /\ TypeInv
  BY RunningHasFrame DEF IInv
<1>2. PICK keep : keep = Len(stack) - 1 - count
  OBVIOUS
<1>3. /\ Base \in Nat /\ Top.nlocals \in Nat /\ Len(stack) \in Nat
      /\ Arity[Callable.function] \in Nat
  BY <1>1, TopNumbers
<1>4. /\ count \in 1..(Top.nlocals - 1 - Arity[Callable.function])
      /\ Height = Top.nlocals + 1
      /\ CloseUpvalues(keep) /\ stack' = Append(Truncate(keep), Peek(0))
      /\ frames' = [frames EXCEPT ![Len(frames)].nlocals = Top.nlocals - count]
      /\ UNCHANGED <<closures, global, status>>
  BY <1>2 DEF EndScope, Top
<1>5. count \in Nat /\ Top.nlocals - count \in Nat /\ Top.nlocals - count >= 1
  BY <1>1, <1>3, <1>4, ScopeNumbers
<1>6. /\ keep \in Nat /\ keep \in 0..Len(stack)
      /\ keep = Len(stack) - (count + 1)
      /\ count < Height /\ count \in 1..Height
  <2>1. PICK m : m = Top.nlocals
    OBVIOUS
  <2>2. Len(stack) - Base = m + 1 /\ Height = m + 1 /\ m \in Nat
    BY <1>3, <1>4, <2>1 DEF Height
  <2>3. m - count \in Nat /\ m - count >= 1 /\ count >= 1
    BY <1>3, <1>4, <1>5, <2>1
  <2> QED BY <1>2, <1>3, <1>5, <2>2, <2>3
<1>7. PICK v : v = Peek(0)
  OBVIOUS
<1>8. /\ Len(stack') = keep + 1 /\ stack'[keep + 1] = v
      /\ \A i \in 1..keep : stack'[i] = stack[i]
  BY <1>4, <1>6, <1>7, Truncated
<1>9. /\ UNCHANGED Boxes
      /\ \A off \in Nat : off < keep => EntryAt(off)' = EntryAt(off)
      /\ \A off \in Nat : off >= keep => EntryAt(off)' = stack'[off + 1]
  BY <1>4, <1>6, <1>8, CloseShared DEF Running
<1>10. /\ \A i \in 1..keep : EntryAt(i - 1)' = EntryAt(i - 1)
       /\ EntryAt(keep)' = v
  BY <1>6, <1>8, <1>9
<1>11. Environment' = Append(SubSeq(Environment, 1, keep), v)
  BY <1>6, <1>8, <1>10, EnvironmentPushed
<1>12. Shared!Forget(count + 1) = SubSeq(Environment, 1, keep)
  BY <1>6, EnvironmentIs DEF Shared!Forget, EnvironmentRight
<1>13. UNCHANGED CallsInProgress
  BY <1>1, <1>4, <1>5, CallsKept
<1>14. UNCHANGED <<ClosuresMade, Progress>>
  BY <1>4 DEF ClosuresMade, Progress
<1>15. Shared!Result = v /\ Shared!Height = Height
  BY <1>1, <1>7, ResultIs, SharedNames
<1>16. Shared!EndScope(count)
  BY <1>4, <1>6, <1>9, <1>11, <1>12, <1>13, <1>14, <1>15
     DEF Shared!EndScope, Shared!Entries
<1> QED BY <1>6, <1>15, <1>16 DEF Shared!Instruction

LEMMA LoopExitRefines ==
  ASSUME IInv, IInv', Running, NEW count \in Locals, PlainLoopExit(count)
  PROVE  Shared!Instruction
<1>1. frames # <<>> /\ TypeInv
  BY RunningHasFrame DEF IInv
<1>2. PICK keep : keep = Len(stack) - count
  OBVIOUS
<1>3. /\ Base \in Nat /\ Top.nlocals \in Nat /\ Len(stack) \in Nat
      /\ Arity[Callable.function] \in Nat
  BY <1>1, TopNumbers
<1>4. /\ count \in 1..(Top.nlocals - 1 - Arity[Callable.function])
      /\ Height = Top.nlocals
      /\ stack' = Truncate(keep)
      /\ frames' = [frames EXCEPT ![Len(frames)].nlocals = Top.nlocals - count]
      /\ UNCHANGED <<open, upvalues, closures, global, status>>
      /\ \A k \in DOMAIN open : OpenOff(k) < keep
  BY <1>2 DEF PlainLoopExit, LoopExit, Top
<1>5. count \in Nat /\ Top.nlocals - count \in Nat /\ Top.nlocals - count >= 1
  BY <1>1, <1>3, <1>4, ScopeNumbers
<1>6. keep \in Nat /\ keep \in 0..Len(stack) /\ count \in 1..Height
  BY <1>2, <1>3, <1>4, <1>5 DEF Height
<1>7. Len(stack') = keep /\ \A i \in 1..keep : stack'[i] = stack[i]
  BY <1>4, <1>6, Truncated
<1>8. CloseUpvalues(keep)
  <2>1. /\ Len(open) \in Nat /\ DOMAIN open = 1..Len(open)
        /\ open \in Seq(DOMAIN upvalues)
        /\ upvalues \in Seq([location : Pointer, closed : Known])
    BY <1>1 DEF TypeInv
  <2>2. WalkFrom(keep, 0)
    <3>1. 0 < Len(open) => OpenOff(0 + 1) < keep
      <4>1. 0 < Len(open) => 0 + 1 \in DOMAIN open
        BY <2>1
      <4>2. \A k \in DOMAIN open : OpenOff(k) < keep
        BY <1>4
      <4> QED BY <4>1, <4>2
    <3>2. \A j \in 1..0 : OpenOff(j) >= keep
      OBVIOUS
    <3> QED BY <3>1, <3>2 DEF WalkFrom
  <2>3. upvalues' = [u \in DOMAIN upvalues |->
                       IF \E j \in 1..0 : open[j] = u
                       THEN [location |-> [block |-> Own, off |-> 0],
                             closed   |-> stack[upvalues[u].location.off + 1]]
                       ELSE upvalues[u]]
    BY <1>4, <2>1
  <2>4. open' = SubSeq(open, 0 + 1, Len(open))
    BY <1>4, <2>1
  <2>5. 0 \in 0..Len(open)
    BY <2>1
  <2> QED BY <2>2, <2>3, <2>4, <2>5 DEF CloseUpvalues
<1>9. /\ UNCHANGED Boxes
      /\ \A off \in Nat : off < keep => EntryAt(off)' = EntryAt(off)
  BY <1>4, <1>6, <1>7, <1>8, CloseShared DEF Running
<1>10. \A i \in 1..keep : EntryAt(i - 1)' = EntryAt(i - 1)
  BY <1>6, <1>9
<1>11. Environment' = SubSeq(Environment, 1, keep)
  BY <1>6, <1>7, <1>10, EnvironmentCut
<1>12. Shared!Forget(count) = SubSeq(Environment, 1, keep)
  BY <1>2, EnvironmentIs DEF Shared!Forget, EnvironmentRight
<1>13. UNCHANGED CallsInProgress
  BY <1>1, <1>4, <1>5, CallsKept
<1>14. UNCHANGED <<ClosuresMade, Progress>>
  BY <1>4 DEF ClosuresMade, Progress
<1>15. Shared!Height = Height
  BY <1>1, SharedNames
<1>16. Shared!Drop(count)
  BY <1>4, <1>6, <1>9, <1>11, <1>12, <1>13, <1>14, <1>15
     DEF Shared!Drop, Shared!Entries
<1> QED BY <1>6, <1>15, <1>16 DEF Shared!Instruction

LEMMA ReturnRefines ==
  ASSUME IInv, IInv', BottomInv, Running, Return
  PROVE  Shared!Instruction
<1>1. frames # <<>> /\ TypeInv
  BY RunningHasFrame DEF IInv
<1>2. PICK base : base = Base
  OBVIOUS
<1>3. /\ base \in Nat /\ Len(stack) \in Nat /\ base \in 0..Len(stack)
      /\ Len(stack) >= 1
  BY <1>1, <1>2, TopNumbers, ResultIs
<1>4. /\ CloseUpvalues(base)
      /\ frames' = SubSeq(frames, 1, Len(frames) - 1)
      /\ status' # "error" /\ UNCHANGED <<closures, global>>
  BY <1>2 DEF Return, Running
<1>5. PICK L : L = Len(frames)
  OBVIOUS
<1>6. L \in Nat /\ L >= 1 /\ DOMAIN frames = 1..L /\ frames \in
        Seq([closure : DOMAIN closures, slots : Pointer, nlocals : Nat])
  BY <1>1, <1>5, FrameIndices, TopFrame DEF TypeInv
<1>7. CallsInProgress' = SubSeq(CallsInProgress, 1, Len(CallsInProgress) - 1)
  <2>1. /\ DOMAIN frames' = 1..(L - 1)
        /\ \A i \in 1..(L - 1) : frames'[i] = frames[i]
    BY <1>4, <1>5, <1>6
  <2>2. CallsInProgress' = [i \in 1..(L - 1) |-> CallsInProgress[i]]
    BY <1>6, <2>1 DEF CallsInProgress
  <2>3. Len(CallsInProgress) = L
        /\ CallsInProgress \in Seq([closure : DOMAIN closures, base : Nat])
    BY <1>5, SharedCalls
  <2> QED BY <1>6, <2>2, <2>3
<1>8. UNCHANGED ClosuresMade
  BY <1>4 DEF ClosuresMade
<1>9. CASE L = 1
  <2>1. base = 0 /\ Callable.function = Script
    BY <1>1, <1>2, <1>5, <1>9 DEF BottomInv, Base, Top, FunctionOf, Callable
  <2>2. Len(stack) = 2
    BY <1>2, <1>3, <2>1 DEF Return, Height
  <2>3. stack' = Truncate(0) /\ status' = "idle"
    BY <1>5, <1>9, <2>2 DEF Return
  <2>4. Len(stack') = 0
    BY <2>3, <1>3, Truncated
  <2>5. Environment' = <<>>
    <3>1. Environment' \in Seq(Content') /\ Len(Environment') = 0
      BY <2>4, EnvironmentNext DEF EnvironmentRight
    <3> QED BY <3>1, EmptySeq
  <2>6. UNCHANGED Boxes
    BY <1>3, <1>4, <2>1, CloseShared
  <2>7. Progress' = "idle"
    BY <2>3 DEF Progress
  <2>8. Len(CallsInProgress) = 1
    BY <1>5, <1>9, SharedCalls
  <2>9. Shared!Return
    BY <1>4, <1>7, <1>8, <2>5, <2>6, <2>7, <2>8 DEF Shared!Return
  <2> QED BY <2>9 DEF Shared!Instruction
<1>10. CASE L # 1
  <2>1. PICK v : v = Peek(0)
    OBVIOUS
  <2>2. stack' = Append(Truncate(base), v) /\ UNCHANGED status
    BY <1>2, <1>5, <1>10, <2>1 DEF Return
  <2>3. /\ Len(stack') = base + 1 /\ stack'[base + 1] = v
        /\ \A i \in 1..base : stack'[i] = stack[i]
    BY <1>3, <2>2, Truncated
  <2>4. /\ UNCHANGED Boxes
        /\ \A off \in Nat : off < base => EntryAt(off)' = EntryAt(off)
        /\ \A off \in Nat : off >= base => EntryAt(off)' = stack'[off + 1]
    BY <1>3, <1>4, <2>3, CloseShared
  <2>5. /\ \A i \in 1..base : EntryAt(i - 1)' = EntryAt(i - 1)
        /\ EntryAt(base)' = v
    BY <1>3, <2>3, <2>4
  <2>6. Environment' = Append(SubSeq(Environment, 1, base), v)
    BY <1>3, <2>3, <2>5, EnvironmentPushed
  <2>7. UNCHANGED Progress
    BY <2>2 DEF Progress
  <2>8. Len(CallsInProgress) # 1
    BY <1>5, <1>10, SharedCalls
  <2>9. Shared!Top.base = base /\ Shared!Result = v
    BY <1>1, <1>2, <2>1, SharedNames, ResultIs
  <2>10. Shared!Return
    BY <1>4, <1>7, <1>8, <2>4, <2>6, <2>7, <2>8, <2>9 DEF Shared!Return
  <2> QED BY <2>10 DEF Shared!Instruction
<1> QED BY <1>9, <1>10

-----------------------------------------------------------------------------
(***************************************************************************)
(* Closures.                                                               *)
(***************************************************************************)
\* What an insertion and an append do, as sets and functions.
HasAlso(t, s, e) ==
  /\ \A i \in DOMAIN t : t[i] = e \/ \E j \in DOMAIN s : t[i] = s[j]
  /\ \A j \in DOMAIN s : \E i \in DOMAIN t : t[i] = s[j]
  /\ \E i \in DOMAIN t : t[i] = e

LEMMA InsertedElements ==
  ASSUME NEW S, NEW s \in Seq(S), NEW e \in S, NEW n \in 1..(Len(s) + 1),
         NEW t, t = InsertAt(s, n, e)
  PROVE  HasAlso(t, s, e)
<1>1. PICK m : m = Len(s)
  OBVIOUS
<1>2. m \in Nat /\ DOMAIN s = 1..m /\ n \in 1..(m + 1)
  BY <1>1
<1>3. /\ DOMAIN t = 1..(m + 1)
      /\ \A i \in 1..(m + 1) : /\ i < n => t[i] = s[i]
                               /\ i = n => t[i] = e
                               /\ i > n => t[i] = s[i - 1]
  <2>1. IsInsertion(t, s, n, e, S)
    BY Inserted
  <2> QED BY <1>1, <2>1 DEF IsInsertion
<1>4. ASSUME NEW i \in 1..(m + 1)
      PROVE  t[i] = e \/ \E j \in 1..m : t[i] = s[j]
  <2>1. CASE i = n
    BY <1>3, <2>1
  <2>2. CASE i < n
    BY <1>2, <1>3, <2>2
  <2>3. CASE i > n
    BY <1>2, <1>3, <2>3
  <2> QED BY <1>2, <2>1, <2>2, <2>3
<1>5. ASSUME NEW j \in 1..m
      PROVE  \E i \in 1..(m + 1) : t[i] = s[j]
  <2>1. CASE j < n
    BY <1>2, <1>3, <2>1
  <2>2. CASE j >= n
    <3>1. j + 1 \in 1..(m + 1) /\ j + 1 > n /\ (j + 1) - 1 = j
      BY <1>2, <2>2
    <3>2. t[j + 1] = s[(j + 1) - 1]
      BY <1>3, <3>1
    <3> QED BY <3>1, <3>2
  <2> QED BY <1>2, <2>1, <2>2
<1>6. t[n] = e /\ n \in DOMAIN t
  BY <1>2, <1>3
<1>7. DOMAIN t = 1..(m + 1) /\ DOMAIN s = 1..m
  BY <1>2, <1>3
<1>8. \A i \in DOMAIN t : t[i] = e \/ \E j \in DOMAIN s : t[i] = s[j]
  <2> TAKE i \in DOMAIN t
  <2> QED BY <1>4, <1>7
<1>9. \A j \in DOMAIN s : \E i \in DOMAIN t : t[i] = s[j]
  <2> TAKE j \in DOMAIN s
  <2> QED BY <1>5, <1>7
<1> QED BY <1>6, <1>8, <1>9 DEF HasAlso

LEMMA AppendAsFunction ==
  ASSUME NEW S, NEW s \in Seq(S), NEW v \in S
  PROVE  Append(s, v) = [i \in 1..(Len(s) + 1) |-> IF i = Len(s) + 1 THEN v
                                                                     ELSE s[i]]
<1>1. PICK m : m = Len(s)
  OBVIOUS
<1>2. PICK A : A = Append(s, v)
  OBVIOUS
<1>3. /\ A \in Seq(S) /\ Len(A) = m + 1 /\ m \in Nat
      /\ \A i \in 1..m : A[i] = s[i]
      /\ A[m + 1] = v
  BY <1>1, <1>2, AppendProperties
<1>4. A = [i \in 1..(m + 1) |-> A[i]]
  BY <1>3
<1>5. \A i \in 1..(m + 1) : i = m + 1 \/ i \in 1..m
  BY <1>3
<1>6. \A i \in 1..(m + 1) : A[i] = IF i = m + 1 THEN v ELSE s[i]
  BY <1>3, <1>5
<1>7. A = [i \in 1..(m + 1) |-> IF i = m + 1 THEN v ELSE s[i]]
  BY <1>4, <1>6
<1> QED BY <1>1, <1>2, <1>7

LEMMA SharedClosures ==
  ASSUME IInv
  PROVE  /\ ClosuresMade \in Seq([function : Functions,
                                  boxes : Seq(DOMAIN upvalues)])
         /\ Len(ClosuresMade) = Len(closures)
         /\ DOMAIN closures = 1..Len(closures) /\ Len(closures) \in Nat
         /\ \A c \in DOMAIN closures :
              ClosuresMade[c] = [function |-> closures[c].function,
                                 boxes |-> closures[c].upvalues]
<1> DEFINE made(c) == [function |-> closures[c].function,
                       boxes |-> closures[c].upvalues]
           AbstractClosure == [function : Functions, boxes : Seq(DOMAIN upvalues)]
<1>1. DOMAIN closures = 1..Len(closures) /\ Len(closures) \in Nat
  BY DEF IInv, TypeInv
<1>2. ClosuresMade = [c \in 1..Len(closures) |-> made(c)]
  BY <1>1 DEF ClosuresMade
<1>3. \A c \in 1..Len(closures) : made(c) \in AbstractClosure
  BY <1>1, ClosureAt DEF IInv
<1>4. ClosuresMade \in Seq(AbstractClosure)
  <2> HIDE DEF made, AbstractClosure
  <2> QED BY <1>1, <1>2, <1>3, IsASeq
<1>5. Len(ClosuresMade) = Len(closures)
  BY <1>1, <1>2, <1>4
<1> QED BY <1>1, <1>2, <1>4, <1>5

LEMMA ClosureAdded ==
  ASSUME IInv, NEW f \in Functions,
         closures' = Append(closures, [function |-> f, upvalues |-> <<>>])
  PROVE  ClosuresMade' = Append(ClosuresMade, [function |-> f, boxes |-> <<>>])
<1> DEFINE new == [function |-> f, upvalues |-> <<>>]
           made == [function |-> f, boxes |-> <<>>]
<1>1. PICK n : n = Len(closures)
  OBVIOUS
<1>2. /\ n \in Nat /\ DOMAIN closures = 1..n
      /\ DOMAIN closures' = 1..(n + 1)
      /\ \A c \in 1..n : closures'[c] = closures[c]
      /\ closures'[n + 1] = new
  BY <1>1, NewClosure, SharedClosures DEF IInv
<1>3. /\ ClosuresMade \in Seq([function : Functions, boxes : Seq(DOMAIN upvalues)])
      /\ Len(ClosuresMade) = n
      /\ \A c \in 1..n : ClosuresMade[c] = [function |-> closures[c].function,
                                            boxes |-> closures[c].upvalues]
  BY <1>1, <1>2, SharedClosures
<1>4. ClosuresMade' = [c \in 1..(n + 1) |-> [function |-> closures'[c].function,
                                             boxes |-> closures'[c].upvalues]]
  BY <1>2 DEF ClosuresMade
<1>5. [function |-> closures'[n + 1].function, boxes |-> closures'[n + 1].upvalues]
        = made
  BY <1>2
<1>6. ClosuresMade' = [c \in 1..(n + 1) |-> IF c = n + 1 THEN made
                                            ELSE ClosuresMade[c]]
  <2> HIDE DEF new, made
  <2> QED BY <1>2, <1>3, <1>4, <1>5
<1>7. Append(ClosuresMade, made)
        = [c \in 1..(n + 1) |-> IF c = n + 1 THEN made ELSE ClosuresMade[c]]
  <2> DEFINE AbstractClosure == [function : Functions,
                                 boxes : Seq(DOMAIN upvalues)]
  <2>1. made \in AbstractClosure
    <3>1. <<>> \in Seq(DOMAIN upvalues)
      OBVIOUS
    <3> QED BY <3>1
  <2>2. ClosuresMade \in Seq(AbstractClosure) /\ Len(ClosuresMade) = n
    BY <1>3
  <2> HIDE DEF AbstractClosure, made
  <2> QED BY <2>1, <2>2, AppendAsFunction
<1> QED BY <1>6, <1>7

LEMMA MakeClosureRefines ==
  ASSUME IInv, IInv', Running, NEW f \in Functions,
         MakeClosure(f) \/ DeclareFunction(f)
  PROVE  Shared!Instruction
<1>1. frames # <<>> /\ TypeInv /\ status = "running"
  BY RunningHasFrame DEF IInv, Running
<1>2. PICK n : n = Len(closures) + 1
  OBVIOUS
<1>3. /\ closures' = Append(closures, [function |-> f, upvalues |-> <<>>])
      /\ stack' = Append(stack, ClosureRef(n))
      /\ status' = IF Captures[f] = <<>> THEN "running" ELSE "capturing"
      /\ status' # "error"
      /\ UNCHANGED <<open, upvalues, global>>
  BY <1>2 DEF MakeClosure, DeclareFunction, PushClosure
<1>4. Environment' = Append(Environment, ClosureRef(n)) /\ UNCHANGED Boxes
  BY <1>3, PushShared
<1>5. ClosuresMade' = Append(ClosuresMade, [function |-> f, boxes |-> <<>>])
      /\ n = Len(ClosuresMade) + 1
  BY <1>2, <1>3, ClosureAdded, SharedClosures
<1>6. UNCHANGED CallsInProgress
  <2>1. CASE MakeClosure(f)
    BY <2>1 DEF MakeClosure, CallsInProgress
  <2>2. CASE DeclareFunction(f)
    <3>1. frames' = [frames EXCEPT ![Len(frames)].nlocals = Top.nlocals + 1]
          /\ Top.nlocals + 1 \in Nat
      BY <1>1, <2>2, TopNumbers DEF DeclareFunction, Top
    <3> QED BY <1>1, <3>1, CallsKept
  <2> QED BY <2>1, <2>2
<1>7. Progress' = IF Captures[f] = <<>> THEN "running" ELSE "capturing"
  BY <1>3 DEF Progress
<1>8. Shared!MakeClosure(f)
  BY <1>3, <1>4, <1>5, <1>6, <1>7 DEF Shared!MakeClosure, ClosureRef
<1> QED BY <1>8 DEF Shared!Instruction

\* The closure that is filled in gets one more upvalue.
LEMMA CapturedShared ==
  ASSUME IInv, status = "capturing", NEW u, Captured(u)
  PROVE  /\ ClosuresMade' = [ClosuresMade EXCEPT
                               ![Shared!New].boxes = Append(@, u)]
         /\ Progress' = IF Len(ClosuresMade'[Shared!New].boxes)
                             = Len(Captures[Shared!NewFunction])
                        THEN "running" ELSE "capturing"
         /\ Progress = "capturing" /\ status' # "error"
         /\ Shared!NextCapture = NextCapture
         /\ UNCHANGED <<CallsInProgress, global, stack>>
<1> DEFINE more == Append(closures[New].upvalues, u)
<1>1. closures # <<>> /\ TypeInv
  BY DEF IInv, CapturingInv
<1>2. /\ closures' = [closures EXCEPT ![New].upvalues = more]
      /\ status' = IF Len(closures[New].upvalues) + 1
                      = Len(Captures[closures[New].function])
                   THEN "running" ELSE "capturing"
      /\ UNCHANGED <<stack, frames, global>>
  BY DEF Captured
<1>3. New \in DOMAIN closures
  BY <1>1, EmptySeq DEF TypeInv, New
<1>4. closures[New] \in [function : Functions, upvalues : Seq(DOMAIN upvalues)]
  BY <1>1, <1>3, ClosureAt
<1>5. /\ Shared!New = New
      /\ Shared!NewFunction = closures[New].function
      /\ ClosuresMade[New] = [function |-> closures[New].function,
                              boxes |-> closures[New].upvalues]
      /\ ClosuresMade[New].boxes = closures[New].upvalues
  BY <1>3, SharedClosures DEF Shared!New, Shared!NewFunction, New
<1>6. Shared!NextCapture = NextCapture
  BY <1>5 DEF Shared!NextCapture, NextCapture
<1>7. Len(more) = Len(closures[New].upvalues) + 1
  BY <1>4
<1>8. closures'[New].function = closures[New].function
      /\ closures'[New].upvalues = more
  BY <1>2, <1>3, <1>4
<1>9. \A c \in DOMAIN closures : c # New => closures'[c] = closures[c]
  BY <1>2
<1>10. DOMAIN closures' = DOMAIN closures
  BY <1>2
<1> HIDE DEF more
<1>11. ClosuresMade' = [ClosuresMade EXCEPT ![New] =
                          [function |-> closures[New].function, boxes |-> more]]
  <2>1. /\ ClosuresMade = [c \in DOMAIN closures |->
                             [function |-> closures[c].function,
                              boxes |-> closures[c].upvalues]]
        /\ ClosuresMade' = [c \in DOMAIN closures |->
                              [function |-> closures'[c].function,
                               boxes |-> closures'[c].upvalues]]
    BY <1>10 DEF ClosuresMade
  <2> QED BY <1>3, <1>8, <1>9, <2>1
<1>12. ClosuresMade' = [ClosuresMade EXCEPT ![New].boxes = Append(@, u)]
  <2>1. PICK g : g = closures[New].function
    OBVIOUS
  <2>2. PICK b : b = closures[New].upvalues
    OBVIOUS
  <2>3. ClosuresMade[New] = [function |-> g, boxes |-> b]
    BY <1>5, <2>1, <2>2
  <2>4. [ClosuresMade[New] EXCEPT !.boxes = Append(ClosuresMade[New].boxes, u)]
          = [function |-> g, boxes |-> Append(b, u)]
    BY <2>3
  <2> QED BY <1>11, <2>1, <2>2, <2>4 DEF more
<1>13. ClosuresMade'[New].boxes = more
  <2>1. DOMAIN ClosuresMade = DOMAIN closures
    BY DEF ClosuresMade
  <2> QED BY <1>3, <1>11, <2>1
<1>14. Progress' = IF Len(ClosuresMade'[New].boxes)
                       = Len(Captures[closures[New].function])
                   THEN "running" ELSE "capturing"
  BY <1>2, <1>7, <1>13 DEF Progress
<1>15. Progress = "capturing" /\ status' # "error"
       /\ UNCHANGED <<CallsInProgress, global, stack>>
  BY <1>2 DEF Progress, CallsInProgress
<1> QED BY <1>5, <1>6, <1>12, <1>14, <1>15
\* A variable that no closure has captured yet moves to a box of its own.
LEMMA NewBox ==
  ASSUME IInv, IInv', frames # <<>>, status' # "error",
         NEW off \in Nat, off + 1 \in 1..Len(stack), NEW k \in 0..Len(open),
         WalkAbove(off, k), ~(k < Len(open) /\ OpenOff(k + 1) = off),
         upvalues' = Append(upvalues, [location |-> Slot(off), closed |-> None]),
         open' = InsertAt(open, k + 1, Len(upvalues) + 1),
         UNCHANGED stack
  PROVE  /\ CapturedAt(off) = {}
         /\ Boxes' = Append(Boxes, stack[off + 1])
         /\ Environment' = [Environment EXCEPT ![off + 1]
                              = [box |-> Len(upvalues) + 1]]
<1>1. PICK U : U = Len(upvalues) + 1
  OBVIOUS
<1> DEFINE new == [location |-> Slot(off), closed |-> None]
<1>2. /\ Len(upvalues) \in Nat /\ DOMAIN upvalues = 1..Len(upvalues)
      /\ open \in Seq(DOMAIN upvalues)
      /\ Len(open) \in Nat /\ DOMAIN open = 1..Len(open)
      /\ Len(stack) \in Nat /\ DOMAIN stack = 1..Len(stack)
      /\ buf # Own
  <2>1. TypeInv
    BY DEF IInv
  <2>2. Len(open) \in Nat /\ DOMAIN open = 1..Len(open)
        /\ open \in Seq(DOMAIN upvalues)
    BY <2>1 DEF TypeInv
  <2>3. Len(upvalues) \in Nat /\ DOMAIN upvalues = 1..Len(upvalues)
    BY <2>1 DEF TypeInv
  <2>4. Len(stack) \in Nat /\ DOMAIN stack = 1..Len(stack)
    BY <2>1 DEF TypeInv
  <2> QED BY <2>1, <2>2, <2>3, <2>4 DEF TypeInv, Own
<1>3. /\ \A u \in DOMAIN upvalues : upvalues'[u] = upvalues[u]
      /\ upvalues'[U] = new
      /\ DOMAIN upvalues' = 1..U
      /\ U \notin DOMAIN upvalues
  BY <1>1, <1>2 DEF IInv, TypeInv
<1>4. new.location.off = off /\ new.location.block = buf
  BY DEF Slot
<1>6. OpenUpvalues' = OpenUpvalues \cup {U}
  <2>1. k + 1 \in 1..(Len(open) + 1) /\ U \in 1..U
    BY <1>1, <1>2
  <2>2. open \in Seq(1..U)
    <3>1. DOMAIN upvalues \subseteq 1..U
      BY <1>1, <1>2
    <3> QED BY <1>2, <3>1, SeqMonotone
  <2>3. HasAlso(open', open, U)
    BY <1>1, <2>1, <2>2, InsertedElements
  <2>4. OpenUpvalues' \subseteq OpenUpvalues \cup {U}
    BY <2>3 DEF HasAlso, OpenUpvalues
  <2>5. OpenUpvalues \cup {U} \subseteq OpenUpvalues'
    BY <2>3 DEF HasAlso, OpenUpvalues
  <2> QED BY <2>4, <2>5
<1>7. OpenUpvalues \subseteq DOMAIN upvalues
  BY OpenOnStack DEF OpenUpvalues
<1>8. \A n \in Nat : CapturedAt(n)' = IF n = off THEN CapturedAt(n) \cup {U}
                                                 ELSE CapturedAt(n)
  BY <1>3, <1>4, <1>6, <1>7 DEF CapturedAt
<1>9. CapturedAt(off) = {}
  <2> SUFFICES ASSUME NEW j \in DOMAIN open, OpenOff(j) = off PROVE FALSE
    BY CapturedAtOpen
  <2>1. j \in 1..Len(open) /\ k \in Nat /\ Len(open) \in Nat
    BY <1>2
  <2>2. ASSUME j \in 1..k PROVE FALSE
    <3>1. OpenOff(j) > off
      BY <2>2 DEF WalkAbove
    <3> QED BY <3>1
  <2>3. j > k /\ k < Len(open) /\ k + 1 \in DOMAIN open
    BY <1>2, <2>1, <2>2
  <2>4. OpenOff(k + 1) \in Nat /\ OpenOff(k + 1) <= off /\ OpenOff(k + 1) # off
    BY <2>3, OpenOnStack DEF WalkAbove
  <2>5. j = k + 1 \/ k + 1 < j
    BY <2>1, <2>3
  <2>6. k + 1 < j => OpenOff(k + 1) > OpenOff(j)
    BY <2>3 DEF IInv, OpenInv, OpenListSorted
  <2> QED BY <2>4, <2>5, <2>6
<1>10. \A n \in Nat : EntryAt(n)' = IF n = off THEN [box |-> U] ELSE EntryAt(n)
  <2>1. EntryAt(off)' = [box |-> U]
    <3>1. U \in CapturedAt(off)'
      BY <1>8
    <3> QED BY <3>1, EntriesNext DEF EntriesRight
  <2>2. ASSUME NEW n \in Nat, n # off PROVE EntryAt(n)' = EntryAt(n)
    BY <1>8, <2>2, EntryKept
  <2> QED BY <2>1, <2>2
<1>11. Environment' = [Environment EXCEPT ![off + 1] = [box |-> U]]
  <2>1. /\ Environment = [i \in 1..Len(stack) |-> EntryAt(i - 1)]
        /\ Environment' = [i \in 1..Len(stack) |-> EntryAt(i - 1)']
    BY <1>2 DEF Environment
  <2>2. ASSUME NEW i \in 1..Len(stack)
        PROVE  EntryAt(i - 1)' = IF i = off + 1 THEN [box |-> U]
                                               ELSE EntryAt(i - 1)
    <3>1. PICK n : n = i - 1
      OBVIOUS
    <3>2. n \in Nat /\ (n = off <=> i = off + 1)
      BY <3>1
    <3>3. EntryAt(n)' = IF n = off THEN [box |-> U] ELSE EntryAt(n)
      BY <1>10, <3>2
    <3>4. CASE i = off + 1
      BY <2>1, <3>1, <3>2, <1>10
    <3>5. CASE i # off + 1
      BY <2>1, <3>1, <3>2, <1>10
    <3> QED BY <3>4, <3>5
  <2> QED BY <2>1, <2>2
<1>12. Boxes' = Append(Boxes, stack[off + 1])
  <2>1. /\ Boxes = [u \in DOMAIN upvalues |-> VariableOf(u)]
        /\ Boxes \in Seq(Known) /\ Len(Boxes) = Len(upvalues)
    BY SharedBoxes
  <2>2. Boxes' = [u \in 1..U |-> VariableOf(u)']
    BY <1>3 DEF Boxes
  <2>3. \A u \in DOMAIN upvalues : VariableOf(u)' = VariableOf(u)
    BY <1>3 DEF VariableOf, Own
  <2>4. VariableOf(U)' = stack[off + 1]
    BY <1>2, <1>3, <1>4 DEF VariableOf, Own
  <2>5. PICK v : v = stack[off + 1]
    OBVIOUS
  <2>6. v \in Known
    BY <2>5, StackAt
  <2>7. PICK B : B = Boxes
    OBVIOUS
  <2>8. /\ B \in Seq(Known) /\ Len(B) = Len(upvalues)
        /\ \A u \in DOMAIN upvalues : B[u] = VariableOf(u)
    BY <2>1, <2>7
  <2>9. Append(B, v) = [u \in 1..U |-> IF u = U THEN v ELSE B[u]]
    <3>1. B \in Seq(Known) /\ Len(B) + 1 = U
      BY <1>1, <2>8
    <3>2. Append(B, v) = [u \in 1..(Len(B) + 1) |-> IF u = Len(B) + 1 THEN v
                                                                   ELSE B[u]]
      BY <2>6, <3>1, AppendAsFunction
    <3> QED BY <3>1, <3>2
  <2>10. \A u \in 1..U : VariableOf(u)' = IF u = U THEN v ELSE B[u]
    <3>1. \A u \in 1..U : u = U \/ u \in DOMAIN upvalues
      BY <1>1, <1>2
    <3> QED BY <1>3, <2>3, <2>4, <2>5, <2>8, <3>1
  <2>11. Boxes' = Append(B, v)
    BY <2>2, <2>9, <2>10
  <2> QED BY <2>5, <2>7, <2>11
<1> QED BY <1>1, <1>9, <1>11, <1>12

LEMMA CaptureRefines ==
  ASSUME IInv, IInv', CaptureLocal \/ CaptureEnclosing
  PROVE  Shared!Capture
<1>1. status = "capturing" /\ frames # <<>> /\ TypeInv
  BY DEF CaptureLocal, CaptureEnclosing, IInv, ControlInv
<1>2. ASSUME NEW u, Captured(u)
      PROVE  /\ ClosuresMade' = [ClosuresMade EXCEPT
                                   ![Shared!New].boxes = Append(@, u)]
             /\ Progress' = IF Len(ClosuresMade'[Shared!New].boxes)
                                 = Len(Captures[Shared!NewFunction])
                            THEN "running" ELSE "capturing"
             /\ Progress = "capturing" /\ status' # "error"
             /\ Shared!NextCapture = NextCapture
             /\ UNCHANGED <<CallsInProgress, global, stack>>
  BY <1>1, <1>2, CapturedShared
<1>3. /\ Shared!Top.base = Base
      /\ Shared!Callable.boxes = Callable.upvalues
  BY <1>1, SharedNames
<1>4. ASSUME UNCHANGED <<open, upvalues, stack>>, status' # "error"
      PROVE  UNCHANGED <<Environment, Boxes>>
  <2>1. /\ UNCHANGED Boxes
        /\ \A off \in Nat : EntryAt(off)' = EntryAt(off)
    BY <1>1, <1>4, AboveShared
  <2>2. \A i \in 1..Len(stack) : i - 1 \in Nat
    BY <1>1 DEF TypeInv
  <2> QED BY <1>4, <2>1, <2>2, EnvironmentSame
<1>5. CASE CaptureEnclosing
  <2>1. PICK u : u = Callable.upvalues[NextCapture.index + 1]
    OBVIOUS
  <2>2. Captured(u) /\ ~NextCapture.is_local /\ UNCHANGED <<open, upvalues>>
    BY <1>5, <2>1 DEF CaptureEnclosing
  <2>3. UNCHANGED <<Environment, Boxes>>
    BY <1>2, <1>4, <2>2
  <2> QED BY <1>2, <1>3, <2>1, <2>2, <2>3 DEF Shared!Capture
<1>6. CASE CaptureLocal
  <2>1. PICK off : off = Base + NextCapture.index
    OBVIOUS
  <2>2. NextCapture.is_local
    BY <1>6 DEF CaptureLocal
  <2>3. off \in Nat /\ off + 1 \in 1..Len(stack)
        /\ Base + NextCapture.index + 1 = off + 1 /\ (off + 1) - 1 = off
    <3>1. /\ NextCapture.index \in 1..(Top.nlocals - 1)
          /\ off \in Nat
      BY <1>1, <2>1, <2>2, CaptureLocalSlot
    <3>2. /\ Base \in Nat /\ Top.nlocals \in Nat /\ Len(stack) \in Nat
          /\ Base + Top.nlocals <= Len(stack)
      BY <1>1, TopNumbers
    <3> QED BY <2>1, <3>1, <3>2
  <2>4. PICK k \in 0..Len(open) :
          /\ WalkAbove(off, k)
          /\ IF k < Len(open) /\ OpenOff(k + 1) = off
             THEN Captured(open[k + 1]) /\ UNCHANGED <<open, upvalues>>
             ELSE /\ upvalues' = Append(upvalues, [location |-> Slot(off),
                                                   closed |-> None])
                  /\ open' = InsertAt(open, k + 1, Len(upvalues) + 1)
                  /\ Captured(Len(upvalues) + 1)
    BY <1>6, <2>1 DEF CaptureLocal
  <2>5. PICK i : i = off + 1
    OBVIOUS
  <2>6. /\ Environment[i] \in Shared!BoxRefs <=> CapturedAt(off) # {}
        /\ \A u \in CapturedAt(off) : Environment[i].box = u
        /\ CapturedAt(off) = {} => Environment[i] = stack[i]
    BY <1>1, <2>3, <2>5, LookIs
  <2>7. CASE k < Len(open) /\ OpenOff(k + 1) = off
    <3>1. PICK u : u = open[k + 1]
      OBVIOUS
    <3>2. Captured(u) /\ UNCHANGED <<open, upvalues>>
      BY <2>4, <2>7, <3>1
    <3>3. k + 1 \in DOMAIN open
      BY <1>1, <2>7 DEF TypeInv
    <3>4. u \in CapturedAt(off)
      BY <2>7, <3>1, <3>3, CapturedAtOpen
    <3>5. Environment[i] \in Shared!BoxRefs /\ Environment[i].box = u
      BY <2>6, <3>4
    <3>6. UNCHANGED <<Environment, Boxes>>
      BY <1>2, <1>4, <3>2
    <3> QED BY <1>2, <1>3, <2>2, <2>3, <2>5, <3>2, <3>5, <3>6 DEF Shared!Capture
  <2>8. CASE ~(k < Len(open) /\ OpenOff(k + 1) = off)
    <3>1. PICK u : u = Len(upvalues) + 1
      OBVIOUS
    <3>2. /\ upvalues' = Append(upvalues, [location |-> Slot(off),
                                           closed |-> None])
          /\ open' = InsertAt(open, k + 1, Len(upvalues) + 1)
          /\ Captured(u)
      BY <2>4, <2>8, <3>1
    <3>3. status' # "error" /\ UNCHANGED stack
      BY <1>2, <3>2
    <3>4. /\ CapturedAt(off) = {}
          /\ Boxes' = Append(Boxes, stack[off + 1])
          /\ Environment' = [Environment EXCEPT ![off + 1]
                               = [box |-> Len(upvalues) + 1]]
      BY <1>1, <2>3, <2>4, <2>8, <3>2, <3>3, NewBox
    <3>5. /\ Environment[i] \notin Shared!BoxRefs
          /\ Boxes' = Append(Boxes, Environment[i])
          /\ Environment' = [Environment EXCEPT ![i] = [box |-> u]]
      BY <2>5, <2>6, <3>1, <3>4
    <3>6. Len(Boxes) + 1 = u
      BY <1>1, <3>1, SharedBoxes
    <3> QED BY <1>2, <1>3, <2>2, <2>3, <2>5, <3>2, <3>5, <3>6
            DEF Shared!Capture, Shared!Box
  <2> QED BY <2>7, <2>8
<1> QED BY <1>5, <1>6

-----------------------------------------------------------------------------
(***************************************************************************)
(* Calls.                                                                  *)
(***************************************************************************)
\* Moving the stack changes no variable.
LEMMA GrowShared ==
  ASSUME IInv, IInv', NEW needed \in Nat, EnsureStackSpace(needed),
         UNCHANGED open, status # "error", status' # "error",
         \A k \in DOMAIN open : stack'[OpenOff(k) + 1] = stack[OpenOff(k) + 1]
  PROVE  /\ UNCHANGED Boxes
         /\ \A off : CapturedAt(off)' = CapturedAt(off)
<1>1. /\ DOMAIN upvalues' = DOMAIN upvalues
      /\ \A u \in DOMAIN upvalues :
           /\ upvalues'[u].location.off = upvalues[u].location.off
           /\ u \in OpenUpvalues => upvalues'[u].location.block = buf'
           /\ u \notin OpenUpvalues => upvalues'[u] = upvalues[u]
  BY MovedUpvalues
<1>2. \A off : CapturedAt(off)' = CapturedAt(off)
  BY <1>1, CapturedKept
<1>3. buf # Own /\ buf' # Own
  BY DEF IInv, TypeInv, Own
<1>4. ASSUME NEW u \in DOMAIN upvalues PROVE VariableOf(u)' = VariableOf(u)
  <2>1. CASE u \in OpenUpvalues
    <3>1. PICK k \in DOMAIN open : open[k] = u
      BY <2>1 DEF OpenUpvalues
    <3>2. upvalues[u].location.block = buf /\ upvalues[u].location.off = OpenOff(k)
      BY <3>1 DEF IInv, OpenInv, OpenPointToVariables, OpenOff
    <3>3. upvalues'[u].location.block = buf' /\ upvalues'[u].location.off = OpenOff(k)
      BY <1>1, <2>1, <3>2
    <3> QED BY <1>3, <3>2, <3>3 DEF VariableOf, Own
  <2>2. CASE u \notin OpenUpvalues
    <3>1. upvalues'[u] = upvalues[u]
      BY <1>1, <2>2
    <3>2. upvalues[u].location.block = Own
      BY <2>2 DEF IInv, OpenInv, NoneLost
    <3> QED BY <3>1, <3>2 DEF VariableOf, Own
  <2> QED BY <2>1, <2>2
<1>5. UNCHANGED Boxes
  BY <1>1, <1>4 DEF Boxes
<1> QED BY <1>2, <1>5

LEMMA CallRefines ==
  ASSUME IInv, IInv', Running, NEW arg_c \in 0..2, Call(arg_c), ~RuntimeError
  PROVE  Shared!Instruction
<1>1. frames # <<>> /\ status = "running" /\ TypeInv
      /\ Height > Top.nlocals + arg_c
  BY RunningHasFrame DEF Call, Running, IInv
<1>2. PICK callee : callee = Peek(arg_c)
  OBVIOUS
<1>3. callee \in Known /\ callee \notin Atoms
  BY <1>1, <1>2, PeekKnown DEF Call, IsClosure
<1>4. callee = [closure |-> callee.closure] /\ callee.closure \in DOMAIN closures
  BY <1>3 DEF Known
<1>5. PICK f : f = closures[callee.closure].function
  OBVIOUS
<1>6. f \in Functions
  BY <1>1, <1>4, <1>5, ClosureAt
<1>7. PICK needed : needed = Len(stack) + MaxSlots[f]
  OBVIOUS
<1>8. PICK off : off = Len(stack) - arg_c - 1
  OBVIOUS
<1>9. PICK slots : slots = Moved(Slot(off), needed)
  OBVIOUS
<1> DEFINE F == MovedFrames(needed)
           new == [closure |-> callee.closure, slots |-> slots,
                   nlocals |-> arg_c + 1]
<1>10. /\ arg_c = Arity[f]
       /\ EnsureStackSpace(needed)
       /\ frames' = Append(F, new)
       /\ UNCHANGED <<stack, open, closures, global, status>>
  BY <1>2, <1>5, <1>7, <1>8, <1>9 DEF Call
<1>11. /\ off \in Nat /\ off + arg_c + 1 = Len(stack) /\ MaxSlots[f] \in Nat
  <2>1. arg_c = Arity[f] /\ Running
    BY <1>1, <1>10 DEF Running
  <2>2. /\ Len(stack) - arg_c - 1 \in Nat
        /\ (Len(stack) - arg_c - 1) + arg_c + 1 = Len(stack)
        /\ MaxSlots[f] \in Nat
    BY <1>1, <1>6, <2>1, CallNumbers
  <2> QED BY <1>8, <2>2
<1>12. needed \in Nat
  <2>1. Len(stack) \in Nat
    BY <1>1 DEF TypeInv
  <2> QED BY <1>7, <1>11, <2>1
<1>13. slots.off = off
  <2>1. Slot(off) \in Pointer /\ Slot(off).off = off
    BY <1>1, <1>11 DEF Slot, Pointer, TypeInv
  <2> QED BY <1>9, <1>10, <1>12, <2>1, MovedPointer
<1>14. PICK L : L = Len(frames)
  OBVIOUS
<1>15. /\ F \in Seq([closure : DOMAIN closures, slots : Pointer, nlocals : Nat])
       /\ Len(F) = L /\ DOMAIN frames = 1..L /\ L \in Nat
       /\ \A i \in DOMAIN frames : /\ F[i].closure = frames[i].closure
                                   /\ F[i].slots.off = frames[i].slots.off
  BY <1>1, <1>10, <1>12, <1>14, FramesMoved, FrameIndices
<1> HIDE DEF F
<1>16. new.closure = callee.closure /\ new.slots.off = off
  BY <1>13
<1> HIDE DEF new
<1>17. /\ DOMAIN frames' = 1..(L + 1)
       /\ frames'[L + 1] = new
       /\ \A i \in 1..L : frames'[i] = F[i]
  BY <1>10, <1>15
<1> DEFINE call == [closure |-> callee.closure, base |-> off]
<1>18. CallsInProgress' = Append(CallsInProgress, call)
  <2>1. /\ CallsInProgress \in Seq([closure : DOMAIN closures, base : Nat])
        /\ Len(CallsInProgress) = L
        /\ \A i \in 1..L : CallsInProgress[i] = [closure |-> frames[i].closure,
                                                 base |-> frames[i].slots.off]
    BY <1>14, <1>15, SharedCalls
  <2>2. call \in [closure : DOMAIN closures, base : Nat]
    BY <1>4, <1>11
  <2>3. Append(CallsInProgress, call)
          = [i \in 1..(L + 1) |-> IF i = L + 1 THEN call ELSE CallsInProgress[i]]
    <3>1. PICK S : S = [closure : DOMAIN closures, base : Nat]
      OBVIOUS
    <3>2. CallsInProgress \in Seq(S) /\ call \in S /\ Len(CallsInProgress) = L
      BY <2>1, <2>2, <3>1
    <3> HIDE DEF call
    <3>3. Append(CallsInProgress, call)
            = [i \in 1..(Len(CallsInProgress) + 1) |->
                 IF i = Len(CallsInProgress) + 1 THEN call ELSE CallsInProgress[i]]
      BY <3>2, AppendAsFunction
    <3> QED BY <3>2, <3>3
  <2>4. CallsInProgress' = [i \in 1..(L + 1) |->
                              [closure |-> frames'[i].closure,
                               base |-> frames'[i].slots.off]]
    BY <1>17 DEF CallsInProgress
  <2>5. ASSUME NEW i \in 1..(L + 1)
        PROVE  [closure |-> frames'[i].closure, base |-> frames'[i].slots.off]
                 = IF i = L + 1 THEN call ELSE CallsInProgress[i]
    <3>1. CASE i = L + 1
      BY <1>16, <1>17, <3>1
    <3>2. CASE i # L + 1
      <4>1. i \in 1..L
        BY <1>15, <3>2
      <4> QED BY <1>15, <1>17, <2>1, <3>2, <4>1
    <3> QED BY <3>1, <3>2
  <2> HIDE DEF call
  <2> QED BY <2>3, <2>4, <2>5
<1>19. UNCHANGED Boxes /\ \A n : CapturedAt(n)' = CapturedAt(n)
  BY <1>1, <1>10, <1>12, GrowShared
<1>20. UNCHANGED Environment
  <2>1. ASSUME NEW i \in 1..Len(stack) PROVE EntryAt(i - 1)' = EntryAt(i - 1)
    <3>1. i - 1 \in Nat
      OBVIOUS
    <3> QED BY <1>10, <1>19, <3>1, EntryKept
  <2> QED BY <1>10, <2>1, EnvironmentSame
<1>21. UNCHANGED <<ClosuresMade, Progress>>
  BY <1>10 DEF ClosuresMade, Progress
<1>22. Len(Environment) = Len(stack) /\ Shared!Height = Height
  BY <1>1, EnvironmentIs, SharedNames DEF EnvironmentRight
<1>23. /\ Shared!Look(Len(Environment) - arg_c) = callee
       /\ arg_c < Shared!Height
       /\ Len(Environment) - arg_c - 1 = off
  <2>1. PICK n : n = Len(stack) - arg_c
    OBVIOUS
  <2>2. n \in 1..Len(stack)
    BY <1>1, <1>11, <2>1 DEF TypeInv
  <2>3. Shared!Look(n) = callee
    BY <1>1, <1>2, <2>1, <2>2, LookIs DEF Peek
  <2>4. arg_c < Height
    BY <1>1, TopNumbers DEF Height
  <2> QED BY <1>8, <1>22, <2>1, <2>3, <2>4
<1>24. Shared!IsClosure(callee)
  BY <1>3 DEF Shared!IsClosure, Shared!Atoms, Atoms
<1>25. ClosuresMade[callee.closure].function = f
  <2>1. ClosuresMade[callee.closure]
          = [function |-> closures[callee.closure].function,
             boxes |-> closures[callee.closure].upvalues]
    BY <1>4, SharedClosures
  <2> QED BY <1>5, <2>1
<1>26. Shared!Call(arg_c)
  BY <1>10, <1>18, <1>19, <1>20, <1>21, <1>23, <1>24, <1>25 DEF Shared!Call
<1> QED BY <1>26 DEF Shared!Instruction

LEMMA InterpretRefines ==
  ASSUME IInv, IInv', Interpret
  PROVE  Shared!Interpret
<1>1. PICK c : c = Len(closures) + 1
  OBVIOUS
<1>2. PICK needed : needed = 1 + MaxSlots[Script]
  OBVIOUS
<1>3. PICK slots : slots = Moved(Slot(0), needed)
  OBVIOUS
<1>4. /\ status = "idle" /\ status' = "running"
      /\ closures' = Append(closures, [function |-> Script, upvalues |-> <<>>])
      /\ stack' = <<ClosureRef(c)>>
      /\ EnsureStackSpace(needed)
      /\ frames' = <<[closure |-> c, slots |-> slots, nlocals |-> 1]>>
      /\ UNCHANGED <<open, global>>
  BY <1>1, <1>2, <1>3 DEF Interpret
<1>5. frames = <<>> /\ TypeInv
  BY <1>4 DEF IInv, ControlInv
<1>6. Script \in Functions /\ needed \in Nat
  BY <1>2, FunctionsAssumption
<1>7. slots.off = 0
  <2>1. Slot(0) \in Pointer /\ Slot(0).off = 0
    BY <1>5 DEF Slot, Pointer, TypeInv
  <2> QED BY <1>3, <1>4, <1>6, <2>1, MovedPointer
<1>8. \A k \in DOMAIN open : FALSE
  BY <1>5 DEF IInv, OpenInv, OpenPointToVariables
<1>9. UNCHANGED Boxes /\ \A n : CapturedAt(n)' = CapturedAt(n)
  BY <1>4, <1>6, <1>8, GrowShared
<1>10. Environment' = <<ClosureRef(c)>>
  <2>1. CapturedAt(0)' = {}
    BY <1>8, <1>9, CapturedAtOpen
  <2>2. EntryAt(0)' = stack'[0 + 1]
    BY <2>1, EntriesNext DEF EntriesRight
  <2>3. EntryAt(0)' = ClosureRef(c) /\ Len(stack') = 1
    BY <1>4, <2>2
  <2>4. /\ Environment' \in Seq(Content') /\ Len(Environment') = 1
        /\ Environment'[1] = EntryAt(1 - 1)'
    <3>1. EnvironmentRight'
      BY EnvironmentNext
    <3>2. /\ Environment' \in Seq(Content') /\ Len(Environment') = 1
          /\ \A i \in 1..1 : Environment'[i] = EntryAt(i - 1)'
      BY <2>3, <3>1 DEF EnvironmentRight
    <3> QED BY <3>2
  <2>5. Environment'[1] = ClosureRef(c)
    BY <2>3, <2>4
  <2> QED BY <2>4, <2>5
<1>11. CallsInProgress' = <<[closure |-> c, base |-> 0]>>
  <2>1. DOMAIN frames' = 1..1 /\ frames'[1].closure = c
        /\ frames'[1].slots.off = 0
    BY <1>4, <1>7
  <2>2. CallsInProgress' = [i \in 1..1 |-> [closure |-> frames'[i].closure,
                                            base |-> frames'[i].slots.off]]
    BY <2>1 DEF CallsInProgress
  <2>3. CallsInProgress' = [i \in 1..1 |-> [closure |-> c, base |-> 0]]
    BY <2>1, <2>2
  <2> QED BY <2>3
<1>12. ClosuresMade' = Append(ClosuresMade, [function |-> Script, boxes |-> <<>>])
       /\ c = Len(ClosuresMade) + 1
  BY <1>1, <1>4, <1>6, ClosureAdded, SharedClosures
<1>13. Progress = "idle" /\ Progress' = "running"
  BY <1>4 DEF Progress
<1> QED BY <1>4, <1>9, <1>10, <1>11, <1>12, <1>13 DEF Shared!Interpret, ClosureRef

-----------------------------------------------------------------------------
(***************************************************************************)
(* BottomInv is an invariant: nothing but the end of the program removes   *)
(* or replaces the first frame.                                            *)
(***************************************************************************)
LEMMA BottomStays ==
  ASSUME IInv, BottomInv,
         frames' # <<>> =>
           /\ frames # <<>>
           /\ frames'[1].closure = frames[1].closure
           /\ frames'[1].slots.off = frames[1].slots.off,
         \A c \in DOMAIN closures : closures'[c].function = closures[c].function
  PROVE  BottomInv'
<1>1. frames # <<>> => 1 \in DOMAIN frames
  BY TopFrame, FrameIndices DEF IInv
<1>2. frames # <<>> => frames[1].closure \in DOMAIN closures
  BY <1>1, FrameNumbers DEF IInv
<1> QED BY <1>2 DEF BottomInv, FunctionOf

LEMMA CallKeepsBottom ==
  ASSUME IInv, BottomInv, NEW arg_c \in 0..2, Call(arg_c), ~RuntimeError
  PROVE  BottomInv'
<1>1. frames # <<>> /\ Running /\ TypeInv /\ Height > Top.nlocals + arg_c
  BY RunningHasFrame DEF Call, IInv
<1>2. PICK callee : callee = Peek(arg_c)
  OBVIOUS
<1>3. PICK f : f = closures[callee.closure].function
  OBVIOUS
<1>4. PICK needed : needed = Len(stack) + MaxSlots[f]
  OBVIOUS
<1>5. f \in Functions
  <2>1. callee \in Known /\ callee \notin Atoms
    BY <1>1, <1>2, PeekKnown DEF Call, IsClosure
  <2>2. callee.closure \in DOMAIN closures
    BY <2>1 DEF Known
  <2> QED BY <1>1, <1>3, <2>2, ClosureAt
<1>6. needed \in Nat
  <2>1. Len(stack) \in Nat
    BY <1>1 DEF TypeInv
  <2>2. MaxSlots[f] \in Nat
    BY <1>5, FunctionsAssumption
  <2> QED BY <1>4, <2>1, <2>2
<1> DEFINE F == MovedFrames(needed)
<1>7. /\ EnsureStackSpace(needed) /\ UNCHANGED closures
      /\ \E new : frames' = Append(F, new)
  BY <1>2, <1>3, <1>4 DEF Call
<1>8. PICK L : L = Len(frames)
  OBVIOUS
<1>9. /\ F \in Seq([closure : DOMAIN closures, slots : Pointer, nlocals : Nat])
      /\ Len(F) = L /\ 1 \in 1..L /\ L \in Nat
      /\ F[1].closure = frames[1].closure
      /\ F[1].slots.off = frames[1].slots.off
  <2>1. 1 \in DOMAIN frames /\ DOMAIN frames = 1..L /\ L \in Nat
    BY <1>1, <1>8, TopFrame, FrameIndices
  <2> QED BY <1>6, <1>7, <1>8, <2>1, FramesMoved
<1> HIDE DEF F
<1>10. frames'[1] = F[1]
  BY <1>7, <1>9
<1> QED BY <1>1, <1>7, <1>9, <1>10, BottomStays

LEMMA NextKeepsBottom == IInv /\ BottomInv /\ [Next]_vars => BottomInv'
<1> SUFFICES ASSUME IInv, BottomInv, [Next]_vars PROVE BottomInv'
  OBVIOUS
<1>1. TypeInv
  BY DEF IInv
<1>2. ASSUME UNCHANGED <<frames, closures>> PROVE BottomInv'
  BY <1>2, BottomStays
<1>3. ASSUME frames' = <<>> PROVE BottomInv'
  BY <1>3 DEF BottomInv
<1>4. ASSUME NEW n \in Nat, frames # <<>>,
             frames' = [frames EXCEPT ![Len(frames)].nlocals = n]
      PROVE  /\ frames'[1].closure = frames[1].closure
             /\ frames'[1].slots.off = frames[1].slots.off
  <2>1. 1 \in DOMAIN frames
    BY <1>1, <1>4, TopFrame, FrameIndices
  <2> QED BY <1>1, <1>4, <2>1, Resized
<1>5. ASSUME NEW f \in Functions,
             closures' = Append(closures, [function |-> f, upvalues |-> <<>>])
      PROVE  \A c \in DOMAIN closures : closures'[c].function = closures[c].function
  BY <1>1, <1>5, NewClosure
<1>6. CASE Interpret
  <2>1. PICK c : c = Len(closures) + 1
    OBVIOUS
  <2>2. PICK needed : needed = 1 + MaxSlots[Script]
    OBVIOUS
  <2>3. PICK slots : slots = Moved(Slot(0), needed)
    OBVIOUS
  <2>4. /\ closures' = Append(closures, [function |-> Script, upvalues |-> <<>>])
        /\ EnsureStackSpace(needed)
        /\ frames' = <<[closure |-> c, slots |-> slots, nlocals |-> 1]>>
    BY <1>6, <2>1, <2>2, <2>3 DEF Interpret
  <2>5. needed \in Nat
    BY <2>2, FunctionsAssumption
  <2>6. slots.off = 0
    <3>1. Slot(0) \in Pointer /\ Slot(0).off = 0
      BY <1>1 DEF Slot, Pointer, TypeInv
    <3> QED BY <2>3, <2>4, <2>5, <3>1, MovedPointer
  <2>7. closures'[c] = [function |-> Script, upvalues |-> <<>>]
    BY <1>1, <2>1, <2>4 DEF TypeInv
  <2>8. frames'[1].closure = c /\ frames'[1].slots.off = 0
    BY <2>4, <2>6
  <2>9. closures'[c].function = Script
    BY <2>7
  <2> QED BY <2>8, <2>9 DEF BottomInv, FunctionOf
<1>7. CASE CaptureLocal \/ CaptureEnclosing
  <2>1. PICK u : Captured(u)
    BY <1>7 DEF CaptureLocal, CaptureEnclosing
  <2>2. status = "capturing" /\ closures # <<>>
    BY <1>7 DEF CaptureLocal, CaptureEnclosing, IInv, CapturingInv
  <2>3. /\ closures' = [closures EXCEPT ![New].upvalues
                          = Append(closures[New].upvalues, u)]
        /\ UNCHANGED frames
    BY <2>1 DEF Captured
  <2>4. \A c \in DOMAIN closures : closures'[c].function = closures[c].function
    <3> TAKE c \in DOMAIN closures
    <3>1. closures[c] \in [function : Functions, upvalues : Seq(DOMAIN upvalues)]
      BY <1>1, ClosureAt
    <3> QED BY <2>3, <3>1
  <2> QED BY <2>3, <2>4, BottomStays
<1>8. CASE UNCHANGED vars
  BY <1>2, <1>8 DEF vars
<1>9. CASE Running /\ Instruction
  <2> USE <1>9
  <2>1. frames # <<>>
    BY RunningHasFrame
  <2>2. CASE RuntimeError \/ Abort
    BY <1>2, <1>3, <2>2 DEF RuntimeError, Abort
  <2>3. CASE ~RuntimeError /\ ~Abort
    <3>1. CASE \/ \E v \in Literals : Constant(v)
               \/ Pop
               \/ \E slot \in Locals : GetLocal(slot) \/ SetLocal(slot)
               \/ \E operands \in 1..2 : Compute(operands)
               \/ GetGlobal \/ DefineGlobal \/ SetGlobal
               \/ \E slot \in DOMAIN Callable.upvalues :
                    GetUpvalue(slot) \/ SetUpvalue(slot)
               \/ \E arg_c \in 0..2 : CallNative(arg_c)
      <4>1. UNCHANGED <<frames, closures>>
        BY <2>3, <3>1 DEF Constant, Pop, GetLocal, SetLocal, Compute, GetGlobal,
             DefineGlobal, SetGlobal, GetUpvalue, SetUpvalue, CallNative,
             MachineUnchanged
      <4> QED BY <1>2, <4>1
    <3>2. CASE Declare
      <4>1. /\ frames' = [frames EXCEPT ![Len(frames)].nlocals = Top.nlocals + 1]
            /\ Top.nlocals + 1 \in Nat /\ UNCHANGED closures
        BY <2>1, <3>2, TopNumbers DEF Declare, Top
      <4> QED BY <1>4, <2>1, <4>1, BottomStays
    <3>3. ASSUME NEW count \in Locals, EndScope(count) \/ PlainLoopExit(count)
          PROVE  BottomInv'
      <4>1. /\ frames' = [frames EXCEPT ![Len(frames)].nlocals
                            = Top.nlocals - count]
            /\ count \in 1..(Top.nlocals - 1 - Arity[Callable.function])
            /\ UNCHANGED closures
        BY <3>3 DEF EndScope, PlainLoopExit, LoopExit, Top
      <4>2. Top.nlocals - count \in Nat
        BY <1>1, <2>1, <4>1, TopNumbers, ScopeNumbers
      <4> QED BY <1>4, <2>1, <4>1, <4>2, BottomStays
    <3>4. ASSUME NEW f \in Functions, MakeClosure(f) \/ DeclareFunction(f)
          PROVE  BottomInv'
      <4>1. closures' = Append(closures, [function |-> f, upvalues |-> <<>>])
        BY <3>4 DEF MakeClosure, DeclareFunction, PushClosure
      <4>2. CASE MakeClosure(f)
        BY <1>5, <2>1, <4>1, <4>2, BottomStays DEF MakeClosure
      <4>3. CASE DeclareFunction(f)
        <5>1. /\ frames' = [frames EXCEPT ![Len(frames)].nlocals = Top.nlocals + 1]
              /\ Top.nlocals + 1 \in Nat
          BY <2>1, <4>3, TopNumbers DEF DeclareFunction, Top
        <5> QED BY <1>4, <1>5, <2>1, <4>1, <5>1, BottomStays
      <4> QED BY <3>4, <4>2, <4>3
    <3>5. CASE \E arg_c \in 0..2 : Call(arg_c) \/ CallOther(arg_c)
      BY <2>3, <3>5, CallKeepsBottom DEF CallOther
    <3>6. CASE Return
      <4>1. frames' = SubSeq(frames, 1, Len(frames) - 1) /\ UNCHANGED closures
        BY <3>6 DEF Return
      <4>2. frames' # <<>> => frames'[1] = frames[1]
        <5>1. PICK L : L = Len(frames)
          OBVIOUS
        <5>2. L \in Nat /\ frames \in
                Seq([closure : DOMAIN closures, slots : Pointer, nlocals : Nat])
          BY <1>1, <5>1, FrameIndices DEF TypeInv
        <5>3. frames' = SubSeq(frames, 1, L - 1)
          BY <4>1, <5>1
        <5>4. L >= 1
          BY <2>1, <5>1, TopFrame
        <5>5. CASE L = 1
          BY <5>2, <5>3, <5>5
        <5>6. CASE L # 1
          BY <5>1, <5>2, <5>3, <5>4, <5>6
        <5> QED BY <5>5, <5>6
      <4> QED BY <2>1, <4>1, <4>2, BottomStays
    <3> QED BY <3>1, <3>2, <3>3, <3>4, <3>5, <3>6 DEF Instruction
  <2> QED BY <2>2, <2>3
<1> QED BY <1>6, <1>7, <1>8, <1>9 DEF Next

LEMMA BottomInvariance == Spec => []BottomInv
<1>1. Init => BottomInv
  BY DEF Init, BottomInv
<1> QED BY <1>1, NextKeepsBottom, Invariance, PTL DEF Spec

-----------------------------------------------------------------------------
(***************************************************************************)
(* The refinement.                                                         *)
(***************************************************************************)
LEMMA InitRefines == Init => Shared!Init
<1> SUFFICES ASSUME Init PROVE Shared!Init
  OBVIOUS
<1>1. /\ stack = <<>> /\ frames = <<>> /\ upvalues = <<>> /\ closures = <<>>
      /\ global = None /\ status = "idle"
  BY DEF Init
<1>2. Environment = <<>> /\ CallsInProgress = <<>>
  BY <1>1 DEF Environment, CallsInProgress
<1>3. Boxes = <<>> /\ ClosuresMade = <<>> /\ Progress = "idle"
  BY <1>1 DEF Boxes, ClosuresMade, Progress
<1> QED BY <1>1, <1>2, <1>3 DEF Shared!Init

LEMMA InstructionRefines ==
  ASSUME IInv, IInv', BottomInv, Running, Instruction
  PROVE  Shared!Instruction \/ UNCHANGED Shared!vars
<1>1. CASE RuntimeError
  BY <1>1, ErrorRefines
<1>2. CASE Declare \/ Abort
  BY <1>2, UnseenSteps
<1>3. CASE ~RuntimeError /\ ~Declare /\ ~Abort
  <2>1. CASE \/ \E v \in Literals : Constant(v)
             \/ \E slot \in Locals : GetLocal(slot)
             \/ GetGlobal
             \/ \E slot \in DOMAIN Callable.upvalues : GetUpvalue(slot)
    BY <1>3, <2>1, PushesRefine
  <2>2. CASE \/ Pop
             \/ \E operands \in 1..2 : Compute(operands)
             \/ DefineGlobal \/ SetGlobal
             \/ \E arg_c \in 0..2 : CallNative(arg_c)
    BY <1>3, <2>2, PopsRefine
  <2>3. CASE \E slot \in Locals : SetLocal(slot)
    BY <2>3, SetLocalRefines
  <2>4. CASE \E slot \in DOMAIN Callable.upvalues : SetUpvalue(slot)
    BY <2>4, SetUpvalueRefines
  <2>5. CASE \E f \in Functions \ {Script} : MakeClosure(f) \/ DeclareFunction(f)
    BY <2>5, MakeClosureRefines
  <2>6. CASE \E count \in Locals : EndScope(count)
    BY <2>6, EndScopeRefines
  <2>7. CASE \E count \in Locals : PlainLoopExit(count)
    BY <2>7, LoopExitRefines
  <2>8. CASE \E arg_c \in 0..2 : Call(arg_c) \/ CallOther(arg_c)
    BY <1>3, <2>8, CallRefines DEF CallOther
  <2>9. CASE Return
    BY <2>9, ReturnRefines
  <2> QED BY <1>3, <2>1, <2>2, <2>3, <2>4, <2>5, <2>6, <2>7, <2>8, <2>9
          DEF Instruction
<1> QED BY <1>1, <1>2, <1>3

LEMMA NextRefines ==
  IInv /\ IInv' /\ BottomInv /\ [Next]_vars => [Shared!Next]_(Shared!vars)
<1> SUFFICES ASSUME IInv, IInv', BottomInv, [Next]_vars
             PROVE  Shared!Next \/ UNCHANGED Shared!vars
  OBVIOUS
<1>1. CASE Interpret
  BY <1>1, InterpretRefines DEF Shared!Next
<1>2. CASE CaptureLocal \/ CaptureEnclosing
  BY <1>2, CaptureRefines DEF Shared!Next
<1>3. CASE Running /\ Instruction
  BY <1>3, InstructionRefines, SharedRunning DEF Shared!Next
<1>4. CASE UNCHANGED vars
  <2>1. UNCHANGED <<stack, frames, open, upvalues, closures, global, status>>
    BY <1>4 DEF vars
  <2>2. \A n : EntryAt(n)' = EntryAt(n)
    BY <2>1 DEF EntryAt, OpenOff, OpenUpvalues
  <2>3. UNCHANGED <<Environment, CallsInProgress, Boxes, ClosuresMade, Progress>>
    BY <2>1, <2>2 DEF Environment, CallsInProgress, Boxes, ClosuresMade,
                      Progress, VariableOf
  <2> QED BY <2>1, <2>3 DEF Shared!vars
<1> QED BY <1>1, <1>2, <1>3, <1>4 DEF Next

\* A program that runs on the machine, for any functions, any depth of calls
\* and any growth of the stack, sees only what SharedVariables allows: a
\* closure and the function it was made in share the variables it captured
\* (do_closure, capture_upvalue, close_upvalues, ensure_stack_space, call).
THEOREM MachineSharesVariables == Spec => ImplementsSharedVariables
<1>1. Spec => [](IInv /\ BottomInv)
  BY Invariance, BottomInvariance, PTL
<1> QED BY <1>1, InitRefines, NextRefines, PTL
        DEF Spec, ImplementsSharedVariables, Shared!Spec
=============================================================================
