-------------------------- MODULE SharedVariables --------------------------
(***************************************************************************)
(* What closures promise to the program: a closure and the function it was *)
(* made in share the variables it captures, for as long as the closure     *)
(* exists, and nobody else has them.                                       *)
(*                                                                         *)
(* An environment entry is a value or, once a closure has captured the     *)
(* variable, a reference to the box the variable lives in from then on.    *)
(* There are no pointers, no list of open upvalues and no moving stack;    *)
(* leaving a scope just forgets its entries.                               *)
(***************************************************************************)
EXTENDS Integers, Sequences

CONSTANTS
  Data,       \* the values a program computes with, other than functions
  Natives,    \* the functions it is given
  None,       \* what an undefined global holds
  Functions,  \* the functions of the program
  Script,     \* the one that stands for the top-level code
  Arity,      \* how many parameters a function has
  Captures    \* the variables a function captures, in order

VARIABLES
  env,        \* the entries of all calls in progress
  calls,      \* the calls in progress: their closure and first entry
  boxes,      \* the captured variables
  closures,   \* the closures made so far
  global,     \* the value of a global variable
  status      \* "idle", "running", "capturing" or "error"

vars == <<env, calls, boxes, closures, global, status>>

Atoms == Data \cup Natives \cup {None}
IsClosure(v) == v \notin Atoms
Box(b) == [box |-> b]
BoxRefs == {Box(b) : b \in DOMAIN boxes}

Top == calls[Len(calls)]
Callable == closures[Top.closure]
Height == Len(env) - Top.base

\* The value of the entry at position i.
Look(i) == IF env[i] \in BoxRefs THEN boxes[env[i].box] ELSE env[i]
Result == Look(Len(env))

Forget(n) == SubSeq(env, 1, Len(env) - n)

Init ==
  /\ env = <<>>
  /\ calls = <<>>
  /\ boxes = <<>>
  /\ closures = <<>>
  /\ global = None
  /\ status = "idle"

Running == status = "running"

\* Only the entries change.
Entries == UNCHANGED <<calls, boxes, closures, global, status>>

Push(v) == env' = Append(env, v) /\ Entries

Drop(n) == n <= Height /\ env' = Forget(n) /\ Entries

GetLocal(slot) == Push(Look(Top.base + slot + 1))

\* Assigning to the entry at position i: to its box if it has one.
SetLocal(slot) ==
  LET i == Top.base + slot + 1
  IN  /\ IF env[i] \in BoxRefs
         THEN boxes' = [boxes EXCEPT ![env[i].box] = Result] /\ UNCHANGED env
         ELSE env' = [env EXCEPT ![i] = Result] /\ UNCHANGED boxes
      /\ UNCHANGED <<calls, closures, global, status>>

GetCaptured(slot) == Push(boxes[Callable.boxes[slot]])

SetCaptured(slot) ==
  /\ boxes' = [boxes EXCEPT ![Callable.boxes[slot]] = Result]
  /\ UNCHANGED <<env, calls, closures, global, status>>

Compute(operands, v) ==
  /\ operands <= Height
  /\ env' = Append(Forget(operands), v)
  /\ Entries

GetGlobal == global # None /\ Push(global)

DefineGlobal ==
  /\ global' = Result
  /\ env' = Forget(1)
  /\ UNCHANGED <<calls, boxes, closures, status>>

SetGlobal ==
  /\ global # None
  /\ global' = Result
  /\ UNCHANGED <<env, calls, boxes, closures, status>>

\* A closure exists before its variables are captured: it may be one of them.
MakeClosure(f) ==
  /\ closures' = Append(closures, [function |-> f, boxes |-> <<>>])
  /\ env' = Append(env, [closure |-> Len(closures) + 1])
  /\ status' = IF Captures[f] = <<>> THEN "running" ELSE "capturing"
  /\ UNCHANGED <<calls, boxes, global>>

New == Len(closures)
NewFunction == closures[New].function
NextCapture == Captures[NewFunction][Len(closures[New].boxes) + 1]

Capture ==
  LET i == Top.base + NextCapture.index + 1
      Has(b) == closures' = [closures EXCEPT ![New].boxes = Append(@, b)]
  IN  /\ status = "capturing"
      /\ IF ~NextCapture.is_local
         THEN /\ Has(Callable.boxes[NextCapture.index + 1])
              /\ UNCHANGED <<env, boxes>>
         ELSE IF env[i] \in BoxRefs
         THEN Has(env[i].box) /\ UNCHANGED <<env, boxes>>
         ELSE /\ boxes' = Append(boxes, env[i])
              /\ env' = [env EXCEPT ![i] = Box(Len(boxes) + 1)]
              /\ Has(Len(boxes) + 1)
      /\ status' = IF Len(closures'[New].boxes) = Len(Captures[NewFunction])
                   THEN "running" ELSE "capturing"
      /\ UNCHANGED <<calls, global>>

\* The variables of a scope are forgotten; its value is not.
EndScope(count) ==
  /\ count < Height
  /\ env' = Append(Forget(count + 1), Result)
  /\ Entries

Call(arg_c) ==
  LET callee == Look(Len(env) - arg_c)
  IN  /\ arg_c < Height
      /\ IsClosure(callee)
      /\ Arity[closures[callee.closure].function] = arg_c
      /\ calls' = Append(calls, [closure |-> callee.closure,
                                 base |-> Len(env) - arg_c - 1])
      /\ UNCHANGED <<env, boxes, closures, global, status>>

Return ==
  /\ calls' = SubSeq(calls, 1, Len(calls) - 1)
  /\ IF Len(calls) = 1
     THEN env' = <<>> /\ status' = "idle"
     ELSE /\ env' = Append(SubSeq(env, 1, Top.base), Result)
          /\ UNCHANGED status
  /\ UNCHANGED <<boxes, closures, global>>

Interpret ==
  /\ status = "idle"
  /\ closures' = Append(closures, [function |-> Script, boxes |-> <<>>])
  /\ env' = <<[closure |-> Len(closures) + 1]>>
  /\ calls' = <<[closure |-> Len(closures) + 1, base |-> 0]>>
  /\ status' = "running"
  /\ UNCHANGED <<boxes, global>>

\* The program is over, and its variables with it.
RuntimeError ==
  /\ env' = <<>>
  /\ calls' = <<>>
  /\ boxes' = <<>>
  /\ status' = "error"
  /\ UNCHANGED <<closures, global>>

Instruction ==
  \/ \E v \in Data \cup Natives : Push(v)
  \/ \E n \in 1..Height : Drop(n)
  \/ \E slot \in 1..(Height - 1) : GetLocal(slot) \/ SetLocal(slot)
  \/ \E slot \in DOMAIN Callable.boxes : GetCaptured(slot) \/ SetCaptured(slot)
  \/ \E operands \in 1..3, v \in Data : Compute(operands, v)
  \/ GetGlobal
  \/ DefineGlobal
  \/ SetGlobal
  \/ \E f \in Functions : MakeClosure(f)
  \/ \E count \in 1..Height : EndScope(count)
  \/ \E arg_c \in 0..2 : Call(arg_c)
  \/ Return
  \/ RuntimeError

Next == Interpret \/ (Running /\ Instruction) \/ Capture

Spec == Init /\ [][Next]_vars
=============================================================================
