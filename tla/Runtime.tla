------------------------------ MODULE Runtime ------------------------------
(***************************************************************************)
(* What the compiler and the machine of tx hold while they allocate.       *)
(*                                                                         *)
(* Any allocation may run the collector, which frees what it cannot reach  *)
(* from the stack, the frames, the open upvalues, the globals and the      *)
(* functions being compiled.  An object that is only in a local variable   *)
(* of the C++ code is not among these, so each step of the code has to put *)
(* it there before it allocates again.                                     *)
(*                                                                         *)
(* An action goes from one allocation to the next.  What the code has left *)
(* to do after an allocation is todo; between any two actions the          *)
(* collector may run.  A collection is one step here: Collector shows what *)
(* it frees.                                                               *)
(***************************************************************************)
EXTENDS Heap, Sequences, Integers

CONSTANTS
  Literal,       \* the texts of the literals and messages of the program
  Allocator(_),  \* of the addresses that are free, those that may be next
  MaxStack, MaxFrames, MaxCompilers, MaxGlobals, MaxLines  \* bounds

ASSUME RuntimeAssumption ==
  /\ Literal \subseteq Text /\ MaxLines \in Nat
  /\ \A A \in SUBSET Address : Allocator(A) \subseteq A

VARIABLES
  heap,
  strings,     \* VM::strings
  stack,       \* VM::stack
  frames,      \* VM::frames: the closure, and the stack slot it is called in
  open,        \* VM::open_upvalues: the upvalue of each captured slot
  values,      \* VM::global_values
  names,       \* VM::global_indices: from a name (a string) to an index
  compilers,   \* the functions of Parser::current_compiler and those around it
  tokens,      \* the values of Parser::previous and Parser::current
  todo,        \* what comes after the next allocation, and the object it is for
  lines        \* sources compiled so far

machine == <<stack, frames, open>>
globals == <<values, names>>
parser  == <<compilers, tokens>>
vars == <<heap, strings, stack, frames, open, values, names, compilers, tokens,
          todo, lines>>

Last(s)  == s[Len(s)]
Front(s) == SubSeq(s, 1, Len(s) - 1)
Elements(s) == {s[i] : i \in DOMAIN s}
Image(f) == {f[x] : x \in DOMAIN f}

Nothing == [do |-> "nothing", obj |-> Null, user |-> "nobody"]
Then(do, obj) == [do |-> do, obj |-> obj, user |-> "nobody"]
ThenFor(do, obj, user) == [do |-> do, obj |-> obj, user |-> user]

User == {"nobody", "scanner", "begin_compiler", "declare", "resolve",
         "define_native", "native"}

Free == Allocator(Address \ DOMAIN heap)

\* Mutants: mark_roots() without the tokens; without the open upvalues.
RootsButTokens ==
  (  Elements(stack) \cup {f.closure : f \in Elements(frames)} \cup Image(open)
     \cup Elements(values) \cup DOMAIN names \cup Elements(compilers)  ) \ {Null}

RootsButOpen ==
  (  Elements(stack) \cup {f.closure : f \in Elements(frames)}
     \cup Elements(values) \cup DOMAIN names
     \cup Elements(tokens) \cup Elements(compilers)  ) \ {Null}

(* mark_roots() *)
Roots ==
  (  Elements(stack) \cup {f.closure : f \in Elements(frames)} \cup Image(open)
     \cup Elements(values) \cup DOMAIN names
     \cup Elements(tokens) \cup Elements(compilers)  ) \ {Null}

Idle      == compilers = <<>> /\ frames = <<>> /\ todo = Nothing
Compiling == compilers # <<>> /\ todo = Nothing
Executing == frames # <<>> /\ todo = Nothing

Init ==
  /\ heap = Empty /\ strings = {}
  /\ stack = <<>> /\ frames = <<>> /\ open = Empty
  /\ values = <<>> /\ names = Empty
  /\ compilers = <<>> /\ tokens = <<Null, Null>>
  /\ todo = Nothing
  /\ lines = 0

(***************************************************************************)
(* collect_garbage()                                                       *)
(***************************************************************************)
Collect ==
  LET live == Traced(heap, Roots)
  IN  /\ ~ DOMAIN heap \subseteq live
      /\ heap' = Part(heap, live)
      /\ strings' = strings \cap live
      /\ UNCHANGED <<machine, globals, parser, todo, lines>>

----------------------------------------------------------------------------
(* make_string() and its callers. *)

AlwaysNew(s) == FALSE   \* a mutant: a global is never found

IsGlobal(s) == s \in DOMAIN names

(***************************************************************************)
(* What a caller does with the string, up to its next allocation.  stk is  *)
(* the stack make_string() leaves behind.                                  *)
(***************************************************************************)
UseString(s, user, stk) ==
  /\ UNCHANGED <<frames, open, globals, compilers, lines>>
  /\ \/ /\ user = "scanner"          \* advance(): current = scan_token()
        /\ tokens' = <<tokens[1], s>>
        /\ stack' = stk /\ todo' = Nothing
        /\ UNCHANGED heap
     \/ /\ user = "begin_compiler"   \* function->name = ...
        /\ heap' = [heap EXCEPT ![Last(compilers)].name = s]
        /\ stack' = stk /\ todo' = Nothing
        /\ UNCHANGED tokens
     \/ /\ user = "declare"          \* a known global, or add_global()
        /\ IF IsGlobal(s)
           THEN stack' = stk /\ todo' = Nothing
           ELSE stack' = Append(stk, s) /\ todo' = ThenFor("value", s, user)
        /\ UNCHANGED <<heap, tokens>>
     \/ /\ user = "resolve"          \* only looked up
        /\ stack' = stk /\ todo' = Nothing
        /\ UNCHANGED <<heap, tokens>>
     \/ /\ user = "define_native"
        /\ stack' = Append(stk, s) /\ todo' = Then("native", s)
        /\ UNCHANGED <<heap, tokens>>
     \/ /\ user = "native"           \* inout.return_value() = ...
        /\ stack' = [stk EXCEPT ![Len(stk)] = s]
        /\ todo' = Nothing
        /\ UNCHANGED <<heap, tokens>>

Interned(t) == {s \in strings : heap[s].text = t}

FindString(texts, user) ==
  /\ \E t \in texts : \E s \in Interned(t) : UseString(s, user, stack)
  /\ UNCHANGED strings

\* Mutant: a string is made without a look at the table.
NewStringAnew(texts, user) ==
  /\ \E t \in texts, a \in Free :
       /\ heap' = Place(heap, a, [type |-> "string", text |-> t])
       /\ stack' = Append(stack, a)
       /\ todo' = ThenFor("intern", a, user)
  /\ UNCHANGED <<strings, frames, open, globals, parser, lines>>

NewString(texts, user) ==
  /\ \E t \in texts, a \in Free :
       /\ Interned(t) = {}
       /\ heap' = Place(heap, a, [type |-> "string", text |-> t])
       /\ stack' = Append(stack, a)
       /\ todo' = ThenFor("intern", a, user)
  /\ UNCHANGED <<strings, frames, open, globals, parser, lines>>

MakeStringOf(texts, user) == FindString(texts, user) \/ NewString(texts, user)

MakeString(user) == MakeStringOf(Text, user)

(* strings.add() has allocated what it needs. *)
InternString ==
  /\ todo.do = "intern"
  /\ strings' = strings \cup {todo.obj}
  /\ UseString(todo.obj, todo.user, Front(stack))

----------------------------------------------------------------------------
(* VM::VM() defines natives of different names; define_native() ends like  *)
(* a declaration.                                                          *)

DefineNative ==
  /\ Idle /\ lines = 0 /\ Len(values) < MaxGlobals
  /\ MakeStringOf(Text \ {heap[n].text : n \in DOMAIN names}, "define_native")

AllocateNative ==
  /\ todo.do = "native"
  /\ \E a \in Free :
       /\ heap' = Place(heap, a, [type |-> "native"])
       /\ stack' = Append(stack, a)
  /\ todo' = ThenFor("value", todo.obj, "define_native")
  /\ UNCHANGED <<strings, frames, open, globals, parser, lines>>

(* VM::add_global() *)
AddValue ==
  /\ todo.do = "value"
  /\ values' = Append(values, IF todo.user = "define_native" THEN stack[2] ELSE Null)
  /\ todo' = ThenFor("index", todo.obj, todo.user)
  /\ UNCHANGED <<heap, strings, machine, names, parser, lines>>

\* Mutant: the index is that of the next global.
AddNextIndex ==
  /\ todo.do = "index"
  /\ names' = Place(names, todo.obj, Len(values) + 1)
  /\ stack' = IF todo.user = "define_native" THEN <<>> ELSE Front(stack)
  /\ todo' = Nothing
  /\ UNCHANGED <<heap, strings, frames, open, values, parser, lines>>

AddIndex ==
  /\ todo.do = "index"
  /\ names' = Place(names, todo.obj, Len(values))
  /\ stack' = IF todo.user = "define_native" THEN <<>> ELSE Front(stack)
  /\ todo' = Nothing
  /\ UNCHANGED <<heap, strings, frames, open, values, parser, lines>>

----------------------------------------------------------------------------
(* The compiler. *)

Function == [type |-> "function", name |-> Null, constants |-> {}]

BeginScript ==
  /\ Idle /\ lines < MaxLines
  /\ \E a \in Free : heap' = Place(heap, a, Function) /\ compilers' = <<a>>
  /\ lines' = lines + 1
  /\ UNCHANGED <<strings, machine, globals, tokens, todo>>

(* Parser::advance() lets go of the token before the last, then scans. *)
Advance ==
  /\ Compiling
  /\ tokens' = <<tokens[2], tokens[2]>>
  /\ todo' = Then("scan", Null)
  /\ UNCHANGED <<heap, strings, machine, globals, compilers, lines>>

ScanOther ==
  /\ todo.do = "scan"
  /\ tokens' = <<tokens[1], Null>>
  /\ todo' = Nothing
  /\ UNCHANGED <<heap, strings, machine, globals, compilers, lines>>

(* A literal, or the message of an error *)
ScanString == todo.do = "scan" /\ MakeStringOf(Literal, "scanner")

BeginFunction ==
  /\ Compiling /\ Len(compilers) < MaxCompilers
  /\ \E a \in Free :
       /\ heap' = Place(heap, a, Function)
       /\ compilers' = Append(compilers, a)
  /\ todo' = Then("name", Null)
  /\ UNCHANGED <<strings, machine, globals, tokens, lines>>

NameFunction == todo.do = "name" /\ MakeString("begin_compiler")

DeclareGlobal ==
  /\ Compiling /\ Len(compilers) = 1 /\ Len(values) < MaxGlobals
  /\ MakeString("declare")

ResolveGlobal == Compiling /\ MakeString("resolve")

\* Mutant: the value is not pushed.
AddUnrooted(v, f) ==
  /\ v \notin heap[f].constants
  /\ todo' = Then("constant", v)
  /\ UNCHANGED stack

(***************************************************************************)
(* Parser::add_constant() pushes a value that is not a constant yet, makes *)
(* it one, and notes its index.                                            *)
(***************************************************************************)
AddConstant(v, f) ==
  /\ v \notin heap[f].constants
  /\ stack' = Append(stack, v)
  /\ todo' = Then("constant", v)

EmitConstant ==
  /\ Compiling /\ tokens[1] # Null
  /\ AddConstant(tokens[1], Last(compilers))
  /\ UNCHANGED <<heap, strings, frames, open, globals, parser, lines>>

AppendConstant ==
  /\ todo.do = "constant"
  /\ heap' = [heap EXCEPT ![Last(compilers)].constants = @ \cup {todo.obj}]
  /\ todo' = Then("constant_index", todo.obj)
  /\ UNCHANGED <<strings, machine, globals, parser, lines>>

\* Mutant: it is not popped.
IndexPushed ==
  /\ todo.do = "constant_index"
  /\ todo' = Nothing
  /\ UNCHANGED <<heap, strings, machine, globals, parser, lines>>

IndexConstant ==
  /\ todo.do = "constant_index"
  /\ stack' = Front(stack)
  /\ todo' = Nothing
  /\ UNCHANGED <<heap, strings, frames, open, globals, parser, lines>>

(* end_compiler(), then emit_closure() in the function around it *)
EndFunction ==
  /\ Compiling /\ Len(compilers) > 1
  /\ compilers' = Front(compilers)
  /\ AddConstant(Last(compilers), compilers[Len(compilers) - 1])
  /\ UNCHANGED <<heap, strings, frames, open, globals, tokens, lines>>

(* The parser is gone, with its tokens.  interpret() runs the script. *)
EndScript ==
  /\ Compiling /\ Len(compilers) = 1
  /\ compilers' = <<>>
  /\ tokens' = <<Null, Null>>
  /\ \/ UNCHANGED <<stack, todo>>   \* there were errors
     \/ /\ stack' = Append(stack, compilers[1])
        /\ todo' = Then("script", compilers[1])
  /\ UNCHANGED <<heap, strings, frames, open, globals, lines>>

----------------------------------------------------------------------------
(* The machine. *)

Closure(f) == [type |-> "closure", function |-> f, upvalues |-> {}]

MakeScriptClosure ==
  /\ todo.do = "script"
  /\ \E a \in Free :
       /\ heap' = Place(heap, a, Closure(todo.obj))
       /\ stack' = <<a>>
       /\ todo' = Then("frame", a)
  /\ UNCHANGED <<strings, frames, open, globals, parser, lines>>

(* VM::call(), once the stack has grown *)
PushFrame ==
  /\ todo.do = "frame"
  /\ frames' = Append(frames, [closure |-> todo.obj, slot |-> Len(stack)])
  /\ todo' = Nothing
  /\ UNCHANGED <<heap, strings, stack, open, globals, parser, lines>>

Current   == heap[Last(frames).closure]
Constants == heap[Current.function].constants
Top       == stack[Len(stack)]

(* The slots of the current function after its closure, which has no name *)
Slots == Last(frames).slot + 1 .. Len(stack)

(* An instruction that only moves values. *)
Instruction ==
  Executing /\ UNCHANGED <<strings, frames, names, parser, todo, lines>>

Push(v) == Len(stack) < MaxStack /\ stack' = Append(stack, v)

(* The constant instructions, and those whose result is no object *)
PushConstant ==
  /\ Instruction
  /\ \E v \in {c \in Constants : heap[c].type = "string"} \cup {Null} : Push(v)
  /\ UNCHANGED <<heap, open, values>>

HasTemporary == Len(stack) > Last(frames).slot /\ Len(stack) \notin DOMAIN open

Pop ==
  /\ Instruction /\ HasTemporary
  /\ stack' = Front(stack)
  /\ UNCHANGED <<heap, open, values>>

GetLocal ==
  /\ Instruction
  /\ \E i \in Slots : Push(stack[i])
  /\ UNCHANGED <<heap, open, values>>

SetLocal ==
  /\ Instruction
  /\ \E i \in Slots : stack' = [stack EXCEPT ![i] = Top]
  /\ UNCHANGED <<heap, open, values>>

GetGlobal ==
  /\ Instruction
  /\ \E i \in DOMAIN values : Push(values[i])
  /\ UNCHANGED <<heap, open, values>>

DefineGlobal ==
  /\ Instruction /\ HasTemporary
  /\ \E i \in DOMAIN values : values' = [values EXCEPT ![i] = Top]
  /\ stack' = Front(stack)
  /\ UNCHANGED <<heap, open>>

SetGlobal ==
  /\ Instruction
  /\ \E i \in DOMAIN values : values' = [values EXCEPT ![i] = Top]
  /\ UNCHANGED <<heap, stack, open>>

(* Where the upvalue's location points to *)
SlotsOf(u) == {i \in DOMAIN open : open[i] = u}

GetUpvalue ==
  /\ Instruction
  /\ \E u \in Current.upvalues :
       IF SlotsOf(u) # {} THEN \E i \in SlotsOf(u) : Push(stack[i])
                          ELSE Push(heap[u].closed)
  /\ UNCHANGED <<heap, open, values>>

SetUpvalue ==
  /\ Instruction
  /\ \E u \in Current.upvalues :
       IF SlotsOf(u) # {}
       THEN /\ \E i \in SlotsOf(u) : stack' = [stack EXCEPT ![i] = Top]
            /\ UNCHANGED heap
       ELSE /\ heap' = [heap EXCEPT ![u].closed = Top]
            /\ UNCHANGED stack
  /\ UNCHANGED <<open, values>>

\* Mutant: the closure is to be pushed when it is complete.
MakeUnpushed ==
  /\ Executing /\ Len(stack) < MaxStack
  /\ \E f \in {c \in Constants : heap[c].type = "function"}, a \in Free :
       /\ heap' = Place(heap, a, Closure(f))
       /\ todo' = Then("capture", a)
  /\ UNCHANGED <<strings, machine, globals, parser, lines>>

(***************************************************************************)
(* do_closure() pushes the closure, then fills in its upvalues.            *)
(***************************************************************************)
MakeClosure ==
  /\ Executing /\ Len(stack) < MaxStack
  /\ \E f \in {c \in Constants : heap[c].type = "function"}, a \in Free :
       /\ heap' = Place(heap, a, Closure(f))
       /\ stack' = Append(stack, a)
       /\ todo' = Then("capture", a)
  /\ UNCHANGED <<strings, frames, open, globals, parser, lines>>

AddUpvalue(h, u) == [h EXCEPT ![todo.obj].upvalues = @ \cup {u}]

(* capture_upvalue() of a slot that has an upvalue already, and of another *)
CaptureOpen ==
  /\ todo.do = "capture"
  /\ \E i \in Slots \cap DOMAIN open : heap' = AddUpvalue(heap, open[i])
  /\ UNCHANGED <<strings, machine, globals, parser, todo, lines>>

CaptureSlot ==
  /\ todo.do = "capture"
  /\ \E i \in Slots \ DOMAIN open, a \in Free :
       /\ heap' = AddUpvalue(Place(heap, a, [type |-> "upvalue", closed |-> Null]), a)
       /\ open' = Place(open, i, a)
  /\ UNCHANGED <<strings, stack, frames, globals, parser, todo, lines>>

CaptureEnclosing ==
  /\ todo.do = "capture"
  /\ \E u \in Current.upvalues : heap' = AddUpvalue(heap, u)
  /\ UNCHANGED <<strings, machine, globals, parser, todo, lines>>

EndClosure ==
  /\ todo.do = "capture"
  /\ todo' = Nothing
  /\ UNCHANGED <<heap, strings, machine, globals, parser, lines>>

(* close_upvalues() *)
CloseUpvalues(from) ==
  LET closing == {i \in DOMAIN open : i >= from}
  IN  /\ heap' = [a \in DOMAIN heap |->
                    IF \E i \in closing : open[i] = a
                    THEN [heap[a] EXCEPT !.closed =
                            stack[CHOOSE i \in closing : open[i] = a]]
                    ELSE heap[a]]
      /\ open' = [i \in DOMAIN open \ closing |-> open[i]]

(* The result stays, the locals of the scope go. *)
EndScope ==
  /\ Instruction /\ HasTemporary
  /\ \E i \in Slots \ {Len(stack)} :
       /\ CloseUpvalues(i)
       /\ stack' = Append(SubSeq(stack, 1, i - 1), Top)
  /\ UNCHANGED values

(* CALL without arguments *)
Call ==
  /\ Executing /\ Len(frames) < MaxFrames
  /\ HasTemporary /\ IsA(heap, Top, "closure")
  /\ todo' = Then("frame", Top)
  /\ UNCHANGED <<heap, strings, machine, globals, parser, lines>>

(* A native that makes a string: core_version_string_native() *)
CallNative ==
  /\ Executing /\ Len(stack) < MaxStack
  /\ HasTemporary /\ IsA(heap, Top, "native")
  /\ MakeString("native")

Return ==
  /\ Executing
  /\ HasTemporary
  /\ LET slot == Last(frames).slot
     IN  /\ CloseUpvalues(slot)
         /\ IF Len(frames) = 1
            THEN Len(stack) = 2 /\ Top = Null /\ stack' = <<>>
            ELSE stack' = Append(SubSeq(stack, 1, slot - 1), Top)
  /\ frames' = Front(frames)
  /\ UNCHANGED <<strings, globals, parser, todo, lines>>

(***************************************************************************)
(* runtime_error(), then reset_stack().  With an upvalue open the machine  *)
(* is not used any more: ReplSpec of ClosureVM shows why.                  *)
(***************************************************************************)
RuntimeError ==
  /\ Executing
  /\ stack' = <<>> /\ frames' = <<>> /\ open' = Empty
  /\ lines' = IF open = Empty THEN lines ELSE MaxLines
  /\ UNCHANGED <<heap, strings, globals, parser, todo>>

Next ==
  \/ Collect
  \/ InternString
  \/ DefineNative \/ AllocateNative \/ AddValue \/ AddIndex
  \/ BeginScript \/ Advance \/ ScanOther \/ ScanString
  \/ BeginFunction \/ NameFunction \/ DeclareGlobal \/ ResolveGlobal
  \/ EmitConstant \/ AppendConstant \/ IndexConstant
  \/ EndFunction \/ EndScript
  \/ MakeScriptClosure \/ PushFrame
  \/ PushConstant \/ Pop \/ GetLocal \/ SetLocal
  \/ GetGlobal \/ DefineGlobal \/ SetGlobal \/ GetUpvalue \/ SetUpvalue
  \/ MakeClosure \/ CaptureOpen \/ CaptureSlot \/ CaptureEnclosing \/ EndClosure
  \/ EndScope \/ Call \/ CallNative \/ Return \/ RuntimeError

Spec == Init /\ [][Next]_vars

----------------------------------------------------------------------------
(* Properties. *)

(***************************************************************************)
(* A global has one name and a name one global: a name looked up after any *)
(* number of collections is the string under which the global was added.   *)
(***************************************************************************)
GlobalsNamed ==
  /\ \A m, n \in DOMAIN names : names[m] = names[n] => m = n
  /\ Cardinality(DOMAIN names) = Len(values) - (IF todo.do = "index" THEN 1 ELSE 0)

(***************************************************************************)
(* The type invariant, and the tables of globals.                          *)
(***************************************************************************)
TypeOK ==
  /\ IsHeap(heap)
  /\ stack \in Seq(Address \cup {Null})
  /\ frames \in Seq([closure : Address, slot : Nat])
  /\ DOMAIN open \subseteq DOMAIN stack /\ Image(open) \subseteq Address
  /\ values \in Seq(Address \cup {Null})
  /\ DOMAIN names \subseteq Address /\ Image(names) \subseteq DOMAIN values
  /\ compilers \in Seq(Address)
  /\ tokens \in Seq(Address \cup {Null}) /\ Len(tokens) = 2
  /\ todo.obj \in Address \cup {Null} /\ todo.user \in User
  /\ lines \in 0 .. MaxLines
  /\ GlobalsNamed

(***************************************************************************)
(* The object that the code in progress has only in a local variable of    *)
(* C++ exists: the string being interned, the constant, the name of the    *)
(* global being added, the script's function, the closure being called or  *)
(* filled.                                                                 *)
(***************************************************************************)
TodoExists ==
  CASE todo.do \in {"intern", "native", "value", "index"} -> IsA(heap, todo.obj, "string")
    [] todo.do \in {"constant", "constant_index"} ->
         IsA(heap, todo.obj, "string") \/ IsA(heap, todo.obj, "function")
    [] todo.do = "script" -> IsA(heap, todo.obj, "function")
    [] todo.do \in {"frame", "capture"} -> IsA(heap, todo.obj, "closure")
    [] OTHER -> TRUE

(***************************************************************************)
(* Whatever the collector frees between two allocations, everything the    *)
(* machine and the parser refer to, directly or through other objects, or  *)
(* have in hand, is there and is of the kind the code takes it for.        *)
(***************************************************************************)
NothingDangles ==
  /\ \A a \in Traced(heap, Roots) : a \in DOMAIN heap /\ WellTyped(heap, heap[a])
  /\ \A f \in Elements(frames) : IsA(heap, f.closure, "closure")
  /\ \A u \in Image(open) : IsA(heap, u, "upvalue")
  /\ \A f \in Elements(compilers) : IsA(heap, f, "function")
  /\ \A s \in strings \cup DOMAIN names \cup (Elements(tokens) \ {Null}) :
        IsA(heap, s, "string")
  /\ TodoExists

(***************************************************************************)
(* There are never two strings of one text in use, although the table does *)
(* not keep a string alive and one that is being made is not in it yet.    *)
(***************************************************************************)
StringsUnique ==
  LET used == {a \in Traced(heap, Roots) : IsA(heap, a, "string")}
  IN  /\ \A s, t \in used : heap[s].text = heap[t].text => s = t
      /\ \A s \in used : s \in strings \/ todo = ThenFor("intern", s, todo.user)

(***************************************************************************)
(* The compiler pushes what it has to keep alive on a stack for which it   *)
(* has reserved a single slot (ensure_stack_space(1)), define_native() on  *)
(* one of two; both leave it empty, as interpret() and define_native()     *)
(* assert.                                                                 *)
(***************************************************************************)
ReservedStack ==
  /\ compilers # <<>> => Len(stack) <= 1
  /\ lines = 0 => Len(stack) <= 2
  /\ (frames = <<>> /\ todo = Nothing) => stack = <<>> /\ open = Empty
=============================================================================
