# A verification of tx

tx is a small statically typed scripting language: a single-pass compiler
emits bytecode, a stack machine with closures runs it, and a mark-and-sweep
collector manages the objects. The implementation is a header-only C++ library
(`src/tx-runtime/include/tx`, about 7400 lines) with a command line
(`src/tx-cli/src/main.cxx`). This directory holds TLA+ models of it, the
instances TLC checks, and the theorems TLAPS proves.

Everything runs in one thread. What is hard here is not concurrency between
threads but *reentrancy and order*: a stack that moves while pointers into it
exist; an allocation that may run the collector in the middle of any operation,
also one on the table the collector is about to edit; a compiler that keeps
book, in source order, of a machine that jumps; a session that goes on after an
error.

## The system

| Component | Where | State | Operations |
|---|---|---|---|
| Virtual machine | `vm.hxx`, `vm_inl.hxx` | value stack, frames, globals, open upvalues, list of objects | `interpret`, one per instruction, `call`, `return`, `runtime_error`, `reset_stack` |
| Closures, upvalues | `vm_inl.hxx`, `object.hxx` | closures with their upvalues; an upvalue points into the stack (open) or to its own field (closed); list of the open ones, highest slot first | `do_closure`, `capture_upvalue`, `close_upvalues`, reading and assigning |
| Hash tables | `hash_map.hxx`, `hash_set.hxx`, `table.hxx` | entries, `count` (with tombstones), `capacity` | `set`, `get`, `erase`, growing, iterating, `destroy` |
| Memory, collector | `memory.hxx`, `memory_inl.hxx` | `bytes_allocated`, `next_gc`, marks, gray stack | `reallocate`, mark, trace, remove white strings, sweep |
| Code generation | `compiler.hxx`, `compiler_inl.hxx` | chunk, `num_slots`/`max_slots`, loops, jumps to patch | one per rule of the grammar |
| Scopes, globals | `compiler_inl.hxx`, `vm_inl.hxx` | locals, upvalue operands, global signatures | declare, define, resolve |
| Chunks | `chunk.hxx`, `opcodes.inc` | code, constants, run-length line table | append, `get_line`, encoding of operands |
| Types | `type.hxx`, `type_inl.hxx` | sets of types | union, assignability |
| Scanner | `scanner.hxx`, `scanner_inl.hxx` | position in the text | next token |
| Objects, interning | `object.hxx`, `object_inl.hxx` | objects, table of strings | make and free an object |
| Containers | `dyn_array.hxx`, `fixed_array.hxx` | elements, capacity | append, reserve, erase |
| Values | `value.hxx`, `value_inl.hxx` | none | tagging, comparison |
| Hashing, UTF-8, formatting | `hash*.hxx`, `unicode.hxx`, `utils.hxx`, `formatting.hxx` | none | pure functions |
| Disassembler | `debug.hxx`, `debug_inl.hxx` | none | printing |
| Command line, prompt | `main.cxx` | options | run a file, read lines |

How they interact. The compiler calls the scanner for each token, appends to the
chunk of the function being compiled, declares and defines globals in the
machine's tables, and interns names there. `interpret` compiles, wraps the
result in a closure, calls it and runs it. Every container takes its memory
from `reallocate`, which may collect: the collector marks from the stack, the
frames' closures, the open upvalues, the globals and the functions being
compiled, erases unmarked strings from the table of interned strings and frees
what is left. The prompt hands one line after the other to the same machine,
also after one of them has failed.

What makes each part correct:

* machine: values are where the code expects them; nothing is written past the
  end of the stack, which only `call` enlarges; frames and open upvalues follow
  the stack when it moves;
* closures: a closure shares its captured variables with the function that made
  it and with its sibling closures, for as long as it exists, and nobody else
  changes them;
* hash table: it is a dictionary, and no search runs for ever;
* collector: nothing reachable is freed, what is not reachable eventually is,
  and `bytes_allocated` is the number of bytes allocated;
* scanner, parser: exactly the texts of the grammar compile, and both end;
* types: a value is of the type the compiler gave its expression;
* code generation: running the code of an expression leaves one value, from the
  variables it names, within `max_slots`;
* scopes: a name means the same variable to the compiler and to the machine,
  and a line that fails leaves no trace;
* line table: `get_line` returns what `write_line` was told.

## Modules

| Module | Lines of the code it is about | What it is |
|---|---|---|
| `ClosureVM` | `vm_inl.hxx`, `vm.hxx`, parts of the compiler, `dyn_array.hxx`, `main.cxx` | stack, frames, upvalues, calls |
| `SharedVariables` | (abstract) | what closures promise a program: variables in boxes, no pointers |
| `ClosureVM_proofs` | | theorems about `ClosureVM` |
| `MCClosureVM` | | the programs TLC runs |
| `HashMap` | `hash_map.hxx`, `table_remove_white`, `grow_capacity` | the table, its growth interleaved with a collection |
| `Dictionary` | (abstract) | what a table promises: a partial function, and an iteration that sees each key once |
| `HashMap_proofs` | | theorems about `HashMap` |
| `MCHashMap` | | the keys and hashes TLC uses |
| `Heap` | `object.hxx`, `blacken_object`, `trace_references` | the kinds of objects, what they refer to, what can be reached |
| `ProgramHeap` | (abstract) | what the memory manager promises: objects that keep their contents while anybody can come to them |
| `Collector` | `memory_inl.hxx`, `object_inl.hxx`, `~VM` | mark and sweep, one step per iteration, for any program |
| `Runtime` | `compiler_inl.hxx`, `vm_inl.hxx`, `object_inl.hxx` | what the compiler and the machine of tx hold from one allocation to the next |
| `Collector_proofs`, `Runtime_proofs` | | theorems about the three |
| `MCRuntime` | | symmetry, and how addresses are chosen, for TLC |
| `Lexemes` | (reference) | which strings are a lexeme, said of whole strings |
| `Scanner` | `scanner_inl.hxx`, `scanner.hxx`, `unicode.hxx` | the text to tokens, one action per branch |
| `Scanner_proofs` | | theorems about `Scanner` |
| `Grammar` | (reference) | the sentences of the language, a context-free grammar |
| `Parser` | `compiler_inl.hxx`, `compiler.hxx` | which token each procedure takes, where it reports an error, how it goes on |
| `Codegen` | `compiler_inl.hxx`, `compiler.hxx`, `opcodes.inc`, `vm_inl.hxx` | which instructions are emitted, and what becomes of the stack when they run |
| `Chunk` | `chunk.hxx`, `compiler_inl.hxx`, `debug_inl.hxx` | the code as bytes, jumps, the table of lines |
| `Chunk_proofs` | | theorems about `Chunk` |
| `Types` | `type.hxx`, `type_inl.hxx` | sets of types and the checks on them |
| `Typing` | `compiler_inl.hxx`, `vm_inl.hxx`, `formatting.hxx` | expressions with the type they are given and the value they get |
| `Typing_proofs` | | theorems about `Typing` |
| `Session` | `compiler_inl.hxx`, `vm_inl.hxx`, `main.cxx` | globals over the lines of a session |
| `Session_proofs` | | theorems about `Session` |
| `MCScanner`, `MCParser`, `MCCodegen`, `MCChunk`, `MCTyping`, `MCSession` | | texts, samples, types and upvalues for TLC |

How they depend on each other: a module of proofs extends the module it is
about. `ClosureVM` instantiates `SharedVariables`, `HashMap` `Dictionary`;
`Collector` and `Runtime` extend `Heap`, and `Collector` instantiates `ProgramHeap`;
`Scanner` extends `Lexemes`, `Parser` extends `Grammar`, `Typing` extends
`Types`. What is a constant or a free choice in one module is what another one
computes: the tokens of `Parser` are those `Scanner` hands out, the
instructions `ClosureVM` runs are those `Codegen` emits, their bytes are in
`Chunk`, the errors of a line in `Session` come from `Parser` and `Typing`.

### ClosureVM

A program is any sequence of instructions a compiled function may execute:
jumps are left out, because every path through a function is such a sequence.
The functions, what each captures (the operands of `CLOSURE`), their arity and
`max_slots` are constants. A value is an atom, a native, or a reference to a
closure.

A pointer is a memory block and an offset. The stack gets a new block each time
it moves, so that a pointer that has not been moved with it is a pointer into a
block that no longer exists, even if its offset is right. Block 0 stands for
the field `closed` of an upvalue.

| Variable | Code |
|---|---|
| `stack`, `buf`, `capacity` | `VM::stack`: its elements, `begin()`, `capacity()` |
| `frames` | `VM::frames`; `slots` is a pointer, as in the code; the instruction pointer is left out |
| `nlocals` of a frame | not in the machine: how many slots of the frame the compiler knows as locals at this point of the code (slot 0, the callee, included). It only serves to say which instructions the compiler may emit and what a variable is. |
| `open` | the list headed by `open_upvalues` |
| `upvalues`, `closures` | all `ObjUpvalue` and `ObjClosure` ever made |
| `global` | one global variable; several would not interact |
| `status` | `idle` between lines, `running`, `capturing` inside `do_closure`, `error` after a runtime error, `aborted` after a failed assertion |

Each instruction is one action. `do_closure` is several: it pushes the closure
with its upvalues still null (`MakeClosure`, `DeclareFunction`) and then fills
them one by one (`CaptureLocal`, `CaptureEnclosing`), each time walking the list
of open upvalues as it is by then; each of these can allocate.
`Call` contains the growth of the stack and the relocation of every frame and open upvalue
(`EnsureStackSpace`); `Return` and `EndScope` contain the walk that closes
upvalues. The walks are stated by where they stop (`WalkAbove`, `WalkFrom`),
which in an unsorted list is not where they ought to.

Assumptions about compiled code: it keeps its temporaries within `max_slots`
(`HasRoom` guards every push; the machine itself does not check); it names only
variables that exist (`CanCapture`, `Locals`); a script returns with nothing but
its result on the stack. `Codegen` examines them (`StackReserved`,
`OperandsDenote`, `ReturnsClean`) and shows where they fail.

`Spec` leaves out two things the code does, because the properties fail with
them. `LoopSpec` adds leaving a loop with `break` or `continue` while its locals
are captured; the run `loops` is about it. `ReplSpec` adds the prompt that goes
on after a runtime error, after which `NoneLost` fails.

### HashMap

`Get`, `Set`, `Erase` are single steps. Their search is the probe sequence of
`find_in_bucket_impl`: it is stated by the position at which it stops, and
`SearchEnds` says that there is one. A `Set` that finds the table full grows it
first: `BeginSet` allocates (which may run a collection that erases any keys of
the table but the one being set), then the old entries are moved one per step
(`SkipEmpty`, `Move`), and `EndSet` places the new one. Iterating is a loop of
steps too, each of which may erase the entry it stands on, as
`table_remove_white` does. `rehash` and `add_all_from` are called nowhere and
left out, as is the memory the table gives back.

### Heap, Collector, Runtime

The question whether the collector frees something in use has two halves.

*Is the collector right, for a program that keeps to what it can reach?* In
`Collector` the program is any sequence of allocations, writes to fields, and
references taken or let go of, with an arbitrary set `roots`; a collection
interrupts it and runs loop by loop:

| Variable | Code |
|---|---|
| `heap` | the objects allocated and not freed; an address is used again |
| `objects` | the list `VM::objects`, the newest first |
| `strings` | the keys of `VM::strings` |
| `roots` | what `mark_roots` goes through |
| `marked`, `gray` | `is_marked`, `gray_stack` (its order does not matter, so it is a set) |
| `phase`, `at` | the loop of `collect_garbage` or `~VM` that is running; how far `sweep` has come |

`MarkRoots` begins a collection, `Blacken` is an iteration of
`trace_references`, `RemoveWhite` the whole of `table_remove_white` (its loop is
in `HashMap`), `KeepMarked` and `FreeUnmarked` the two branches of `sweep`,
`Destroy` and `FreeFirst` the end of the machine.

*Does the code of tx keep to what it can reach?* In `Runtime` the roots are the
real ones: the stack, the frames' closures, the open upvalues, the globals and
their names, the tokens and the functions being compiled. An object that is
only in a local variable of the C++ code is in none of them. An action goes
from one allocation to the next; `todo` is what the code has left to do after
the allocation it is in, and names the object it has in hand. Between any two
actions the collector may run, in one step, which frees what `Traced` does not
find and forgets the strings among it. That one step is what `Collector` shows
a collection to amount to (`CollectsAll`, `NoBlackToWhite`): the program is
stopped meanwhile, and no state of it is observed in between.

| Code | Actions |
|---|---|
| `make_string` | `FindString`, or `NewString` then `InternString`; what its caller does with the string is `UseString` |
| `define_native` | `DefineNative`, `AllocateNative`, `AddValue`, `AddIndex` |
| `declare_global_variable`, `resolve_global` | `DeclareGlobal` (then `AddValue`, `AddIndex`), `ResolveGlobal` |
| `Parser::advance` | `Advance`, `ScanOther` or `ScanString` |
| `begin_compiler`, `function_body` | `BeginScript`; `BeginFunction`, `NameFunction`; `EndFunction` |
| `add_constant` | `AddConstant` (in `EmitConstant`, `EndFunction`), `AppendConstant`, `IndexConstant` |
| `interpret` | `EndScript`, `MakeScriptClosure`, `PushFrame` |
| `do_closure`, `capture_upvalue` | `MakeClosure`, `CaptureOpen`, `CaptureSlot`, `CaptureEnclosing`, `EndClosure` |
| the other instructions | one action each |

What is abstracted: a text is a model value; a value that is not an object is
`Null`; the constants of a function and the upvalues of a closure are sets; a
call passes no arguments (arguments stay on the stack, which is a root); the
capacity of the stack and `max_slots` are in `ClosureVM`, here `MaxStack` only
bounds it. Any order of declarations, constants and instructions is a program.
After a runtime error with an upvalue open the session ends, because what
follows is broken already (`ReplSpec`). How much is allocated
(`bytes_allocated`, `next_gc`) is left out: a collection may begin at any
allocation, which includes the debug build, where every allocation collects.

### Scanner

A source is a sequence of characters from small alphabets that hold one of each
kind (a letter that begins a keyword, a digit, a separator, a quote, a brace, a
newline, ...). `start` and `current` are the two pointers of the scanner,
`str_interp_braces` its array of counts, `string` the literal being decoded,
`mode` whether the scanner is between tokens or in the loop of `string`.
`scan_token` is one action per branch; the loop of `string` is one action per
turn, because it changes the braces, the line and the string; loops that only
skip characters are one step, which says where they stop. `Lexemes` says
independently which strings are a lexeme of which type.

### Parser and Grammar

The procedures on the call stack are `work`: what each has still to do, the
next thing first. The input is chosen token by token as `advance` asks for it.
`values` holds, for each operand that waits, its precedence level and whether it
may be nil or something else, because that decides if a block can stand as a
statement. `panic_mode` and `synchronize` are those of the code. `Grammar`
builds the sentences of up to a sample's `length` tokens bottom up from the grammar and
the table of precedences in `doc/syntax.md`.

An initial state picks a `sample`, a set of kinds of tokens and how many of them
a text may have: texts of all tokens at once would be too short to be programs.
`Codegen`, `Chunk` and `Typing` have a `sample` for the same reason; it bounds a
behaviour and changes nothing else.

### Codegen

The same pushdown machine, but for correct programs, with what is emitted:
`compilers` is the chain of `Compiler` structs with their locals, upvalues,
loops, `num_slots` and code, `functions` the finished ones. When the program is
complete, one of its functions is executed (`frame`), both ways at every
conditional jump. A variable carries an identity the code does not have, and so
does each stack cell, so that one can say *which* variable an operand reaches.
`UnderOperand` says if blocks may stand as right operands, where a known fault
would hide all others. `undercount` is not in the code either: it adds up what
`num_slots` loses at the jumps out of loops, one slot for each `while`, one for
each `loop` without a `break`, and one for each local a `break` or `continue`
drops. `StackReserved` allows a function that much above `max_slots`, and
nothing to the others.

### Chunk

`code` is a sequence of numbers below `Base`, 8 for TLC and 256 in the code; so
an index needs the long form from 8 on, and a jump reaches 63 bytes. `open`
holds jumps to patch and loops; `instructions` and `targets` remember what was
meant and only serve the properties. Reading is by the three readers there are:
`NextInstruction` of the machine and the disassembler, `NextInLoop` of the
compiler's walk for placeholders, `get_line`. Each is a loop over the bytes, and
a recursive function here: `Disassembled` and `Placeholders` over offsets,
`Search` over the intervals of a binary search. A function begins with a
`prelude`, which loads its first constants one after the other: the shortest way
to a function whose next constant needs the long form.

### Types and Typing

A type is a record as in `TypeInfo`, a `TypeSet` a set, and `Infos` the types
that are looked at. `AssignSet` and `AssignInfo` are the two procedures of
`type_inl.hxx` that call each other; what one asks the other is a parameter, and
`MayAssign` the recursive function of two types that ties them together. `Typing`
builds expressions on a stack of results, each with the types `type_info` gives it and
the value the program gets. An operation is only taken if its check at compile
time accepts it; the check of the machine, on the value, may still refuse it.
A result has `doubt` when one of five constructs that claim more than they
ensure had a part in it: `and` and `or`, `if` without `else`, `as`, `return;`, and
an assignment of functions that would be refused if the types they return were
compared too. The comparison for the last one, `Keeps`, goes as deep as the types
do: a function may take a function, to which the lie is then told (`Retyped`).
`Sound` and `NeverRefused` say that everything else is as the compiler claims.

### Session

`mode` says if a script is run, which is one line, or the prompt.
`signatures` and `values` are `global_signatures` and `global_values`, `code`
the top level of the line. A line is compiled statement by statement, may fail
(`syntax_error`, or a name used before it is defined), and is then run
instruction by instruction, where the use of a global without a value, or the
call of what is no function, stops it. In a function, and in a block at the top
level (`block_statement`), a global need only be declared to be used: the
compiler's check is for scope depth 0. `orphans` are the globals a failed line left without
a value; a property may excuse what comes of these and nothing else. `previous`
is the pair of static variables of the debug build's check of stack effects; a
check that fails does not end the model's program, so that what comes after it
can be told.

## What TLC checks

| Run | Instance | Result |
|---|---|---|
| `debug` | debug build: the stack moves to exactly what a call needs, an error frees it; a script, a function `outer` that captures a local (possibly itself) and a function `inner` that captures `outer`'s variable again and one more; natives; three closures, two upvalues, a stack that starts at two slots | holds; 375 000 states |
| `loops` | the same in a release build, with `LoopSpec` | `OpenPointToVariables` is violated |
| `hash_map` | four keys, three of them competing for the same slots and one that starts at the end of the table; capacity 4 growing to 8; one of the two values is the tombstone's | holds; 70 000 states |
| `collector` | three addresses used again after they are freed, one text | holds; 763 000 states |
| `rooting` | five addresses, two texts, two globals, two natives at most, two lines, functions nested twice | holds; 719 000 states |
| `capturing` | eight addresses, the lowest free one first; functions nested three times, one line | holds; 631 000 states |
| `scanner` | texts of up to seven characters by theme: strings and escapes, raw strings, interpolations nested past the two that are allowed instead of eight, numbers, marks, comments, carriage returns, words near a keyword | holds; 258 000 states |
| `parser` | up to nine tokens, in eight samples: operators, calls and assignment, `if`, `loop`, `while`, functions with their parameters and types, declarations; in two more, up to three tokens after an error | holds; 2 380 000 states |
| `codegen` | programs of four constructs, in three samples: scopes, functions and captures of two names; operators, calls and branches; loops; and programs of five from `loop`, `break`, `continue`, `let`, `if` and a binary operator | holds; 6 080 000 states |
| `chunk` | bytes below eight; six emissions after seven constants, so that the eighth and ninth straddle the short form, with runs of 1 and 60 bytes, so that a jump can be just too long; four emissions on four lines from an empty chunk | holds; 572 000 states |
| `typing` | one variable, and six operations of two samples: literals of every type, operators, `if`, `as`, unions, `Any`, `Float`; functions as values; and seven of a third: functions that take and give functions | holds; 687 000 states |
| `session` | debug build; a variable, a function and a native; scripts of four statements, two lines of two statements at the prompt | holds; 575 000 states |

Properties of `ClosureVM`:

* `TypeOK`: types, among them that an upvalue's value is a value.
* `OpenListSorted`: the open list is strictly sorted by slot. Both walks rely
  on it; an unsorted list gives a variable two upvalues, or leaves one open.
* `OpenPointToVariables`: every open upvalue points into the current block, at
  a local variable of a frame that still exists.
* `NoneLost`: an upvalue that is not in the list has been closed.
* `StackFits`: every frame's whole window (callee, arguments, `max_slots`) is
  inside the capacity.
* `FramesInPlace`: frames have moved with the stack, do not overlap, and start
  with their own closure, whose upvalues are complete.
* `ImplementsSharedVariables`: the refinement of `SharedVariables`, where a
  captured variable is a box, nothing can dangle, and only an assignment changes
  a box.

Of `HashMap`:

* `TypeOK`: also that a capacity is a power of two times the first one.
* `SearchEnds`: some entry has never been used, so the search loop ends; and
  `CountExact`, on which it rests through the load factor: `count` is the number
  of entries that end no search.
* `EveryKeyFound`: the search for a key that is in the table finds its entry,
  also halfway through growing.
* `Returns` (liveness): growing and iterating end.
* `ImplementsDictionary`: the refinement of `Dictionary`, growth, collection
  and iteration included.

Of `Collector`:

* `TypeOK`: also that nothing freed is in the list, the table, the roots, or on
  the gray stack, and that every object is in the list exactly once
  (`ListIsHeap`).
* `NothingDangles`: what can be reached exists and is of the kind the code casts
  it to; so are the strings in the table, at every point of a collection.
* `StringsUnique`: the strings in use are in the table, one per text.
* `NoBlackToWhite`: the invariant of tracing, what is marked in the end, and
  that no mark outlives a collection.
* `CollectsAll`: after a sweep there is nothing that cannot be reached.
* `CollectionEnds` (liveness): every collection, and the destruction, ends.
* `ImplementsProgramHeap`: the refinement of `ProgramHeap`.

Of `Runtime`:

* `TypeOK`: also that names and globals correspond one to one (`GlobalsNamed`).
* `NothingDangles` with the real roots; and `TodoExists`: the object the code has
  in hand across an allocation exists after it, and is of the expected kind.
* `StringsUnique`: one string per text, also while one is being interned.
* `ReservedStack`: the compiler uses one slot of the stack at a time, the one
  `compile` reserves; `define_native` two; both leave the stack empty.

Of `Scanner`:

* `TokensAsWritten`: each token is the longest lexeme at its place, and an error
  is reported only where there is none (`LongestLexeme`); the line of a token is
  that of its last character (`LinesCounted`).
* `NestingMatches`: the counts of braces are those of the tokens handed out, so
  that the brace which resumes a string is the one that matches its `${`; and no
  more interpolations are open than the array holds (`TypeOK`).
* `Terminates` (liveness): every text is read to its end, unless a string has a
  carriage return.

Of `Parser`:

* `ExactlyPrograms`: a text compiles if and only if it is a sentence
  (`AcceptsPrograms`), and an error comes no earlier than the first token that
  no sentence has there (`RejectsOthers`).
* `BindsAsTabled`: operands bind as tightly as the table of precedences asks, and
  those that wait are those some task will take (`TypeOK`).
* `Terminates` (liveness): compiling ends, whatever the errors.

Of `Codegen`:

* `OperandsDenote`: an operand reaches the variable the name means at that place
  of the program, on every path (`NamesDenote`, `CapturesDenote`).
* `StackReserved`: no path uses more than `max_slots`, and what `undercount`
  says in a function that leaves loops.
* `RunsClean`: a function returns with its result above its parameters
  (`ReturnsClean`), and no path meets the placeholder of a `break` or the code's
  end (`NoPlaceholder`); with the shapes of the compiler's tables (`TypeOK`).

Of `Chunk`:

* `ReadAsEmitted`: read from its start, the code is what was emitted
  (`InstructionsFound`); `get_line` finds the line of every byte, and ends
  (`LinesFound`); with bytes that are bytes and a table that goes up (`TypeOK`).
* `JumpsLand`: every jump of code without errors lands where it was meant to, a
  distance that does not fit is an error, and no placeholder is left.

Of `Typing`:

* `Sound`: a result without doubt has a value of one of its types.
* `NeverRefused`: what compiles without doubt is not refused at run time.

Of `Session`:

* `GlobalsAsDeclared`: what the compiler takes for defined has a value when the
  top level uses it outside of blocks, but for what failed lines left behind (`TopLevelDefined`),
  and a line that succeeds leaves no such global (`NothingLeftBehind`); in a
  script that ends, each global was given its value exactly once
  (`ScriptComplete`, `NeverRedefined`); a global holds a value of its type
  (`ValuesTyped`); with one index per name and one value per signature (`TypeOK`).
* `StackAsCounted`: the stack is empty when a line begins, whatever became of the
  one before (`EmptyBetweenLines`), and the debug build's check of stack effects
  fails nowhere but at the first instruction of a line, when the line that ran
  last ended at a global without a value (`StackEffect`). That line need not be
  the one before: a line that does not compile leaves the statics of the check
  as they are. (Two lines do not show this; it was met in the attempt to prove
  that the line before had failed while running, and three lines confirm it.)
* `ConstKept` (an action property): a constant changes by a new definition at
  the prompt only.

A property that is a conjunction has its parts as definitions of their own, so
that a counterexample can be traced to one of them, and the parts can be proved
one by one.

### Bounds, and why they suffice

`MaxClosures` and `MaxUpvalues` bound how many objects a behaviour makes;
`MAX_FRAMES` is 2 instead of 1024 and `START_STACK` 2 instead of the
code's, so that the limit of frames and the growth of the stack are reached
within a few calls. Two upvalues in three closures are the least with which a
list has an order, a variable is shared by two closures, and one upvalue is
closed while another stays open; `inner` reaches the script's variable through
the function in between. The debug build is the one to check, since it moves the
stack whenever a call needs any room; a release build only rounds the capacity
up. `PowersOfTwo` only has to contain the first power of two above the largest
need. A table of four that grows to eight has chains that wrap around,
tombstones at all places, and a growth with a collection in it. `MaxCapacity`
bounds the growth.

Three addresses make every graph that matters to a collector: cycles, chains
that are freed in the middle, a function with its name and a closure of it; each
address is freed and used again as a different kind of object. In `rooting` five
addresses are a function, a nested one, its name, a constant and a global, which
is what one line of compilation can hold at a time, with garbage of the line
before among them. A closure that captures an upvalue of the function around it
takes a script, two nested functions and a closure of each, and an upvalue:
`capturing` has eight addresses, taken lowest first, since an address that was
freed is then used again at the first opportunity. The two runs together fire
every action of `Runtime`.

The texts of `Scanner` have up to seven characters, which is an opening and a
closing triple quote or a quoted escape; its limits (digits of a literal, the
largest integer, the depth of interpolations) are small enough to be passed.
The samples of `Parser` have one token of every rule with which the others of a
level share their procedure; eight tokens are a function with a body that
returns, or a loop in a block with a break, nine a function of two parameters.
Four constructs in `Codegen`, literals aside, are a function in a loop in a
block with a variable, five a variable whose value is a loop that breaks on a
condition with a local of its own. `Base` eight keeps the shape of the three operand
lengths. In `Typing` one variable is enough, since an operation on two variables
is one on two results; seven operations are what it takes to assign a function
to a type that takes functions, to call it with one, and to call what comes back. In `Session` two globals are what a function of one line
needs to meet a definition of another; a script of four statements declares,
defines, assigns and uses, and of two lines the second meets what the first left
behind.

The theorems do not depend on the bounds of `ClosureVM`, `HashMap`, `Collector`,
`Runtime`, `Scanner`, `Chunk`, `Typing` and `Session`: they hold for every value of them.

`CHECK_DEADLOCK` is off: a session ends after an error or a failed assertion, a
compilation or a scan when the text is read, and the bounds stop a behaviour that has used them up.

### Fairness

`ClosureVM` assumes none and claims no liveness: a program may loop for ever.
`HashMap` has weak fairness of the steps of its loops (`Loops`): the code is
single-threaded and nothing is between two iterations of a loop, so a loop that
has begun is run until it ends. `Collector` has it of the steps of a collection
and of the destruction for the same reason; nothing makes the program collect.
`Scanner` and `Parser` have weak fairness of their steps: one thread does nothing
else until the text is read. All
other modules assume none.

## What is proved

TLC shows a property on one small instance; the theorems below hold for every
value of the constants that the assumptions of a module allow. Each is
`Spec => []P` for an invariant P, `Spec => P` for an action property or a
refinement.

| Module | Theorem | Property |
|---|---|---|
| `ClosureVM_proofs` | `TypeCorrect` | `TypeOK` |
| | `OpenUpvaluesSorted` | `OpenListSorted` |
| | `OpenUpvaluesPointToVariables` | `OpenPointToVariables` |
| | `NoUpvalueLost` | `NoneLost` |
| | `StackSufficient` | `StackFits` |
| | `FramesStayInPlace` | `FramesInPlace` |
| | `MachineSharesVariables` | `ImplementsSharedVariables` |
| `HashMap_proofs` | `TypeCorrect` | `TypeOK` |
| | `SearchesEnd` | `SearchEnds` |
| | `KeysFound` | `EveryKeyFound` |
| | `TableIsDictionary` | `ImplementsDictionary` |
| `Collector_proofs` | `TypeCorrect` | `TypeOK` |
| | `NoDanglingReference` | `NothingDangles` |
| | `StringsInterned` | `StringsUnique` |
| | `Tricolor` | `NoBlackToWhite` |
| | `NothingLeft` | `CollectsAll` |
| | `KeepsItsPromise` | `ImplementsProgramHeap` |
| `Runtime_proofs` | `TracedIsReachable` | (what tracing marks is what paths lead to) |
| | `TypeCorrect` | `TypeOK` |
| | `NothingFreedInUse` | `NothingDangles` |
| | `StringsInterned` | `StringsUnique` |
| | `SlotsReserved` | `ReservedStack` |
| `Scanner_proofs` | `TypeCorrect` | `TypeOK` |
| | `InterpolationsNest` | `NestingMatches` |
| | `LinesRight` | `LinesCounted`, the part of `TokensAsWritten` about lines |
| `Chunk_proofs` | `TypeCorrect` | `TypeOK` |
| | `LinesKept` | `LinesFound` |
| | `CodeReadAsEmitted` | `ReadAsEmitted`, where no loop has a closure with a long index |
| | `JumpsLanded` | `JumpsLand`, likewise |
| `Typing_proofs` | `TypeCorrect` | `TypeOK` |
| | `TypesAreTrue` | `Sound` |
| | `NothingRefused` | `NeverRefused` |
| `Session_proofs` | `StackCounted` | `StackAsCounted` |
| | `TablesAgree` | the parts of `GlobalsAsDeclared` but `ValuesTyped` |
| | `GlobalsTyped` | `GlobalsAsDeclared`, where a name has one type |
| | `ConstantsKept` | `ConstKept` |

In each module one invariant, `IInv` (in `Chunk_proofs` `StateInv` and `Inv`), is shown to hold at first (`Init...`) and to
be kept by every action (a lemma per action, named after it, put together in
`NextPreserves`, `NextSafe`, `NextInv` or `InvStep`); `Invariance` or `Invariant` adds induction over steps. Where
actions share what they do, there is a lemma about that.

### ClosureVM

For every set of data, natives and functions, every arity, capture list and
`max_slots`, and all limits. `ValuesAssumption` says that an upvalue of the
machine (`ObjUpvalue`) is never itself a value of the program.

None of the properties is inductive. `IInv` adds

* `TypeInv`: `TypeOK` with every reference one to a closure or an upvalue that
  exists;
* `ControlInv`: there are frames exactly while there is code to run;
* `PlacesInv`: frames follow one another, each with its locals below the next
  frame and below the top of the stack, in the current block;
* `RoomInv`: the window of every frame is inside the capacity, and the stack
  does not go beyond the window of the innermost one;
* `CapturingInv`: the closure being filled still lacks an upvalue, and the
  variables it has yet to capture exist;
* `OpenInv`: the three properties of the open list together, since each of them
  is needed for the others: the list is sorted, so `close_upvalues` takes
  exactly the upvalues at or above the limit, so none is left pointing above
  the top; they point to variables, so the stack has a value to close them with.

`FramesInPlace` needs `CalleeInv` besides: slot 0 of a function, where its
closure is, is never assigned to, by name or through an upvalue, because no
closure captures it; and a closure that still lacks upvalues is not called.

The refinement maps the stack to an environment in which each slot is a
variable of its own or the box of the upvalue open on it, the frames to the
calls in progress, and an upvalue to a box, whether it is open or closed
(`Environment`, `CallsInProgress`, `Boxes`, `ClosuresMade`, `Progress` in
`ClosureVM`). An assignment to a captured local through the stack is an
assignment to its box, closing an upvalue and moving the stack are stutters.
It rests on `IInv` and on `BottomInv`: while anything runs, the first frame is
that of the script, at slot 0.

The theorems are about `Spec`: loops that are left with captured locals, and a
prompt after an error, are outside it, and there the properties are false.

### HashMap

For any hash function, any keys, any first capacity of at least two. `IInv` adds to `TypeOK`

* `CountInv`: `count` is the entries that are in use, tombstones included, and
  at least one is not, so that a search has an end;
* `NoGap`: no virgin entry lies between a key's home and the key, around the
  end of the table;
* `KeysDiffer`: a key is in the table once;
* `GrowInv`: while the table grows, the new one has no tombstone, no more
  entries than were moved, room for twice as much, and no key in common with what
  is still to be moved;
* `IterateInv`: an iterator is at an entry in use or at the end.

`Dist`, the distance of an entry from a key's home, turns the probing into
arithmetic, so that what a search meets first (`SomeEnd`, a least number) needs
no recursion. `Setting` and `ToVisit` map the table to `Dictionary`: while it
grows, the dictionary is the new table with what is left of the old.

### Heap and Collector

`Reachable` is the least set that contains the roots and is closed under
references; `TracedIsReachable`, proved with `Runtime`, says that it is what following
references step after step leads to. With that, what a collection keeps needs
no induction over paths: marked objects are closed under references, so
everything that can be reached is marked.

`IInv` of `Collector` adds to `TypeOK`, `NothingDangles`, `StringsUnique` and
`NoBlackToWhite`

* `MarkInv`: while tracing, the roots are marked, and whatever a marked object
  that is not grey refers to is marked; nothing is marked while the program runs;
* `SweepInv`: while sweeping, every live object is either kept already or still
  marked, never both, and the intern table holds no object that will be freed:
  a table cleared after the sweep would hold freed strings;
* `DestroyInv`: the destruction begins with no roots and an empty table.

`ImplementsProgramHeap` maps the heap to the part the program can reach: all
steps of a collection are stutters.

### Runtime

For any number of addresses, texts, natives and globals, any nesting of
functions and any number of lines, and whichever address an allocation
takes. The point of the module is that a collection may come with any
allocation, and what must be shown is that all that compiler and machine have in hand at that
moment can be found by the collector. `IInv` says

* `HeapInv`: all objects, garbage included, refer to objects that exist and are
  of the kind the code takes them for (garbage, because until the next
  collection the intern table may bring a string back into use);
* `InternInv`: every string is in the intern table or is the one on its way
  there, and no two have the same text;
* `ValuesInv`, `ParserInv`, `NamesInv`, `StackInv`, `FramesInv`, `OpenInv`: what
  the globals, the compilers, the two tokens, the table of names, the stack,
  the frames and the open upvalues refer to is there and of its kind; a global
  has one name, but for the moment between its value and its index;
* `ModeInv`: compiler and program never run both;
* `TodoInv`: what the code in progress has in hand is on top of the stack, or in a table
  the collector traces.

`TodoRooted` draws from the last one that a collection keeps what is in hand;
`Collected` says what a collection leaves, with `Reachable` for the marked
objects; `CollectPreserves` puts them together.

### Scanner

For any texts, of any length, and room for any number of interpolations.
`ScannerAssumption` says of a text that it has a length, as its parts do, and that
none of its characters is the empty string: the prover knows strings as values
only. `IInv` says

* `PlacesOk`: what is being read is in the text, and a string begins with the
  quote or the brace that opened or resumed it;
* the line is that of the next character (`LineAt`), and `TokensOk`: that of a
  token is the line of its last one;
* `CountsOk`: there are no more counts than there is room for, each is at least
  one, and less than the characters read;
* `NestOk`: the counts are those of what the tokens leave open. While a string is
  resumed, the scanner has dropped the count already and the token that closes
  the interpolation is still to come; then the innermost thing left open is a
  `${`, and the counts are those of what is open around it.

The last one is what makes `NestingMatches` inductive, since the property is
silent about resumed strings and the token after one must find the counts
right again. A brace is the closing one of an interpolation when its count is
one, and `Counts` is one at its end exactly if the innermost thing that is open
is that interpolation and no block inside it. `Open` and `Counts` unfold one token
and one brace at a time. White space is skipped by a recursion that goes from
the end of a blank or a comment to the next: that it is defined, ends, and
passes what is counted is shown by induction on what is left of the text.

### Chunk

For bytes of any size from eight on, functions of any length on any number of
lines, jumps and loops nested to any depth, and closures with any upvalues whose
indices fit into three bytes. `StateInv` holds whatever is emitted:

* `BytesInv`: a byte is a byte, and has a line;
* `TableInv`: the table goes up and starts with the code, and every byte has the
  line of the entry that covers it.

With that `SearchFinds` shows that the binary search of `get_line` ends at the
entry that covers a byte: the entry sought never leaves the interval, which gets
shorter at each turn. `Inv` adds, for the program,

* `ProgramInv`: the instructions emitted fill the code from 0 to its end, one
  after the other, each with its bytes at its place (`Fills`), where the operand
  of a jump, and whether its opcode is yet that of a placeholder, are left open;
  and a closure is known by its constant (`Known`), so that its upvalues are as
  many as the reader takes from the function the constant stands for;
* `JumpInv`, while there is no error: a jump that has a target has the distance
  to it for its operand, and the distance fits (`AllLand`); what is open goes
  nowhere yet, begins where an instruction begins, and is nested (`OpenRight`);
  a placeholder is a break of a loop that is open (`EndsRight`).

The walk for placeholders starts at a loop, and what it finds must be its breaks
and no byte of another instruction that happens to look like one. `WalkFinds`
says of any walk: from an instruction's start on, if each step leads to the start
of the next, what is found is what is there at the starts, and `NextFound` that
the steps of the compiler do lead there. Patching writes three bytes at the
start of a jump, so that nothing but jumps changes (`Repaired`): this needs that
instructions do not overlap.

The step of the compiler does not lead there at a closure with a long index, as
it skips too few bytes. `LongClosures` says whether a loop may hold one. The last
two theorems assume it may not, which is `LongClosures = FALSE`; with it their
properties are false. The first two do not need the assumption.

### Typing

For programs of any length, over any types, with any variables.
`InfosAssumption` says that the types at hand contain those of the literals and
whatever their functions take and give; `SamplesAssumption`, that the program is
annotated with types at hand, and that functions of such annotations are.

`Sound` is not inductive: that a value is a function with the right number of
parameters says nothing about what a call of it gives. What has to be known of a
function is that it gives values of the types it returns if it is given values
of the types it takes, and so on with those values, for as many calls as the
program may make. `Holds(value, types)` says so without an end to start from:
there is a relation `W` between values and sets of types that contains the pair
and is `Consistent`, which is that every value in it has one of its types
(`Fits`), the value a function gives is in `W` with what is returned, and a
parameter it gives back is one of a type that flows into the one returned
(`Flows`: through assignments without doubt, one after the other). `IInv` is then

* `Bounded`: the stack, the steps and the outcome are in their bounds;
* `Stacked` and `Variables`: a result without doubt has types of `Infos`, and a
  value that `Holds` them.

The lemmas draw on three facts. `HoldsKept`: what holds some types holds those
it is assigned to, if `Retyped` is false; this is the step that fails when
`Retyped` looks at the outermost function only. `HoldsMore`: also more types. And
`Assigned` and `KeptPair`, that `MayAssign` and `Keeps` are what their
definitions say. The prover has no induction over types to show that a
recursive function exists, so `FixedPoint` shows it as Tarski did: both are monotone in the
answers they ask for, and the union of all the sets that are below their own image is
a fixed point (`MayAssignDefined`, `KeepsDefined`).

### Session

For any names, types and natives, any number of lines and statements, in release and
in debug builds. `IInv` says of what is compiled and what is run

* `TablesInv`: a signature for each value; of two indices, two names; a value
  is there only where its global is marked as defined, and a function refers to
  globals there are and assigns to no constant;
* `PhaseInv`, `CodeInv`: no code without a line in progress, none of a line with
  an error; every instruction refers to a global there is, `SET_GLOBAL` to no
  constant, `DEFINE_GLOBAL` to one marked as defined;
* `FlowInv`: there is a size of the stack, and the types its top may have, before
  and after each instruction still to run (`Flows`), such that a line being
  compiled leaves the stack as it found it, and one that runs ends with nothing
  on it and has by now the stack that its next instruction expects;
* `OrderInv`: where the top level uses a global outside of blocks, it has a value, or is given one
  by an instruction before, or a failed line left it without one; and what is
  marked as defined has a value, or will be given one, or is such an orphan;
* `ScriptInv`: in a script no global is given a value twice, and all are defined
  once it runs;
* `PreviousInv`: what the statics of `assert_stack_effect` may be between lines,
  and `StackEffect`.

A line that fails shows why these are needed together: its code is gone while its
declarations stay, so `OrderInv` may not speak of a line with an error until the
line's end makes orphans of what it left. Code compiled when there were fewer
globals stays right because declarations only add signatures and mark some as
defined (`Grown`, `InstrKept`, `FlowsKept`). A call puts the body of a
function before the rest of the code; the body was compiled on an earlier line,
and is a `Piece` that leads from the stack it is called with to the same stack;
so is a block at the top level.

`GlobalsTyped` assumes `OneType`: a name is always declared with the same type.
`declare_global_variable` compares two declarations by constness only, and
without the assumption `ValuesTyped` is false.

### What stays with TLC

Liveness under fairness (`Returns`, `CollectionEnds`, `Terminates`) and
`ENABLED` are beyond the prover. What `Parser` promises is that
it agrees with a grammar, which is defined by recursion over texts of any length.
That the tokens of `Scanner` are the longest lexemes (`LongestLexeme`) is about which
characters a keyword or a mark is made of, and to the prover a string has no
characters. `Codegen` is only model-checked too: its properties are about the stack effect
of whole programs, and would need an invariant about every construct that is
open. Induction over numbers is possible where it is needed, because a set of
numbers has a least one (`SetInduction` in `Runtime_proofs`, `Chunk_proofs` and `Scanner_proofs`), for
functions defined recursively but not for recursive operators. That a recursive
function exists has to be shown too, by a set that is closed under what it asks
for (`WalkDefined`, `LoopDefined` in `Chunk_proofs` and `Scanner_proofs`).

## What was found

Where the code fails a property, the module has a way to leave the case out, so
that the property still says something of everything else. A reader can put the
case back and see it fail.

| What the code does | How to see it |
|---|---|
| `break` and `continue` in a loop pop captured locals without closing them (`emit_pop_innermost_loop`): the closure then shares a slot with whatever the stack holds next. | run `loops` |
| `reset_stack` forgets open upvalues without closing them, and the prompt goes on: a closure kept in a global reads slots of the next lines, or freed memory. | `NoneLost` under `ReplSpec` |
| A native called without arguments makes `erase`'s assertion fail in a debug build (`vm_inl.hxx:523`). | run `debug` reaches `status = "aborted"` |
| `num_slots` counts instructions in source order: every `while` takes one slot too many off the count, every `loop` without a `break` adds none for its value, and every `break` or `continue` takes off the locals it drops, which the code below it still has. A later expression overruns the stack. | `StackReserved` without `fun.undercount`; for a `continue`, from the sample `let`, `loop`, `if`, `continue` of six constructs |
| A local of a block that is a right operand gets the index of a slot below its own. | `UnderOperand = TRUE`; `NamesDenote` fails |
| A local function without a body takes the index of a slot that is never pushed, and its name fails an assertion. | `local_forward` in the sample `Scopes`; `NamesDenote` fails |
| `patch_jumps_in_innermost_loop` skips two bytes of `CLOSURE_LONG` instead of four, and may leave the placeholder of a `break` in the code. | `LongClosures = TRUE`; `NoPlaceholder` of `Chunk` fails |
| A carriage return in a string literal hangs the scanner (`scanner_inl.hxx:384`). | `Terminates` of `Scanner` without its clause |
| Types that are not true of the value: `and` and `or` are Bool, an `if` without `else` is never nil, `as` is not tested, `return;` gives nil whatever the return type, and function types with another return type may be assigned, at any depth. | `Sound` without its clause about `doubt` |
| A global declared again keeps its first type and takes a value of the second. | two types for a name in `TypesOf`; `ValuesTyped` fails |
| In a debug build, the line of the prompt after a runtime error fails the check of stack effects. | `AsExpected` instead of `StackEffect`, while running |

Seen while modelling, and about data the modules do not keep: the text before an
interpolation is cut at the wrong places (`scanner_inl.hxx:398`), a raw string of
one newline has its own quotes as its value (`scanner_inl.hxx:323`), `1e_` fails
an assertion (`scanner_inl.hxx:227`), six keywords of `doc/syntax.md` are
identifiers, with `-D trace-gc` freeing a function prints a name that may have
been freed just before (`memory_inl.hxx:109`), and `-c` and `-` are parsed and
then the prompt runs (`main.cxx:269`).

## Not modelled

* `bytes_allocated` and `next_gc`: when a release build collects.
* The parsing of the command line, reading a file, the buffer of the prompt
  (`main.cxx`), and how long the text exists into which strings point: a
  straight line of code around what `Session` models.
* The number an operator computes: open in `ClosureVM`, its type in `Typing`.
  Overflow of integers is undefined behaviour the repository says nothing about.
* The limit of 255 parameters and arguments (`MAX_FN_PARAMETERS`, in
  `argument_list` and `parameter_list_and_return_type`): no text of `Parser` is
  that long.
* What natives do, but for their being refused or pushing a result.
* The characters of a string when it is hashed or compared, and
  `hash_murmur.hxx`: `HashMap` holds for any hash function.
* `DynArray` and `FixedArray` as containers of elements with destructors: only
  the stack's reserve, move and erase.
* What is printed: error messages with their excerpt of the source, the
  disassembly, the trace.
* The test runner.
* Pointers into arrays of the compiler (the type set of a local across the
  compilation of an assigned expression): no module has addresses for them.
* One compilation as a whole: `Parser`, `Codegen`, `Typing` and `Runtime` each
  follow the same procedures for their own question, and the product of the four
  is out of TLC's reach. So a program is correctly typed in `Parser` and
  `Codegen`, and its text is well formed in `Typing`.

## Plan

All components with state are modelled, and the invariants of the machine, the
tables, the memory manager, the nesting and the lines of tokens, the bytecode, the
types and the globals of a session are proved. What is left:

* `Codegen`: its type invariant, and that a name denotes the slot the compiler
  gave it outside of loops.
