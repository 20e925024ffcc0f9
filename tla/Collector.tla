----------------------------- MODULE Collector -----------------------------
(***************************************************************************)
(* The mark-and-sweep collector of memory_inl.hxx, at work on the objects  *)
(* of any program.                                                         *)
(*                                                                         *)
(* The program is whatever code allocates objects and writes their fields, *)
(* at addresses it can come to from the roots; Runtime shows that the code *)
(* of tx keeps to that.  A collection stops the program, and is itself one *)
(* step per iteration of its loops.                                        *)
(***************************************************************************)
EXTENDS Heap, Sequences, Integers

VARIABLES
  heap,      \* the objects that have not been freed
  objects,   \* VM::objects, the list of all objects, the newest first
  strings,   \* the keys of VM::strings, the interned strings
  roots,     \* what mark_roots() goes through
  marked,    \* the objects whose is_marked is set
  gray,      \* the elements of VM::gray_stack
  phase,     \* the loop that is running
  at         \* sweep(): how far it has come in the list

program == <<heap, objects, strings, roots>>
vars == <<heap, objects, strings, roots, marked, gray, phase, at>>

Phase == {"program", "trace", "table", "sweep", "destroy"}

Elements(s) == {s[i] : i \in DOMAIN s}

Live == Reachable(heap, roots)

Init ==
  /\ heap = Empty
  /\ objects = <<>>
  /\ strings = {}
  /\ roots = {}
  /\ marked = {}
  /\ gray = {}
  /\ phase = "program"
  /\ at = 1

----------------------------------------------------------------------------
(* The program. *)

Running == phase = "program" /\ UNCHANGED <<marked, gray, phase, at>>

(***************************************************************************)
(* allocate_object_extra_size() puts the new object at the head of the     *)
(* list; whoever asked for it pushes it, or stores it where it is a root,  *)
(* before it allocates again.                                              *)
(***************************************************************************)
AllocateObject(a, object) ==
  /\ a \in Address \ DOMAIN heap
  /\ heap' = Place(heap, a, object)
  /\ objects' = <<a>> \o objects
  /\ roots' = roots \cup {a}

Interned(t) == {s \in strings : heap[s].text = t}

(***************************************************************************)
(* make_string() of a text that is in the table: the program gets the      *)
(* string that is there, perhaps one that could not be reached any more.   *)
(***************************************************************************)
FindString(t) ==
  /\ Running
  /\ \E s \in Interned(t) : roots' = roots \cup {s}
  /\ UNCHANGED <<heap, objects, strings>>

\* Mutant: the table is not asked first.
MakeStringAnew(a, t) ==
  /\ Running
  /\ AllocateObject(a, [type |-> "string", text |-> t])
  /\ strings' = strings \cup {a}

MakeString(a, t) ==
  /\ Running
  /\ Interned(t) = {}
  /\ AllocateObject(a, [type |-> "string", text |-> t])
  /\ strings' = strings \cup {a}

MakeFunction(a) ==
  /\ Running
  /\ AllocateObject(a, [type |-> "function", name |-> Null, constants |-> {}])
  /\ UNCHANGED strings

MakeUpvalue(a) ==
  /\ Running
  /\ AllocateObject(a, [type |-> "upvalue", closed |-> Null])
  /\ UNCHANGED strings

MakeClosure(a, f) ==
  /\ Running
  /\ IsA(heap, f, "function") /\ f \in Live
  /\ AllocateObject(a, [type |-> "closure", function |-> f, upvalues |-> {}])
  /\ UNCHANGED strings

MakeNative(a) ==
  /\ Running
  /\ AllocateObject(a, [type |-> "native"])
  /\ UNCHANGED strings

Write(a, object) ==
  /\ Running
  /\ heap' = Place(heap, a, object)
  /\ UNCHANGED <<objects, strings, roots>>

(* begin_compiler() names the function it has made. *)
NameFunction(f, s) ==
  /\ IsA(heap, f, "function") /\ heap[f].name = Null
  /\ IsA(heap, s, "string")
  /\ {f, s} \subseteq Live
  /\ Write(f, [heap[f] EXCEPT !.name = s])

(* Chunk::add_constant() *)
AddConstant(f, c) ==
  /\ IsA(heap, f, "function")
  /\ IsA(heap, c, "string") \/ IsA(heap, c, "function")
  /\ c \notin heap[f].constants
  /\ {f, c} \subseteq Live
  /\ Write(f, [heap[f] EXCEPT !.constants = @ \cup {c}])

(* do_closure() fills in the upvalues of a closure. *)
Capture(c, u) ==
  /\ IsA(heap, c, "closure") /\ IsA(heap, u, "upvalue")
  /\ u \notin heap[c].upvalues
  /\ {c, u} \subseteq Live
  /\ Write(c, [heap[c] EXCEPT !.upvalues = @ \cup {u}])

(* close_upvalues(), and later the assignments to the closed variable *)
SetClosed(u, v) ==
  /\ IsA(heap, u, "upvalue") /\ heap[u].closed # v
  /\ v = Null \/ \E type \in {"string", "closure", "native"} : IsA(heap, v, type)
  /\ {u, v} \ {Null} \subseteq Live
  /\ Write(u, [heap[u] EXCEPT !.closed = v])

(* A reference is copied to a root, or a root no longer holds it. *)
Keep(a) ==
  /\ Running
  /\ a \notin roots /\ a \in Live
  /\ roots' = roots \cup {a}
  /\ UNCHANGED <<heap, objects, strings>>

Drop(a) ==
  /\ Running
  /\ a \in roots
  /\ roots' = roots \ {a}
  /\ UNCHANGED <<heap, objects, strings>>

Program ==
  \/ \E t \in Text : FindString(t)
  \/ \E a \in Address, t \in Text : MakeString(a, t)
  \/ \E a \in Address :
       \/ MakeFunction(a) \/ MakeUpvalue(a) \/ MakeNative(a)
       \/ Keep(a) \/ Drop(a)
       \/ SetClosed(a, Null)
  \/ \E a, b \in Address :
       \/ MakeClosure(a, b) \/ NameFunction(a, b) \/ AddConstant(a, b)
       \/ Capture(a, b) \/ SetClosed(a, b)

----------------------------------------------------------------------------
(* collect_garbage() *)

(***************************************************************************)
(* mark_object() of every object in A: one that is already marked is left  *)
(* alone, the others are marked and pushed on the gray stack.              *)
(***************************************************************************)
Mark(A) ==
  /\ marked' = marked \cup A
  /\ gray' = (A \ marked) \cup gray

(***************************************************************************)
(* reallocate_impl() decides to collect: always in a debug build, when     *)
(* bytes_allocated is beyond next_gc otherwise.                            *)
(***************************************************************************)
MarkRoots ==
  /\ phase = "program"
  /\ Mark(roots)
  /\ phase' = "trace"
  /\ UNCHANGED <<heap, objects, strings, roots, at>>

\* Mutants: what is marked on the way is not pushed; nothing is popped.
BlackenOnly(a) ==
  /\ phase = "trace"
  /\ a \in gray
  /\ marked' = marked \cup References(heap[a])
  /\ gray' = gray \ {a}
  /\ UNCHANGED <<heap, objects, strings, roots, phase, at>>

BlackenInPlace(a) ==
  /\ phase = "trace"
  /\ a \in gray
  /\ Mark(References(heap[a]))
  /\ UNCHANGED <<heap, objects, strings, roots, phase, at>>

(* One object of the gray stack; the order does not matter. *)
Blacken(a) ==
  /\ phase = "trace"
  /\ a \in gray
  /\ LET new == References(heap[a])
     IN  /\ marked' = marked \cup new
         /\ gray' = (gray \ {a}) \cup (new \ marked)
  /\ UNCHANGED <<heap, objects, strings, roots, phase, at>>

EndTrace ==
  /\ phase = "trace"
  /\ gray = {}
  /\ phase' = "table"
  /\ UNCHANGED <<heap, objects, strings, roots, marked, gray, at>>

\* Mutant: the table keeps the strings that are about to be freed.
RemoveNothing ==
  /\ phase = "table"
  /\ phase' = "sweep"
  /\ at' = 1
  /\ UNCHANGED <<heap, objects, strings, roots, marked, gray>>

(* table_remove_white(), whose loop is part of HashMap *)
RemoveWhite ==
  /\ phase = "table"
  /\ strings' = strings \cap marked
  /\ phase' = "sweep"
  /\ at' = 1
  /\ UNCHANGED <<heap, objects, roots, marked, gray>>

FreeObject(a) == heap' = Part(heap, DOMAIN heap \ {a})

\* Mutants: a mark is left for the next collection; a freed object stays in
\* the list; the object after it is passed over.
KeepMark ==
  /\ phase = "sweep"
  /\ at <= Len(objects) /\ objects[at] \in marked
  /\ at' = at + 1
  /\ UNCHANGED <<heap, objects, strings, roots, marked, gray, phase>>

FreeLinked ==
  /\ phase = "sweep"
  /\ at <= Len(objects) /\ objects[at] \notin marked
  /\ FreeObject(objects[at])
  /\ at' = at + 1
  /\ UNCHANGED <<objects, strings, roots, marked, gray, phase>>

FreeAndSkip ==
  /\ phase = "sweep"
  /\ at <= Len(objects) /\ objects[at] \notin marked
  /\ FreeObject(objects[at])
  /\ objects' = SubSeq(objects, 1, at - 1) \o SubSeq(objects, at + 1, Len(objects))
  /\ at' = at + 1
  /\ UNCHANGED <<strings, roots, marked, gray, phase>>

KeepMarked ==
  /\ phase = "sweep"
  /\ at <= Len(objects) /\ objects[at] \in marked
  /\ marked' = marked \ {objects[at]}
  /\ at' = at + 1
  /\ UNCHANGED <<heap, objects, strings, roots, gray, phase>>

FreeUnmarked ==
  /\ phase = "sweep"
  /\ at <= Len(objects) /\ objects[at] \notin marked
  /\ FreeObject(objects[at])
  /\ objects' = SubSeq(objects, 1, at - 1) \o SubSeq(objects, at + 1, Len(objects))
  /\ UNCHANGED <<strings, roots, marked, gray, phase, at>>

EndSweep ==
  /\ phase = "sweep"
  /\ at > Len(objects)
  /\ phase' = "program"
  /\ at' = 1
  /\ UNCHANGED <<heap, objects, strings, roots, marked, gray>>

(***************************************************************************)
(* ~VM() destroys the stack, the frames and the tables, then frees the     *)
(* list from its head.                                                     *)
(***************************************************************************)
Destroy ==
  /\ phase = "program"
  /\ phase' = "destroy"
  /\ roots' = {}
  /\ strings' = {}
  /\ UNCHANGED <<heap, objects, marked, gray, at>>

FreeFirst ==
  /\ phase = "destroy"
  /\ objects # <<>>
  /\ FreeObject(Head(objects))
  /\ objects' = Tail(objects)
  /\ UNCHANGED <<strings, roots, marked, gray, phase, at>>

Collect ==
  \/ MarkRoots
  \/ \E a \in Address : Blacken(a)
  \/ EndTrace \/ RemoveWhite
  \/ KeepMarked \/ FreeUnmarked \/ EndSweep

Loops == Collect /\ phase # "program"

Next == Program \/ Collect \/ Destroy \/ FreeFirst

(***************************************************************************)
(* The program is stopped: it runs again once the collection has ended.    *)
(* Nothing makes it collect, allocate or end.                              *)
(***************************************************************************)
Spec == Init /\ [][Next]_vars /\ WF_vars(Loops) /\ WF_vars(FreeFirst)

----------------------------------------------------------------------------
(* Properties. *)

(***************************************************************************)
(* Every object is in the list exactly once, at all times: what the list   *)
(* has lost is never freed, what it has twice is freed twice.              *)
(***************************************************************************)
ListIsHeap ==
  /\ Elements(objects) = DOMAIN heap
  /\ \A i, j \in DOMAIN objects : objects[i] = objects[j] => i = j

(***************************************************************************)
(* The type invariant: the list, and nothing freed is in the table, a root *)
(* or gray.                                                                *)
(***************************************************************************)
TypeOK ==
  /\ IsHeap(heap)
  /\ objects \in Seq(DOMAIN heap) /\ ListIsHeap
  /\ strings \subseteq DOMAIN heap
  /\ roots \subseteq DOMAIN heap
  /\ marked \subseteq DOMAIN heap
  /\ gray \subseteq marked
  /\ phase \in Phase
  /\ at \in 1 .. Len(objects) + 1

(***************************************************************************)
(* Every reference one can come to is to an object that has not been       *)
(* freed, and of the kind the code casts it to (as<ObjUpvalue>() and so    *)
(* on), although addresses are used again.  The table of strings, which    *)
(* keeps nothing alive, has no freed string either, not even half-way      *)
(* through a sweep.                                                        *)
(***************************************************************************)
NothingDangles ==
  /\ \A a \in Live : a \in DOMAIN heap /\ WellTyped(heap, heap[a])
  /\ \A s \in strings : IsA(heap, s, "string")

(***************************************************************************)
(* Strings are equal if and only if they are at the same address           *)
(* (operator== of Value compares pointers): each one in use is in the      *)
(* table, which has no text twice.                                         *)
(***************************************************************************)
StringsUnique ==
  phase # "destroy" =>
    /\ \A a \in Live : heap[a].type = "string" => a \in strings
    /\ \A s, t \in strings : heap[s].text = heap[t].text => s = t

(***************************************************************************)
(* While tracing, an object that has been dealt with refers to no unmarked *)
(* one, and only what can be reached is marked, in the end all of it.  No  *)
(* mark outlives a collection: mark_object() would pass over such an       *)
(* object the next time, and over all it refers to.                        *)
(***************************************************************************)
NoBlackToWhite ==
  /\ phase \in {"program", "destroy"} => marked = {} /\ gray = {}
  /\ phase \in {"trace", "table"} =>
       /\ roots \subseteq marked /\ marked \subseteq Live
       /\ \A a \in marked \ gray : References(heap[a]) \subseteq marked
  /\ phase = "table" => marked = Live

(***************************************************************************)
(* A collection leaves nothing that could not be reached when it began.    *)
(***************************************************************************)
CollectsAll ==
  [][phase = "sweep" /\ phase' = "program" => DOMAIN heap = Live]_vars

(***************************************************************************)
(* Collections, and the destruction of the machine, come to their end.     *)
(***************************************************************************)
CollectionEnds ==
  /\ phase \in {"trace", "table", "sweep"} ~> phase = "program"
  /\ phase = "destroy" ~> heap = Empty

(***************************************************************************)
(* The program cannot tell that there is a collector: the objects it can   *)
(* come to are as it made and wrote them, whatever is freed meanwhile.     *)
(***************************************************************************)
Promise == INSTANCE ProgramHeap WITH live <- Part(heap, Live)

ImplementsProgramHeap == Promise!Spec
=============================================================================
