------------------------------- MODULE Heap --------------------------------
(***************************************************************************)
(* The objects of tx (object.hxx) and what they refer to.  A heap is a     *)
(* function from the addresses in use to objects.  Of an object only what  *)
(* the collector and the table of strings look at is kept: a value that is *)
(* not an object is Null, a sequence of references is a set.               *)
(***************************************************************************)
EXTENDS FiniteSets, Integers

CONSTANTS
  Address,   \* the places an object can be at, used again once it is freed
  Text,      \* the contents of strings
  Null       \* no object: nullptr, or a value of another kind

ASSUME AddressAssumption == IsFiniteSet(Address) /\ Null \notin Address

Empty == [a \in {} |-> Null]

(***************************************************************************)
(* The kinds of objects: ObjString, ObjFunction, ObjUpvalue, ObjClosure    *)
(* and ObjNative.                                                          *)
(***************************************************************************)
Strings   == [type : {"string"}, text : Text]
Functions == [type : {"function"}, name : Address \cup {Null},
              constants : SUBSET Address]
Upvalues  == [type : {"upvalue"}, closed : Address \cup {Null}]
Closures  == [type : {"closure"}, function : Address,
              upvalues : SUBSET Address]
Natives   == [type : {"native"}]

Object == Strings \cup Functions \cup Upvalues \cup Closures \cup Natives

IsHeap(heap) ==
  /\ DOMAIN heap \subseteq Address
  /\ heap \in [DOMAIN heap -> Object]

\* Mutant: the value of a closed upvalue is forgotten.
ReferencesButClosed(object) ==
  CASE object.type = "closure"  -> {object.function} \cup object.upvalues
    [] object.type = "function" -> ({object.name} \ {Null}) \cup object.constants
    [] OTHER -> {}

(***************************************************************************)
(* What blacken_object marks when it comes to an object.                   *)
(***************************************************************************)
References(object) ==
  CASE object.type = "closure"  -> {object.function} \cup object.upvalues
    [] object.type = "function" -> ({object.name} \ {Null}) \cup object.constants
    [] object.type = "upvalue"  -> {object.closed} \ {Null}
    [] OTHER -> {}

ClosedUnder(heap, A) ==
  \A a \in A \cap DOMAIN heap : References(heap[a]) \subseteq A

(***************************************************************************)
(* The addresses one can come to from the roots.                           *)
(***************************************************************************)
Reachable(heap, roots) ==
  {a \in Address : \A A \in SUBSET Address :
                      roots \subseteq A /\ ClosedUnder(heap, A) => a \in A}

(***************************************************************************)
(* The same, as trace_references() finds them: what is marked, then what   *)
(* that refers to, until there is nothing more.                            *)
(***************************************************************************)
Traced(heap, roots) ==
  LET after[n \in 0 .. Cardinality(Address)] ==
        IF n = 0 THEN roots
        ELSE LET marked == after[n - 1]
             IN  marked \cup UNION {References(heap[a]) : a \in marked \cap DOMAIN heap}
  IN  after[Cardinality(Address)]

Part(heap, A) == [a \in A \cap DOMAIN heap |-> heap[a]]

Place(heap, a, object) ==
  [b \in DOMAIN heap \cup {a} |-> IF b = a THEN object ELSE heap[b]]

IsA(heap, a, type) == a \in DOMAIN heap /\ heap[a].type = type

(***************************************************************************)
(* What the code casts a reference to (as<ObjString>() and so on) is what  *)
(* it refers to.                                                           *)
(***************************************************************************)
WellTyped(heap, object) ==
  CASE object.type = "closure"  -> /\ IsA(heap, object.function, "function")
                                   /\ \A u \in object.upvalues : IsA(heap, u, "upvalue")
    [] object.type = "function" -> /\ object.name # Null => IsA(heap, object.name, "string")
                                   /\ \A c \in object.constants :
                                         IsA(heap, c, "string") \/ IsA(heap, c, "function")
    [] object.type = "upvalue"  -> object.closed # Null =>
                                     \E type \in {"string", "closure", "native"} :
                                        IsA(heap, object.closed, type)
    [] OTHER -> TRUE
=============================================================================
