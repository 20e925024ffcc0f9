---------------------------- MODULE ProgramHeap ----------------------------
(***************************************************************************)
(* What the memory manager promises the rest of tx: objects that keep      *)
(* their contents for as long as anybody can come to them, as if memory    *)
(* were endless.  There is no collector here.  What nobody can come to is  *)
(* forgotten at once; that a string with its text exists nowhere else is   *)
(* part of the promise, since the machine compares strings by address.     *)
(***************************************************************************)
EXTENDS Heap

VARIABLES
  live,    \* the objects that can be reached
  roots    \* where reaching starts

vars == <<live, roots>>

Init == live = Empty /\ roots = {}

Fresh(object) ==
  object.type = "string" =>
    \A a \in DOMAIN live : live[a].type = "string" => live[a].text # object.text

(* A new object, known to the program. *)
Make(a, object) ==
  /\ a \notin DOMAIN live
  /\ Fresh(object)
  /\ References(object) \subseteq DOMAIN live
  /\ live' = Place(live, a, object)
  /\ roots' = roots \cup {a}

(* The program changes a field of an object. *)
Write(a, object) ==
  /\ a \in DOMAIN live
  /\ object.type = live[a].type /\ object.type # "string"
  /\ References(object) \subseteq DOMAIN live
  /\ LET written == Place(live, a, object)
     IN  live' = Part(written, Reachable(written, roots))
  /\ UNCHANGED roots

(* The program keeps, or no longer keeps, references of its own. *)
Keep(R) ==
  /\ R \subseteq DOMAIN live
  /\ roots' = R
  /\ live' = Part(live, Reachable(live, R))

(* The object a step makes or writes can be reached after it. *)
Next ==
  \/ \E a \in DOMAIN live' : Make(a, live'[a]) \/ Write(a, live'[a])
  \/ \E R \in SUBSET Address : Keep(R)

Spec == Init /\ [][Next]_vars
=============================================================================
