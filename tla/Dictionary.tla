----------------------------- MODULE Dictionary -----------------------------
(***************************************************************************)
(* What a hash table promises its users (the interned strings, the indices *)
(* of the globals and of the constants): it is a partial function from     *)
(* keys to values, whatever was set and erased before, and an iteration    *)
(* sees every key once, even one that erases keys as it goes.              *)
(***************************************************************************)
EXTENDS Functions

CONSTANTS
  Key,
  Val,
  Absent     \* the result of looking up a key that is not there

VARIABLES
  map,       \* the function
  pending,   \* what is being set, NoPending if nothing is
  todo,      \* the keys an iteration has yet to visit
  busy,      \* whether an iteration is going on
  result     \* what the last operation returned

vars == <<map, pending, todo, busy, result>>

NoPending == <<>>
Idle == pending = NoPending /\ ~busy

Without(f, S) == Restrict(f, DOMAIN f \ S)
With(f, k, v) == [x \in DOMAIN f \cup {k} |-> IF x = k THEN v ELSE f[x]]

Init ==
  /\ map = <<>>
  /\ pending = NoPending
  /\ todo = {}
  /\ busy = FALSE
  /\ result = Absent

Get(k) ==
  /\ Idle
  /\ result' = IF k \in DOMAIN map THEN map[k] ELSE Absent
  /\ UNCHANGED <<map, pending, todo, busy>>

Erase(k) ==
  /\ Idle
  /\ result' = (k \in DOMAIN map)
  /\ map' = Without(map, {k})
  /\ UNCHANGED <<pending, todo, busy>>

\* Setting takes time, for the table may have to grow first; to do so it needs
\* memory, and to get that memory the collector may erase other keys.
Set(k, v) ==
  /\ pending \in {NoPending, <<k, v>>}
  /\ ~busy
  /\ result' = (k \notin DOMAIN map)
  /\ map' = With(map, k, v)
  /\ pending' = NoPending
  /\ UNCHANGED <<todo, busy>>

BeginSet(k, v) ==
  /\ Idle
  /\ \E white \in SUBSET (Key \ {k}) : map' = Without(map, white)
  /\ pending' = <<k, v>>
  /\ UNCHANGED <<todo, busy, result>>

BeginIteration ==
  /\ Idle
  /\ busy' = TRUE
  /\ todo' = DOMAIN map
  /\ UNCHANGED <<map, pending, result>>

Visit(k) ==
  /\ k \in todo
  /\ todo' = todo \ {k}
  /\ map' \in {map, Without(map, {k})}
  /\ UNCHANGED <<pending, busy, result>>

EndIteration ==
  /\ busy /\ todo = {}
  /\ busy' = FALSE
  /\ UNCHANGED <<map, pending, todo, result>>

Destroy ==
  /\ Idle
  /\ map' = <<>>
  /\ UNCHANGED <<pending, todo, busy, result>>

Next ==
  \/ \E k \in Key : Get(k) \/ Erase(k) \/ Visit(k)
  \/ \E k \in Key, v \in Val : Set(k, v) \/ BeginSet(k, v)
  \/ BeginIteration
  \/ EndIteration
  \/ Destroy

Spec == Init /\ [][Next]_vars
=============================================================================
