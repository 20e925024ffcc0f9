----------------------------- MODULE MCRuntime -----------------------------
(* Instances of Runtime for TLC. *)
EXTENDS Runtime, TLC

(* Addresses in any order: model values, which are alike. *)
Anywhere(A) == A
Symmetry == Permutations(Address)

(* The lowest free address: what was freed is used again at once. *)
Lowest(A) == {a \in A : \A b \in A : a <= b}
=============================================================================
