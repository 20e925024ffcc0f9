---------------------------- MODULE MCClosureVM ----------------------------
(***************************************************************************)
(* Instances of ClosureVM for TLC: a script with two functions, one that   *)
(* captures a local variable of its maker (which may be itself), and one   *)
(* made in it that captures that variable again and one more.              *)
(***************************************************************************)
EXTENDS ClosureVM

CONSTANTS script, outer, inner

Local(index) == [is_local |-> TRUE, index |-> index]
Enclosing(index) == [is_local |-> FALSE, index |-> index]

MCFunctions == {script, outer, inner}
MCArity == [f \in MCFunctions |-> IF f = inner THEN 1 ELSE 0]
MCMaxSlots == [f \in MCFunctions |-> IF f = script THEN 3 ELSE 2]
MCCaptures == (script :> <<>>) @@ (outer :> <<Local(1)>>)
                @@ (inner :> <<Local(1), Enclosing(0)>>)

\* The same with the smallest windows in which three calls can be nested.
TightMaxSlots == [f \in MCFunctions |-> IF f = inner THEN 1 ELSE 2]
=============================================================================
