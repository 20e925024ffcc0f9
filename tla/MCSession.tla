----------------------------- MODULE MCSession -----------------------------
(* An instance of Session for TLC: a variable and two functions, one of    *)
(* them native.                                                            *)
EXTENDS Session, TLC

OneEach == [name \in Names |-> IF name = "g" THEN {"Int"} ELSE {"Fn"}]
Few == "prompt" :> 2 @@ "script" :> 4
=============================================================================
