----------------------------- MODULE MCHashMap -----------------------------
(***************************************************************************)
(* An instance of HashMap for TLC: keys that collide, one of them at the   *)
(* end of the table so that its search wraps around, and a value that is   *)
(* also the mark of a tombstone.                                           *)
(***************************************************************************)
EXTENDS HashMap, TLC

CONSTANTS a, b, c, d

MCKey == {a, b, c, d}
MCHash == (a :> 3) @@ (b :> 3) @@ (c :> 0) @@ (d :> 7)
=============================================================================
