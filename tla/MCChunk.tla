------------------------------ MODULE MCChunk ------------------------------
(* An instance of Chunk for TLC, with bytes below eight: a function whose  *)
(* next constants need the long form and whose jumps may be too long, and  *)
(* one that spreads over several lines.                                    *)
EXTENDS Chunk

SomeUpvalues == {<<>>, <<<<TRUE, 2>>, <<FALSE, 9>>>>}

SomeFunctions ==
  {[prelude |-> 7, sizes |-> {1, 60}, lines |-> 1, steps |-> 6],
   [prelude |-> 0, sizes |-> {1, 3}, lines |-> 4, steps |-> 4]}
=============================================================================
