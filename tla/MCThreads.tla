----------------------------- MODULE MCThreads ------------------------------
(* Threads with as many threads as fit: FIFO and pending stack have just   *)
(* the room the assumption asks for.                                       *)
EXTENDS Threads

Tight == Cardinality(Pool)
=============================================================================
