-------------------------- MODULE MCBlockingQueue --------------------------
(* Instance of BlockingQueue for TLC: more threads than places. *)
EXTENDS BlockingQueue
=============================================================================
