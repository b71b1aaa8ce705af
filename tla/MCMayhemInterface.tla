------------------------- MODULE MCMayhemInterface -------------------------
(* Instance of MayhemInterface for TLC. *)
EXTENDS MayhemInterface
=============================================================================
