---------------------------- MODULE MCStdinFramer ----------------------------
(* Instance of StdinFramer for TLC: a frame of one and one of two bytes, a  *)
(* line of odd length, one that is no number, and one that never fits.      *)
EXTENDS StdinFramer

CONSTANTS d1, d2

MCLines == {<<d1, d2>>, <<d2, d2, d1, d1>>, <<d1>>, <<d1, d2, Other, d1>>,
            <<d1, d1, d1, d1, d2, d2>>, <<>>}
=============================================================================
