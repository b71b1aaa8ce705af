--------------------------- MODULE MCHlsPlayback ---------------------------
(* Instance of HlsPlayback for TLC: MaxSeq + 1 segments can be listed, so *)
(* MaxSeq + 2 objects are never exhausted.                                *)
EXTENDS HlsPlayback

MCHandles == 1..(MaxSeq + 2)
MCDeclared == [n \in SeqNos |-> IF n = 0 THEN 1 ELSE 2]
\* More media than any segment declares; a single frame, and one without a
\* timestamp, are less.
MCDurations == {3}
=============================================================================
