-------------------------- MODULE MCSegmentDecoder --------------------------
(* Instance of SegmentDecoder for TLC: every segment of at most MaxPackets *)
(* packets.                                                                *)
EXTENDS SegmentDecoder

CONSTANT MaxPackets

MCContents == UNION {[1..n -> Kinds] : n \in 0..MaxPackets}
=============================================================================
