------------------------- MODULE MCPacketProcessor -------------------------
(* Instance of PacketProcessor for TLC.  Of the lengths, 60 becomes 15360 *)
(* in the other byte order, 512 becomes 2, less than the header, and 257  *)
(* stays as it is.                                                        *)
EXTENDS PacketProcessor

MCLengths == {60, 257, 512}
=============================================================================
