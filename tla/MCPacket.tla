------------------------------- MODULE MCPacket -------------------------------
(* Instances of Packet for TLC: the ends of every field and of the valid   *)
(* range.                                                                  *)
EXTENDS Packet

Edges ==
  [id : {15, 174, 240}, battery : {0, 1}, channel : {0, 3},
   temperature : {-2048, -400, -399, -1, 0, 599, 600},
   humidity : {45, 100, 101}]
=============================================================================
