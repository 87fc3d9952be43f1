-------------------------- MODULE MCPacketStorage --------------------------
(* Instances of PacketStorageHistory for TLC.                              *)
EXTENDS PacketStorageHistory

NoClockSteps == {}

(* A jump beyond the silent timeout, and one back below every time stamp.  *)
ClockJumps == {-2, SilentTimeout + 1}
=============================================================================
