-------------------------- MODULE MCPacketContract --------------------------
(* The settings of every opcode, at the bounds of its checks.              *)
EXTENDS PacketContract

DoubleLimits == {-1000, -4, 1, 4, 5, 1000, NaN, Absent}
FrequencyLimits == {-4, 0, 4, 5, 60, Absent}
Grids == {-1, 0, 3, 7, NaN, Absent}
=============================================================================
