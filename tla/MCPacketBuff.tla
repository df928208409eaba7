---------------------------- MODULE MCPacketBuff ----------------------------
(* packet_buff on a small data area, for TLC.                              *)
EXTENDS PacketBuff
=============================================================================
