--------------------------- MODULE MCPacketStream ---------------------------
(* PacketStream with a device that sends a message of two bytes, an empty    *)
(* one and another of two bytes.  A byte read as a length is 1.              *)
EXTENDS PacketStream

MCStream == <<2, 1, 1, 0, 2, 1, 1>>
MCHeader == <<1, 4, 5, 8>>
=============================================================================
