---------------------------- MODULE MCProtoStack ----------------------------
(***************************************************************************)
(* A stack with a ring of 16 bytes and polls of up to 16, so that a frame  *)
(* and a half fit, and a peer that sends up to three different frames of   *)
(* 11 to 13 bytes, one of them with a frame head among its data.  The line *)
(* may lose 11 bytes, the length of the shorter frames: then the start of  *)
(* one and the end of another make up a frame that only its CRC betrays.   *)
(***************************************************************************)
EXTENDS ProtoStack, Crc16

MCCommands ==
  {[addr |-> 1, cmd |-> 3, data |-> <<7>>],
   [addr |-> 2, cmd |-> 3, data |-> <<8>>],
   [addr |-> 2, cmd |-> 3, data |-> <<170, 187, 0>>]}

MCReads == {1, 5, 16}
=============================================================================
