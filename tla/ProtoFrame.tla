----------------------------- MODULE ProtoFrame -----------------------------
(***************************************************************************)
(* The wire format of the protocol (comm-protocol-stack/src/proto/         *)
(* proto_frame.h and proto_packer.c):                                      *)
(*   AA BB | length (2) | address | command | data | CRC (2) | CC DD       *)
(* The length counts from the address up to and including the CRC; the CRC *)
(* covers the address, the command and the data.                           *)
(***************************************************************************)
EXTENDS Integers, Sequences

CONSTANTS
  MaxDataSize,      \* PROTO_MAX_DATA_SIZE: 1024 in the code
  CrcUpdate(_, _)   \* crc16_modbus_update over one byte

Byte == {n \in Nat : n <= 255}
UInt16 == {n \in Nat : n <= 65535}

\* The largest frame length fits its uint16_t.
ASSUME FrameAssumption == MaxDataSize \in Nat \ {0} /\ MaxDataSize <= 65525

-----------------------------------------------------------------------------
HeadMark == <<170, 187>>
TailMark == <<204, 221>>

AddrCmdCrc == 4                            \* PROTO_ADDR_SIZE + CMD_SIZE + CRC_SIZE
MaxFrameSize == 10 + MaxDataSize           \* PROTO_MAX_FRAME_SIZE

\* A two-byte field, high byte first.
BigEndian(n) == <<n \div 256, n % 256>>

\* crc16_modbus: the update over the bytes from the initial value on.
Crc(bytes) ==
  LET crc[i \in 0..Len(bytes)] == IF i = 0 THEN 65535 ELSE CrcUpdate(crc[i - 1], bytes[i])
  IN  crc[Len(bytes)]

\* proto_pack into a buffer large enough for every frame: 0 bytes when the data is too long.
Pack(addr, cmd, data) ==
  LET body == <<addr, cmd>> \o data
  IN  IF Len(data) > MaxDataSize THEN <<>>
      ELSE HeadMark \o BigEndian(AddrCmdCrc + Len(data)) \o body \o BigEndian(Crc(body)) \o TailMark
=============================================================================
