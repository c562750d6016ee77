------------------------------- MODULE Crc16 -------------------------------
(***************************************************************************)
(* The checksum of a protocol frame: CRC16-Modbus, bit by bit              *)
(* (comm-protocol-stack/src/core/crc.c).                                   *)
(***************************************************************************)
EXTENDS Integers, Sequences, SequencesExt, Bitwise

\* One turn of the inner loop: the low bit is shifted out and, when set, folded back.
Shifted(crc) == IF crc % 2 = 1 THEN (crc \div 2) ^^ 40961 ELSE crc \div 2

EightTimes(crc) ==
  Shifted(Shifted(Shifted(Shifted(Shifted(Shifted(Shifted(Shifted(crc))))))))

\* crc16_modbus_update over one byte
ModbusUpdate(crc, byte) == EightTimes(crc ^^ byte)

\* crc16_modbus
Modbus(bytes) == FoldLeft(ModbusUpdate, 65535, bytes)

\* The same update by table, which is what a bounded check can afford: the eight shifts
\* are linear over exclusive or and only see the low byte.
Xor8 == [a \in 0..255 |-> [b \in 0..255 |-> a ^^ b]]
High == [b \in 0..255 |-> EightTimes(b) \div 256]
Low == [b \in 0..255 |-> EightTimes(b) % 256]
UpdateByTable(crc, byte) ==
  LET i == Xor8[crc % 256][byte]
  IN  High[i] * 256 + Xor8[crc \div 256][Low[i]]
=============================================================================
