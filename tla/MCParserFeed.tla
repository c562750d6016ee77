---------------------------- MODULE MCParserFeed ----------------------------
(***************************************************************************)
(* Lines of one junk prefix and two frames, with no byte damaged or any    *)
(* one of them replaced by another value, on a parser with room for four   *)
(* data bytes and the real checksum.  The payloads hold head bytes, a      *)
(* whole head, and bytes that look like the end of a frame.                *)
(***************************************************************************)
EXTENDS ParserFeed, Crc16

CONSTANT MCDamage   \* values a damaged byte may take

MCMaxDataSize == 4

\* A payload that ends the way the frame <<1, 4>> without payload would.
Trailer == BigEndian(Modbus(<<1, 4>>)) \o TailMark

MCFrames == {Pack(1, 4, <<>>), Pack(3, 2, <<170, 187>>), Pack(1, 4, Trailer)}
MCJunk == {<<>>, <<170>>, <<0, 170, 170, 187>>}

\* junk, then two frames
Clean(junk, f, g) ==
  [bytes |-> junk \o f \o g,
   frames |-> {[at |-> Len(junk), frame |-> f], [at |-> Len(junk \o f), frame |-> g]},
   noise |-> 0]

Damaged(clean, i, b) ==
  [bytes |-> [clean.bytes EXCEPT ![i] = b],
   frames |-> {f \in clean.frames : i <= f.at \/ i > f.at + Len(f.frame)},
   noise |-> i]

CleanLines == {Clean(junk, f, g) : junk \in MCJunk, f \in MCFrames, g \in MCFrames}

MCLines ==
  CleanLines
    \cup UNION {{Damaged(clean, i, b) : b \in MCDamage \ {clean.bytes[i]}} :
                  clean \in CleanLines, i \in 1..20}

\* The table agrees with the shifts, and the update by table with the bitwise one.
ASSUME TableAssumption ==
  \A crc \in {0, 1, 255, 256, 4660, 40961, 65535} : \A b \in {0, 1, 127, 170, 187, 255} :
    UpdateByTable(crc, b) = ModbusUpdate(crc, b)
=============================================================================
