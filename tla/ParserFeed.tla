----------------------------- MODULE ParserFeed -----------------------------
(***************************************************************************)
(* A caller feeds the receiving state machine one byte at a time           *)
(* (README.md:132-137 of comm-protocol-stack) from a line that carries     *)
(* packed frames, noise between them and at most one damaged byte.  It may *)
(* reset the parser whenever it likes: after a frame, after an error, in   *)
(* the middle of a frame, or never.                                        *)
(***************************************************************************)
EXTENDS ProtoParser

CONSTANT
  Lines   \* what a line may carry: records of
          \*   bytes   the bytes in the order they arrive
          \*   frames  the intact frames in it, [at |-> bytes before it, frame |-> its bytes]
          \*   noise   the position of the damaged byte, 0 if there is none

\* What arrives is bytes.
ASSUME LinesAssumption == \A l \in Lines : l.bytes \in Seq(Byte)

\* An intact frame lies on the line where it says, as proto_pack builds it.
ASSUME FramesAssumption ==
  \A l \in Lines : \A f \in l.frames :
    LET frame == f.frame
        data == SubSeq(frame, 7, Len(frame) - 4)
    IN  /\ frame[5] \in Byte /\ frame[6] \in Byte
        /\ data \in Seq(Byte) /\ Len(data) <= MaxDataSize
        /\ frame = Pack(frame[5], frame[6], data)
        /\ f.at \in Nat /\ \A k \in 1..Len(frame) : l.bytes[f.at + k] = frame[k]

VARIABLES
  ret,      \* what the last proto_parser_feed returned
  line,     \* the line
  pos,      \* how many of its bytes were fed
  since,    \* pos at the last reset
  locked    \* the intact frame whose first byte found the parser hunting, if any

feed_vars == <<parser, ret, line, pos, since, locked>>

-----------------------------------------------------------------------------
NoFrame == [at |-> -1, frame |-> <<>>]

FeedInit ==
  /\ parser = Fresh
  /\ ret = -1
  /\ line \in Lines
  /\ pos = 0 /\ since = 0
  /\ locked = NoFrame

\* The next byte arrives and the caller feeds it.
Feed ==
  /\ pos < Len(line.bytes)
  /\ LET fed == Fed(parser, line.bytes[pos + 1])
     IN  parser' = fed.parser /\ ret' = fed.ret
  /\ pos' = pos + 1
  /\ locked' = IF Hunting(parser) /\ \E f \in line.frames : f.at = pos
                 THEN CHOOSE f \in line.frames : f.at = pos
                 ELSE locked
  /\ UNCHANGED <<line, since>>

\* The caller resets the parser.
Reset ==
  /\ parser' = Fresh
  /\ since' = pos
  /\ locked' = NoFrame
  /\ UNCHANGED <<ret, line, pos>>

FeedNext == Feed \/ Reset

FeedSpec == FeedInit /\ [][FeedNext]_feed_vars

-----------------------------------------------------------------------------
\* Every field keeps its C type.
TypeOK == parser \in Parsers /\ ret \in {-2, -1, 0}

\* A length that a damaged byte made too large lets the data run past the data array
\* (proto_parser.c:78 compares the payload length with the size of a whole frame), but
\* never out of the parser: the last of the six bytes too many is its padding.
OverrunStaysInside ==
  /\ parser.received_len <= parser.data_len
  /\ parser.data_len <= MaxDataSize + 6

\* What the parser calls a frame was on the line, byte for byte, as proto_pack would have
\* built it, ending with the byte just fed; and none of its bytes was fed before the
\* last reset, so no byte ever belongs to two frames.
CompleteFrameWasOnTheLine ==
  [][parser.state # "COMPLETE" /\ parser'.state = "COMPLETE" /\ parser'.data_len <= MaxDataSize
     => LET f == parser'
            bytes == Pack(f.addr, f.cmd, SubSeq(f.data, 1, f.data_len))
        IN  /\ Len(bytes) <= pos' - since
            /\ bytes = SubSeq(line.bytes, pos' - Len(bytes) + 1, pos')]_feed_vars

\* An intact frame whose first byte finds the parser hunting for a head is recognised at
\* its last byte, whatever preceded it: noise, half a head, a broken frame.
HuntedFrameIsFound ==
  (locked # NoFrame /\ pos = locked.at + Len(locked.frame))
    => /\ parser.state = "COMPLETE"
       /\ locked.frame = Pack(parser.addr, parser.cmd, SubSeq(parser.data, 1, parser.data_len))

\* A frame with a damaged byte is never taken for a frame, unless the damage is in its
\* length field, the one field neither compared nor covered by the checksum.
DamageIsDetected ==
  [][parser.state # "COMPLETE" /\ parser'.state = "COMPLETE" /\ parser'.data_len <= MaxDataSize
     => LET start == pos' - (10 + parser'.data_len)
        IN  line.noise <= start \/ line.noise > pos' \/ line.noise - start \in {3, 4}]_feed_vars
=============================================================================
