----------------------------- MODULE ProtoParser -----------------------------
(***************************************************************************)
(* The receiving state machine (comm-protocol-stack/src/proto/             *)
(* proto_parser.c): its state, and as operators what proto_parser_feed     *)
(* makes of a parser and a byte.  ParserFeed runs it on a line, ProtoStack *)
(* inside the stack.                                                       *)
(***************************************************************************)
EXTENDS ProtoFrame

VARIABLE parser   \* the proto_parser_t

States == {"WAIT_HEAD1", "WAIT_HEAD2", "WAIT_LEN1", "WAIT_LEN2", "WAIT_ADDR", "WAIT_CMD",
           "WAIT_DATA", "WAIT_CRC1", "WAIT_CRC2", "WAIT_TAIL1", "WAIT_TAIL2",
           "COMPLETE", "ERROR"}

ErrNone == 0
ErrCrc == 1
ErrLen == 2
ErrFrame == 5

Zeroes == [i \in 1..MaxDataSize |-> 0]

\* proto_parser_init and proto_parser_reset: all zero, waiting for a head.
Fresh == [state |-> "WAIT_HEAD1", expected_len |-> 0, received_len |-> 0,
          addr |-> 0, cmd |-> 0, data_len |-> 0, data |-> Zeroes, crc |-> 0,
          crc_calc |-> 0, error |-> ErrNone]

-----------------------------------------------------------------------------
\* proto_parser_feed, one operator for each state: the parser after the byte, and the
\* result.  -1 is "go on", -2 an error, 0 a complete frame.
Goes(p, state) == [parser |-> [p EXCEPT !.state = state], ret |-> -1]
Fails(p, error) == [parser |-> [p EXCEPT !.state = "ERROR", !.error = error], ret |-> -2]

FeedHead1(p, b) == Goes(p, IF b = HeadMark[1] THEN "WAIT_HEAD2" ELSE "WAIT_HEAD1")

\* mutated FeedHead2: a repeated first head byte does not count as one
FeedHead2NoResync(p, b) ==
  IF b = HeadMark[2] THEN Goes([p EXCEPT !.crc_calc = 65535], "WAIT_LEN1")
  ELSE Goes(p, "WAIT_HEAD1")

FeedHead2(p, b) ==
  IF b = HeadMark[2] THEN Goes([p EXCEPT !.crc_calc = 65535], "WAIT_LEN1")
  ELSE Goes(p, IF b = HeadMark[1] THEN "WAIT_HEAD2" ELSE "WAIT_HEAD1")

FeedLen1(p, b) == Goes([p EXCEPT !.expected_len = b * 256], "WAIT_LEN2")

\* mutated FeedLen2: no upper limit on the length
FeedLen2NoLimit(p, b) ==
  LET len == p.expected_len + b
      q == [p EXCEPT !.expected_len = len]
  IN  IF len < AddrCmdCrc THEN Fails(q, ErrLen)
      ELSE Goes([q EXCEPT !.data_len = len - AddrCmdCrc, !.received_len = 0, !.data = Zeroes],
                "WAIT_ADDR")

\* The length must leave room for address, command and CRC, and may not exceed
\* PROTO_MAX_FRAME_SIZE, a bound on the whole frame and not on what the length counts.
FeedLen2(p, b) ==
  LET len == p.expected_len + b
      q == [p EXCEPT !.expected_len = len]
  IN  IF len < AddrCmdCrc \/ len > MaxFrameSize THEN Fails(q, ErrLen)
      ELSE Goes([q EXCEPT !.data_len = len - AddrCmdCrc, !.received_len = 0, !.data = Zeroes],
                "WAIT_ADDR")

FeedAddr(p, b) ==
  Goes([p EXCEPT !.addr = b, !.crc_calc = CrcUpdate(@, b)], "WAIT_CMD")

FeedCmd(p, b) ==
  Goes([p EXCEPT !.cmd = b, !.crc_calc = CrcUpdate(@, b)],
       IF p.data_len > 0 THEN "WAIT_DATA" ELSE "WAIT_CRC1")

\* frame.data[i] = b.  From MaxDataSize on that is outside the array and lands in the
\* fields behind it: crc, crc_calc (low byte first), error and a byte of padding.
LowByte(n, b) == ((n \div 256) * 256) + b
HighByte(n, b) == (b * 256) + (n % 256)
Store(p, i, b) ==
  [p EXCEPT
     !.data     = IF i < MaxDataSize THEN [@ EXCEPT ![i + 1] = b] ELSE @,
     !.crc      = IF i = MaxDataSize THEN LowByte(@, b)
                  ELSE IF i = MaxDataSize + 1 THEN HighByte(@, b) ELSE @,
     !.crc_calc = IF i = MaxDataSize + 2 THEN LowByte(@, b)
                  ELSE IF i = MaxDataSize + 3 THEN HighByte(@, b) ELSE @,
     !.error    = IF i = MaxDataSize + 4 THEN b ELSE @]

FeedData(p, b) ==
  LET q == IF p.received_len < p.data_len
             THEN [Store(p, p.received_len, b) EXCEPT
                     !.received_len = @ + 1, !.crc_calc = CrcUpdate(@, b)]
             ELSE p
  IN  Goes(q, IF q.received_len >= q.data_len THEN "WAIT_CRC1" ELSE "WAIT_DATA")

\* mutated FeedCrc1: the field is not overwritten
FeedCrc1KeepsOld(p, b) == Goes([p EXCEPT !.crc = @ + (b * 256)], "WAIT_CRC2")

FeedCrc1(p, b) == Goes([p EXCEPT !.crc = b * 256], "WAIT_CRC2")

\* mutated FeedCrc2: the checksums are not compared
FeedCrc2Unchecked(p, b) == Goes([p EXCEPT !.crc = @ + b], "WAIT_TAIL1")

FeedCrc2(p, b) ==
  LET q == [p EXCEPT !.crc = @ + b]
  IN  IF q.crc = q.crc_calc THEN Goes(q, "WAIT_TAIL1") ELSE Fails(q, ErrCrc)

FeedTail1Unchecked(p, b) == Goes(p, "WAIT_TAIL2")   \* mutated FeedTail1

FeedTail1(p, b) == IF b = TailMark[1] THEN Goes(p, "WAIT_TAIL2") ELSE Fails(p, ErrFrame)

FeedTail2(p, b) ==
  IF b = TailMark[2] THEN [parser |-> [p EXCEPT !.state = "COMPLETE"], ret |-> 0]
  ELSE Fails(p, ErrFrame)

\* A complete frame waits to be taken; every further byte is dropped and answered 0.
FeedComplete(p, b) == [parser |-> p, ret |-> 0]

\* After an error only a first head byte is looked for; the answer stays -2.
FeedError(p, b) ==
  [parser |-> [p EXCEPT !.state = IF b = HeadMark[1] THEN "WAIT_HEAD2" ELSE @], ret |-> -2]

Fed(p, b) ==
  LET q == [p EXCEPT !.error = ErrNone]
  IN  CASE p.state = "WAIT_HEAD1" -> FeedHead1(q, b)
        [] p.state = "WAIT_HEAD2" -> FeedHead2(q, b)
        [] p.state = "WAIT_LEN1"  -> FeedLen1(q, b)
        [] p.state = "WAIT_LEN2"  -> FeedLen2(q, b)
        [] p.state = "WAIT_ADDR"  -> FeedAddr(q, b)
        [] p.state = "WAIT_CMD"   -> FeedCmd(q, b)
        [] p.state = "WAIT_DATA"  -> FeedData(q, b)
        [] p.state = "WAIT_CRC1"  -> FeedCrc1(q, b)
        [] p.state = "WAIT_CRC2"  -> FeedCrc2(q, b)
        [] p.state = "WAIT_TAIL1" -> FeedTail1(q, b)
        [] p.state = "WAIT_TAIL2" -> FeedTail2(q, b)
        [] p.state = "COMPLETE"   -> FeedComplete(q, b)
        [] p.state = "ERROR"      -> FeedError(q, b)

-----------------------------------------------------------------------------
\* The parsers the C type allows.
Parsers ==
  [state : States, expected_len : UInt16, received_len : UInt16, addr : Byte, cmd : Byte,
   data_len : UInt16, data : [1..MaxDataSize -> Byte], crc : UInt16, crc_calc : UInt16,
   error : Byte]

\* Looking for a frame head.
Hunting(p) == p.state \in {"WAIT_HEAD1", "WAIT_HEAD2", "ERROR"}
=============================================================================
