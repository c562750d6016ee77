---------------------------- MODULE ProtoProofs ----------------------------
(***************************************************************************)
(* What holds of the receiving state machine for every size of the data    *)
(* field, every line and every pattern of resets, and of the stack above   *)
(* it for every ring, every set of frames, every configuration and every   *)
(* clock: its types, which bytes it takes for a frame, that no frame is    *)
(* missed or lost, and its timeouts.  The checksum is any function on      *)
(* sixteen-bit values: CrcIsSixteenBit is the hypothesis of the theorems,  *)
(* not a fact about one polynomial.                                        *)
(*                                                                         *)
(* The order: types and bounds (Sound, FeedInv); what a checksum and the   *)
(* parse loop compute, by least counterexample (LeastOne); a parser that   *)
(* read the first bytes of a frame (Fits) and what one more byte makes of  *)
(* it (FedFits); what proto_pack puts where (PackIs); the parser on a      *)
(* line (LineInv, Tracked); the stack's session (StackInv); the stream of  *)
(* frames through wire, ring and parser (Flowing).                         *)
(***************************************************************************)
EXTENDS ParserFeed, ProtoStack, WellFoundedInduction, TLAPS

CrcIsSixteenBit == \A crc \in UInt16, b \in Byte : CrcUpdate(crc, b) \in UInt16

\* The bounds the length check establishes and the data loop keeps.
Bounded(p) == p.received_len <= p.data_len /\ p.data_len <= MaxDataSize + 6

\* Between the two bytes of a field only its high byte is set.
HalfFields(p) ==
  /\ p.state = "WAIT_LEN2" => \E k \in Byte : p.expected_len = k * 256
  /\ p.state = "WAIT_CRC2" => \E k \in Byte : p.crc = k * 256

\* The invariant of one parser, and of the machine.
Sound(p) == p \in Parsers /\ Bounded(p) /\ HalfFields(p)

FeedInv == Sound(parser) /\ ret \in {-2, -1, 0} /\ line \in Lines /\ pos \in Nat

LEMMA FreshSound == Sound(Fresh)
<1>1. Fresh \in Parsers
  BY FrameAssumption DEF Fresh, Parsers, States, UInt16, Byte, Zeroes, ErrNone
<1>2. Bounded(Fresh)
  BY FrameAssumption DEF Fresh, Bounded
<1>3. QED
  BY <1>1, <1>2 DEF Sound, HalfFields, Fresh

\* Moving on from a sound parser, to any but the two half-field states, keeps it sound.
LEMMA GoesSound ==
  ASSUME NEW p \in Parsers, Bounded(p), NEW state \in States \ {"WAIT_LEN2", "WAIT_CRC2"}
  PROVE  Sound(Goes(p, state).parser) /\ Goes(p, state).ret \in {-2, -1, 0}
<1> DEFINE q == [p EXCEPT !.state = state]
<1>1. Goes(p, state).parser = q /\ Goes(p, state).ret = -1
  BY DEF Goes
<1>2. q \in Parsers /\ Bounded(q) /\ q.state = state
  BY DEF Parsers, Bounded
<1>3. HalfFields(q)
  BY <1>2 DEF HalfFields
<1>4. QED
  BY <1>1, <1>2, <1>3 DEF Sound

\* So does an error.
LEMMA FailsSound ==
  ASSUME NEW p \in Parsers, Bounded(p), NEW error \in {ErrNone, ErrCrc, ErrLen, ErrFrame}
  PROVE  Sound(Fails(p, error).parser) /\ Fails(p, error).ret \in {-2, -1, 0}
<1> DEFINE q == [p EXCEPT !.state = "ERROR", !.error = error]
<1>1. Fails(p, error).parser = q /\ Fails(p, error).ret = -2
  BY DEF Fails
<1>2. error \in Byte
  BY DEF ErrNone, ErrCrc, ErrLen, ErrFrame, Byte
<1>3. q \in Parsers /\ Bounded(q) /\ q.state = "ERROR"
  BY <1>2 DEF Parsers, Bounded, States
<1>4. HalfFields(q)
  BY <1>3 DEF HalfFields
<1>5. QED
  BY <1>1, <1>3, <1>4 DEF Sound

\* A byte of a sixteen-bit field is replaced.
LEMMA HalfWrites ==
  ASSUME NEW n \in UInt16, NEW b \in Byte
  PROVE  LowByte(n, b) \in UInt16 /\ HighByte(n, b) \in UInt16
  BY DEF LowByte, HighByte, UInt16, Byte

\* A data byte past the array lands in another field of the parser, each within its type.
LEMMA StoreType ==
  ASSUME NEW p \in Parsers, NEW i \in Nat, NEW b \in Byte
  PROVE  /\ Store(p, i, b) \in Parsers
         /\ Store(p, i, b).received_len = p.received_len
         /\ Store(p, i, b).data_len = p.data_len
         /\ Store(p, i, b).state = p.state
<1> DEFINE data == IF i < MaxDataSize THEN [p.data EXCEPT ![i + 1] = b] ELSE p.data
           crc == IF i = MaxDataSize THEN LowByte(p.crc, b)
                  ELSE IF i = MaxDataSize + 1 THEN HighByte(p.crc, b) ELSE p.crc
           calc == IF i = MaxDataSize + 2 THEN LowByte(p.crc_calc, b)
                   ELSE IF i = MaxDataSize + 3 THEN HighByte(p.crc_calc, b) ELSE p.crc_calc
           error == IF i = MaxDataSize + 4 THEN b ELSE p.error
<1>1. data \in [1..MaxDataSize -> Byte]
  BY DEF Parsers
<1>2. crc \in UInt16 /\ calc \in UInt16
  BY HalfWrites DEF Parsers
<1>3. error \in Byte
  BY DEF Parsers
<1>4. Store(p, i, b) = [p EXCEPT !.data = data, !.crc = crc, !.crc_calc = calc, !.error = error]
  BY DEF Store
<1> HIDE DEF data, crc, calc, error
<1>5. QED
  BY <1>1, <1>2, <1>3, <1>4 DEF Parsers

-----------------------------------------------------------------------------
\* One lemma for each state that does more than move on.

LEMMA FeedLen2Sound ==
  ASSUME NEW p, Sound(p), NEW b \in Byte, p.state = "WAIT_LEN2"
  PROVE  Sound(FeedLen2(p, b).parser) /\ FeedLen2(p, b).ret \in {-2, -1, 0}
<1> DEFINE len == p.expected_len + b
           q == [p EXCEPT !.expected_len = len]
<1>1. len \in UInt16
  <2>1. PICK k \in Byte : p.expected_len = k * 256
    BY DEF Sound, HalfFields
  <2>2. QED
    BY <2>1 DEF UInt16, Byte
<1>2. q \in Parsers /\ Bounded(q)
  BY <1>1 DEF Sound, Bounded, Parsers
<1>3. CASE len < AddrCmdCrc \/ len > MaxFrameSize
  <2>1. FeedLen2(p, b) = Fails(q, ErrLen)
    BY <1>3 DEF FeedLen2
  <2>2. QED
    BY <1>2, <2>1, FailsSound
<1>4. CASE ~(len < AddrCmdCrc \/ len > MaxFrameSize)
  <2> DEFINE r == [q EXCEPT !.data_len = len - AddrCmdCrc, !.received_len = 0, !.data = Zeroes]
  <2>1. FeedLen2(p, b) = Goes(r, "WAIT_ADDR")
    BY <1>4 DEF FeedLen2
  <2>2. len - AddrCmdCrc \in UInt16 /\ len - AddrCmdCrc <= MaxDataSize + 6
    BY <1>1, <1>4, FrameAssumption DEF UInt16, AddrCmdCrc, MaxFrameSize
  <2>3. Zeroes \in [1..MaxDataSize -> Byte] /\ 0 \in UInt16
    BY DEF Zeroes, Byte, UInt16
  <2> HIDE DEF len, q
  <2>4. r \in Parsers /\ r.data_len = len - AddrCmdCrc /\ r.received_len = 0
    BY <1>2, <2>2, <2>3 DEF Parsers
  <2>5. Bounded(r)
    BY <2>2, <2>4 DEF Bounded, UInt16
  <2>6. QED
    BY <2>1, <2>4, <2>5, GoesSound DEF States
<1>5. QED
  BY <1>3, <1>4

LEMMA FeedDataSound ==
  ASSUME CrcIsSixteenBit, NEW p, Sound(p), NEW b \in Byte
  PROVE  Sound(FeedData(p, b).parser) /\ FeedData(p, b).ret \in {-2, -1, 0}
<1> DEFINE s == Store(p, p.received_len, b)
           t == [s EXCEPT !.received_len = @ + 1, !.crc_calc = CrcUpdate(@, b)]
           q == IF p.received_len < p.data_len THEN t ELSE p
<1>1. q \in Parsers /\ Bounded(q)
  <2>1. CASE p.received_len < p.data_len
    <3>1. /\ s \in Parsers
          /\ s.received_len = p.received_len /\ s.data_len = p.data_len
      BY StoreType DEF Sound, Parsers, UInt16
    <3> HIDE DEF s
    <3>2. CrcUpdate(s.crc_calc, b) \in UInt16
      BY <3>1 DEF CrcIsSixteenBit, Parsers
    <3>3. s.received_len + 1 \in UInt16 /\ s.received_len + 1 <= s.data_len
      BY <2>1, <3>1 DEF Parsers, UInt16
    <3>4. /\ t \in Parsers
          /\ t.received_len = s.received_len + 1 /\ t.data_len = s.data_len
      BY <3>1, <3>2, <3>3 DEF Parsers
    <3>5. Bounded(t)
      BY <3>1, <3>3, <3>4 DEF Sound, Bounded
    <3>6. QED
      BY <2>1, <3>4, <3>5
  <2>2. CASE ~(p.received_len < p.data_len)
    BY <2>2 DEF Sound
  <2>3. QED
    BY <2>1, <2>2
<1>2. FeedData(p, b) = Goes(q, IF q.received_len >= q.data_len THEN "WAIT_CRC1" ELSE "WAIT_DATA")
  BY DEF FeedData
<1> HIDE DEF q
<1>3. QED
  BY <1>1, <1>2, GoesSound DEF States

\* proto_parser_feed keeps a parser sound, in every state and for every byte.
LEMMA FedSound ==
  ASSUME CrcIsSixteenBit, NEW p, Sound(p), NEW b \in Byte
  PROVE  Sound(Fed(p, b).parser) /\ Fed(p, b).ret \in {-2, -1, 0}
<1> DEFINE q == [p EXCEPT !.error = ErrNone]
           Good(fed) == Sound(fed.parser) /\ fed.ret \in {-2, -1, 0}
<1>1. q \in Parsers /\ Bounded(q) /\ HalfFields(q) /\ q.state = p.state /\ p.state \in States
  BY DEF Sound, Bounded, HalfFields, Parsers, ErrNone, Byte
<1>2. Sound(q)
  BY <1>1 DEF Sound
<1>3. /\ p.state = "WAIT_HEAD1" => Fed(p, b) = FeedHead1(q, b)
      /\ p.state = "WAIT_HEAD2" => Fed(p, b) = FeedHead2(q, b)
      /\ p.state = "WAIT_LEN1" => Fed(p, b) = FeedLen1(q, b)
      /\ p.state = "WAIT_LEN2" => Fed(p, b) = FeedLen2(q, b)
      /\ p.state = "WAIT_ADDR" => Fed(p, b) = FeedAddr(q, b)
      /\ p.state = "WAIT_CMD" => Fed(p, b) = FeedCmd(q, b)
      /\ p.state = "WAIT_DATA" => Fed(p, b) = FeedData(q, b)
      /\ p.state = "WAIT_CRC1" => Fed(p, b) = FeedCrc1(q, b)
      /\ p.state = "WAIT_CRC2" => Fed(p, b) = FeedCrc2(q, b)
      /\ p.state = "WAIT_TAIL1" => Fed(p, b) = FeedTail1(q, b)
      /\ p.state = "WAIT_TAIL2" => Fed(p, b) = FeedTail2(q, b)
      /\ p.state = "COMPLETE" => Fed(p, b) = FeedComplete(q, b)
      /\ p.state = "ERROR" => Fed(p, b) = FeedError(q, b)
  BY DEF Fed
<1> HIDE DEF q
<1>4. Good(FeedHead1(q, b))
  BY <1>1, GoesSound DEF FeedHead1, States
<1>5. Good(FeedHead2(q, b))
  <2> DEFINE r == [q EXCEPT !.crc_calc = 65535]
  <2>1. r \in Parsers /\ Bounded(r)
    BY <1>1 DEF Parsers, Bounded, UInt16
  <2>2. FeedHead2(q, b) \in {Goes(r, "WAIT_LEN1"), Goes(q, "WAIT_HEAD2"), Goes(q, "WAIT_HEAD1")}
    BY DEF FeedHead2
  <2> HIDE DEF r
  <2>3. Good(Goes(r, "WAIT_LEN1"))
    BY <2>1, GoesSound DEF States
  <2>4. Good(Goes(q, "WAIT_HEAD2")) /\ Good(Goes(q, "WAIT_HEAD1"))
    BY <1>1, GoesSound DEF States
  <2>5. QED
    BY <2>2, <2>3, <2>4
<1>6. Good(FeedLen1(q, b))
  <2> DEFINE r == [q EXCEPT !.expected_len = b * 256, !.state = "WAIT_LEN2"]
  <2>1. b * 256 \in UInt16
    BY DEF Byte, UInt16
  <2>2. FeedLen1(q, b).parser = r /\ FeedLen1(q, b).ret = -1
    BY <1>1 DEF FeedLen1, Goes, Parsers
  <2>3. r \in Parsers
    <3>1. PICK x \in UInt16 : x = b * 256
      BY <2>1
    <3>2. r = [q EXCEPT !.expected_len = x, !.state = "WAIT_LEN2"]
      BY <3>1
    <3> HIDE DEF r
    <3> QED BY <1>1, <3>2 DEF Parsers, States
  <2>4. r.state = "WAIT_LEN2" /\ r.expected_len = b * 256
    BY <1>1 DEF Parsers
  <2>5. Bounded(r)
    BY <1>1 DEF Bounded, Parsers
  <2>6. HalfFields(r)
    BY <2>4 DEF HalfFields
  <2>7. QED
    BY <2>2, <2>3, <2>5, <2>6 DEF Sound
<1>7. p.state = "WAIT_LEN2" => Good(FeedLen2(q, b))
  BY <1>1, <1>2, FeedLen2Sound
<1>8. Good(FeedAddr(q, b))
  <2> DEFINE r == [q EXCEPT !.addr = b, !.crc_calc = CrcUpdate(@, b)]
  <2>1. CrcUpdate(q.crc_calc, b) \in UInt16
    BY <1>1 DEF CrcIsSixteenBit, Parsers
  <2>2. r \in Parsers /\ Bounded(r)
    BY <1>1, <2>1 DEF Parsers, Bounded
  <2>3. FeedAddr(q, b) = Goes(r, "WAIT_CMD")
    BY DEF FeedAddr
  <2> HIDE DEF r
  <2>4. QED
    BY <2>2, <2>3, GoesSound DEF States
<1>9. Good(FeedCmd(q, b))
  <2> DEFINE r == [q EXCEPT !.cmd = b, !.crc_calc = CrcUpdate(@, b)]
  <2>1. CrcUpdate(q.crc_calc, b) \in UInt16
    BY <1>1 DEF CrcIsSixteenBit, Parsers
  <2>2. r \in Parsers /\ Bounded(r)
    BY <1>1, <2>1 DEF Parsers, Bounded
  <2>3. FeedCmd(q, b) \in {Goes(r, "WAIT_DATA"), Goes(r, "WAIT_CRC1")}
    BY DEF FeedCmd
  <2> HIDE DEF r
  <2>4. QED
    BY <2>2, <2>3, GoesSound DEF States
<1>10. Good(FeedData(q, b))
  BY <1>2, FeedDataSound
<1>11. Good(FeedCrc1(q, b))
  <2> DEFINE r == [q EXCEPT !.crc = b * 256, !.state = "WAIT_CRC2"]
  <2>1. b * 256 \in UInt16
    BY DEF Byte, UInt16
  <2>2. FeedCrc1(q, b).parser = r /\ FeedCrc1(q, b).ret = -1
    BY <1>1 DEF FeedCrc1, Goes, Parsers
  <2>3. r \in Parsers /\ Bounded(r) /\ r.state = "WAIT_CRC2" /\ r.crc = b * 256
    <3>1. PICK x \in UInt16 : x = b * 256
      BY <2>1
    <3>2. r = [q EXCEPT !.crc = x, !.state = "WAIT_CRC2"]
      BY <3>1
    <3> HIDE DEF r
    <3>3. r \in Parsers
      BY <1>1, <3>2 DEF Parsers, States
    <3>4. r.state = "WAIT_CRC2" /\ r.crc = x
      BY <1>1, <3>2 DEF Parsers
    <3>5. Bounded(r)
      BY <1>1, <3>2 DEF Parsers, Bounded
    <3> QED BY <3>1, <3>3, <3>4, <3>5
  <2>4. HalfFields(r)
    BY <2>3 DEF HalfFields
  <2>5. QED
    BY <2>2, <2>3, <2>4 DEF Sound
<1>12. p.state = "WAIT_CRC2" => Good(FeedCrc2(q, b))
  <2>1. SUFFICES ASSUME p.state = "WAIT_CRC2" PROVE Good(FeedCrc2(q, b))
    OBVIOUS
  <2> DEFINE r == [q EXCEPT !.crc = @ + b]
  <2>2. PICK k \in Byte : q.crc = k * 256
    BY <1>1, <2>1 DEF HalfFields
  <2>3. q.crc + b \in UInt16
    BY <2>2 DEF Byte, UInt16
  <2>4. r \in Parsers /\ Bounded(r)
    BY <1>1, <2>3 DEF Parsers, Bounded
  <2>5. FeedCrc2(q, b) \in {Goes(r, "WAIT_TAIL1"), Fails(r, ErrCrc)}
    BY DEF FeedCrc2
  <2> HIDE DEF r
  <2>6. QED
    BY <2>4, <2>5, GoesSound, FailsSound DEF States
<1>13. Good(FeedTail1(q, b))
  <2>1. FeedTail1(q, b) \in {Goes(q, "WAIT_TAIL2"), Fails(q, ErrFrame)}
    BY DEF FeedTail1
  <2>2. QED
    BY <1>1, <2>1, GoesSound, FailsSound DEF States
<1>14. Good(FeedTail2(q, b))
  <2> DEFINE r == [q EXCEPT !.state = "COMPLETE"]
  <2>1. r \in Parsers /\ Bounded(r) /\ r.state = "COMPLETE"
    BY <1>1 DEF Parsers, Bounded, States
  <2>2. Sound(r)
    BY <2>1 DEF Sound, HalfFields
  <2>3. FeedTail2(q, b) \in {[parser |-> r, ret |-> 0], Fails(q, ErrFrame)}
    BY DEF FeedTail2
  <2> HIDE DEF r
  <2>4. QED
    BY <1>1, <2>2, <2>3, FailsSound
<1>15. Good(FeedComplete(q, b))
  BY <1>2 DEF FeedComplete
<1>16. Good(FeedError(q, b)) \/ p.state # "ERROR"
  <2>1. SUFFICES ASSUME p.state = "ERROR" PROVE Good(FeedError(q, b))
    OBVIOUS
  <2> DEFINE r == [q EXCEPT !.state = IF b = HeadMark[1] THEN "WAIT_HEAD2" ELSE @]
  <2>2. /\ r \in Parsers /\ Bounded(r)
        /\ r.state \in {"WAIT_HEAD2", "ERROR"}
    BY <1>1, <2>1 DEF Parsers, Bounded, States
  <2>3. Sound(r)
    BY <2>2 DEF Sound, HalfFields
  <2>4. FeedError(q, b).parser = r /\ FeedError(q, b).ret = -2
    BY DEF FeedError
  <2>5. QED
    BY <2>3, <2>4
<1>17. QED
  BY <1>1, <1>3, <1>4, <1>5, <1>6, <1>7, <1>8, <1>9, <1>10, <1>11, <1>12, <1>13, <1>14,
     <1>15, <1>16 DEF States

-----------------------------------------------------------------------------
LEMMA FeedStarts == FeedInit => FeedInv
  BY FreshSound DEF FeedInit, FeedInv

LEMMA FeedKeeps ==
  ASSUME CrcIsSixteenBit
  PROVE  FeedInv /\ [FeedNext]_feed_vars => FeedInv'
<1>1. SUFFICES ASSUME FeedInv, [FeedNext]_feed_vars PROVE FeedInv'
  OBVIOUS
<1>2. CASE Feed
  <2>1. line.bytes[pos + 1] \in Byte
    BY <1>1, <1>2, LinesAssumption DEF Feed, FeedInv
  <2>2. QED
    BY <1>1, <1>2, <2>1, FedSound DEF Feed, FeedInv
<1>3. CASE Reset
  BY <1>1, <1>3, FreshSound DEF Reset, FeedInv
<1>4. CASE UNCHANGED feed_vars
  BY <1>1, <1>4 DEF feed_vars, FeedInv
<1>5. QED
  BY <1>1, <1>2, <1>3, <1>4 DEF FeedNext

\* Every field of the parser keeps its C type, whatever arrives and whenever it is reset.
THEOREM TypeCorrect ==
  ASSUME CrcIsSixteenBit
  PROVE  FeedSpec => []TypeOK
<1>1. FeedInv => TypeOK
  BY DEF FeedInv, Sound, TypeOK
<1>2. FeedInv /\ [FeedNext]_feed_vars => FeedInv'
  BY FeedKeeps
<1>3. QED
  BY FeedStarts, <1>1, <1>2, PTL DEF FeedSpec

\* An accepted length never lets the data run further than six bytes past the data field.
THEOREM OverrunContained ==
  ASSUME CrcIsSixteenBit
  PROVE  FeedSpec => []OverrunStaysInside
<1>1. FeedInv => OverrunStaysInside
  BY DEF FeedInv, Sound, Bounded, OverrunStaysInside
<1>2. FeedInv /\ [FeedNext]_feed_vars => FeedInv'
  BY FeedKeeps
<1>3. QED
  BY FeedStarts, <1>1, <1>2, PTL DEF FeedSpec

-----------------------------------------------------------------------------
\* A set of numbers that is not empty has a least one.
LEMMA LeastOne ==
  ASSUME NEW S \in SUBSET Nat, S # {}
  PROVE  \E k \in S : \A j \in S : k <= j
<1> DEFINE R == {ss \in Nat \X Nat : ss[1] < ss[2]}
<1>1. IsWellFoundedOn(R, Nat)
  BY NatLessThanWellFounded DEF OpToRel
<1>2. PICK k \in S : \A j \in S : ~(<<j, k>> \in R)
  <2> HIDE DEF R
  <2> QED BY <1>1, WFMin
<1>3. \A j \in S : k <= j
  <2> SUFFICES ASSUME NEW j \in S, ~(k <= j) PROVE FALSE
    OBVIOUS
  <2>1. j \in Nat /\ k \in Nat /\ j < k
    OBVIOUS
  <2>2. <<j, k>> \in R
    BY <2>1
  <2> HIDE DEF R
  <2> QED BY <2>2, <1>2
<1> QED BY <1>3

\* The checksums of the beginnings of some bytes.
CrcRun(c, bytes) ==
  c = [i \in 0..Len(bytes) |-> IF i = 0 THEN 65535 ELSE CrcUpdate(c[i - 1], bytes[i])]

LEMMA CrcRunExists ==
  ASSUME NEW bytes, Len(bytes) \in Nat
  PROVE  \E c : CrcRun(c, bytes)
<1> DEFINE Run(n, c) == c = [i \in 0..n |-> IF i = 0 THEN 65535 ELSE CrcUpdate(c[i - 1], bytes[i])]
           Bad == {n \in Nat : ~ \E c : Run(n, c)}
<1>1. Run(0, [i \in 0..0 |-> 65535])
  OBVIOUS
<1>2. ASSUME NEW n \in Nat, NEW c, Run(n, c)
      PROVE  \E d : Run(n + 1, d)
  <2> DEFINE d == [i \in 0..(n + 1) |-> IF i <= n THEN c[i] ELSE CrcUpdate(c[n], bytes[n + 1])]
  <2>1. \A i \in 0..(n + 1) : i # 0 => i - 1 \in 0..n
    OBVIOUS
  <2>2. ASSUME NEW i \in 0..(n + 1)
        PROVE  d[i] = IF i = 0 THEN 65535 ELSE CrcUpdate(d[i - 1], bytes[i])
    <3>1. CASE i = 0
      BY <1>2, <3>1
    <3>2. CASE i # 0 /\ i <= n
      <4>1. i - 1 \in 0..(n + 1) /\ i - 1 <= n /\ i \in 0..n
        BY <3>2
      <4>2. d[i] = c[i] /\ d[i - 1] = c[i - 1]
        BY <3>2, <4>1
      <4>3. c[i] = CrcUpdate(c[i - 1], bytes[i])
        BY <1>2, <3>2, <4>1
      <4> QED BY <3>2, <4>2, <4>3
    <3>3. CASE i = n + 1
      <4>1. d[i - 1] = c[n] /\ d[i] = CrcUpdate(c[n], bytes[n + 1])
        BY <3>3
      <4> QED BY <3>3, <4>1
    <3> QED BY <3>1, <3>2, <3>3
  <2>3. Run(n + 1, d)
    <3>1. d = [i \in 0..(n + 1) |-> d[i]]
      OBVIOUS
    <3> HIDE DEF d
    <3>2. [i \in 0..(n + 1) |-> d[i]]
            = [i \in 0..(n + 1) |-> IF i = 0 THEN 65535 ELSE CrcUpdate(d[i - 1], bytes[i])]
      BY <2>2
    <3> QED BY <3>1, <3>2
  <2> HIDE DEF d
  <2> QED BY <2>3
<1>3. Bad = {}
  <2> SUFFICES ASSUME Bad # {} PROVE FALSE
    OBVIOUS
  <2>1. PICK k \in Bad : \A j \in Bad : k <= j
    <3> HIDE DEF Bad
    <3>1. Bad \in SUBSET Nat
      BY DEF Bad
    <3> QED BY <3>1, LeastOne
  <2> HIDE DEF Run
  <2>2. k \in Nat /\ ~ \E c : Run(k, c)
    BY <2>1
  <2>3. k # 0
    BY <1>1, <2>2
  <2>4. k - 1 \in Nat /\ k - 1 \notin Bad
    BY <2>1, <2>2, <2>3
  <2>5. PICK c : Run(k - 1, c)
    BY <2>4
  <2> HIDE DEF Bad
  <2>6. PICK m \in Nat : m = k - 1
    BY <2>4
  <2>7. \E d : Run(m + 1, d)
    BY <1>2, <2>5, <2>6
  <2>8. m + 1 = k
    BY <2>6, <2>2
  <2> QED BY <2>2, <2>7, <2>8
<1> QED
  <2>1. \E c : Run(Len(bytes), c)
    <3> HIDE DEF Run
    <3> QED BY <1>3
  <2> QED BY <2>1 DEF CrcRun

LEMMA CrcIsRun ==
  ASSUME NEW bytes, Len(bytes) \in Nat
  PROVE  \E c : CrcRun(c, bytes) /\ Crc(bytes) = c[Len(bytes)]
<1> DEFINE c == CHOOSE crc : CrcRun(crc, bytes)
<1>1. CrcRun(c, bytes)
  BY CrcRunExists
<1>2. Crc(bytes) = c[Len(bytes)]
  BY DEF CrcRun, Crc
<1> HIDE DEF c
<1> QED BY <1>1, <1>2

\* The checksum of a beginning depends on that beginning alone.
LEMMA CrcRunsAgree ==
  ASSUME NEW s, NEW t, NEW c, NEW d, CrcRun(c, s), CrcRun(d, t), NEW n \in Nat,
         Len(s) \in Nat, Len(t) \in Nat, n <= Len(s), n <= Len(t), \A i \in 1..n : s[i] = t[i]
  PROVE  c[n] = d[n]
<1> DEFINE Bad == {i \in 0..n : c[i] # d[i]}
<1>1. \A i \in 0..n : c[i] = IF i = 0 THEN 65535 ELSE CrcUpdate(c[i - 1], s[i])
  <2>1. c = [i \in 0..Len(s) |-> IF i = 0 THEN 65535 ELSE CrcUpdate(c[i - 1], s[i])]
    BY DEF CrcRun
  <2>2. \A i \in 0..n : i \in 0..Len(s)
    OBVIOUS
  <2> QED BY <2>1, <2>2
<1>2. \A i \in 0..n : d[i] = IF i = 0 THEN 65535 ELSE CrcUpdate(d[i - 1], t[i])
  <2>1. d = [i \in 0..Len(t) |-> IF i = 0 THEN 65535 ELSE CrcUpdate(d[i - 1], t[i])]
    BY SMTT(30) DEF CrcRun
  <2>2. \A i \in 0..n : i \in 0..Len(t)
    OBVIOUS
  <2> QED BY <2>1, <2>2
<1>3. Bad = {}
  <2> SUFFICES ASSUME Bad # {} PROVE FALSE
    OBVIOUS
  <2>1. PICK k \in Bad : \A j \in Bad : k <= j
    <3> HIDE DEF Bad
    <3>1. Bad \in SUBSET Nat
      BY DEF Bad
    <3> QED BY <3>1, LeastOne
  <2>2. k \in 0..n /\ c[k] # d[k]
    BY <2>1
  <2>3. k # 0
    BY <1>1, <1>2, <2>2
  <2>4. k - 1 \in 0..n /\ k - 1 \notin Bad
    BY <2>1, <2>2, <2>3
  <2>5. c[k - 1] = d[k - 1] /\ s[k] = t[k]
    BY <2>2, <2>3, <2>4
  <2> HIDE DEF Bad
  <2> QED BY <1>1, <1>2, <2>2, <2>3, <2>5
<1> QED BY <1>3

\* proto_packer's checksum, one byte at a time.
LEMMA CrcEmpty == ASSUME NEW s, Len(s) = 0 PROVE Crc(s) = 65535
  BY CrcIsRun DEF CrcRun

LEMMA CrcGrows ==
  ASSUME NEW s, NEW t, Len(s) \in Nat, Len(t) = Len(s) + 1, \A i \in 1..Len(s) : s[i] = t[i]
  PROVE  Crc(t) = CrcUpdate(Crc(s), t[Len(t)])
<1>1. PICK c : CrcRun(c, s) /\ Crc(s) = c[Len(s)]
  BY CrcIsRun
<1>2. PICK d : CrcRun(d, t) /\ Crc(t) = d[Len(t)]
  BY CrcIsRun
<1>3. c[Len(s)] = d[Len(s)]
  BY <1>1, <1>2, CrcRunsAgree
<1>4. d[Len(t)] = CrcUpdate(d[Len(s)], t[Len(t)])
  <2>1. PICK n \in Nat : n = Len(s)
    OBVIOUS
  <2>2. d = [i \in 0..(n + 1) |-> IF i = 0 THEN 65535 ELSE CrcUpdate(d[i - 1], t[i])]
    BY <1>2, <2>1 DEF CrcRun
  <2>3. n + 1 \in 0..(n + 1) /\ (n + 1) - 1 = n /\ n + 1 # 0
    BY <2>1
  <2> QED BY <2>1, <2>2, <2>3
<1> QED BY <1>1, <1>2, <1>3, <1>4

LEMMA CrcType ==
  ASSUME CrcIsSixteenBit, NEW s, Len(s) \in Nat, \A i \in 1..Len(s) : s[i] \in Byte
  PROVE  Crc(s) \in UInt16
<1>1. PICK c : CrcRun(c, s) /\ Crc(s) = c[Len(s)]
  BY CrcIsRun
<1> DEFINE Bad == {i \in 0..Len(s) : c[i] \notin UInt16}
<1>2. \A i \in 0..Len(s) : c[i] = IF i = 0 THEN 65535 ELSE CrcUpdate(c[i - 1], s[i])
  BY <1>1 DEF CrcRun
<1>3. Bad = {}
  <2> SUFFICES ASSUME Bad # {} PROVE FALSE
    OBVIOUS
  <2>1. PICK k \in Bad : \A j \in Bad : k <= j
    <3> HIDE DEF Bad
    <3>1. Bad \in SUBSET Nat
      BY DEF Bad
    <3> QED BY <3>1, LeastOne
  <2>2. k \in 0..Len(s) /\ c[k] \notin UInt16
    BY <2>1
  <2>3. k # 0
    BY <1>2, <2>2 DEF UInt16
  <2>4. k - 1 \in 0..Len(s) /\ k - 1 \notin Bad
    BY <2>1, <2>2, <2>3
  <2>5. c[k - 1] \in UInt16 /\ s[k] \in Byte
    BY <2>2, <2>3, <2>4
  <2> HIDE DEF Bad
  <2> QED BY <1>2, <2>2, <2>3, <2>5 DEF CrcIsSixteenBit
<1> QED BY <1>1, <1>3

-----------------------------------------------------------------------------
\* The bytes of s from o on, and what makes n data bytes there a frame.
Window(s, o, n) == [k \in 1..n |-> s[o + k]]

FrameAt(s, o, n) ==
  /\ s[o + 1] = 170 /\ s[o + 2] = 187
  /\ s[o + 3] * 256 + s[o + 4] = 4 + n
  /\ s[o + 7 + n] * 256 + s[o + 8 + n] = Crc(Window(s, o + 4, n + 2))
  /\ s[o + 9 + n] = 204 /\ s[o + 10 + n] = 221

\* What the parser knows of the frame that begins at o: its head, its length, its
\* address, command and data so far.
Headed(s, o) == s[o + 1] = 170 /\ s[o + 2] = 187
Sized(p, s, o) ==
  /\ Headed(s, o) /\ s[o + 3] * 256 + s[o + 4] = 4 + p.data_len
  /\ p.data_len <= MaxDataSize
Named(p, s, o) ==
  /\ Sized(p, s, o) /\ p.addr = s[o + 5] /\ p.cmd = s[o + 6]
  /\ \A k \in 1..p.received_len : p.data[k] = s[o + 6 + k]
Whole(p, s, o) == Named(p, s, o) /\ p.received_len = p.data_len
Summed(p, s, o) ==
  s[o + 7 + p.data_len] * 256 + s[o + 8 + p.data_len] = Crc(Window(s, o + 4, p.data_len + 2))

\* The parser has read the first m bytes of that frame.
Fits(p, s, o, m) ==
  \/ p.state = "WAIT_HEAD2" /\ m = 1 /\ s[o + 1] = 170
  \/ p.state = "WAIT_LEN1" /\ m = 2 /\ Headed(s, o) /\ p.crc_calc = 65535
  \/ /\ p.state = "WAIT_LEN2" /\ m = 3 /\ Headed(s, o) /\ p.crc_calc = 65535
     /\ p.expected_len = s[o + 3] * 256
  \/ p.state = "WAIT_ADDR" /\ m = 4 /\ Sized(p, s, o) /\ p.received_len = 0 /\ p.crc_calc = 65535
  \/ /\ p.state = "WAIT_CMD" /\ m = 5 /\ Sized(p, s, o) /\ p.received_len = 0
     /\ p.addr = s[o + 5] /\ p.crc_calc = Crc(Window(s, o + 4, 1))
  \/ /\ p.state = "WAIT_DATA" /\ m = 6 + p.received_len /\ Named(p, s, o)
     /\ p.received_len < p.data_len
     /\ p.crc_calc = Crc(Window(s, o + 4, p.received_len + 2))
  \/ /\ p.state = "WAIT_CRC1" /\ m = 6 + p.data_len /\ Whole(p, s, o)
     /\ p.crc_calc = Crc(Window(s, o + 4, p.data_len + 2))
  \/ /\ p.state = "WAIT_CRC2" /\ m = 7 + p.data_len /\ Whole(p, s, o)
     /\ p.crc_calc = Crc(Window(s, o + 4, p.data_len + 2))
     /\ p.crc = s[o + 7 + p.data_len] * 256
  \/ p.state = "WAIT_TAIL1" /\ m = 8 + p.data_len /\ Whole(p, s, o) /\ Summed(p, s, o)
  \/ /\ p.state = "WAIT_TAIL2" /\ m = 9 + p.data_len /\ Whole(p, s, o) /\ Summed(p, s, o)
     /\ s[o + 9 + p.data_len] = 204
  \/ /\ p.state = "COMPLETE" /\ m = 10 + p.data_len /\ Whole(p, s, o) /\ Summed(p, s, o)
     /\ s[o + 9 + p.data_len] = 204 /\ s[o + 10 + p.data_len] = 221

\* It has lost it, or never found one.
Astray(p) == p.state \in {"WAIT_HEAD1", "ERROR"}

\* It reads a frame whose data will run past the array.
Long(p) ==
  /\ p.data_len > MaxDataSize
  /\ p.state \in States \ {"WAIT_HEAD1", "WAIT_HEAD2", "WAIT_LEN1", "WAIT_LEN2", "ERROR"}

\* One more byte b of the frame, and what the parser makes of it.
Advances(fed, s, o, m) ==
  Fits(fed.parser, s, o, m + 1) /\ fed.ret = IF fed.parser.state = "COMPLETE" THEN 0 ELSE -1
Loses(fed, s, o, b) ==
  /\ \/ Astray(fed.parser) \/ Long(fed.parser)
     \/ fed.parser.state = "WAIT_HEAD2" /\ b = 170
  /\ \A n \in 0..MaxDataSize : ~FrameAt(s, o, n)

\* The checksum over one more byte.
LEMMA WindowCrc ==
  ASSUME NEW s, NEW o \in Nat, NEW n \in Nat, NEW k \in Nat, k = n + 1, NEW at \in Nat, at = o + k
  PROVE  Crc(Window(s, o, k)) = CrcUpdate(Crc(Window(s, o, n)), s[at])
<1>1. Len(Window(s, o, n)) = n /\ Len(Window(s, o, k)) = n + 1
  BY DEF Window
<1>2. \A i \in 1..n : Window(s, o, n)[i] = Window(s, o, k)[i]
  BY DEF Window
<1>3. Window(s, o, k)[n + 1] = s[at]
  BY DEF Window
<1> QED BY <1>1, <1>2, <1>3, CrcGrows

LEMMA EmptyWindowCrc == ASSUME NEW s, NEW o PROVE Crc(Window(s, o, 0)) = 65535
<1>1. Len(Window(s, o, 0)) = 0
  BY DEF Window
<1> QED BY <1>1, CrcEmpty

LEMMA FitsHead2 ==
  ASSUME NEW p \in Parsers, NEW s, NEW o \in Nat, NEW m, Fits(p, s, o, m), p.state = "WAIT_HEAD2",
         NEW b \in Byte, b = s[o + m + 1]
  PROVE  LET fed == FeedHead2(p, b) IN Advances(fed, s, o, m) \/ Loses(fed, s, o, b)
<1>1. m = 1 /\ s[o + 1] = 170 /\ b = s[o + 2]
  BY DEF Fits
<1>2. CASE b = 187
  <2> DEFINE r == [p EXCEPT !.crc_calc = 65535, !.state = "WAIT_LEN1"]
  <2>1. FeedHead2(p, b) = [parser |-> r, ret |-> -1]
    BY <1>2 DEF FeedHead2, Goes, HeadMark, Parsers
  <2>2. r.state = "WAIT_LEN1" /\ r.crc_calc = 65535
    BY DEF Parsers
  <2> HIDE DEF r
  <2> QED BY <1>1, <1>2, <2>1, <2>2 DEF Advances, Fits, Headed
<1>3. CASE b # 187
  <2>1. \A n \in 0..MaxDataSize : ~FrameAt(s, o, n)
    BY <1>1, <1>3 DEF FrameAt
  <2>2. FeedHead2(p, b) = Goes(p, IF b = 170 THEN "WAIT_HEAD2" ELSE "WAIT_HEAD1")
    BY <1>3 DEF FeedHead2, HeadMark
  <2>3. FeedHead2(p, b).parser.state = IF b = 170 THEN "WAIT_HEAD2" ELSE "WAIT_HEAD1"
    BY <2>2 DEF Goes, Parsers
  <2> QED BY <2>1, <2>3 DEF Loses, Astray
<1> QED BY <1>2, <1>3

LEMMA FitsLen1 ==
  ASSUME NEW p \in Parsers, NEW s, NEW o \in Nat, NEW m, Fits(p, s, o, m), p.state = "WAIT_LEN1",
         NEW b \in Byte, b = s[o + m + 1]
  PROVE  Advances(FeedLen1(p, b), s, o, m)
<1>1. m = 2 /\ Headed(s, o) /\ p.crc_calc = 65535 /\ b = s[o + 3]
  BY DEF Fits
<1> DEFINE r == [p EXCEPT !.expected_len = b * 256, !.state = "WAIT_LEN2"]
<1>2. FeedLen1(p, b) = [parser |-> r, ret |-> -1]
  BY DEF FeedLen1, Goes, Parsers
<1>3. r.state = "WAIT_LEN2" /\ r.crc_calc = 65535 /\ r.expected_len = b * 256
  BY <1>1 DEF Parsers
<1> HIDE DEF r
<1> QED BY <1>1, <1>2, <1>3 DEF Advances, Fits

LEMMA FitsLen2 ==
  ASSUME NEW p \in Parsers, NEW s, NEW o \in Nat, NEW m, Fits(p, s, o, m), p.state = "WAIT_LEN2",
         NEW b \in Byte, b = s[o + m + 1], s[o + 3] \in Byte
  PROVE  LET fed == FeedLen2(p, b) IN Advances(fed, s, o, m) \/ Loses(fed, s, o, b)
<1>1. m = 3 /\ Headed(s, o) /\ p.crc_calc = 65535 /\ p.expected_len = s[o + 3] * 256 /\ b = s[o + 4]
  BY DEF Fits
<1> DEFINE len == p.expected_len + b
           q == [p EXCEPT !.expected_len = len]
           r == [q EXCEPT !.data_len = len - AddrCmdCrc, !.received_len = 0, !.data = Zeroes,
                          !.state = "WAIT_ADDR"]
<1>2. len = s[o + 3] * 256 + s[o + 4] /\ len \in Nat
  BY <1>1 DEF Byte
<1>3. CASE len < AddrCmdCrc \/ len > MaxFrameSize
  <2>1. FeedLen2(p, b).parser = [q EXCEPT !.state = "ERROR", !.error = ErrLen]
    BY <1>3 DEF FeedLen2, Fails
  <2>2. FeedLen2(p, b).parser.state = "ERROR"
    BY <2>1 DEF Parsers
  <2> HIDE DEF len
  <2>3. \A n \in 0..MaxDataSize : ~FrameAt(s, o, n)
    BY <1>2, <1>3, FrameAssumption DEF FrameAt, AddrCmdCrc, MaxFrameSize
  <2> QED BY <2>2, <2>3 DEF Loses, Astray
<1>4. CASE ~(len < AddrCmdCrc \/ len > MaxFrameSize)
  <2>1. FeedLen2(p, b) = [parser |-> r, ret |-> -1]
    BY <1>4 DEF FeedLen2, Goes, Parsers
  <2>2. r.state = "WAIT_ADDR" /\ r.crc_calc = 65535 /\ r.received_len = 0 /\ r.data_len = len - 4
    BY <1>1 DEF Parsers, AddrCmdCrc
  <2> HIDE DEF r, len, q
  <2>3. CASE r.data_len <= MaxDataSize
    <3>1. s[o + 3] * 256 + s[o + 4] = 4 + r.data_len
      BY <1>2, <2>2
    <3> QED BY <1>1, <2>1, <2>2, <2>3, <3>1 DEF Advances, Fits, Sized
  <2>4. CASE ~(r.data_len <= MaxDataSize)
    <3>1. r.data_len > MaxDataSize
      BY <1>2, <2>2, <2>4, FrameAssumption
    <3>2. \A n \in 0..MaxDataSize : ~FrameAt(s, o, n)
      BY <1>2, <2>2, <3>1, FrameAssumption DEF FrameAt
    <3>3. Long(r)
      BY <2>2, <3>1 DEF Long, States
    <3> QED BY <2>1, <3>2, <3>3 DEF Loses
  <2> QED BY <2>3, <2>4
<1> QED BY <1>3, <1>4

LEMMA FitsAddr ==
  ASSUME NEW p \in Parsers, NEW s, NEW o \in Nat, NEW m, Fits(p, s, o, m), p.state = "WAIT_ADDR",
         NEW b \in Byte, b = s[o + m + 1]
  PROVE  Advances(FeedAddr(p, b), s, o, m)
<1>1. m = 4 /\ Sized(p, s, o) /\ p.received_len = 0 /\ p.crc_calc = 65535 /\ b = s[o + 5]
  BY DEF Fits
<1> DEFINE r == [p EXCEPT !.addr = b, !.crc_calc = CrcUpdate(@, b), !.state = "WAIT_CMD"]
<1>2. FeedAddr(p, b) = [parser |-> r, ret |-> -1]
  BY DEF FeedAddr, Goes, Parsers
<1>3. /\ r.state = "WAIT_CMD" /\ r.crc_calc = CrcUpdate(65535, b) /\ r.addr = b
      /\ r.received_len = 0 /\ r.data_len = p.data_len
  BY <1>1 DEF Parsers
<1>4. Crc(Window(s, o + 4, 1)) = CrcUpdate(65535, b)
  <2>1. PICK h \in Nat : h = o + 4
    OBVIOUS
  <2>2. 1 = 0 + 1 /\ o + 5 = h + 1
    BY <2>1
  <2>3. Crc(Window(s, h, 1)) = CrcUpdate(Crc(Window(s, h, 0)), s[o + 5])
    BY <2>2, WindowCrc
  <2> QED BY <1>1, <2>1, <2>3, EmptyWindowCrc
<1> HIDE DEF r
<1>5. Sized(r, s, o)
  BY <1>1, <1>3 DEF Sized
<1> QED BY <1>1, <1>2, <1>3, <1>4, <1>5 DEF Advances, Fits

LEMMA FitsCmd ==
  ASSUME NEW p \in Parsers, NEW s, NEW o \in Nat, NEW m, Fits(p, s, o, m), p.state = "WAIT_CMD",
         NEW b \in Byte, b = s[o + m + 1]
  PROVE  Advances(FeedCmd(p, b), s, o, m)
<1>1. /\ m = 5 /\ Sized(p, s, o) /\ p.received_len = 0 /\ p.addr = s[o + 5] /\ b = s[o + 6]
      /\ p.crc_calc = Crc(Window(s, o + 4, 1))
  BY DEF Fits
<1> DEFINE r == [p EXCEPT !.cmd = b, !.crc_calc = CrcUpdate(@, b),
                          !.state = IF p.data_len > 0 THEN "WAIT_DATA" ELSE "WAIT_CRC1"]
<1>2. FeedCmd(p, b) = [parser |-> r, ret |-> -1]
  BY DEF FeedCmd, Goes, Parsers
<1>3. /\ r.state = IF p.data_len > 0 THEN "WAIT_DATA" ELSE "WAIT_CRC1"
      /\ r.crc_calc = CrcUpdate(p.crc_calc, b) /\ r.addr = p.addr /\ r.cmd = b
      /\ r.received_len = 0 /\ r.data_len = p.data_len
  BY <1>1 DEF Parsers
<1>4. Crc(Window(s, o + 4, 2)) = CrcUpdate(Crc(Window(s, o + 4, 1)), b)
  <2>1. PICK h \in Nat : h = o + 4
    OBVIOUS
  <2>2. 2 = 1 + 1 /\ o + 6 = h + 2
    BY <2>1
  <2>3. Crc(Window(s, h, 2)) = CrcUpdate(Crc(Window(s, h, 1)), s[o + 6])
    BY <2>2, WindowCrc
  <2> QED BY <1>1, <2>1, <2>3
<1> HIDE DEF r
<1>5. Named(r, s, o)
  BY <1>1, <1>3 DEF Sized, Named
<1>6. r.data_len \in Nat /\ 0 + 2 = 2
  BY <1>3 DEF Parsers, UInt16
<1>7. r.crc_calc = Crc(Window(s, o + 4, 2))
  BY <1>1, <1>3, <1>4
<1>8. CASE p.data_len > 0
  <2>1. r.state = "WAIT_DATA" /\ r.received_len < r.data_len
    BY <1>3, <1>6, <1>8
  <2>2. r.crc_calc = Crc(Window(s, o + 4, r.received_len + 2)) /\ m + 1 = 6 + r.received_len
    BY <1>1, <1>3, <1>7
  <2>3. Fits(r, s, o, m + 1)
    BY <1>5, <2>1, <2>2 DEF Fits
  <2> QED BY <1>2, <2>1, <2>3 DEF Advances
<1>9. CASE ~(p.data_len > 0)
  <2>1. r.state = "WAIT_CRC1" /\ r.data_len = 0
    BY <1>3, <1>6, <1>9
  <2>2. r.crc_calc = Crc(Window(s, o + 4, r.data_len + 2)) /\ m + 1 = 6 + r.data_len
    BY <1>1, <1>7, <2>1
  <2>3. Fits(r, s, o, m + 1)
    BY <1>3, <1>5, <2>1, <2>2 DEF Fits, Whole
  <2> QED BY <1>2, <2>1, <2>3 DEF Advances
<1> QED BY <1>8, <1>9

LEMMA FitsData ==
  ASSUME NEW p \in Parsers, NEW s, NEW o \in Nat, NEW m, Fits(p, s, o, m), p.state = "WAIT_DATA",
         NEW b \in Byte, b = s[o + m + 1]
  PROVE  Advances(FeedData(p, b), s, o, m)
<1>1. /\ m = 6 + p.received_len /\ Named(p, s, o) /\ p.received_len < p.data_len
      /\ p.crc_calc = Crc(Window(s, o + 4, p.received_len + 2))
  BY DEF Fits
<1>2. PICK i \in Nat : i = p.received_len
  BY DEF Parsers, UInt16
<1>3. i < MaxDataSize /\ p.data_len \in Nat /\ b = s[o + 6 + (i + 1)]
  <2>1. p.data_len \in Nat /\ p.data_len <= MaxDataSize
    BY <1>1 DEF Named, Sized, Parsers, UInt16
  <2>2. o + m + 1 = o + 6 + (i + 1)
    BY <1>1, <1>2
  <2> QED BY <1>1, <1>2, <2>1, <2>2, FrameAssumption
<1> DEFINE sum == CrcUpdate(p.crc_calc, b)
           r == [p EXCEPT !.data[i + 1] = b, !.received_len = i + 1, !.crc_calc = sum,
                          !.state = IF i + 1 >= p.data_len THEN "WAIT_CRC1" ELSE "WAIT_DATA"]
<1>4. FeedData(p, b) = [parser |-> r, ret |-> -1]
  <2>1. Store(p, i, b) = [p EXCEPT !.data[i + 1] = b]
    <3>1. /\ i < MaxDataSize /\ i # MaxDataSize /\ i # MaxDataSize + 1 /\ i # MaxDataSize + 2
          /\ i # MaxDataSize + 3 /\ i # MaxDataSize + 4
      BY <1>3, FrameAssumption
    <3> QED BY <3>1 DEF Store, Parsers
  <2> QED BY <1>1, <1>2, <2>1 DEF FeedData, Goes, Parsers
<1>5. /\ r.state = IF i + 1 >= p.data_len THEN "WAIT_CRC1" ELSE "WAIT_DATA"
      /\ r.crc_calc = sum /\ r.addr = p.addr /\ r.cmd = p.cmd
      /\ r.received_len = i + 1 /\ r.data_len = p.data_len
      /\ r.data = [p.data EXCEPT ![i + 1] = b]
  BY DEF Parsers
<1>6. Crc(Window(s, o + 4, (i + 1) + 2)) = sum
  <2>1. PICK h \in Nat, n \in Nat, k \in Nat, j \in Nat :
          h = o + 4 /\ n = i + 2 /\ k = (i + 1) + 2 /\ j = o + 6 + (i + 1)
    OBVIOUS
  <2>2. k = n + 1 /\ j = h + k
    BY <2>1
  <2>3. Crc(Window(s, h, k)) = CrcUpdate(Crc(Window(s, h, n)), s[j])
    BY <2>2, WindowCrc
  <2> QED BY <1>1, <1>2, <1>3, <2>1, <2>3
<1> HIDE DEF r, sum
<1>7. Named(r, s, o)
  <2>1. \A k \in 1..(i + 1) : r.data[k] = s[o + 6 + k]
    <3> SUFFICES ASSUME NEW k \in 1..(i + 1) PROVE r.data[k] = s[o + 6 + k]
      OBVIOUS
    <3>1. k \in 1..MaxDataSize /\ p.data \in [1..MaxDataSize -> Byte]
      BY <1>3, FrameAssumption DEF Parsers
    <3>2. CASE k = i + 1
      BY <1>3, <1>5, <3>1, <3>2
    <3>3. CASE k # i + 1
      <4>1. k \in 1..i
        BY <3>3
      <4> QED BY <1>1, <1>2, <1>5, <3>1, <3>3, <4>1 DEF Named
    <3> QED BY <3>2, <3>3
  <2> QED BY <1>1, <1>5, <2>1 DEF Sized, Named
<1>8. CASE i + 1 >= p.data_len
  <2>1. r.state = "WAIT_CRC1" /\ r.data_len = i + 1
    BY <1>1, <1>2, <1>3, <1>5, <1>8
  <2>2. r.crc_calc = Crc(Window(s, o + 4, r.data_len + 2)) /\ m + 1 = 6 + r.data_len
    BY <1>1, <1>2, <1>5, <1>6, <2>1
  <2>3. Fits(r, s, o, m + 1)
    BY <1>5, <1>7, <2>1, <2>2 DEF Fits, Whole
  <2> QED BY <1>4, <2>1, <2>3 DEF Advances
<1>9. CASE ~(i + 1 >= p.data_len)
  <2>1. r.state = "WAIT_DATA" /\ r.received_len < r.data_len
    BY <1>3, <1>5, <1>9
  <2>2. r.crc_calc = Crc(Window(s, o + 4, r.received_len + 2)) /\ m + 1 = 6 + r.received_len
    BY <1>1, <1>2, <1>5, <1>6
  <2>3. Fits(r, s, o, m + 1)
    BY <1>7, <2>1, <2>2 DEF Fits
  <2> QED BY <1>4, <2>1, <2>3 DEF Advances
<1> QED BY <1>8, <1>9

LEMMA FitsCrc1 ==
  ASSUME NEW p \in Parsers, NEW s, NEW o \in Nat, NEW m, Fits(p, s, o, m), p.state = "WAIT_CRC1",
         NEW b \in Byte, b = s[o + m + 1]
  PROVE  Advances(FeedCrc1(p, b), s, o, m)
<1>1. /\ m = 6 + p.data_len /\ Whole(p, s, o)
      /\ p.crc_calc = Crc(Window(s, o + 4, p.data_len + 2))
  BY DEF Fits
<1>2. PICK n \in Nat : n = p.data_len
  BY DEF Parsers, UInt16
<1>3. b = s[o + 7 + n] /\ m + 1 = 7 + n
  BY <1>1, <1>2
<1> DEFINE r == [p EXCEPT !.crc = b * 256, !.state = "WAIT_CRC2"]
<1>4. FeedCrc1(p, b) = [parser |-> r, ret |-> -1]
  BY DEF FeedCrc1, Goes, Parsers
<1>5. /\ r.state = "WAIT_CRC2" /\ r.crc_calc = p.crc_calc /\ r.addr = p.addr /\ r.cmd = p.cmd
      /\ r.received_len = p.received_len /\ r.data_len = p.data_len /\ r.data = p.data
      /\ r.crc = b * 256
  BY DEF Parsers
<1> HIDE DEF r
<1>6. Whole(r, s, o)
  BY <1>1, <1>5 DEF Whole, Named, Sized
<1>7. Fits(r, s, o, m + 1)
  BY <1>1, <1>2, <1>3, <1>5, <1>6 DEF Fits
<1> QED BY <1>4, <1>5, <1>7 DEF Advances

LEMMA FitsCrc2 ==
  ASSUME NEW p \in Parsers, NEW s, NEW o \in Nat, NEW m, Fits(p, s, o, m), p.state = "WAIT_CRC2",
         NEW b \in Byte, b = s[o + m + 1]
  PROVE  LET fed == FeedCrc2(p, b) IN Advances(fed, s, o, m) \/ Loses(fed, s, o, b)
<1>1. /\ m = 7 + p.data_len /\ Whole(p, s, o)
      /\ p.crc_calc = Crc(Window(s, o + 4, p.data_len + 2))
      /\ p.crc = s[o + 7 + p.data_len] * 256
  BY DEF Fits
<1>2. PICK n \in Nat : n = p.data_len
  BY DEF Parsers, UInt16
<1>3. b = s[o + 8 + n] /\ m + 1 = 8 + n
  BY <1>1, <1>2
<1> DEFINE q == [p EXCEPT !.crc = @ + b]
<1>4. /\ q.crc_calc = p.crc_calc /\ q.addr = p.addr /\ q.cmd = p.cmd
      /\ q.received_len = p.received_len /\ q.data_len = p.data_len /\ q.data = p.data
      /\ q.crc = s[o + 7 + n] * 256 + s[o + 8 + n]
  BY <1>1, <1>2, <1>3 DEF Parsers
<1>5. FeedCrc2(p, b) = IF q.crc = q.crc_calc THEN Goes(q, "WAIT_TAIL1") ELSE Fails(q, ErrCrc)
  BY DEF FeedCrc2
<1>6. CASE q.crc = q.crc_calc
  <2> DEFINE r == [q EXCEPT !.state = "WAIT_TAIL1"]
  <2>1. FeedCrc2(p, b) = [parser |-> r, ret |-> -1]
    BY <1>5, <1>6 DEF Goes
  <2>2. /\ r.state = "WAIT_TAIL1" /\ r.addr = p.addr /\ r.cmd = p.cmd
        /\ r.received_len = p.received_len /\ r.data_len = p.data_len /\ r.data = p.data
    BY DEF Parsers
  <2> HIDE DEF r, q
  <2>3. Whole(r, s, o)
    BY <1>1, <2>2 DEF Whole, Named, Sized
  <2>4. Summed(r, s, o)
    BY <1>1, <1>2, <1>4, <1>6, <2>2 DEF Summed
  <2>5. Fits(r, s, o, m + 1)
    BY <1>2, <1>3, <2>2, <2>3, <2>4 DEF Fits
  <2> QED BY <2>1, <2>2, <2>5 DEF Advances
<1>7. CASE q.crc # q.crc_calc
  <2>1. FeedCrc2(p, b).parser.state = "ERROR"
    <3>1. FeedCrc2(p, b).parser = [q EXCEPT !.state = "ERROR", !.error = ErrCrc]
      BY <1>5, <1>7 DEF Fails
    <3> QED BY <3>1 DEF Parsers
  <2> HIDE DEF q
  <2>2. ASSUME NEW k \in 0..MaxDataSize, FrameAt(s, o, k) PROVE FALSE
    <3>1. s[o + 3] * 256 + s[o + 4] = 4 + k /\ s[o + 3] * 256 + s[o + 4] = 4 + n
      BY <1>1, <1>2, <2>2 DEF FrameAt, Whole, Named, Sized
    <3>2. k = n
      BY <3>1, FrameAssumption
    <3> QED BY <1>1, <1>2, <1>4, <1>7, <2>2, <3>2 DEF FrameAt
  <2> QED BY <2>1, <2>2 DEF Loses, Astray
<1> QED BY <1>6, <1>7

LEMMA FrameLength ==
  ASSUME NEW p \in Parsers, NEW s, NEW o, Sized(p, s, o), NEW k \in Nat, FrameAt(s, o, k)
  PROVE  k = p.data_len
<1>1. p.data_len \in Nat
  BY DEF Parsers, UInt16
<1>2. 4 + k = 4 + p.data_len
  BY DEF Sized, FrameAt
<1> QED BY <1>1, <1>2

LEMMA FitsTail1 ==
  ASSUME NEW p \in Parsers, NEW s, NEW o \in Nat, NEW m, Fits(p, s, o, m), p.state = "WAIT_TAIL1",
         NEW b \in Byte, b = s[o + m + 1]
  PROVE  LET fed == FeedTail1(p, b) IN Advances(fed, s, o, m) \/ Loses(fed, s, o, b)
<1>1. m = 8 + p.data_len /\ Whole(p, s, o) /\ Summed(p, s, o)
  BY DEF Fits
<1>2. PICK n \in Nat : n = p.data_len
  BY DEF Parsers, UInt16
<1>3. b = s[o + 9 + n] /\ m + 1 = 9 + n
  BY <1>1, <1>2
<1>4. CASE b = 204
  <2> DEFINE r == [p EXCEPT !.state = "WAIT_TAIL2"]
  <2>1. FeedTail1(p, b) = [parser |-> r, ret |-> -1]
    BY <1>4 DEF FeedTail1, Goes, TailMark
  <2>2. /\ r.state = "WAIT_TAIL2" /\ r.addr = p.addr /\ r.cmd = p.cmd
        /\ r.received_len = p.received_len /\ r.data_len = p.data_len /\ r.data = p.data
    BY DEF Parsers
  <2> HIDE DEF r
  <2>3. Whole(r, s, o) /\ Summed(r, s, o)
    BY <1>1, <2>2 DEF Whole, Named, Sized, Summed
  <2>4. m + 1 = 9 + r.data_len /\ s[o + 9 + r.data_len] = 204
    BY <1>2, <1>3, <1>4, <2>2
  <2>5. Fits(r, s, o, m + 1)
    BY <2>2, <2>3, <2>4 DEF Fits
  <2> QED BY <2>1, <2>2, <2>5 DEF Advances
<1>5. CASE b # 204
  <2>1. FeedTail1(p, b).parser = [p EXCEPT !.state = "ERROR", !.error = ErrFrame]
    BY <1>5 DEF FeedTail1, Fails, TailMark
  <2>2. FeedTail1(p, b).parser.state = "ERROR"
    BY <2>1 DEF Parsers
  <2>3. ASSUME NEW k \in 0..MaxDataSize, FrameAt(s, o, k) PROVE FALSE
    <3>1. k = n
      BY <1>1, <1>2, <2>3, FrameLength, FrameAssumption DEF Whole, Named
    <3> QED BY <1>3, <1>5, <2>3, <3>1 DEF FrameAt
  <2> QED BY <2>2, <2>3 DEF Loses, Astray
<1> QED BY <1>4, <1>5

LEMMA FitsTail2 ==
  ASSUME NEW p \in Parsers, NEW s, NEW o \in Nat, NEW m, Fits(p, s, o, m), p.state = "WAIT_TAIL2",
         NEW b \in Byte, b = s[o + m + 1]
  PROVE  LET fed == FeedTail2(p, b) IN Advances(fed, s, o, m) \/ Loses(fed, s, o, b)
<1>1. m = 9 + p.data_len /\ Whole(p, s, o) /\ Summed(p, s, o) /\ s[o + 9 + p.data_len] = 204
  BY DEF Fits
<1>2. PICK n \in Nat : n = p.data_len
  BY DEF Parsers, UInt16
<1>3. b = s[o + 10 + n] /\ m + 1 = 10 + n
  BY <1>1, <1>2
<1>4. CASE b = 221
  <2> DEFINE r == [p EXCEPT !.state = "COMPLETE"]
  <2>1. FeedTail2(p, b) = [parser |-> r, ret |-> 0]
    BY <1>4 DEF FeedTail2, TailMark
  <2>2. /\ r.state = "COMPLETE" /\ r.addr = p.addr /\ r.cmd = p.cmd
        /\ r.received_len = p.received_len /\ r.data_len = p.data_len /\ r.data = p.data
    BY DEF Parsers
  <2> HIDE DEF r
  <2>3. Whole(r, s, o) /\ Summed(r, s, o)
    BY <1>1, <2>2 DEF Whole, Named, Sized, Summed
  <2>4. Fits(r, s, o, m + 1)
    BY <1>1, <1>2, <1>3, <1>4, <2>2, <2>3 DEF Fits
  <2> QED BY <2>1, <2>2, <2>4 DEF Advances
<1>5. CASE b # 221
  <2>1. FeedTail2(p, b).parser = [p EXCEPT !.state = "ERROR", !.error = ErrFrame]
    BY <1>5 DEF FeedTail2, Fails, TailMark
  <2>2. FeedTail2(p, b).parser.state = "ERROR"
    BY <2>1 DEF Parsers
  <2>3. ASSUME NEW k \in 0..MaxDataSize, FrameAt(s, o, k) PROVE FALSE
    <3>1. k = n
      BY <1>1, <1>2, <2>3, FrameLength, FrameAssumption DEF Whole, Named
    <3> QED BY <1>3, <1>5, <2>3, <3>1 DEF FrameAt
  <2> QED BY <2>2, <2>3 DEF Loses, Astray
<1> QED BY <1>4, <1>5

\* proto_parser_feed in the middle of a frame: it goes on with it, or the frame is none.
LEMMA FedFits ==
  ASSUME NEW p \in Parsers, NEW s, NEW o \in Nat, NEW m, Fits(p, s, o, m), p.state # "COMPLETE",
         NEW b \in Byte, b = s[o + m + 1], m = 3 => s[o + 3] \in Byte
  PROVE  LET fed == Fed(p, b) IN Advances(fed, s, o, m) \/ Loses(fed, s, o, b)
<1> DEFINE q == [p EXCEPT !.error = ErrNone]
           Good(fed) == Advances(fed, s, o, m) \/ Loses(fed, s, o, b)
<1>1. /\ q \in Parsers /\ q.state = p.state /\ q.expected_len = p.expected_len
      /\ q.received_len = p.received_len /\ q.addr = p.addr /\ q.cmd = p.cmd
      /\ q.data_len = p.data_len /\ q.data = p.data /\ q.crc = p.crc /\ q.crc_calc = p.crc_calc
  BY DEF Parsers, ErrNone, Byte
<1>2. /\ p.state = "WAIT_HEAD2" => Fed(p, b) = FeedHead2(q, b)
      /\ p.state = "WAIT_LEN1" => Fed(p, b) = FeedLen1(q, b)
      /\ p.state = "WAIT_LEN2" => Fed(p, b) = FeedLen2(q, b)
      /\ p.state = "WAIT_ADDR" => Fed(p, b) = FeedAddr(q, b)
      /\ p.state = "WAIT_CMD" => Fed(p, b) = FeedCmd(q, b)
      /\ p.state = "WAIT_DATA" => Fed(p, b) = FeedData(q, b)
      /\ p.state = "WAIT_CRC1" => Fed(p, b) = FeedCrc1(q, b)
      /\ p.state = "WAIT_CRC2" => Fed(p, b) = FeedCrc2(q, b)
      /\ p.state = "WAIT_TAIL1" => Fed(p, b) = FeedTail1(q, b)
      /\ p.state = "WAIT_TAIL2" => Fed(p, b) = FeedTail2(q, b)
  BY DEF Fed
<1> HIDE DEF q
<1>3. Fits(q, s, o, m)
  BY <1>1 DEF Fits, Whole, Named, Sized, Summed
<1>4. p.state \in {"WAIT_HEAD2", "WAIT_LEN1", "WAIT_LEN2", "WAIT_ADDR", "WAIT_CMD", "WAIT_DATA",
                   "WAIT_CRC1", "WAIT_CRC2", "WAIT_TAIL1", "WAIT_TAIL2"}
  BY DEF Fits
<1>5. CASE p.state \in {"WAIT_HEAD2", "WAIT_LEN1", "WAIT_ADDR", "WAIT_CMD", "WAIT_DATA"}
  BY <1>1, <1>2, <1>3, <1>5, FitsHead2, FitsLen1, FitsAddr, FitsCmd, FitsData
<1>6. CASE p.state = "WAIT_LEN2"
  <2>1. s[o + 3] \in Byte
    BY <1>6 DEF Fits
  <2> QED BY <1>1, <1>2, <1>3, <1>6, <2>1, FitsLen2
<1>7. CASE p.state \in {"WAIT_CRC1", "WAIT_CRC2", "WAIT_TAIL1", "WAIT_TAIL2"}
  BY <1>1, <1>2, <1>3, <1>7, FitsCrc1, FitsCrc2, FitsTail1, FitsTail2
<1> QED BY <1>4, <1>5, <1>6, <1>7

\* Hunting for a head: only a first head byte begins a frame.
LEMMA FedHunts ==
  ASSUME NEW p \in Parsers, Hunting(p), NEW b \in Byte
  PROVE  LET fed == Fed(p, b)
         IN  /\ b = 170 => fed.parser.state = "WAIT_HEAD2"
             /\ b # 170 => Astray(fed.parser) \/ fed.parser.state = "WAIT_LEN1"
             /\ fed.parser.state = "WAIT_LEN1" => p.state = "WAIT_HEAD2"
<1> DEFINE q == [p EXCEPT !.error = ErrNone]
<1>1. q \in Parsers /\ q.state = p.state
  BY DEF Parsers, ErrNone, Byte
<1>2. /\ p.state = "WAIT_HEAD1" => Fed(p, b) = FeedHead1(q, b)
      /\ p.state = "WAIT_HEAD2" => Fed(p, b) = FeedHead2(q, b)
      /\ p.state = "ERROR" => Fed(p, b) = FeedError(q, b)
  BY DEF Fed
<1> HIDE DEF q
<1>3. CASE p.state = "WAIT_HEAD1"
  <2>1. Fed(p, b).parser.state = IF b = 170 THEN "WAIT_HEAD2" ELSE "WAIT_HEAD1"
    BY <1>1, <1>2, <1>3 DEF FeedHead1, Goes, HeadMark, Parsers
  <2> QED BY <2>1, <1>3 DEF Astray
<1>4. CASE p.state = "WAIT_HEAD2"
  <2>1. Fed(p, b).parser.state
          = IF b = 187 THEN "WAIT_LEN1" ELSE IF b = 170 THEN "WAIT_HEAD2" ELSE "WAIT_HEAD1"
    <3> DEFINE r == [q EXCEPT !.crc_calc = 65535]
    <3>1. r \in Parsers
      BY <1>1, SMTT(30) DEF Parsers, UInt16
    <3>2. FeedHead2(q, b) = IF b = 187 THEN Goes(r, "WAIT_LEN1")
                            ELSE Goes(q, IF b = 170 THEN "WAIT_HEAD2" ELSE "WAIT_HEAD1")
      BY DEF FeedHead2, HeadMark
    <3> HIDE DEF r
    <3>3. Goes(r, "WAIT_LEN1").parser.state = "WAIT_LEN1"
      BY <3>1 DEF Goes, Parsers
    <3>4. \A state : Goes(q, state).parser.state = state
      BY <1>1 DEF Goes, Parsers
    <3> QED BY <1>2, <1>4, <3>2, <3>3, <3>4
  <2> QED BY <2>1, <1>4 DEF Astray
<1>5. CASE p.state = "ERROR"
  <2>1. Fed(p, b).parser.state = IF b = 170 THEN "WAIT_HEAD2" ELSE "ERROR"
    BY <1>1, <1>2, <1>5 DEF FeedError, HeadMark, Parsers
  <2> QED BY <2>1, <1>5 DEF Astray
<1> QED BY <1>3, <1>4, <1>5 DEF Hunting

\* A frame that is too long stays so.
LEMMA FedLong ==
  ASSUME NEW p \in Parsers, Long(p), p.state # "COMPLETE", NEW b \in Byte
  PROVE  Astray(Fed(p, b).parser) \/ Long(Fed(p, b).parser)
<1> DEFINE q == [p EXCEPT !.error = ErrNone]
<1>1. q \in Parsers /\ q.state = p.state /\ q.data_len = p.data_len
  BY DEF Parsers, ErrNone, Byte
<1>2. /\ p.state = "WAIT_ADDR" => Fed(p, b) = FeedAddr(q, b)
      /\ p.state = "WAIT_CMD" => Fed(p, b) = FeedCmd(q, b)
      /\ p.state = "WAIT_DATA" => Fed(p, b) = FeedData(q, b)
      /\ p.state = "WAIT_CRC1" => Fed(p, b) = FeedCrc1(q, b)
      /\ p.state = "WAIT_CRC2" => Fed(p, b) = FeedCrc2(q, b)
      /\ p.state = "WAIT_TAIL1" => Fed(p, b) = FeedTail1(q, b)
      /\ p.state = "WAIT_TAIL2" => Fed(p, b) = FeedTail2(q, b)
  BY DEF Fed
<1> HIDE DEF q
<1> DEFINE InFrame == States \ {"WAIT_HEAD1", "WAIT_HEAD2", "WAIT_LEN1", "WAIT_LEN2", "ERROR"}
           Stays(r) == r.data_len = q.data_len /\ (r.state \in InFrame \/ r.state = "ERROR")
<1>3. CASE p.state \in {"WAIT_ADDR", "WAIT_CMD", "WAIT_CRC1"}
  <2>1. Stays(FeedAddr(q, b).parser) /\ Stays(FeedCmd(q, b).parser) /\ Stays(FeedCrc1(q, b).parser)
    BY <1>1 DEF FeedAddr, FeedCmd, FeedCrc1, Goes, Parsers, States
  <2> QED BY <1>1, <1>2, <1>3, <2>1 DEF Long, Astray
<1>4. CASE p.state = "WAIT_DATA"
  <2> DEFINE t == [Store(q, q.received_len, b) EXCEPT !.received_len = @ + 1,
                                                     !.crc_calc = CrcUpdate(@, b)]
             u == IF q.received_len < q.data_len THEN t ELSE q
  <2>1. q.received_len \in Nat
    BY <1>1 DEF Parsers, UInt16
  <2>2. Store(q, q.received_len, b) \in Parsers /\ Store(q, q.received_len, b).data_len = q.data_len
    BY <1>1, <2>1, StoreType
  <2>3. t.data_len = q.data_len
    BY <2>2 DEF Parsers
  <2>4. u.data_len = q.data_len /\ DOMAIN u = DOMAIN q
    BY <1>1, <2>2, <2>3 DEF Parsers
  <2>5. FeedData(q, b).parser
          = [u EXCEPT !.state = IF u.received_len >= u.data_len THEN "WAIT_CRC1" ELSE "WAIT_DATA"]
    BY DEF FeedData, Goes
  <2> HIDE DEF u, t
  <2>6. Stays(FeedData(q, b).parser)
    BY <1>1, <2>4, <2>5 DEF Parsers, States
  <2> QED BY <1>1, <1>2, <1>4, <2>6 DEF Long, Astray
<1>5. CASE p.state \in {"WAIT_CRC2", "WAIT_TAIL1", "WAIT_TAIL2"}
  <2>1. Stays(FeedCrc2(q, b).parser)
    BY <1>1 DEF FeedCrc2, Goes, Fails, Parsers, States
  <2>2. Stays(FeedTail1(q, b).parser)
    BY <1>1 DEF FeedTail1, Goes, Fails, Parsers, States
  <2>3. Stays(FeedTail2(q, b).parser)
    BY <1>1 DEF FeedTail2, Goes, Fails, Parsers, States
  <2> QED BY <1>1, <1>2, <1>5, <2>1, <2>2, <2>3 DEF Long, Astray
<1> QED BY <1>3, <1>4, <1>5 DEF Long, States

-----------------------------------------------------------------------------
\* What proto_pack puts where.
LEMMA Joined ==
  ASSUME NEW s \in Seq(Nat), NEW t \in Seq(Nat)
  PROVE  /\ s \o t \in Seq(Nat) /\ Len(s \o t) = Len(s) + Len(t)
         /\ \A i \in 1..Len(s) : (s \o t)[i] = s[i]
         /\ \A i \in 1..Len(t) : (s \o t)[Len(s) + i] = t[i]
  OBVIOUS

LEMMA BytesAreNumbers == ASSUME NEW s \in Seq(Byte) PROVE s \in Seq(Nat)
<1>1. s \in [1..Len(s) -> Byte] /\ Len(s) \in Nat
  OBVIOUS
<1>2. s \in [1..Len(s) -> Nat]
  BY <1>1 DEF Byte
<1> QED BY <1>1, <1>2

LEMMA BodyIs ==
  ASSUME NEW addr \in Byte, NEW cmd \in Byte, NEW data \in Seq(Byte)
  PROVE  LET body == <<addr, cmd>> \o data
         IN  /\ body \in Seq(Byte) /\ body \in Seq(Nat) /\ Len(body) = Len(data) + 2
             /\ body[1] = addr /\ body[2] = cmd
             /\ \A k \in 1..Len(data) : body[2 + k] = data[k]
<1>1. PICK e : e = <<addr, cmd>>
  OBVIOUS
<1>2. e \in Seq(Byte) /\ Len(e) = 2 /\ e[1] = addr /\ e[2] = cmd
  BY <1>1
<1>3. PICK body : body = e \o data
  OBVIOUS
<1>4. body \in Seq(Byte) /\ body \in Seq(Nat)
  BY <1>2, <1>3, BytesAreNumbers
<1>5. PICK a \in Nat, b \in Nat : a = Len(e) /\ b = Len(data)
  BY <1>2
<1>6. /\ Len(body) = a + b
      /\ \A i \in 1..a : body[i] = e[i]
      /\ \A i \in 1..b : body[a + i] = data[i]
  BY <1>2, <1>3, <1>5, BytesAreNumbers, Joined
<1> QED BY <1>1, <1>2, <1>3, <1>4, <1>5, <1>6

\* f is a frame of this address, command and data with this checksum.
PackedBytes(f, addr, cmd, data, n, crc) ==
  /\ f \in Seq(Nat) /\ Len(f) = 10 + n /\ n \in Nat /\ crc \in UInt16
  /\ f[1] = 170 /\ f[2] = 187
  /\ f[3] = (4 + n) \div 256 /\ f[4] = (4 + n) % 256
  /\ f[5] = addr /\ f[6] = cmd
  /\ \A k \in 1..n : f[6 + k] = data[k]
  /\ f[7 + n] = crc \div 256 /\ f[8 + n] = crc % 256
  /\ f[9 + n] = 204 /\ f[10 + n] = 221

LEMMA PackIs ==
  ASSUME CrcIsSixteenBit, NEW addr \in Byte, NEW cmd \in Byte, NEW data \in Seq(Byte),
         Len(data) <= MaxDataSize
  PROVE  PackedBytes(Pack(addr, cmd, data), addr, cmd, data, Len(data), Crc(<<addr, cmd>> \o data))
<1>1. PICK n \in Nat : n = Len(data)
  OBVIOUS
<1>2. PICK body : body = <<addr, cmd>> \o data
  OBVIOUS
<1>3. /\ body \in Seq(Byte) /\ body \in Seq(Nat) /\ Len(body) = n + 2
      /\ body[1] = addr /\ body[2] = cmd
      /\ \A k \in 1..n : body[2 + k] = data[k]
  BY <1>1, <1>2, BodyIs
<1>4. PICK crc : crc = Crc(body)
  OBVIOUS
<1>5. crc \in UInt16
  <2>1. \A i \in 1..Len(body) : body[i] \in Byte
    BY <1>3
  <2> QED BY <1>3, <1>4, <2>1, CrcType
<1>6. \A x \in Nat : BigEndian(x) \in Seq(Nat) /\ Len(BigEndian(x)) = 2
                     /\ BigEndian(x)[1] = x \div 256 /\ BigEndian(x)[2] = x % 256
  BY DEF BigEndian
<1>7. /\ HeadMark \in Seq(Nat) /\ Len(HeadMark) = 2 /\ HeadMark[1] = 170 /\ HeadMark[2] = 187
      /\ TailMark \in Seq(Nat) /\ Len(TailMark) = 2 /\ TailMark[1] = 204 /\ TailMark[2] = 221
  BY DEF HeadMark, TailMark
<1>8. PICK h : h = HeadMark \o BigEndian(4 + n)
  OBVIOUS
<1>9. /\ h \in Seq(Nat) /\ Len(h) = 4 /\ h[1] = 170 /\ h[2] = 187
      /\ h[3] = (4 + n) \div 256 /\ h[4] = (4 + n) % 256
  <2>1. PICK e : e = BigEndian(4 + n)
    OBVIOUS
  <2>2. 4 + n \in Nat
    OBVIOUS
  <2>3. e \in Seq(Nat) /\ Len(e) = 2 /\ e[1] = (4 + n) \div 256 /\ e[2] = (4 + n) % 256
    BY <1>6, <2>1, <2>2
  <2>4. /\ h \in Seq(Nat) /\ Len(h) = 4
        /\ \A i \in 1..2 : h[i] = HeadMark[i] /\ h[2 + i] = e[i]
    <3>1. PICK a \in Nat, b \in Nat : a = Len(HeadMark) /\ b = Len(e)
      BY <1>7, <2>3
    <3>2. /\ h \in Seq(Nat) /\ Len(h) = a + b
          /\ \A i \in 1..a : h[i] = HeadMark[i]
          /\ \A i \in 1..b : h[a + i] = e[i]
      <4>1. HeadMark \in Seq(Nat) /\ e \in Seq(Nat) /\ h = HeadMark \o e
        BY <1>7, <1>8, <2>1, <2>3
      <4> QED BY <3>1, <4>1, Joined
    <3> QED BY <1>7, <2>3, <3>1, <3>2
  <2> QED BY <1>7, <2>3, <2>4
<1>10. PICK g : g = h \o body
  OBVIOUS
<1>11. /\ g \in Seq(Nat) /\ Len(g) = 6 + n
       /\ \A i \in 1..4 : g[i] = h[i]
       /\ \A i \in 1..(n + 2) : g[4 + i] = body[i]
  <2> SUFFICES ASSUME h \in Seq(Nat), body \in Seq(Nat), Len(h) = 4, Len(body) = n + 2
               PROVE  /\ g \in Seq(Nat) /\ Len(g) = 6 + n
                      /\ \A i \in 1..4 : g[i] = h[i]
                      /\ \A i \in 1..(n + 2) : g[4 + i] = body[i]
    BY <1>3, <1>9
  <2>1. PICK a \in Nat, b \in Nat : a = Len(h) /\ b = Len(body)
    OBVIOUS
  <2>2. /\ g \in Seq(Nat) /\ Len(g) = a + b
        /\ \A i \in 1..a : g[i] = h[i]
        /\ \A i \in 1..b : g[a + i] = body[i]
    <3>1. /\ h \o body \in Seq(Nat) /\ Len(h \o body) = Len(h) + Len(body)
          /\ \A i \in 1..Len(h) : (h \o body)[i] = h[i]
          /\ \A i \in 1..Len(body) : (h \o body)[Len(h) + i] = body[i]
      BY Joined
    <3> QED BY <1>10, <2>1, <3>1
  <2>3. a = 4 /\ b = n + 2
    BY <2>1
  <2> QED BY <2>2, <2>3
<1>12. PICK e : e = g \o BigEndian(crc)
  OBVIOUS
<1>13. /\ e \in Seq(Nat) /\ Len(e) = 8 + n
       /\ \A i \in 1..(6 + n) : e[i] = g[i]
       /\ e[7 + n] = crc \div 256 /\ e[8 + n] = crc % 256
  <2>1. PICK x : x = BigEndian(crc)
    OBVIOUS
  <2>2. crc \in Nat
    BY <1>5 DEF UInt16
  <2>3. x \in Seq(Nat) /\ Len(x) = 2 /\ x[1] = crc \div 256 /\ x[2] = crc % 256
    BY <1>6, <2>1, <2>2
  <2>4. /\ e \in Seq(Nat) /\ Len(e) = (6 + n) + 2
        /\ \A i \in 1..(6 + n) : e[i] = g[i]
        /\ \A i \in 1..2 : e[(6 + n) + i] = x[i]
    <3>1. PICK a \in Nat, b \in Nat : a = Len(g) /\ b = Len(x)
      BY <1>11, <2>3
    <3>2. /\ e \in Seq(Nat) /\ Len(e) = a + b
          /\ \A i \in 1..a : e[i] = g[i]
          /\ \A i \in 1..b : e[a + i] = x[i]
      <4>1. g \in Seq(Nat) /\ x \in Seq(Nat) /\ e = g \o x
        BY <1>11, <1>12, <2>1, <2>3
      <4> QED BY <3>1, <4>1, Joined
    <3>3. a = 6 + n /\ b = 2
      BY <1>11, <2>3, <3>1
    <3> QED BY <3>2, <3>3
  <2>5. e[(6 + n) + 1] = x[1] /\ e[(6 + n) + 2] = x[2]
    BY <2>4
  <2> QED BY <2>3, <2>4, <2>5
<1>14. PICK f : f = e \o TailMark
  OBVIOUS
<1>15. /\ f \in Seq(Nat) /\ Len(f) = 10 + n
       /\ \A i \in 1..(8 + n) : f[i] = e[i]
       /\ f[9 + n] = 204 /\ f[10 + n] = 221
  <2>1. /\ f \in Seq(Nat) /\ Len(f) = (8 + n) + 2
        /\ \A i \in 1..(8 + n) : f[i] = e[i]
        /\ \A i \in 1..2 : f[(8 + n) + i] = TailMark[i]
    <3>1. PICK a \in Nat, b \in Nat : a = Len(e) /\ b = Len(TailMark)
      BY <1>7, <1>13
    <3>2. /\ f \in Seq(Nat) /\ Len(f) = a + b
          /\ \A i \in 1..a : f[i] = e[i]
          /\ \A i \in 1..b : f[a + i] = TailMark[i]
      <4>1. e \in Seq(Nat) /\ TailMark \in Seq(Nat) /\ f = e \o TailMark
        BY <1>7, <1>13, <1>14
      <4> QED BY <3>1, <4>1, Joined
    <3>3. a = 8 + n /\ b = 2
      BY <1>7, <1>13, <3>1
    <3> QED BY <3>2, <3>3
  <2>2. f[(8 + n) + 1] = 204 /\ f[(8 + n) + 2] = 221
    BY <1>7, <2>1
  <2> QED BY <2>1, <2>2
<1>16. Pack(addr, cmd, data) = f
  <2>1. ~(Len(data) > MaxDataSize) /\ AddrCmdCrc + Len(data) = 4 + n
    BY <1>1, FrameAssumption DEF AddrCmdCrc
  <2>2. Pack(addr, cmd, data)
          = HeadMark \o BigEndian(4 + n) \o body \o BigEndian(crc) \o TailMark
    BY <1>2, <1>4, <2>1 DEF Pack
  <2> QED BY <1>8, <1>10, <1>12, <1>14, <2>2
<1>17. \A i \in 1..4 : f[i] = h[i]
  <2> SUFFICES ASSUME NEW i \in 1..4 PROVE f[i] = h[i]
    OBVIOUS
  <2>1. i \in 1..(6 + n) /\ i \in 1..(8 + n)
    OBVIOUS
  <2>2. g[i] = h[i]
    BY <1>11
  <2>3. e[i] = g[i]
    BY <1>13, <2>1
  <2>4. f[i] = e[i]
    BY <1>15, <2>1
  <2> QED BY <2>2, <2>3, <2>4
<1>18. \A i \in 1..(n + 2) : f[4 + i] = body[i]
  <2> SUFFICES ASSUME NEW i \in 1..(n + 2) PROVE f[4 + i] = body[i]
    OBVIOUS
  <2>1. 4 + i \in 1..(6 + n) /\ 4 + i \in 1..(8 + n)
    OBVIOUS
  <2> QED BY <1>11, <1>13, <1>15, <2>1
<1>19. f[5] = addr /\ f[6] = cmd
  <2>1. f[4 + 1] = body[1] /\ f[4 + 2] = body[2]
    BY <1>18
  <2> QED BY <1>3, <2>1
<1>20. \A k \in 1..n : f[6 + k] = data[k]
  <2> SUFFICES ASSUME NEW k \in 1..n PROVE f[6 + k] = data[k]
    OBVIOUS
  <2>1. 2 + k \in 1..(n + 2) /\ 4 + (2 + k) = 6 + k
    OBVIOUS
  <2>2. f[4 + (2 + k)] = body[2 + k]
    BY <1>18, <2>1
  <2> QED BY <1>3, <2>1, <2>2
<1>21. f[7 + n] = crc \div 256 /\ f[8 + n] = crc % 256
  BY <1>13, <1>15
<1>22. PackedBytes(f, addr, cmd, data, n, crc)
  <2>1. f[1] = h[1] /\ f[2] = h[2] /\ f[3] = h[3] /\ f[4] = h[4]
    BY <1>17
  <2> QED BY <1>5, <1>9, <1>15, <1>19, <1>20, <1>21, <2>1 DEF PackedBytes
<1> QED BY <1>1, <1>2, <1>4, <1>16, <1>22

\* A frame as proto_pack builds it lies at o.
PackedAt(s, o, frame, addr, cmd, data) ==
  /\ addr \in Byte /\ cmd \in Byte /\ data \in Seq(Byte) /\ Len(data) <= MaxDataSize
  /\ frame = Pack(addr, cmd, data)
  /\ o \in Nat /\ \A k \in 1..Len(frame) : s[o + k] = frame[k]

FieldsAt(s, o, addr, cmd, data) ==
  /\ s[o + 1] = 170 /\ s[o + 5] = addr /\ s[o + 6] = cmd
  /\ \A k \in 1..Len(data) : s[o + 6 + k] = data[k]

\* There its fields are what was packed.
LEMMA PackedIsFrame ==
  ASSUME CrcIsSixteenBit, NEW addr \in Byte, NEW cmd \in Byte, NEW data \in Seq(Byte),
         Len(data) <= MaxDataSize, NEW s, NEW o \in Nat, NEW frame,
         PackedAt(s, o, frame, addr, cmd, data)
  PROVE  /\ FrameAt(s, o, Len(data)) /\ Len(frame) = 10 + Len(data) /\ Len(data) \in 0..MaxDataSize
         /\ FieldsAt(s, o, addr, cmd, data)
<1>1. PICK n \in Nat : n = Len(data)
  OBVIOUS
<1>2. PICK f : f = Pack(addr, cmd, data) /\ f = frame
  BY DEF PackedAt
<1>3. PICK crc : crc = Crc(<<addr, cmd>> \o data)
  OBVIOUS
<1>4. /\ crc \in UInt16 /\ Len(f) = 10 + n
      /\ f[1] = 170 /\ f[2] = 187
      /\ f[3] = (4 + n) \div 256 /\ f[4] = (4 + n) % 256
      /\ f[5] = addr /\ f[6] = cmd
      /\ \A k \in 1..n : f[6 + k] = data[k]
      /\ f[7 + n] = crc \div 256 /\ f[8 + n] = crc % 256
      /\ f[9 + n] = 204 /\ f[10 + n] = 221
  <2>1. PackedBytes(f, addr, cmd, data, n, crc)
    BY <1>1, <1>2, <1>3, PackIs
  <2> QED BY <2>1 DEF PackedBytes
<1>5. \A k \in 1..(10 + n) : s[o + k] = f[k]
  <2>1. \A k \in 1..Len(f) : s[o + k] = f[k]
    BY <1>2 DEF PackedAt
  <2> QED BY <1>4, <2>1
<1>6. /\ s[o + 1] = 170 /\ s[o + 2] = 187 /\ s[o + 5] = addr /\ s[o + 6] = cmd
      /\ s[o + 3] = (4 + n) \div 256 /\ s[o + 4] = (4 + n) % 256
  <2>1. \A k \in {1, 2, 3, 4, 5, 6} : s[o + k] = f[k]
    BY <1>5
  <2>2. s[o + 1] = f[1] /\ s[o + 2] = f[2] /\ s[o + 3] = f[3]
    BY <2>1
  <2>3. s[o + 4] = f[4] /\ s[o + 5] = f[5] /\ s[o + 6] = f[6]
    BY <2>1
  <2>4. PICK h, l : h = (4 + n) \div 256 /\ l = (4 + n) % 256
    OBVIOUS
  <2>5. f[1] = 170 /\ f[2] = 187 /\ f[3] = h /\ f[4] = l /\ f[5] = addr /\ f[6] = cmd
    BY <1>4, <2>4
  <2>6. s[o + 3] = h /\ s[o + 4] = l
    BY <2>2, <2>3, <2>5
  <2> QED BY <2>2, <2>3, <2>4, <2>5, <2>6
<1>7. /\ s[o + 7 + n] = crc \div 256 /\ s[o + 8 + n] = crc % 256
      /\ s[o + 9 + n] = 204 /\ s[o + 10 + n] = 221
  <2>1. /\ 7 + n \in 1..(10 + n) /\ 8 + n \in 1..(10 + n) /\ 9 + n \in 1..(10 + n)
        /\ 10 + n \in 1..(10 + n)
    OBVIOUS
  <2>2. /\ s[o + (7 + n)] = f[7 + n] /\ s[o + (8 + n)] = f[8 + n] /\ s[o + (9 + n)] = f[9 + n]
        /\ s[o + (10 + n)] = f[10 + n]
    BY <1>5, <2>1
  <2>3. /\ o + (7 + n) = o + 7 + n /\ o + (8 + n) = o + 8 + n /\ o + (9 + n) = o + 9 + n
        /\ o + (10 + n) = o + 10 + n
    OBVIOUS
  <2> QED BY <1>4, <2>2, <2>3
<1>8. \A k \in 1..n : s[o + 6 + k] = data[k]
  <2> SUFFICES ASSUME NEW k \in 1..n PROVE s[o + 6 + k] = data[k]
    OBVIOUS
  <2>1. 6 + k \in 1..(10 + n) /\ o + (6 + k) = o + 6 + k
    OBVIOUS
  <2>2. s[o + (6 + k)] = f[6 + k]
    BY <1>5, <2>1
  <2>3. f[6 + k] = data[k]
    BY <1>4
  <2> QED BY <2>1, <2>2, <2>3
<1>9. Window(s, o + 4, n + 2) = <<addr, cmd>> \o data
  <2>1. PICK body : body = <<addr, cmd>> \o data
    OBVIOUS
  <2>2. /\ body \in Seq(Byte) /\ Len(body) = n + 2
        /\ body[1] = addr /\ body[2] = cmd
        /\ \A k \in 1..n : body[2 + k] = data[k]
    BY <1>1, <2>1, BodyIs
  <2>3. body = [i \in 1..(n + 2) |-> body[i]]
    BY <2>2
  <2>4. ASSUME NEW i \in 1..(n + 2) PROVE s[o + 4 + i] = body[i]
    <3>1. CASE i = 1
      BY <1>6, <2>2, <3>1
    <3>2. CASE i = 2
      BY <1>6, <2>2, <3>2
    <3>3. CASE i > 2
      <4>1. PICK k \in 1..n : i = 2 + k
        <5>1. i - 2 \in 1..n /\ i = 2 + (i - 2)
          BY <3>3
        <5> QED BY <5>1
      <4>2. o + 4 + i = o + 6 + k
        BY <4>1
      <4> QED BY <1>8, <2>2, <4>1, <4>2
    <3> QED BY <3>1, <3>2, <3>3
  <2> QED BY <2>1, <2>3, <2>4 DEF Window
<1>10. ((crc \div 256) * 256) + (crc % 256) = crc /\ (((4 + n) \div 256) * 256) + ((4 + n) % 256) = 4 + n
  <2>1. crc \in Nat
    BY <1>4 DEF UInt16
  <2>2. \A x \in Nat : ((x \div 256) * 256) + (x % 256) = x
    OBVIOUS
  <2> QED BY <2>1, <2>2
<1>11. FrameAt(s, o, n)
  <2>1. Crc(Window(s, o + 4, n + 2)) = crc
    BY <1>3, <1>9
  <2> QED BY <1>6, <1>7, <1>10, <2>1 DEF FrameAt
<1>12. Len(frame) = 10 + n /\ n \in 0..MaxDataSize
  BY <1>1, <1>2, <1>4, FrameAssumption
<1>13. FieldsAt(s, o, addr, cmd, data)
  BY <1>1, <1>6, <1>8 DEF FieldsAt
<1> QED BY <1>1, <1>11, <1>12, <1>13

LEMMA PackedHolds ==
  ASSUME CrcIsSixteenBit, NEW s, NEW o, NEW frame, NEW addr, NEW cmd, NEW data,
         PackedAt(s, o, frame, addr, cmd, data)
  PROVE  /\ FrameAt(s, o, Len(data)) /\ Len(frame) = 10 + Len(data) /\ Len(data) \in 0..MaxDataSize
         /\ FieldsAt(s, o, addr, cmd, data)
<1>1. /\ addr \in Byte /\ cmd \in Byte /\ data \in Seq(Byte) /\ Len(data) <= MaxDataSize
      /\ o \in Nat
  BY DEF PackedAt
<1>2. PICK a \in Byte, c \in Byte, d \in Seq(Byte), at \in Nat :
        a = addr /\ c = cmd /\ d = data /\ at = o
  BY <1>1
<1>3. PackedAt(s, at, frame, a, c, d) /\ Len(d) <= MaxDataSize
  BY <1>1, <1>2
<1>4. FrameAt(s, at, Len(d)) /\ Len(frame) = 10 + Len(d) /\ Len(d) \in 0..MaxDataSize
  BY <1>3, PackedIsFrame
<1>5. FieldsAt(s, at, a, c, d)
  BY <1>3, PackedIsFrame
<1> QED BY <1>2, <1>4, <1>5

\* And the other way round.
BytesAt(s, o, n) == \A k \in 1..n : s[o + k] \in Byte

LEMMA FrameIsPacked ==
  ASSUME CrcIsSixteenBit, NEW addr \in Byte, NEW cmd \in Byte, NEW data \in Seq(Byte),
         Len(data) <= MaxDataSize, NEW s, NEW o \in Nat,
         FrameAt(s, o, Len(data)), FieldsAt(s, o, addr, cmd, data),
         BytesAt(s, o, 10 + Len(data))
  PROVE  PackedAt(s, o, Pack(addr, cmd, data), addr, cmd, data)
<1>1. PICK n \in Nat : n = Len(data)
  OBVIOUS
<1>2. PICK f : f = Pack(addr, cmd, data)
  OBVIOUS
<1>3. PICK crc : crc = Crc(<<addr, cmd>> \o data)
  OBVIOUS
<1>4. /\ crc \in UInt16 /\ Len(f) = 10 + n
      /\ f[1] = 170 /\ f[2] = 187
      /\ f[3] = (4 + n) \div 256 /\ f[4] = (4 + n) % 256
      /\ f[5] = addr /\ f[6] = cmd
      /\ \A k \in 1..n : f[6 + k] = data[k]
      /\ f[7 + n] = crc \div 256 /\ f[8 + n] = crc % 256
      /\ f[9 + n] = 204 /\ f[10 + n] = 221
  <2>1. PackedBytes(f, addr, cmd, data, n, crc)
    BY <1>1, <1>2, <1>3, PackIs
  <2> QED BY <2>1 DEF PackedBytes
<1>0. /\ s[o + 5] = addr /\ s[o + 6] = cmd
      /\ \A k \in 1..n : s[o + 6 + k] = data[k]
  BY <1>1 DEF FieldsAt
<1>5. Window(s, o + 4, n + 2) = <<addr, cmd>> \o data
  <2>1. PICK body : body = <<addr, cmd>> \o data
    OBVIOUS
  <2>2. /\ body \in Seq(Byte) /\ Len(body) = n + 2
        /\ body[1] = addr /\ body[2] = cmd
        /\ \A k \in 1..n : body[2 + k] = data[k]
    BY <1>1, <2>1, BodyIs
  <2>3. body = [i \in 1..(n + 2) |-> body[i]]
    BY <2>2
  <2>4. ASSUME NEW i \in 1..(n + 2) PROVE s[o + 4 + i] = body[i]
    <3>1. CASE i = 1
      BY <1>0, <2>2, <3>1
    <3>2. CASE i = 2
      BY <1>0, <2>2, <3>2
    <3>3. CASE i > 2
      <4>1. PICK k \in 1..n : i = 2 + k
        <5>1. i - 2 \in 1..n /\ i = 2 + (i - 2)
          BY <3>3
        <5> QED BY <5>1
      <4>2. o + 4 + i = o + 6 + k
        BY <4>1
      <4> QED BY <1>0, <2>2, <4>1, <4>2
    <3> QED BY <3>1, <3>2, <3>3
  <2> QED BY <2>1, <2>3, <2>4 DEF Window
<1>6. /\ s[o + 1] = 170 /\ s[o + 2] = 187
      /\ s[o + 3] * 256 + s[o + 4] = 4 + n
      /\ s[o + 7 + n] * 256 + s[o + 8 + n] = crc
      /\ s[o + 9 + n] = 204 /\ s[o + 10 + n] = 221
  BY <1>1, <1>3, <1>5 DEF FrameAt
<1>7. \A k \in 1..(10 + n) : s[o + k] \in Byte
  BY <1>1 DEF BytesAt
<1>8. s[o + 3] = f[3] /\ s[o + 4] = f[4]
  <2>1. s[o + 3] \in Byte /\ s[o + 4] \in Byte
    BY <1>7
  <2>2. PICK x \in Nat, y \in Nat : x = s[o + 3] /\ y = s[o + 4] /\ y < 256
    BY <2>1 DEF Byte
  <2>3. x * 256 + y = 4 + n
    BY <1>6, <2>2
  <2>4. x = (4 + n) \div 256 /\ y = (4 + n) % 256
    <3>1. PICK z \in Nat : z = 4 + n
      OBVIOUS
    <3>2. PICK d \in Int, r \in Int : d = z \div 256 /\ r = z % 256
      OBVIOUS
    <3>3. z = d * 256 + r /\ 0 <= r /\ r < 256
      BY <3>2
    <3>4. x = d
      <4>1. x * 256 + y = d * 256 + r
        BY <2>3, <3>1, <3>3
      <4>2. y \in Int /\ 0 <= y /\ y < 256 /\ x \in Int
        BY <2>2
      <4>3. (x - d) * 256 = r - y
        BY <4>1, <4>2
      <4>4. x - d < 1 /\ x - d > -1
        BY <3>3, <4>2, <4>3
      <4> QED BY <4>2, <4>4
    <3> QED BY <2>2, <2>3, <3>1, <3>2, <3>3, <3>4
  <2> QED BY <1>4, <2>2, <2>4
<1>9. s[o + 7 + n] = f[7 + n] /\ s[o + 8 + n] = f[8 + n]
  <2>1. s[o + (7 + n)] \in Byte /\ s[o + (8 + n)] \in Byte
    <3>1. 7 + n \in 1..(10 + n) /\ 8 + n \in 1..(10 + n)
      OBVIOUS
    <3> QED BY <1>7, <3>1
  <2>2. o + (7 + n) = o + 7 + n /\ o + (8 + n) = o + 8 + n
    OBVIOUS
  <2>3. PICK x \in Nat, y \in Nat : x = s[o + 7 + n] /\ y = s[o + 8 + n] /\ y < 256
    BY <2>1, <2>2 DEF Byte
  <2>4. x = crc \div 256 /\ y = crc % 256
    <3>1. x * 256 + y = crc /\ crc \in Nat
      BY <1>4, <1>6, <2>3 DEF UInt16
    <3>2. PICK d \in Int, r \in Int : d = crc \div 256 /\ r = crc % 256
      BY <3>1
    <3>3. crc = d * 256 + r /\ 0 <= r /\ r < 256
      BY <3>1, <3>2
    <3>4. x = d
      <4>1. x * 256 + y = d * 256 + r
        BY <3>1, <3>3
      <4>2. y \in Int /\ 0 <= y /\ y < 256 /\ x \in Int
        BY <2>3
      <4>3. (x - d) * 256 = r - y
        BY <4>1, <4>2
      <4>4. x - d < 1 /\ x - d > -1
        BY <3>3, <4>2, <4>3
      <4> QED BY <4>2, <4>4
    <3> QED BY <2>3, <3>1, <3>2, <3>3, <3>4
  <2> QED BY <1>4, <2>3, <2>4
<1>10. ASSUME NEW k \in 1..(10 + n) PROVE f[k] = s[o + k]
  <2>1. CASE k <= 6
    <3>1. k \in {1, 2, 3, 4, 5, 6}
      BY <2>1
    <3>2. /\ f[1] = s[o + 1] /\ f[2] = s[o + 2] /\ f[3] = s[o + 3] /\ f[4] = s[o + 4]
          /\ f[5] = s[o + 5] /\ f[6] = s[o + 6]
      BY <1>0, <1>4, <1>6, <1>8
    <3> QED BY <1>0, <3>1, <3>2
  <2>2. CASE k > 6 /\ k <= 6 + n
    <3>1. PICK j \in 1..n : k = 6 + j
      <4>1. k - 6 \in 1..n /\ k = 6 + (k - 6)
        BY <2>2
      <4> QED BY <4>1
    <3>2. o + k = o + 6 + j
      BY <3>1
    <3>3. f[6 + j] = data[j] /\ s[o + 6 + j] = data[j]
      BY <1>0, <1>4, SMTT(30)
    <3> QED BY <3>1, <3>2, <3>3
  <2>3. CASE k > 6 + n
    <3>1. k \in {7 + n, 8 + n, 9 + n, 10 + n}
      BY <2>3
    <3>2. /\ o + (7 + n) = o + 7 + n /\ o + (8 + n) = o + 8 + n /\ o + (9 + n) = o + 9 + n
          /\ o + (10 + n) = o + 10 + n
      OBVIOUS
    <3>3. /\ f[7 + n] = s[o + (7 + n)] /\ f[8 + n] = s[o + (8 + n)]
          /\ f[9 + n] = s[o + (9 + n)] /\ f[10 + n] = s[o + (10 + n)]
      <4>1. /\ s[o + (7 + n)] = s[o + 7 + n] /\ s[o + (8 + n)] = s[o + 8 + n]
            /\ s[o + (9 + n)] = s[o + 9 + n] /\ s[o + (10 + n)] = s[o + 10 + n]
        BY <3>2
      <4>2. f[9 + n] = s[o + 9 + n] /\ f[10 + n] = s[o + 10 + n]
        BY <1>4, <1>6
      <4> QED BY <1>9, <4>1, <4>2
    <3> QED BY <3>1, <3>3
  <2> QED BY <2>1, <2>2, <2>3
<1> QED BY <1>2, <1>4, <1>10 DEF PackedAt

-----------------------------------------------------------------------------
\* The frames of a line lie where it says and are as proto_pack builds them.
FrameOn(l, f) == \E addr, cmd, data : PackedAt(l.bytes, f.at, f.frame, addr, cmd, data)

LEMMA FramesArePacked == ASSUME NEW l \in Lines, NEW f \in l.frames PROVE FrameOn(l, f)
<1> DEFINE data == SubSeq(f.frame, 7, Len(f.frame) - 4)
<1>1. PackedAt(l.bytes, f.at, f.frame, f.frame[5], f.frame[6], data)
  BY FramesAssumption DEF PackedAt
<1> QED BY <1>1 DEF FrameOn

\* What the parser is in the middle of began after the last reset.
Anchored ==
  \/ Astray(parser) \/ Long(parser) \/ parser.state = "COMPLETE"
  \/ \E o \in since..pos : Fits(parser, line.bytes, o, pos - o)

\* The parser is in the middle of the frame it met when it was hunting, until its end.
Tracked ==
  locked # NoFrame =>
    /\ locked \in line.frames
    /\ pos <= locked.at + Len(locked.frame) =>
         pos > locked.at /\ Fits(parser, line.bytes, locked.at, pos - locked.at)

LineInv == FeedInv /\ since \in 0..pos /\ pos <= Len(line.bytes) /\ Anchored

LEMMA FreshAstray == Astray(Fresh)
  BY DEF Fresh, Astray

LEMMA LineStarts == FeedInit => LineInv /\ Tracked
<1> SUFFICES ASSUME FeedInit PROVE LineInv /\ Tracked
  OBVIOUS
<1>1. Len(line.bytes) \in Nat
  BY LinesAssumption DEF FeedInit
<1> QED BY <1>1, FeedStarts, FreshAstray DEF FeedInit, LineInv, Anchored, Tracked

\* One byte, seen from a frame begun at o.
LEMMA FeedFits ==
  ASSUME LineInv, Feed, NEW o \in 0..pos, Fits(parser, line.bytes, o, pos - o),
         parser.state # "COMPLETE"
  PROVE  LET fed == [parser |-> parser', ret |-> ret']
         IN  \/ Advances(fed, line.bytes, o, pos - o)
             \/ Loses(fed, line.bytes, o, line.bytes[pos + 1])
<1>1. PICK m \in Nat : m = pos - o
  BY DEF LineInv, FeedInv
<1>2. pos \in Nat /\ parser \in Parsers /\ line.bytes \in Seq(Byte) /\ pos < Len(line.bytes)
  BY LinesAssumption DEF LineInv, FeedInv, Sound, Feed
<1>3. PICK s \in Seq(Byte) : s = line.bytes
  BY <1>2
<1>4. PICK b : b = s[pos + 1]
  OBVIOUS
<1>5. b \in Byte /\ b = s[o + m + 1] /\ (m = 3 => s[o + 3] \in Byte)
  <2>1. pos + 1 \in 1..Len(s) /\ o + m + 1 = pos + 1
    BY <1>1, <1>2, <1>3
  <2>2. m = 3 => o + 3 \in 1..Len(s)
    BY <1>1, <1>2, <1>3
  <2> QED BY <1>3, <1>4, <2>1, <2>2
<1>6. Fits(parser, s, o, m)
  BY <1>1, <1>3
<1>7. Advances(Fed(parser, b), s, o, m) \/ Loses(Fed(parser, b), s, o, b)
  BY <1>2, <1>5, <1>6, FedFits
<1>8. parser' = Fed(parser, b).parser /\ ret' = Fed(parser, b).ret
  BY <1>3, <1>4 DEF Feed
<1> QED BY <1>1, <1>3, <1>4, <1>7, <1>8 DEF Advances, Loses

\* A first head byte that finds the parser hunting begins a frame there.
LEMMA FeedHunts ==
  ASSUME LineInv, Feed, Hunting(parser)
  PROVE  /\ line.bytes[pos + 1] = 170 => Fits(parser', line.bytes, pos, 1)
         /\ line.bytes[pos + 1] # 170 => Astray(parser') \/ parser.state = "WAIT_HEAD2"
         /\ parser'.state # "COMPLETE"
<1>1. pos \in Nat /\ parser \in Parsers /\ line.bytes \in Seq(Byte) /\ pos < Len(line.bytes)
  BY LinesAssumption DEF LineInv, FeedInv, Sound, Feed
<1>2. PICK b : b = line.bytes[pos + 1]
  OBVIOUS
<1>3. b \in Byte
  BY <1>1, <1>2
<1>4. parser' = Fed(parser, b).parser
  BY <1>2 DEF Feed
<1>5. /\ b = 170 => parser'.state = "WAIT_HEAD2"
      /\ b # 170 => Astray(parser') \/ parser'.state = "WAIT_LEN1"
      /\ parser'.state = "WAIT_LEN1" => parser.state = "WAIT_HEAD2"
  BY <1>1, <1>3, <1>4, FedHunts
<1> QED BY <1>2, <1>5 DEF Fits, Astray

LEMMA AnchoredFeed ==
  ASSUME LineInv, Feed
  PROVE  Anchored'
<1>1. pos \in Nat /\ since \in 0..pos /\ pos' = pos + 1 /\ since' = since /\ line' = line
  BY DEF LineInv, FeedInv, Feed
<1>2. ASSUME NEW o \in since..pos, Fits(parser', line.bytes, o, (pos + 1) - o)
      PROVE  Anchored'
  <2>1. o \in since'..pos' /\ Fits(parser', line'.bytes, o, pos' - o)
    BY <1>1, <1>2
  <2> QED BY <2>1 DEF Anchored
<1>3. ASSUME line.bytes[pos + 1] = 170, parser'.state = "WAIT_HEAD2"
      PROVE  Anchored'
  <2>1. Fits(parser', line.bytes, pos, 1) /\ (pos + 1) - pos = 1 /\ pos \in since..pos
    BY <1>1, <1>3 DEF Fits
  <2> QED BY <1>2, <2>1
<1>4. CASE Astray(parser)
  <2>1. Hunting(parser) /\ parser.state # "WAIT_HEAD2"
    BY <1>4 DEF Astray, Hunting
  <2>2. \/ Astray(parser')
        \/ Fits(parser', line.bytes, pos, 1) /\ (pos + 1) - pos = 1 /\ pos \in since..pos
    BY <1>1, <2>1, FeedHunts
  <2> QED BY <1>2, <2>2 DEF Anchored
<1>5. CASE Long(parser) /\ parser.state # "COMPLETE"
  <2>1. parser \in Parsers /\ line.bytes[pos + 1] \in Byte
    BY LinesAssumption DEF LineInv, FeedInv, Sound, Feed
  <2>2. Astray(parser') \/ Long(parser')
    BY <1>5, <2>1, FedLong DEF Feed
  <2> QED BY <2>2 DEF Anchored
<1>6. CASE parser.state = "COMPLETE"
  <2>1. parser'.state = "COMPLETE"
    BY <1>6 DEF Feed, Fed, FeedComplete, LineInv, FeedInv, Sound, Parsers
  <2> QED BY <2>1 DEF Anchored
<1>7. ASSUME NEW o \in since..pos, Fits(parser, line.bytes, o, pos - o), parser.state # "COMPLETE"
      PROVE  Anchored'
  <2>1. o \in 0..pos
    BY <1>1
  <2>2. CASE Fits(parser', line.bytes, o, (pos - o) + 1)
    <3>1. (pos - o) + 1 = (pos + 1) - o
      BY <1>1
    <3> QED BY <1>2, <2>2, <3>1
  <2>3. CASE Astray(parser') \/ Long(parser')
    BY <2>3 DEF Anchored
  <2>4. CASE parser'.state = "WAIT_HEAD2" /\ line.bytes[pos + 1] = 170
    BY <1>3, <2>4
  <2> QED BY <1>7, <2>1, <2>2, <2>3, <2>4, FeedFits DEF Advances, Loses
<1> QED BY <1>4, <1>5, <1>6, <1>7 DEF LineInv, Anchored

LEMMA LineKeeps ==
  ASSUME CrcIsSixteenBit
  PROVE  LineInv /\ [FeedNext]_feed_vars => LineInv'
<1> SUFFICES ASSUME LineInv, [FeedNext]_feed_vars PROVE LineInv'
  OBVIOUS
<1>1. FeedInv'
  BY FeedKeeps DEF LineInv
<1>2. CASE Feed
  <2>1. since' \in 0..pos' /\ pos' <= Len(line'.bytes)
    BY <1>2, LinesAssumption DEF Feed, LineInv, FeedInv
  <2> QED BY <1>1, <1>2, <2>1, AnchoredFeed DEF LineInv
<1>3. CASE Reset
  <2>1. since' \in 0..pos' /\ pos' <= Len(line'.bytes)
    BY <1>3 DEF Reset, LineInv, FeedInv
  <2> QED BY <1>1, <1>3, <2>1, FreshAstray DEF LineInv, Reset, Anchored
<1>4. CASE UNCHANGED feed_vars
  <2>1. Anchored'
    BY <1>4 DEF feed_vars, LineInv, Anchored
  <2> QED BY <1>1, <1>4, <2>1 DEF feed_vars, LineInv
<1> QED BY <1>2, <1>3, <1>4 DEF FeedNext

\* The parser has the whole frame when it has read as many bytes as it has.
LEMMA FrameRead ==
  ASSUME NEW p \in Parsers, NEW s, NEW o, NEW n \in Nat, FrameAt(s, o, n),
         NEW m \in Nat, Fits(p, s, o, m)
  PROVE  p.state = "COMPLETE" <=> m >= 10 + n
<1>1. p.received_len \in Nat /\ p.data_len \in Nat
  BY DEF Parsers, UInt16
<1>2. CASE p.state \in {"WAIT_HEAD2", "WAIT_LEN1", "WAIT_LEN2", "WAIT_ADDR", "WAIT_CMD"}
  <2>1. m <= 5
    BY <1>2 DEF Fits
  <2> QED BY <1>2, <2>1
<1>3. CASE p.state \notin {"WAIT_HEAD2", "WAIT_LEN1", "WAIT_LEN2", "WAIT_ADDR", "WAIT_CMD"}
  <2>1. Sized(p, s, o)
    BY <1>3 DEF Fits, Whole, Named
  <2>2. p.data_len = n
    BY <2>1, FrameLength
  <2>3. \/ p.state = "COMPLETE" /\ m = 10 + p.data_len
        \/ p.state # "COMPLETE" /\ m = 6 + p.received_len /\ p.received_len < p.data_len
        \/ p.state # "COMPLETE" /\ m \in {6 + p.data_len, 7 + p.data_len, 8 + p.data_len, 9 + p.data_len}
    BY <1>3 DEF Fits
  <2> QED BY <1>1, <2>2, <2>3
<1> QED BY <1>2, <1>3

LEMMA TrackedKeeps ==
  ASSUME CrcIsSixteenBit
  PROVE  LineInv /\ Tracked /\ [FeedNext]_feed_vars => Tracked'
<1> SUFFICES ASSUME LineInv, Tracked, [FeedNext]_feed_vars PROVE Tracked'
  OBVIOUS
<1>1. line \in Lines /\ pos \in Nat /\ parser \in Parsers
  BY DEF LineInv, FeedInv, Sound
<1>2. CASE Feed
  <2>1. pos' = pos + 1 /\ line' = line
    BY <1>2 DEF Feed
  <2>2. CASE Hunting(parser) /\ \E f \in line.frames : f.at = pos
    <3>1. PICK f : f = CHOOSE g \in line.frames : g.at = pos
      OBVIOUS
    <3>2. f \in line.frames /\ f.at = pos
      BY <2>2, <3>1
    <3>3. locked' = f
      BY <1>2, <2>2, <3>1 DEF Feed
    <3>4. line.bytes[pos + 1] = 170
      <4>1. PICK addr, cmd, data : PackedAt(line.bytes, f.at, f.frame, addr, cmd, data)
        BY <1>1, <3>2, FramesArePacked DEF FrameOn
      <4> QED BY <3>2, <4>1, PackedHolds DEF FieldsAt
    <3>5. Fits(parser', line.bytes, pos, 1) /\ (pos + 1) - pos = 1 /\ pos + 1 > pos
      BY <1>1, <1>2, <2>2, <3>4, FeedHunts
    <3> QED BY <2>1, <3>2, <3>3, <3>5 DEF Tracked
  <2>3. CASE ~(Hunting(parser) /\ \E f \in line.frames : f.at = pos)
    <3>1. locked' = locked
      BY <1>2, <2>3 DEF Feed
    <3> SUFFICES ASSUME locked # NoFrame, pos + 1 <= locked.at + Len(locked.frame)
                 PROVE  pos + 1 > locked.at /\ Fits(parser', line.bytes, locked.at, (pos + 1) - locked.at)
      BY <2>1, <3>1 DEF Tracked
    <3>2. PICK f : f = locked
      OBVIOUS
    <3>3. f \in line.frames
      BY <3>2 DEF Tracked
    <3>4. PICK addr, cmd, data : PackedAt(line.bytes, f.at, f.frame, addr, cmd, data)
      BY <1>1, <3>3, FramesArePacked DEF FrameOn
    <3>5. PICK n \in 0..MaxDataSize : n = Len(data)
      BY <3>4, PackedHolds
    <3>6. FrameAt(line.bytes, f.at, n) /\ Len(f.frame) = 10 + n /\ f.at \in Nat /\ n \in Nat
      <4>1. FrameAt(line.bytes, f.at, Len(data)) /\ Len(f.frame) = 10 + Len(data)
        BY <3>4, PackedHolds
      <4>2. f.at \in Nat
        BY <3>4 DEF PackedAt
      <4> QED BY <3>5, <4>1, <4>2, FrameAssumption
    <3>7. pos > f.at /\ Fits(parser, line.bytes, f.at, pos - f.at)
      <4>1. pos <= f.at + Len(f.frame)
        BY <1>1, <3>2, <3>6
      <4> QED BY <3>2, <4>1 DEF Tracked
    <3>8. pos - f.at \in Nat /\ pos - f.at < 10 + n
      BY <1>1, <3>2, <3>6, <3>7
    <3>9. parser.state # "COMPLETE"
      BY <1>1, <3>6, <3>7, <3>8, FrameRead
    <3>10. f.at \in 0..pos
      BY <1>1, <3>6, <3>7
    <3>11. Fits(parser', line.bytes, f.at, (pos - f.at) + 1)
      BY <1>2, <3>5, <3>6, <3>7, <3>9, <3>10, FeedFits DEF Advances, Loses
    <3>12. (pos - f.at) + 1 = (pos + 1) - f.at /\ pos + 1 > f.at
      BY <1>1, <3>6, <3>7
    <3> QED BY <3>2, <3>11, <3>12
  <2> QED BY <2>2, <2>3
<1>3. CASE Reset
  BY <1>3 DEF Reset, Tracked
<1>4. CASE UNCHANGED feed_vars
  BY <1>4 DEF feed_vars, Tracked
<1> QED BY <1>2, <1>3, <1>4 DEF FeedNext

\* What the parser calls a frame begins after the last reset and is one.
LEMMA CompletedIsFrame ==
  ASSUME CrcIsSixteenBit, LineInv, Feed, parser.state # "COMPLETE", parser'.state = "COMPLETE",
         parser'.data_len <= MaxDataSize
  PROVE  \E o \in since..pos :
           /\ FrameAt(line.bytes, o, parser'.data_len) /\ pos + 1 = o + 10 + parser'.data_len
           /\ FieldsAt(line.bytes, o, parser'.addr, parser'.cmd,
                       SubSeq(parser'.data, 1, parser'.data_len))
<1>1. pos \in Nat /\ since \in 0..pos /\ parser \in Parsers /\ parser' \in Parsers
  BY FeedKeeps DEF LineInv, FeedInv, Sound, FeedNext
<1>2. ~Astray(parser)
  <2> SUFFICES ASSUME Astray(parser) PROVE FALSE
    OBVIOUS
  <2>1. Hunting(parser)
    BY DEF Astray, Hunting
  <2> QED BY <2>1, FeedHunts
<1>3. ~Long(parser)
  <2> SUFFICES ASSUME Long(parser) PROVE FALSE
    OBVIOUS
  <2>1. line.bytes[pos + 1] \in Byte
    BY LinesAssumption DEF LineInv, FeedInv, Feed
  <2>2. Astray(parser') \/ Long(parser')
    BY <1>1, <2>1, FedLong DEF Feed
  <2>3. parser'.data_len > MaxDataSize
    BY <2>2 DEF Astray, Long
  <2>4. parser'.data_len \in Nat
    BY <1>1 DEF Parsers, UInt16
  <2> QED BY <2>3, <2>4, FrameAssumption
<1>4. PICK o \in since..pos : Fits(parser, line.bytes, o, pos - o)
  BY <1>2, <1>3 DEF LineInv, Anchored
<1>5. o \in 0..pos
  BY <1>1
<1>6. Fits(parser', line.bytes, o, (pos - o) + 1)
  <2>1. ~Astray(parser') /\ ~Long(parser')
    <3>1. parser'.data_len \in Nat
      BY <1>1 DEF Parsers, UInt16
    <3>2. ~(parser'.data_len > MaxDataSize)
      BY <3>1, FrameAssumption
    <3> QED BY <3>2 DEF Astray, Long
  <2> QED BY <1>4, <1>5, <2>1, FeedFits DEF Advances, Loses
<1>7. PICK p : p = parser'
  OBVIOUS
<1>8. PICK s : s = line.bytes
  OBVIOUS
<1>9. PICK n \in Nat : n = p.data_len
  BY <1>1, <1>7 DEF Parsers, UInt16
<1>10. /\ p.state = "COMPLETE" /\ p \in Parsers /\ n <= MaxDataSize
       /\ (pos - o) + 1 = 10 + n
       /\ Whole(p, s, o) /\ Summed(p, s, o) /\ s[o + 9 + n] = 204 /\ s[o + 10 + n] = 221
  BY <1>1, <1>6, <1>7, <1>8, <1>9 DEF Fits
<1>11. FrameAt(s, o, n)
  BY <1>9, <1>10 DEF FrameAt, Whole, Named, Sized, Headed, Summed
<1>12. FieldsAt(s, o, p.addr, p.cmd, SubSeq(p.data, 1, n))
  <2>1. p.data \in [1..MaxDataSize -> Byte]
    BY <1>10 DEF Parsers
  <2>2. p.data \in Seq(Byte) /\ Len(p.data) = MaxDataSize
    BY <2>1, FrameAssumption
  <2>3. /\ Len(SubSeq(p.data, 1, n)) = n
        /\ \A k \in 1..n : SubSeq(p.data, 1, n)[k] = p.data[k]
    BY <1>10, <2>2, FrameAssumption
  <2> QED BY <1>9, <1>10, <2>3 DEF FieldsAt, Whole, Named, Sized, Headed
<1>13. pos + 1 = o + 10 + n
  BY <1>1, <1>10
<1> QED BY <1>7, <1>8, <1>9, <1>11, <1>12, <1>13

\* Of an intact frame whose first byte found the parser hunting the last byte completes it,
\* with the contents that were packed; for every line, checksum and size of the data field.
THEOREM HuntedIsFound ==
  ASSUME CrcIsSixteenBit
  PROVE  FeedSpec => []HuntedFrameIsFound
<1>1. LineInv /\ Tracked => HuntedFrameIsFound
  <2> SUFFICES ASSUME LineInv, Tracked, locked # NoFrame, pos = locked.at + Len(locked.frame)
               PROVE  /\ parser.state = "COMPLETE"
                      /\ locked.frame = Pack(parser.addr, parser.cmd,
                                             SubSeq(parser.data, 1, parser.data_len))
    BY DEF HuntedFrameIsFound
  <2>1. line \in Lines /\ pos \in Nat /\ parser \in Parsers
    BY DEF LineInv, FeedInv, Sound
  <2>2. PICK f : f = locked
    OBVIOUS
  <2>3. f \in line.frames /\ pos > f.at /\ Fits(parser, line.bytes, f.at, pos - f.at)
    BY <2>1, <2>2 DEF Tracked
  <2>4. PICK addr, cmd, data : PackedAt(line.bytes, f.at, f.frame, addr, cmd, data)
    BY <2>1, <2>3, FramesArePacked DEF FrameOn
  <2>5. PICK n \in Nat : n = Len(data) /\ n <= MaxDataSize
    BY <2>4 DEF PackedAt
  <2>6. /\ FrameAt(line.bytes, f.at, n) /\ Len(f.frame) = 10 + n
        /\ FieldsAt(line.bytes, f.at, addr, cmd, data)
    BY <2>4, <2>5, PackedHolds
  <2>7. f.at \in Nat /\ data \in Seq(Byte) /\ f.frame = Pack(addr, cmd, data)
    BY <2>4 DEF PackedAt
  <2>8. pos - f.at = 10 + n /\ pos - f.at \in Nat
    BY <2>1, <2>2, <2>6, <2>7
  <2>9. parser.state = "COMPLETE"
    BY <2>1, <2>3, <2>6, <2>8, FrameRead
  <2>10. Whole(parser, line.bytes, f.at)
    BY <2>3, <2>9 DEF Fits
  <2>11. parser.data_len = n /\ parser.received_len = n
    BY <2>1, <2>6, <2>10, FrameLength DEF Whole, Named
  <2>12. parser.addr = addr /\ parser.cmd = cmd
    BY <2>6, <2>10 DEF FieldsAt, Whole, Named
  <2>13. SubSeq(parser.data, 1, n) = data
    <3>1. PICK d : d = parser.data
      OBVIOUS
    <3>2. d \in Seq(Byte) /\ Len(d) = MaxDataSize
      <4>1. d \in [1..MaxDataSize -> Byte]
        BY <2>1, <3>1 DEF Parsers
      <4> QED BY <4>1, FrameAssumption
    <3>3. \A k \in 1..n : d[k] = data[k]
      BY <2>5, <2>6, <2>10, <2>11, <3>1 DEF FieldsAt, Whole, Named
    <3>4. SubSeq(d, 1, n) = [k \in 1..n |-> d[k]]
      BY <2>5, <3>2, FrameAssumption
    <3>5. data = [k \in 1..n |-> data[k]]
      BY <2>5, <2>7
    <3> QED BY <3>1, <3>3, <3>4, <3>5
  <2> QED BY <2>2, <2>7, <2>9, <2>11, <2>12, <2>13
<1>2. LineInv /\ [FeedNext]_feed_vars => LineInv'
  BY LineKeeps
<1>3. LineInv /\ Tracked /\ [FeedNext]_feed_vars => Tracked'
  BY TrackedKeeps
<1> QED BY LineStarts, <1>1, <1>2, <1>3, PTL DEF FeedSpec

\* Nothing is taken for a frame but what was on the line byte for byte after the last
\* reset, for every line, checksum and size of the data field.
THEOREM CompleteWasOnTheLine ==
  ASSUME CrcIsSixteenBit
  PROVE  FeedSpec => CompleteFrameWasOnTheLine
<1> DEFINE Shown ==
             parser.state # "COMPLETE" /\ parser'.state = "COMPLETE" /\ parser'.data_len <= MaxDataSize
             => LET f == parser'
                    bytes == Pack(f.addr, f.cmd, SubSeq(f.data, 1, f.data_len))
                IN  /\ Len(bytes) <= pos' - since
                    /\ bytes = SubSeq(line.bytes, pos' - Len(bytes) + 1, pos')
<1>1. LineInv /\ [FeedNext]_feed_vars => [Shown]_feed_vars
  <2> SUFFICES ASSUME LineInv, FeedNext, parser.state # "COMPLETE", parser'.state = "COMPLETE",
                      parser'.data_len <= MaxDataSize
               PROVE  Shown
    OBVIOUS
  <2>1. Feed
    BY DEF FeedNext, Reset, Fresh
  <2>2. pos' = pos + 1 /\ pos \in Nat /\ since \in 0..pos /\ pos < Len(line.bytes)
    BY <2>1 DEF Feed, LineInv, FeedInv
  <2>3. PICK p \in Parsers : p = parser'
    <3>1. parser' \in Parsers
      BY <2>1, FeedKeeps DEF LineInv, FeedInv, Sound, FeedNext
    <3> QED BY <3>1
  <2>4. PICK n \in Nat : n = p.data_len /\ n <= MaxDataSize
    BY <2>3 DEF Parsers, UInt16
  <2>5. PICK data : data = SubSeq(p.data, 1, n)
    OBVIOUS
  <2>6. PICK s \in Seq(Byte) : s = line.bytes
    BY LinesAssumption DEF LineInv, FeedInv
  <2>7. PICK o \in since..pos :
          FrameAt(s, o, n) /\ pos + 1 = o + 10 + n /\ FieldsAt(s, o, p.addr, p.cmd, data)
    BY <2>1, <2>3, <2>4, <2>5, <2>6, CompletedIsFrame
  <2>8. data \in Seq(Byte) /\ Len(data) = n /\ p.addr \in Byte /\ p.cmd \in Byte
    <3>1. p.data \in Seq(Byte) /\ Len(p.data) = MaxDataSize
      <4>1. p.data \in [1..MaxDataSize -> Byte]
        BY DEF Parsers
      <4> QED BY <4>1, FrameAssumption
    <3>2. p.addr \in Byte /\ p.cmd \in Byte
      BY DEF Parsers
    <3> QED BY <2>4, <2>5, <3>1, <3>2, FrameAssumption
  <2>9. o \in Nat /\ o + 10 + n <= Len(s)
    BY <2>2, <2>6, <2>7
  <2>10. \A k \in 1..(10 + n) : s[o + k] \in Byte
    BY <2>9
  <2>11. PICK f : f = Pack(p.addr, p.cmd, data)
    OBVIOUS
  <2>12. Len(f) = 10 + n /\ f \in Seq(Nat)
    <3>1. PackedBytes(Pack(p.addr, p.cmd, data), p.addr, p.cmd, data, Len(data),
                      Crc(<<p.addr, p.cmd>> \o data))
      BY <2>4, <2>8, PackIs
    <3> QED BY <2>8, <2>11, <3>1 DEF PackedBytes
  <2>13. \A k \in 1..(10 + n) : f[k] = s[o + k]
    <3>1. PICK at \in Nat, a \in Byte, c \in Byte, d \in Seq(Byte) :
            at = o /\ a = p.addr /\ c = p.cmd /\ d = data
      BY <2>8, <2>9
    <3>2. FrameAt(s, at, Len(d)) /\ FieldsAt(s, at, a, c, d)
      BY <2>7, <2>8, <3>1
    <3>3. BytesAt(s, at, 10 + Len(d))
      BY <2>8, <2>10, <3>1 DEF BytesAt
    <3>4. Len(d) <= MaxDataSize
      BY <2>4, <2>8, <3>1
    <3>5. PackedAt(s, at, Pack(a, c, d), a, c, d)
      BY <3>2, <3>3, <3>4, FrameIsPacked
    <3>6. f = Pack(a, c, d)
      BY <2>11, <3>1
    <3> QED BY <2>12, <3>1, <3>5, <3>6 DEF PackedAt
  <2>14. f = Pack(parser'.addr, parser'.cmd, SubSeq(parser'.data, 1, parser'.data_len))
    BY <2>3, <2>4, <2>5, <2>11
  <2>15. Len(f) <= pos' - since
    BY <2>2, <2>7, <2>12
  <2>16. f = SubSeq(s, pos' - Len(f) + 1, pos')
    <3>1. pos' - Len(f) + 1 = o + 1 /\ pos' = o + 10 + n
      BY <2>2, <2>7, <2>9, <2>12
    <3>2. SubSeq(s, o + 1, o + 10 + n) = [k \in 1..(10 + n) |-> s[o + k]]
      BY <2>9
    <3>3. f = [k \in 1..(10 + n) |-> f[k]]
      BY <2>12
    <3> QED BY <2>13, <3>1, <3>2, <3>3
  <2> QED BY <2>6, <2>14, <2>15, <2>16
<1>2. LineInv /\ [FeedNext]_feed_vars => LineInv'
  BY LineKeeps
<1>3. FeedInit => LineInv
  BY LineStarts
<1>4. ([][Shown]_feed_vars) => CompleteFrameWasOnTheLine
  BY DEF CompleteFrameWasOnTheLine
<1> HIDE DEF Shown
<1> QED BY <1>1, <1>2, <1>3, <1>4, PTL DEF FeedSpec

-----------------------------------------------------------------------------
Bookkept == session \in Sessions /\ now \in 0..(TimeModulus - 1) /\ owed \in {"nothing", "reply", "forgotten"}

\* The stack waits exactly while a request is due a reply.
WaitsWhileOwed == session.waiting_ack = (owed = "reply")

\* The time of sending the session knows is always 0, and so is its count of repetitions.
SentAtZero == session.last_send_time = 0
NeverCounted == session.retry_count = 0

StackInv == Bookkept /\ WaitsWhileOwed /\ SentAtZero /\ NeverCounted

-----------------------------------------------------------------------------
\* What the session functions do to a session that was told time 0.
LEMMA SessionFunctions ==
  ASSUME NEW s \in Sessions, s.last_send_time = 0, s.retry_count = 0,
         NEW t \in 0..(TimeModulus - 1)
  PROVE  /\ SessionReset(s) \in Sessions /\ SessionReset(s).last_send_time = 0
         /\ SessionReset(s).waiting_ack = FALSE /\ SessionReset(s).retry_count = 0
         /\ OnRecv(s, t) \in Sessions /\ OnRecv(s, t).last_send_time = 0
         /\ OnRecv(s, t).waiting_ack = FALSE /\ OnRecv(s, t).retry_count = 0
         /\ Sends(s) \in Sessions /\ Sends(s).last_send_time = 0
         /\ Sends(s).waiting_ack = TRUE /\ Sends(s).retry_count = 0
  BY SessionAssumption DEF SessionReset, OnRecv, Sends, OnSend, Sessions

\* Whether the user sends a request when told of the timeout or not, the session is reset.
LEMMA TimedOutIs ==
  ASSUME NEW s \in Sessions, s.last_send_time = 0, s.retry_count = 0, NEW request \in BOOLEAN
  PROVE  /\ TimedOut(s, request) \in Sessions /\ TimedOut(s, request).last_send_time = 0
         /\ TimedOut(s, request).waiting_ack = FALSE /\ TimedOut(s, request).retry_count = 0
<1>1. 0 \in 0..(TimeModulus - 1)
  BY SessionAssumption
<1>2. PICK r \in Sessions : r = (IF request THEN Sends(s) ELSE s)
                            /\ r.last_send_time = 0 /\ r.retry_count = 0
  BY <1>1, SessionFunctions
<1>3. TimedOut(s, request) = SessionReset(r)
  BY <1>2 DEF TimedOut
<1> QED BY <1>1, <1>2, <1>3, SessionFunctions

LEMMA NewSessionType ==
  ASSUME NEW m \in Retries
  PROVE  /\ NewSession(m) \in Sessions /\ NewSession(m).last_send_time = 0
         /\ NewSession(m).waiting_ack = FALSE /\ NewSession(m).retry_count = 0
<1>1. 0 \in 0..(TimeModulus - 1) /\ 0 \in Nat
  BY SessionAssumption
<1>2. QED
  BY <1>1 DEF NewSession, Sessions

LEMMA StackStarts == Init => StackInv
<1>1. SUFFICES ASSUME Init PROVE StackInv
  OBVIOUS
<1>2. PICK m \in Retries : session = NewSession(m)
  BY <1>1 DEF Init
<1>3. now \in 0..(TimeModulus - 1)
  BY <1>1, SessionAssumption DEF Init
<1>4. owed = "nothing"
  BY <1>1 DEF Init
<1>5. /\ session \in Sessions /\ session.last_send_time = 0
      /\ session.waiting_ack = FALSE /\ session.retry_count = 0
  BY <1>2, NewSessionType
<1>6. QED
  BY <1>3, <1>4, <1>5 DEF StackInv, Bookkept, WaitsWhileOwed, SentAtZero, NeverCounted

\* A frame answers the request; the callback may send the next one.
LEMMA DeliveredInv ==
  ASSUME StackInv, NEW request \in BOOLEAN
  PROVE  /\ Delivered(session, request) \in Sessions
         /\ Delivered(session, request).last_send_time = 0
         /\ Delivered(session, request).waiting_ack = request
         /\ Delivered(session, request).retry_count = 0
<1> DEFINE heard == OnRecv(session, now)
<1>1. /\ heard \in Sessions /\ heard.last_send_time = 0
      /\ heard.waiting_ack = FALSE /\ heard.retry_count = 0
  BY SessionFunctions DEF StackInv, Bookkept, SentAtZero, NeverCounted
<1>2. Delivered(session, request) = IF request THEN Sends(heard) ELSE heard
  BY DEF Delivered
<1> HIDE DEF heard
<1>3. now \in 0..(TimeModulus - 1)
  BY DEF StackInv, Bookkept
<1>4. /\ Sends(heard) \in Sessions /\ Sends(heard).last_send_time = 0
      /\ Sends(heard).waiting_ack = TRUE /\ Sends(heard).retry_count = 0
  BY <1>1, <1>3, SessionFunctions
<1>5. CASE request = TRUE
  BY <1>2, <1>4, <1>5
<1>6. CASE request = FALSE
  BY <1>1, <1>2, <1>6
<1>7. QED
  BY <1>5, <1>6

LEMMA StackKeeps == StackInv /\ [Next]_vars => StackInv'
<1>1. SUFFICES ASSUME StackInv, [Next]_vars PROVE StackInv'
  OBVIOUS
<1> USE DEF StackInv, Bookkept, WaitsWhileOwed, SentAtZero, NeverCounted
<1>2. ASSUME NEW f \in Commands, PeerSends(f) PROVE StackInv'
  BY <1>1, <1>2 DEF PeerSends
<1>11. ASSUME NEW n \in Losses, LineLoses(n) PROVE StackInv'
  BY <1>1, <1>11 DEF LineLoses
<1>3. ASSUME NEW n \in Reads, Poll(n) PROVE StackInv'
  <2>1. now' = now
    BY <1>3 DEF Poll
  <2>2. \/ \E request \in BOOLEAN : session' = Delivered(session, request)
                                    /\ owed' = IF request THEN "reply" ELSE "nothing"
        \/ session' = session /\ owed' = owed
    BY <1>3 DEF Poll
  <2>3. QED
    BY <1>1, <2>1, <2>2, DeliveredInv
<1>4. CASE PollNothing
  BY <1>1, <1>4 DEF PollNothing
<1>5. CASE Send
  BY <1>1, <1>5, SessionFunctions DEF Send
<1>6. CASE Process
  <2>1. now' = now
    BY <1>6 DEF Process
  <2>2. \/ UNCHANGED <<session, owed>>
        \/ \E request \in BOOLEAN : session' = TimedOut(session, request)
                                    /\ owed' = IF request THEN "forgotten" ELSE "nothing"
    BY <1>6 DEF Process
  <2>3. QED
    BY <1>1, <2>1, <2>2, TimedOutIs
<1>7. CASE Tick
  BY <1>1, <1>7, SessionAssumption DEF Tick, Later
<1>8. CASE Restart
  <2>1. session.max_retry \in Retries
    BY <1>1 DEF Sessions
  <2>2. QED
    BY <1>1, <1>8, <2>1, NewSessionType DEF Restart
<1>9. CASE UNCHANGED vars
  BY <1>1, <1>9 DEF vars
<1>10. QED
  BY <1>1, <1>2, <1>11, <1>3, <1>4, <1>5, <1>6, <1>7, <1>8, <1>9 DEF Next

-----------------------------------------------------------------------------
\* proto_stack_process reports a timeout only while a request is unanswered.
THEOREM AnsweredIsSafe == Spec => AnsweredNeverTimesOut
<1>1. StackInv /\ [Next]_vars
        => [Process /\ answer'.result # 0 => owed = "reply"]_vars
  <2>1. SUFFICES ASSUME StackInv, Process, owed # "reply"
                 PROVE  answer'.result = 0
    OBVIOUS
  <2>2. session.waiting_ack = FALSE
    BY <2>1 DEF StackInv, WaitsWhileOwed
  <2>3. ~IsTimeout(session, now)
    BY <2>2 DEF IsTimeout
  <2> QED BY <2>1, <2>3 DEF Process, Answer
<1>2. QED
  BY StackStarts, StackKeeps, <1>1, PTL DEF Spec, AnsweredNeverTimesOut

\* While one is due a reply, it reports the timeout exactly when the clock is past it,
\* counted from 0, and always the same way; and it reports nothing of a request that was
\* sent when the last timeout was reported.
THEOREM TimeoutIsCountedFromZero == Spec => TimeoutCountsFromZero
<1> DEFINE report == IF owed # "reply" \/ now <= TimeoutMs THEN 0
                     ELSE IF session.max_retry > 0 THEN 1 ELSE 2
<1>1. StackInv /\ [Next]_vars
        => [Process => answer' = Answer("process", report)]_vars
  <2>1. SUFFICES ASSUME StackInv, Process
                 PROVE  answer' = Answer("process", report)
    OBVIOUS
  <2>2. CASE owed = "reply"
    <3>1. now \in Nat /\ now < TimeModulus
      BY <2>1, SessionAssumption DEF StackInv, Bookkept
    <3>2. Elapsed(now, session.last_send_time) = now
      BY <2>1, <3>1, SessionAssumption DEF Elapsed, StackInv, SentAtZero
    <3>3. session.waiting_ack
      BY <2>1, <2>2 DEF StackInv, WaitsWhileOwed
    <3>4. IsTimeout(session, now) <=> now > TimeoutMs
      BY <3>2, <3>3 DEF IsTimeout
    <3>5. session.retry_count = 0 /\ session.max_retry \in Nat
      BY <2>1, SessionAssumption DEF StackInv, Bookkept, NeverCounted, Sessions
    <3>6. ShouldRetry(session, now) <=> IsTimeout(session, now) /\ session.max_retry > 0
      BY <3>3, <3>5 DEF ShouldRetry
    <3>7. now <= TimeoutMs <=> ~(now > TimeoutMs)
      BY <3>1, SessionAssumption
    <3> QED BY <2>1, <2>2, <3>4, <3>6, <3>7 DEF Process
  <2>3. CASE owed # "reply"
    <3>1. session.waiting_ack = FALSE
      BY <2>1, <2>3 DEF StackInv, WaitsWhileOwed
    <3>2. ~IsTimeout(session, now)
      BY <3>1 DEF IsTimeout
    <3> QED BY <2>1, <2>3, <3>2 DEF Process
  <2> QED BY <2>2, <2>3
<1>2. QED
  BY StackStarts, StackKeeps, <1>1, PTL DEF Spec, TimeoutCountsFromZero

-----------------------------------------------------------------------------
\* The bytes of a frame the peer sends, and a parser that read the first m of them.
Bytes(f) == Pack(f.addr, f.cmd, f.data)
Size(f) == 10 + Len(f.data)
InFrame(p, f, m) == Sound(p) /\ Fits(p, Bytes(f), 0, m)

LEMMA BytesAre ==
  ASSUME CrcIsSixteenBit, NEW f \in Commands
  PROVE  /\ Bytes(f) \in Seq(Byte) /\ Len(Bytes(f)) = Size(f) /\ Bytes(f)[1] = 170
         /\ PackedAt(Bytes(f), 0, Bytes(f), f.addr, f.cmd, f.data)
<1>1. PICK a \in Byte, c \in Byte, d \in Seq(Byte) : a = f.addr /\ c = f.cmd /\ d = f.data
  BY StackAssumption
<1>2. PICK n \in 0..MaxDataSize : n = Len(d)
  BY <1>1, StackAssumption, FrameAssumption
<1>3. PICK crc : crc = Crc(<<a, c>> \o d)
  OBVIOUS
<1>4. PICK g : g = Bytes(f)
  OBVIOUS
<1>5. PackedBytes(g, a, c, d, n, crc)
  <2>1. Len(d) <= MaxDataSize
    BY <1>2, FrameAssumption
  <2>2. PackedBytes(Pack(a, c, d), a, c, d, Len(d), Crc(<<a, c>> \o d))
    BY <2>1, PackIs
  <2> QED BY <1>1, <1>2, <1>3, <1>4, <2>2 DEF Bytes
<1>6. g \in Seq(Nat) /\ Len(g) = 10 + n /\ g[1] = 170 /\ n \in Nat
  BY <1>5 DEF PackedBytes
<1>7. ASSUME NEW i \in 1..(10 + n) PROVE g[i] \in Byte
  <2>1. 170 \in Byte /\ 187 \in Byte /\ 204 \in Byte /\ 221 \in Byte
    BY DEF Byte
  <2>2. \A x \in UInt16 : x \div 256 \in Byte /\ x % 256 \in Byte
    BY DEF Byte, UInt16
  <2>3. 4 + n \in UInt16
    BY <1>2, FrameAssumption DEF UInt16
  <2>4. g[1] \in Byte /\ g[2] \in Byte /\ g[5] \in Byte /\ g[6] \in Byte
    BY <1>5, <2>1 DEF PackedBytes
  <2>5. g[3] \in Byte /\ g[4] \in Byte
    BY <1>5, <2>2, <2>3, SMTT(30) DEF PackedBytes
  <2>6. \A k \in 1..n : g[6 + k] \in Byte
    <3>1. \A k \in 1..n : g[6 + k] = d[k]
      BY <1>5 DEF PackedBytes
    <3>2. \A k \in 1..n : d[k] \in Byte
      BY <1>2
    <3> QED BY <3>1, <3>2
  <2>7. g[7 + n] \in Byte /\ g[8 + n] \in Byte /\ g[9 + n] \in Byte /\ g[10 + n] \in Byte
    BY <1>5, <2>1, <2>2 DEF PackedBytes
  <2>8. i \in {1, 2, 3, 4, 5, 6} \/ i \in {7 + n, 8 + n, 9 + n, 10 + n} \/ i - 6 \in 1..n
    BY <1>6
  <2>9. CASE i - 6 \in 1..n
    <3>1. PICK k \in 1..n : k = i - 6
      BY <2>9
    <3>2. i = 6 + k
      BY <3>1
    <3> QED BY <2>6, <3>2
  <2> QED BY <2>4, <2>5, <2>7, <2>8, <2>9
<1>8. g \in Seq(Byte)
  <2>1. PICK l \in Nat : l = 10 + n
    BY <1>6
  <2>2. g \in [1..l -> Nat]
    BY <1>6, <2>1
  <2>3. \A i \in 1..l : g[i] \in Byte
    BY <1>7, <2>1
  <2>4. g \in [1..l -> Byte]
    BY <2>2, <2>3
  <2> QED BY <2>1, <2>4
<1>9. PackedAt(g, 0, g, f.addr, f.cmd, f.data)
  <2>1. \A k \in 1..Len(g) : g[0 + k] = g[k]
    BY <1>6
  <2> QED BY <1>4, <2>1, StackAssumption DEF PackedAt, Bytes
<1> QED BY <1>1, <1>2, <1>4, <1>6, <1>8, <1>9 DEF Size

LEMMA BytesFrame ==
  ASSUME CrcIsSixteenBit, NEW f \in Commands
  PROVE  /\ FrameAt(Bytes(f), 0, Len(f.data)) /\ Len(f.data) \in 0..MaxDataSize
         /\ FieldsAt(Bytes(f), 0, f.addr, f.cmd, f.data)
  BY BytesAre, PackedHolds

\* A fresh parser and the first byte of a frame.
LEMMA ReadsFirst ==
  ASSUME CrcIsSixteenBit, NEW f \in Commands
  PROVE  LET fed == Fed(Fresh, Bytes(f)[1])
         IN  fed.ret = -1 /\ InFrame(fed.parser, f, 1)
<1>1. PICK b \in Byte : b = 170
  BY DEF Byte
<1>2. Sound(Fresh) /\ Fresh \in Parsers /\ Fresh.state = "WAIT_HEAD1"
  BY FreshSound DEF Sound, Fresh
<1>3. Sound(Fed(Fresh, b).parser)
  BY <1>2, FedSound
<1>4. Fed(Fresh, b) = FeedHead1([Fresh EXCEPT !.error = ErrNone], b)
  BY <1>2 DEF Fed
<1>5. Fed(Fresh, b).ret = -1
  BY <1>4 DEF FeedHead1, Goes
<1>6. Fed(Fresh, b).parser.state = "WAIT_HEAD2"
  <2>1. PICK p \in Parsers : p = [Fresh EXCEPT !.error = ErrNone]
    <3>1. [Fresh EXCEPT !.error = ErrNone] = Fresh
      BY DEF Fresh
    <3> QED BY <1>2, <3>1
  <2>2. Fed(Fresh, b) = Goes(p, "WAIT_HEAD2")
    BY <1>1, <1>4, <2>1 DEF FeedHead1, HeadMark
  <2> QED BY <2>2 DEF Goes, Parsers
<1>7. Bytes(f)[0 + 1] = 170
  BY BytesAre
<1> QED BY <1>1, <1>3, <1>5, <1>6, <1>7 DEF InFrame, Fits

\* A parser inside a frame and the next byte of it.
LEMMA ReadsNext ==
  ASSUME CrcIsSixteenBit, NEW f \in Commands, NEW m \in Nat, m > 0, m < Size(f),
         NEW p, InFrame(p, f, m)
  PROVE  LET fed == Fed(p, Bytes(f)[m + 1])
         IN  \/ m + 1 = Size(f) /\ fed.ret = 0 /\ Taken(fed.parser) = f
             \/ m + 1 < Size(f) /\ fed.ret = -1 /\ InFrame(fed.parser, f, m + 1)
<1>1. PICK n \in 0..MaxDataSize : n = Len(f.data)
  BY BytesFrame
<1>2. PICK s \in Seq(Byte) : s = Bytes(f) /\ Len(s) = 10 + n
  BY <1>1, BytesAre DEF Size
<1>3. n \in Nat /\ FrameAt(s, 0, n) /\ FieldsAt(s, 0, f.addr, f.cmd, f.data) /\ Size(f) = 10 + n
  BY <1>1, <1>2, BytesFrame, FrameAssumption DEF Size
<1>4. p \in Parsers /\ Sound(p) /\ Fits(p, s, 0, m)
  BY <1>2 DEF InFrame, Sound
<1>5. PICK b \in Byte : b = s[m + 1]
  <2>1. m + 1 \in 1..Len(s)
    BY <1>2, <1>3
  <2> QED BY <2>1
<1>6. p.state # "COMPLETE"
  BY <1>3, <1>4, FrameRead
<1>7. Advances(Fed(p, b), s, 0, m)
  <2>1. b = s[0 + m + 1] /\ (m = 3 => s[0 + 3] \in Byte)
    <3>1. m = 3 => 3 \in 1..Len(s)
      BY <1>2, <1>3
    <3> QED BY <1>5, <3>1
  <2>2. Advances(Fed(p, b), s, 0, m) \/ Loses(Fed(p, b), s, 0, b)
    BY <1>4, <1>6, <2>1, FedFits
  <2> QED BY <1>1, <1>3, <2>2 DEF Loses
<1>8. PICK q, r : q = Fed(p, b).parser /\ r = Fed(p, b).ret
  OBVIOUS
<1>9. Sound(q) /\ q \in Parsers
  BY <1>4, <1>8, FedSound DEF Sound
<1>10. Fits(q, s, 0, m + 1) /\ r = IF q.state = "COMPLETE" THEN 0 ELSE -1
  BY <1>7, <1>8 DEF Advances
<1>11. q.state = "COMPLETE" <=> m + 1 >= 10 + n
  <2>1. m + 1 \in Nat
    OBVIOUS
  <2> QED BY <1>3, <1>9, <1>10, <2>1, FrameRead
<1>12. CASE q.state # "COMPLETE"
  BY <1>2, <1>3, <1>5, <1>8, <1>9, <1>10, <1>11, <1>12 DEF InFrame
<1>13. CASE q.state = "COMPLETE"
  <2>1. Whole(q, s, 0)
    BY <1>10, <1>13 DEF Fits
  <2>2. q.data_len = n /\ q.received_len = n
    BY <1>3, <1>9, <2>1, FrameLength DEF Whole, Named
  <2>3. q.addr = f.addr /\ q.cmd = f.cmd
    BY <1>3, <2>1 DEF FieldsAt, Whole, Named
  <2>4. SubSeq(q.data, 1, n) = f.data
    <3>1. PICK d : d = q.data
      OBVIOUS
    <3>2. d \in Seq(Byte) /\ Len(d) = MaxDataSize
      <4>1. d \in [1..MaxDataSize -> Byte]
        BY <1>9, <3>1 DEF Parsers
      <4> QED BY <4>1, FrameAssumption
    <3>3. PICK data \in Seq(Byte) : data = f.data
      BY StackAssumption
    <3>4. \A k \in 1..n : d[k] = data[k]
      BY <1>1, <1>3, <2>1, <2>2, <3>1, <3>3 DEF FieldsAt, Whole, Named
    <3>5. SubSeq(d, 1, n) = [k \in 1..n |-> d[k]]
      BY <3>2, FrameAssumption
    <3>6. data = [k \in 1..n |-> data[k]]
      BY <1>1, <3>3
    <3> QED BY <3>1, <3>3, <3>4, <3>5, <3>6
  <2>5. Taken(q) = f
    <3>1. f = [addr |-> f.addr, cmd |-> f.cmd, data |-> f.data]
      BY StackAssumption
    <3> QED BY <2>2, <2>3, <2>4, <3>1 DEF Taken
  <2>6. m + 1 = Size(f) /\ r = 0
    BY <1>3, <1>10, <1>11, <1>13
  <2> QED BY <1>2, <1>5, <1>8, <2>5, <2>6
<1> QED BY <1>12, <1>13

-----------------------------------------------------------------------------
\* The loop of proto_parser_parse_rb, turn by turn.
NewRun(p) == [parser |-> p, rest |-> <<>>, done |-> FALSE, frame |-> <<>>]
ParseRun(r, p, bytes) ==
  r = [i \in 0..Len(bytes) |-> IF i = 0 THEN NewRun(p) ELSE ParseStep(r[i - 1], bytes[i])]

LEMMA ParseRunExists ==
  ASSUME NEW p, NEW bytes, Len(bytes) \in Nat
  PROVE  \E r : ParseRun(r, p, bytes)
<1> DEFINE Run(n, c) ==
             c = [i \in 0..n |-> IF i = 0 THEN NewRun(p) ELSE ParseStep(c[i - 1], bytes[i])]
           Bad == {n \in Nat : ~ \E c : Run(n, c)}
<1>1. Run(0, [i \in 0..0 |-> NewRun(p)])
  OBVIOUS
<1>2. ASSUME NEW n \in Nat, NEW c, Run(n, c)
      PROVE  \E d : Run(n + 1, d)
  <2> DEFINE d == [i \in 0..(n + 1) |-> IF i <= n THEN c[i] ELSE ParseStep(c[n], bytes[n + 1])]
  <2>1. \A i \in 0..(n + 1) : i # 0 => i - 1 \in 0..n
    OBVIOUS
  <2>2. ASSUME NEW i \in 0..(n + 1)
        PROVE  d[i] = IF i = 0 THEN NewRun(p) ELSE ParseStep(d[i - 1], bytes[i])
    <3>1. CASE i = 0
      BY <1>2, <3>1
    <3>2. CASE i # 0 /\ i <= n
      <4>1. i - 1 \in 0..(n + 1) /\ i - 1 <= n /\ i \in 0..n
        BY <3>2
      <4>2. d[i] = c[i] /\ d[i - 1] = c[i - 1]
        BY <3>2, <4>1
      <4>3. c[i] = ParseStep(c[i - 1], bytes[i])
        BY <1>2, <3>2, <4>1
      <4> QED BY <3>2, <4>2, <4>3
    <3>3. CASE i = n + 1
      <4>1. d[i - 1] = c[n] /\ d[i] = ParseStep(c[n], bytes[n + 1])
        BY <3>3
      <4> QED BY <3>3, <4>1
    <3> QED BY <3>1, <3>2, <3>3
  <2>3. Run(n + 1, d)
    <3>1. d = [i \in 0..(n + 1) |-> d[i]]
      OBVIOUS
    <3> HIDE DEF d
    <3>2. [i \in 0..(n + 1) |-> d[i]]
            = [i \in 0..(n + 1) |-> IF i = 0 THEN NewRun(p) ELSE ParseStep(d[i - 1], bytes[i])]
      BY <2>2
    <3> QED BY <3>1, <3>2
  <2> HIDE DEF d
  <2> QED BY <2>3
<1>3. Bad = {}
  <2> SUFFICES ASSUME Bad # {} PROVE FALSE
    OBVIOUS
  <2>1. PICK k \in Bad : \A j \in Bad : k <= j
    <3> HIDE DEF Bad
    <3>1. Bad \in SUBSET Nat
      BY DEF Bad
    <3> QED BY <3>1, LeastOne
  <2> HIDE DEF Run
  <2>2. k \in Nat /\ ~ \E c : Run(k, c)
    BY <2>1
  <2>3. k # 0
    BY <1>1, <2>2
  <2>4. k - 1 \in Nat /\ k - 1 \notin Bad
    BY <2>1, <2>2, <2>3
  <2>5. PICK c : Run(k - 1, c)
    BY <2>4
  <2> HIDE DEF Bad
  <2>6. PICK m \in Nat : m = k - 1
    BY <2>4
  <2>7. \E d : Run(m + 1, d)
    BY <1>2, <2>5, <2>6
  <2>8. m + 1 = k
    BY <2>6, <2>2
  <2> QED BY <2>2, <2>7, <2>8
<1> QED
  <2>1. \E c : Run(Len(bytes), c)
    <3> HIDE DEF Run
    <3> QED BY <1>3
  <2> QED BY <2>1 DEF ParseRun

LEMMA ParseIsRun ==
  ASSUME NEW p, NEW bytes, Len(bytes) \in Nat
  PROVE  \E r : ParseRun(r, p, bytes) /\ Parse(p, bytes) = r[Len(bytes)]
<1> DEFINE c == CHOOSE run : ParseRun(run, p, bytes)
<1>1. ParseRun(c, p, bytes)
  BY ParseRunExists
<1>2. Parse(p, bytes) = c[Len(bytes)]
  BY DEF ParseRun, Parse, NewRun
<1> HIDE DEF c
<1> QED BY <1>1, <1>2

-----------------------------------------------------------------------------
\* The bytes t follow o bytes of s.
Carries(s, o, t) == \A j \in 1..Len(t) : s[o + j] = t[j]

\* s are the bytes of the frames fs, of which e[i] belong to the first i.
Stream(s, e, fs) ==
  /\ s \in Seq(Byte) /\ fs \in Seq(Commands)
  /\ e \in [0..Len(fs) -> Nat] /\ e[Len(fs)] = Len(s)
  /\ \A i \in 0..Len(fs) : e[i] <= Len(s)
  /\ \A i \in 1..Len(fs) : e[i] = e[i - 1] + Size(fs[i]) /\ Carries(s, e[i - 1], Bytes(fs[i]))

\* The parser has read all frames up to the k-th and the next as far as byte at.
Reading(p, e, fs, k, at) ==
  /\ k \in 0..Len(fs)
  /\ \/ p = Fresh /\ at = e[k]
     \/ /\ k < Len(fs) /\ at > e[k] /\ at - e[k] < Size(fs[k + 1])
        /\ InFrame(p, fs[k + 1], at - e[k])

\* It has them all, and the bytes rest come next.
Read(p, s, e, fs, k, at, rest) ==
  /\ k \in 0..(Len(fs) - 1) /\ p = Fresh
  /\ rest \in Seq(Byte) /\ e[k + 1] + Len(rest) = at /\ Carries(s, e[k + 1], rest)

LEMMA StreamFrame ==
  ASSUME CrcIsSixteenBit, NEW s, NEW e, NEW fs, Stream(s, e, fs), NEW k \in 0..(Len(fs) - 1)
  PROVE  /\ fs[k + 1] \in Commands /\ e[k] \in Nat /\ e[k + 1] \in Nat
         /\ Size(fs[k + 1]) \in Nat /\ Size(fs[k + 1]) >= 10
         /\ e[k + 1] = e[k] + Size(fs[k + 1]) /\ e[k + 1] <= Len(s)
         /\ \A m \in 1..Size(fs[k + 1]) : s[e[k] + m] = Bytes(fs[k + 1])[m]
<1>1. Len(fs) \in Nat /\ k + 1 \in 1..Len(fs) /\ k \in 0..Len(fs) /\ k + 1 \in 0..Len(fs)
      /\ (k + 1) - 1 = k
  BY DEF Stream
<1>2. PICK f \in Commands : f = fs[k + 1]
  BY <1>1 DEF Stream
<1>3. Size(f) \in Nat /\ Size(f) >= 10
  <2>1. Len(f.data) \in Nat
    BY BytesFrame, FrameAssumption
  <2> QED BY <2>1 DEF Size
<1>4. Len(Bytes(f)) = Size(f)
  BY BytesAre
<1>5. e[k + 1] = e[(k + 1) - 1] + Size(f) /\ Carries(s, e[(k + 1) - 1], Bytes(f))
  BY <1>1, <1>2 DEF Stream
<1>6. e[k] \in Nat /\ e[k + 1] \in Nat /\ e[k + 1] <= Len(s)
  BY <1>1 DEF Stream
<1> QED BY <1>1, <1>2, <1>3, <1>4, <1>5, <1>6 DEF Carries

\* One byte of the stream.
LEMMA ReadsOne ==
  ASSUME CrcIsSixteenBit, NEW s, NEW e, NEW fs, Stream(s, e, fs), NEW k, NEW at \in Nat,
         at < Len(s), NEW p, Reading(p, e, fs, k, at)
  PROVE  LET fed == Fed(p, s[at + 1])
         IN  \/ /\ k \in 0..(Len(fs) - 1) /\ fed.ret = 0 /\ Taken(fed.parser) = fs[k + 1]
                /\ at + 1 = e[k + 1]
             \/ fed.ret = -1 /\ Reading(fed.parser, e, fs, k, at + 1)
<1>1. Len(fs) \in Nat /\ k \in 0..Len(fs) /\ e[Len(fs)] = Len(s) /\ s \in Seq(Byte)
  BY DEF Stream, Reading
<1>2. k \in 0..(Len(fs) - 1)
  <2>1. k < Len(fs)
    BY <1>1 DEF Reading
  <2> QED BY <1>1, <2>1
<1>3. PICK f \in Commands, c \in Nat, d \in Nat, z \in Nat :
        /\ f = fs[k + 1] /\ c = e[k] /\ d = e[k + 1] /\ z = Size(f)
        /\ z >= 10 /\ d = c + z /\ \A m \in 1..z : s[c + m] = Bytes(f)[m]
  <2>1. /\ fs[k + 1] \in Commands /\ e[k] \in Nat /\ e[k + 1] \in Nat
        /\ Size(fs[k + 1]) \in Nat /\ Size(fs[k + 1]) >= 10
        /\ e[k + 1] = e[k] + Size(fs[k + 1])
        /\ \A m \in 1..Size(fs[k + 1]) : s[e[k] + m] = Bytes(fs[k + 1])[m]
    BY <1>2, StreamFrame
  <2> QED BY <2>1
<1>4. CASE p = Fresh /\ at = c
  <2>1. s[at + 1] = Bytes(f)[1]
    BY <1>3, <1>4
  <2>2. PICK fed : fed = Fed(p, s[at + 1])
    OBVIOUS
  <2>3. fed.ret = -1 /\ InFrame(fed.parser, f, 1)
    BY <1>4, <2>1, <2>2, ReadsFirst
  <2>4. (at + 1) - c = 1 /\ at + 1 > c /\ 1 < z
    BY <1>3, <1>4
  <2>5. Reading(fed.parser, e, fs, k, at + 1)
    BY <1>1, <1>2, <1>3, <2>3, <2>4 DEF Reading
  <2> QED BY <2>2, <2>3, <2>5
<1>5. CASE at > c /\ at - c < z /\ InFrame(p, f, at - c)
  <2>0. c \in Nat /\ z \in Nat /\ at \in Nat
    OBVIOUS
  <2>1. PICK m \in Nat : m = at - c /\ m > 0 /\ m < z
    BY <1>5, <2>0
  <2>2. s[at + 1] = Bytes(f)[m + 1]
    <3>1. m + 1 \in 1..z /\ c + (m + 1) = at + 1
      BY <2>0, <2>1
    <3> QED BY <1>3, <3>1
  <2>3. PICK fed : fed = Fed(p, s[at + 1])
    OBVIOUS
  <2>4. \/ m + 1 = z /\ fed.ret = 0 /\ Taken(fed.parser) = f
        \/ m + 1 < z /\ fed.ret = -1 /\ InFrame(fed.parser, f, m + 1)
    <3>1. InFrame(p, f, m) /\ m < Size(f) /\ z = Size(f)
      BY <1>3, <1>5, <2>1
    <3>2. fed = Fed(p, Bytes(f)[m + 1])
      BY <2>2, <2>3
    <3> QED BY <2>1, <3>1, <3>2, ReadsNext
  <2>5. (at + 1) - c = m + 1 /\ at + 1 > c /\ (m + 1 = z => at + 1 = d)
    <3>1. d = c + z
      BY <1>3
    <3> QED BY <2>0, <2>1, <3>1
  <2>6. CASE m + 1 = z
    BY <1>2, <1>3, <2>3, <2>4, <2>5, <2>6
  <2>7. CASE m + 1 # z
    <3>1. Reading(fed.parser, e, fs, k, at + 1)
      BY <1>1, <1>2, <1>3, <2>4, <2>5, <2>7 DEF Reading
    <3> QED BY <2>3, <2>4, <2>7, <3>1
  <2> QED BY <2>6, <2>7
<1> QED BY <1>2, <1>3, <1>4, <1>5 DEF Reading

\* Where the loop is after the bytes up to at.
Stage(run, s, e, fs, k, at) ==
  \/ \E p : /\ run = NewRun(p)
            /\ Reading(p, e, fs, k, at)
  \/ \E p, rest : /\ run = [parser |-> p, rest |-> rest, done |-> TRUE, frame |-> fs[k + 1]]
                  /\ Read(p, s, e, fs, k, at, rest)

LEMMA StageStep ==
  ASSUME CrcIsSixteenBit, NEW s, NEW e, NEW fs, Stream(s, e, fs), NEW k, NEW at \in Nat,
         at < Len(s), NEW run, Stage(run, s, e, fs, k, at)
  PROVE  Stage(ParseStep(run, s[at + 1]), s, e, fs, k, at + 1)
<1>1. PICK b \in Byte : b = s[at + 1]
  <2>1. s \in Seq(Byte) /\ at + 1 \in 1..Len(s)
    BY DEF Stream
  <2> QED BY <2>1
<1>2. ASSUME NEW p, run = NewRun(p), Reading(p, e, fs, k, at)
      PROVE  Stage(ParseStep(run, b), s, e, fs, k, at + 1)
  <2>1. PICK fed : fed = Fed(p, b)
    OBVIOUS
  <2>2. run.parser = p /\ run.done = FALSE
    BY <1>2 DEF NewRun
  <2>3. CASE k \in 0..(Len(fs) - 1) /\ fed.ret = 0 /\ Taken(fed.parser) = fs[k + 1] /\ at + 1 = e[k + 1]
    <3>1. ParseStep(run, b)
            = [parser |-> Fresh, rest |-> <<>>, done |-> TRUE, frame |-> fs[k + 1]]
      BY <2>1, <2>2, <2>3 DEF ParseStep
    <3>2. Read(Fresh, s, e, fs, k, at + 1, <<>>)
      <4>1. <<>> \in Seq(Byte) /\ Len(<<>>) = 0 /\ e[k + 1] + 0 = at + 1
        BY <2>3
      <4>2. Carries(s, e[k + 1], <<>>)
        BY DEF Carries
      <4> QED BY <2>3, <4>1, <4>2 DEF Read
    <3> QED BY <3>1, <3>2 DEF Stage
  <2>4. CASE fed.ret = -1 /\ Reading(fed.parser, e, fs, k, at + 1)
    <3>1. ParseStep(run, b) = [run EXCEPT !.parser = fed.parser]
      BY <2>1, <2>2, <2>4 DEF ParseStep
    <3>2. ParseStep(run, b) = NewRun(fed.parser)
      BY <1>2, <3>1 DEF NewRun
    <3> QED BY <2>4, <3>2 DEF Stage
  <2> QED BY <1>1, <1>2, <2>1, <2>3, <2>4, ReadsOne
<1>3. ASSUME NEW p, NEW rest, Read(p, s, e, fs, k, at, rest),
             run = [parser |-> p, rest |-> rest, done |-> TRUE, frame |-> fs[k + 1]]
      PROVE  Stage(ParseStep(run, b), s, e, fs, k, at + 1)
  <2>1. ParseStep(run, b) = [run EXCEPT !.rest = Append(@, b)]
    BY <1>3 DEF ParseStep
  <2>2. ParseStep(run, b)
          = [parser |-> p, rest |-> Append(rest, b), done |-> TRUE, frame |-> fs[k + 1]]
    BY <1>3, <2>1
  <2>3. PICK more : more = Append(rest, b)
    OBVIOUS
  <2>4. rest \in Seq(Byte) /\ k \in 0..(Len(fs) - 1) /\ e[k + 1] + Len(rest) = at
        /\ Carries(s, e[k + 1], rest) /\ p = Fresh
    BY <1>3 DEF Read
  <2>5. PICK c \in Nat, l \in Nat : c = e[k + 1] /\ l = Len(rest) /\ c + l = at
    <3>1. e[k + 1] \in Nat
      BY <2>4, StreamFrame
    <3> QED BY <2>4, <3>1
  <2>6. more \in Seq(Byte) /\ Len(more) = l + 1 /\ more[l + 1] = b
        /\ \A j \in 1..l : more[j] = rest[j]
    BY <2>3, <2>4, <2>5
  <2>7. Carries(s, c, more)
    <3>1. ASSUME NEW j \in 1..(l + 1) PROVE s[c + j] = more[j]
      <4>1. CASE j = l + 1
        <5>1. c + j = at + 1
          BY <2>5, <4>1
        <5> QED BY <1>1, <2>6, <4>1, <5>1
      <4>2. CASE j # l + 1
        <5>1. j \in 1..l
          BY <4>2
        <5> QED BY <2>4, <2>5, <2>6, <5>1 DEF Carries
      <4> QED BY <4>1, <4>2
    <3> QED BY <2>6, <3>1 DEF Carries
  <2>8. c + Len(more) = at + 1
    BY <2>5, <2>6
  <2>9. Read(p, s, e, fs, k, at + 1, more)
    BY <2>4, <2>5, <2>6, <2>7, <2>8 DEF Read
  <2> QED BY <2>2, <2>3, <2>9 DEF Stage
<1> QED BY <1>1, <1>2, <1>3 DEF Stage

\* What proto_parser_parse_rb makes of the bytes that come next in the stream.
LEMMA ParseReads ==
  ASSUME CrcIsSixteenBit, NEW s, NEW e, NEW fs, Stream(s, e, fs), NEW k, NEW at \in Nat,
         NEW bytes \in Seq(Byte), at + Len(bytes) <= Len(s), Carries(s, at, bytes),
         NEW p, Reading(p, e, fs, k, at)
  PROVE  Stage(Parse(p, bytes), s, e, fs, k, at + Len(bytes))
<1>1. PICK n \in Nat : n = Len(bytes)
  OBVIOUS
<1>2. PICK r : ParseRun(r, p, bytes) /\ Parse(p, bytes) = r[n]
  BY <1>1, ParseIsRun
<1>3. \A i \in 0..n : r[i] = IF i = 0 THEN NewRun(p) ELSE ParseStep(r[i - 1], bytes[i])
  <2>1. r = [i \in 0..n |-> IF i = 0 THEN NewRun(p) ELSE ParseStep(r[i - 1], bytes[i])]
    BY <1>1, <1>2 DEF ParseRun
  <2> QED BY <2>1
<1> DEFINE Bad == {i \in 0..n : ~Stage(r[i], s, e, fs, k, at + i)}
<1>4. Bad = {}
  <2> SUFFICES ASSUME Bad # {} PROVE FALSE
    OBVIOUS
  <2>1. PICK i \in Bad : \A j \in Bad : i <= j
    <3>1. Bad \in SUBSET Nat
      OBVIOUS
    <3> HIDE DEF Bad
    <3> QED BY <3>1, LeastOne
  <2>2. i \in 0..n /\ ~Stage(r[i], s, e, fs, k, at + i)
    BY <2>1
  <2>3. i # 0
    <3>1. r[0] = NewRun(p) /\ at + 0 = at
      BY <1>3
    <3>2. Stage(r[0], s, e, fs, k, at + 0)
      BY <3>1 DEF Stage
    <3> QED BY <2>2, <3>2
  <2>4. PICK m \in 0..n : m = i - 1 /\ i = m + 1
    BY <2>2, <2>3
  <2>5. m \notin Bad
    BY <2>1, <2>2, <2>4
  <2>6. Stage(r[m], s, e, fs, k, at + m)
    BY <2>5
  <2>7. r[i] = ParseStep(r[m], bytes[i])
    BY <1>3, <2>2, <2>3, <2>4
  <2>8. PICK a \in Nat : a = at + m
    OBVIOUS
  <2>9. a < Len(s) /\ a + 1 = at + i /\ i \in 1..Len(bytes)
    <3>1. Len(s) \in Nat
      BY DEF Stream
    <3> QED BY <1>1, <2>2, <2>4, <2>8, <3>1
  <2>10. bytes[i] = s[a + 1]
    BY <2>9 DEF Carries
  <2> HIDE DEF Bad
  <2>11. Stage(ParseStep(r[m], s[a + 1]), s, e, fs, k, a + 1)
    BY <2>6, <2>8, <2>9, StageStep
  <2> QED BY <2>2, <2>7, <2>9, <2>10, <2>11
<1>5. Stage(r[n], s, e, fs, k, at + n)
  BY <1>4
<1> QED BY <1>1, <1>2, <1>5

LEMMA JoinedBytes ==
  ASSUME NEW u \in Seq(Byte), NEW v \in Seq(Byte), NEW m \in Nat, NEW z \in Nat,
         m = Len(u), z = Len(v)
  PROVE  /\ u \o v \in Seq(Byte) /\ Len(u \o v) = m + z
         /\ \A i \in 1..m : (u \o v)[i] = u[i]
         /\ \A i \in 1..z : (u \o v)[m + i] = v[i]
  OBVIOUS

\* The stream when one more frame is sent.
Longer(e, fs, f) ==
  [i \in 0..(Len(fs) + 1) |-> IF i <= Len(fs) THEN e[i] ELSE e[Len(fs)] + Size(f)]

LEMMA StreamGrows ==
  ASSUME CrcIsSixteenBit, NEW s, NEW e, NEW fs, Stream(s, e, fs), NEW f \in Commands
  PROVE  /\ Stream(s \o Bytes(f), Longer(e, fs, f), Append(fs, f))
         /\ \A i \in 1..Len(s) : (s \o Bytes(f))[i] = s[i]
         /\ \A i \in 1..Size(f) : (s \o Bytes(f))[Len(s) + i] = Bytes(f)[i]
<1>1. PICK n \in Nat, l \in Nat, z \in Nat :
        n = Len(fs) /\ l = Len(s) /\ z = Size(f) /\ Len(Bytes(f)) = z
  <2>1. Len(fs) \in Nat /\ Len(s) \in Nat
    BY DEF Stream
  <2>2. Len(Bytes(f)) = Size(f) /\ Len(Bytes(f)) \in Nat
    BY BytesAre
  <2> QED BY <2>1, <2>2
<1>2. PICK g \in Seq(Byte) : g = Bytes(f) /\ Len(g) = z
  BY <1>1, BytesAre
<1>3. s \in Seq(Byte) /\ fs \in Seq(Commands) /\ e \in [0..n -> Nat] /\ e[n] = l
  BY <1>1 DEF Stream
<1>4. PICK t : t = s \o g
  OBVIOUS
<1>5. /\ t \in Seq(Byte) /\ Len(t) = l + z
      /\ \A i \in 1..l : t[i] = s[i]
      /\ \A i \in 1..z : t[l + i] = g[i]
  BY <1>1, <1>2, <1>3, <1>4
<1>6. PICK e2 : e2 = Longer(e, fs, f)
  OBVIOUS
<1>7. e2 = [i \in 0..(n + 1) |-> IF i <= n THEN e[i] ELSE l + z]
  BY <1>1, <1>3, <1>6 DEF Longer
<1>8. /\ e2 \in [0..(n + 1) -> Nat] /\ e2[n + 1] = l + z
      /\ \A i \in 0..n : e2[i] = e[i]
  <2>1. \A i \in 0..n : e[i] \in Nat /\ i \in 0..(n + 1) /\ i <= n
    BY <1>3
  <2>2. n + 1 \in 0..(n + 1) /\ ~(n + 1 <= n)
    OBVIOUS
  <2>3. \A i \in 0..(n + 1) : i <= n => i \in 0..n
    OBVIOUS
  <2> QED BY <1>7, <2>1, <2>2, <2>3
<1>9. PICK fs2 : fs2 = Append(fs, f)
  OBVIOUS
<1>10. /\ fs2 \in Seq(Commands) /\ Len(fs2) = n + 1 /\ fs2[n + 1] = f
       /\ \A i \in 1..n : fs2[i] = fs[i]
  BY <1>1, <1>3, <1>9
<1>11. ASSUME NEW i \in 0..(n + 1) PROVE e2[i] <= l + z
  <2>1. CASE i = n + 1
    BY <1>8, <2>1
  <2>2. CASE i # n + 1
    <3>1. i \in 0..n
      BY <2>2
    <3>2. e[i] <= l /\ e[i] \in Nat
      BY <1>1, <1>3, <3>1 DEF Stream
    <3> QED BY <1>8, <3>1, <3>2
  <2> QED BY <2>1, <2>2
<1>12. ASSUME NEW i \in 1..(n + 1)
       PROVE  e2[i] = e2[i - 1] + Size(fs2[i]) /\ Carries(t, e2[i - 1], Bytes(fs2[i]))
  <2>1. CASE i = n + 1
    <3>1. i - 1 = n /\ n \in 0..n
      BY <2>1
    <3>2. e2[i - 1] = l /\ fs2[i] = f /\ e2[i] = l + z
      BY <1>3, <1>8, <1>10, <2>1, <3>1
    <3>3. Carries(t, l, g)
      BY <1>2, <1>5 DEF Carries
    <3> QED BY <1>1, <1>2, <3>2, <3>3
  <2>2. CASE i # n + 1
    <3>1. i \in 1..n /\ i \in 0..n /\ i - 1 \in 0..n
      BY <2>2
    <3>2. e2[i] = e[i] /\ e2[i - 1] = e[i - 1] /\ fs2[i] = fs[i]
      BY <1>8, <1>10, <3>1
    <3>3. /\ e[i] = e[i - 1] + Size(fs[i]) /\ Carries(s, e[i - 1], Bytes(fs[i]))
          /\ e[i] <= l
      BY <1>1, <3>1 DEF Stream
    <3>4. PICK h \in Commands, a \in Nat, b \in Nat : h = fs[i] /\ a = e[i - 1] /\ b = e[i]
      <4>1. fs[i] \in Commands
        BY <1>1, <1>3, <3>1
      <4>2. e[i - 1] \in Nat /\ e[i] \in Nat
        BY <1>3, <3>1
      <4> QED BY <4>1, <4>2
    <3>5. Len(Bytes(h)) = Size(h)
      BY BytesAre
    <3>6. PICK k \in Nat : k = Len(Bytes(h)) /\ b = a + k /\ b <= l
      <4>1. Len(Bytes(h)) \in Nat
        BY BytesAre
      <4> QED BY <3>3, <3>4, <3>5, <4>1
    <3>7. \A j \in 1..k : s[a + j] = Bytes(h)[j]
      BY <3>3, <3>4, <3>6 DEF Carries
    <3>8. \A j \in 1..k : t[a + j] = Bytes(h)[j]
      <4> SUFFICES ASSUME NEW j \in 1..k PROVE t[a + j] = Bytes(h)[j]
        OBVIOUS
      <4>1. a + j \in 1..l
        BY <3>6
      <4> QED BY <1>5, <3>7, <4>1
    <3>9. Carries(t, a, Bytes(h))
      BY <3>6, <3>8 DEF Carries
    <3> QED BY <3>2, <3>3, <3>4, <3>9
  <2> QED BY <2>1, <2>2
<1>13. Stream(t, e2, fs2)
  BY <1>5, <1>8, <1>10, <1>11, <1>12 DEF Stream
<1> QED BY <1>1, <1>2, <1>4, <1>5, <1>6, <1>9, <1>13

\* A parser in the stream is where it was when more is sent.
LEMMA ReadingGrows ==
  ASSUME NEW s, NEW e, NEW fs, Stream(s, e, fs), NEW f \in Commands, NEW p, NEW k, NEW at,
         Reading(p, e, fs, k, at)
  PROVE  Reading(p, Longer(e, fs, f), Append(fs, f), k, at)
<1>1. PICK n \in Nat : n = Len(fs)
  BY DEF Stream
<1>2. fs \in Seq(Commands) /\ k \in 0..n
  BY <1>1 DEF Stream, Reading
<1>3. PICK e2, fs2 : e2 = Longer(e, fs, f) /\ fs2 = Append(fs, f)
  OBVIOUS
<1>4. Len(fs2) = n + 1 /\ \A i \in 1..n : fs2[i] = fs[i]
  BY <1>1, <1>2, <1>3
<1>5. e2[k] = e[k]
  BY <1>1, <1>2, <1>3 DEF Longer
<1>6. k < n => fs2[k + 1] = fs[k + 1] /\ k < n + 1
  BY <1>2, <1>4
<1>7. k \in 0..(n + 1)
  BY <1>2
<1> QED BY <1>1, <1>3, <1>4, <1>5, <1>6, <1>7 DEF Reading

-----------------------------------------------------------------------------
\* As long as nothing was dropped the ring and the wire hold the rest of the stream, and
\* what was delivered are the first frames of it.
Unbroken(s, e, at) ==
  /\ Stream(s, e, sent)
  /\ rx \in Seq(Byte) /\ wire \in Seq(Byte) /\ at \in Nat /\ at + Len(rx) + Len(wire) = Len(s)
  /\ Carries(s, at, rx) /\ Carries(s, at + Len(rx), wire)
  /\ received \in Seq(Commands) /\ Reading(parser, e, sent, Len(received), at)
  /\ \A i \in 1..Len(received) : received[i] = sent[i]

Flowing == lossy \in BOOLEAN /\ (~lossy => \E s, e, at : Unbroken(s, e, at))

LEMMA FlowStarts == Init => Flowing
<1> SUFFICES ASSUME Init PROVE Unbroken(<<>>, [i \in {0} |-> 0], 0) /\ lossy = FALSE
  BY DEF Flowing
<1>1. Stream(<<>>, [i \in {0} |-> 0], sent)
  <2>1. sent = <<>> /\ Len(sent) = 0 /\ 0..0 = {0} /\ 1..0 = {}
    BY DEF Init
  <2> QED BY <2>1 DEF Stream
<1>2. Reading(parser, [i \in {0} |-> 0], sent, 0, 0)
  BY DEF Init, Reading
<1>3. Carries(<<>>, 0, <<>>)
  BY DEF Carries
<1> QED BY <1>1, <1>2, <1>3 DEF Init, Unbroken

LEMMA SendFlows ==
  ASSUME CrcIsSixteenBit, NEW f \in Commands, PeerSends(f), NEW s, NEW e, NEW at, Unbroken(s, e, at)
  PROVE  \E s2, e2 : Unbroken(s2, e2, at)'
<1>1. PICK g \in Seq(Byte) : g = Bytes(f) /\ Len(g) = Size(f)
  BY BytesAre
<1>2. wire' = wire \o g /\ sent' = Append(sent, f)
      /\ rx' = rx /\ parser' = parser /\ received' = received
  BY <1>1 DEF PeerSends, Bytes
<1>3. PICK t, e2 : t = s \o g /\ e2 = Longer(e, sent, f)
  OBVIOUS
<1>4. Stream(s, e, sent)
  BY DEF Unbroken
<1>5. Stream(t, e2, sent')
  BY <1>1, <1>2, <1>3, <1>4, StreamGrows
<1>6. PICK a \in Nat, l \in Nat, m \in Nat, z \in Nat :
        a = at /\ l = Len(rx) /\ m = Len(wire) /\ z = Len(g) /\ Len(s) = a + l + m
  <2>1. at \in Nat /\ rx \in Seq(Byte) /\ wire \in Seq(Byte) /\ at + Len(rx) + Len(wire) = Len(s)
    BY DEF Unbroken
  <2> QED BY <1>1, <2>1
<1>7. s \in Seq(Byte)
  BY <1>4 DEF Stream
<1>8. /\ Len(t) = a + l + m + z
      /\ \A i \in 1..(a + l + m) : t[i] = s[i]
      /\ \A i \in 1..z : t[a + l + m + i] = g[i]
  <2>1. PICK k \in Nat : k = Len(s) /\ k = a + l + m
    BY <1>6
  <2>2. /\ Len(t) = k + z
        /\ \A i \in 1..k : t[i] = s[i]
        /\ \A i \in 1..z : t[k + i] = g[i]
    <3>1. s \in Seq(Byte) /\ k = Len(s) /\ z = Len(g) /\ t = s \o g
      BY <1>3, <1>6, <1>7, <2>1
    <3> QED BY <3>1, JoinedBytes
  <2> QED BY <2>1, <2>2
<1>9. /\ wire' \in Seq(Byte) /\ Len(wire') = m + z
      /\ \A i \in 1..m : wire'[i] = wire[i]
      /\ \A i \in 1..z : wire'[m + i] = g[i]
  <2>1. wire \in Seq(Byte)
    BY DEF Unbroken
  <2> QED BY <1>1, <1>2, <1>6, <2>1, JoinedBytes
<1>10. Carries(t, a, rx)
  <2>1. \A j \in 1..l : s[a + j] = rx[j]
    BY <1>6 DEF Unbroken, Carries
  <2>2. \A j \in 1..l : a + j \in 1..(a + l + m)
    OBVIOUS
  <2>3. \A j \in 1..l : t[a + j] = rx[j]
    BY <1>8, <2>1, <2>2
  <2> QED BY <1>6, <2>3 DEF Carries
<1>11. Carries(t, a + l, wire')
  <2>1. \A j \in 1..m : s[a + l + j] = wire[j]
    BY <1>6 DEF Unbroken, Carries
  <2>2. ASSUME NEW j \in 1..(m + z) PROVE t[a + l + j] = wire'[j]
    <3>1. CASE j \in 1..m
      <4>1. a + l + j \in 1..(a + l + m)
        BY <3>1
      <4> QED BY <1>8, <1>9, <2>1, <3>1, <4>1
    <3>2. CASE j \notin 1..m
      <4>1. PICK i \in 1..z : j = m + i
        <5>1. j - m \in 1..z /\ j = m + (j - m)
          BY <3>2
        <5> QED BY <5>1
      <4>2. a + l + j = a + l + m + i
        BY <4>1
      <4>3. t[a + l + m + i] = g[i] /\ wire'[m + i] = g[i]
        BY <1>8, <1>9
      <4> QED BY <4>1, <4>2, <4>3
    <3> QED BY <3>1, <3>2
  <2> QED BY <1>9, <2>2 DEF Carries
<1>12. received \in Seq(Commands) /\ Reading(parser, e, sent, Len(received), at)
       /\ sent \in Seq(Commands) /\ \A i \in 1..Len(received) : received[i] = sent[i]
  BY <1>4 DEF Unbroken, Stream
<1>13. Reading(parser, e2, sent', Len(received), at)
  BY <1>2, <1>3, <1>4, <1>12, ReadingGrows
<1>14. \A i \in 1..Len(received) : received[i] = sent'[i]
  <2>1. Len(received) <= Len(sent)
    BY <1>12 DEF Reading
  <2>2. \A i \in 1..Len(sent) : sent'[i] = sent[i]
    BY <1>2, <1>12
  <2> QED BY <1>12, <2>1, <2>2
<1>15. at + Len(rx) + Len(wire') = Len(t) /\ at \in Nat /\ rx \in Seq(Byte)
  BY <1>6, <1>8, <1>9 DEF Unbroken
<1>16. Unbroken(t, e2, at)'
  BY <1>2, <1>5, <1>6, <1>9, <1>10, <1>11, <1>12, <1>13, <1>14, <1>15 DEF Unbroken
<1> QED BY <1>16

\* A poll of n bytes that all fit into the ring.
LEMMA PollFlows ==
  ASSUME CrcIsSixteenBit, NEW n \in Reads, Poll(n), ~lossy', NEW s, NEW e, NEW at, Unbroken(s, e, at)
  PROVE  \E more : Unbroken(s, e, more)'
<1>1. PICK a \in Nat, l \in Nat, m \in Nat :
        a = at /\ l = Len(rx) /\ m = Len(wire) /\ Len(s) = a + l + m
  <2>1. at \in Nat /\ rx \in Seq(Byte) /\ wire \in Seq(Byte) /\ at + Len(rx) + Len(wire) = Len(s)
    BY DEF Unbroken
  <2>2. Len(rx) \in Nat /\ Len(wire) \in Nat
    BY <2>1
  <2> QED BY <2>1, <2>2
<1>2. n \in Nat /\ n <= m
  BY <1>1, StackAssumption DEF Poll
<1>3. (IF n <= RxCapacity - l THEN n ELSE RxCapacity - l) = n
  <2>1. ~((IF n <= RxCapacity - l THEN n ELSE RxCapacity - l) < n)
    BY <1>1 DEF Poll
  <2>2. RxCapacity \in Nat
    BY StackAssumption
  <2> QED BY <1>2, <2>1, <2>2
<1>4. PICK got : got = SubSeq(wire, 1, n)
  OBVIOUS
<1>5. PICK bytes : bytes = rx \o got
  OBVIOUS
<1>6. PICK run : run = Parse(parser, bytes)
  OBVIOUS
<1>7. /\ wire' = SubSeq(wire, n + 1, m)
      /\ rx' = run.rest /\ parser' = run.parser /\ sent' = sent
      /\ \/ run.done /\ received' = Append(received, run.frame)
         \/ ~run.done /\ received' = received
  BY <1>1, <1>3, <1>4, <1>5, <1>6 DEF Poll
<1>8. rx \in Seq(Byte) /\ wire \in Seq(Byte)
  BY DEF Unbroken
<1>9. /\ got \in Seq(Byte) /\ Len(got) = n
      /\ \A j \in 1..n : got[j] = wire[j]
  BY <1>1, <1>2, <1>4, <1>8
<1>10. /\ wire' \in Seq(Byte) /\ Len(wire') = m - n
       /\ \A j \in 1..(m - n) : wire'[j] = wire[n + j]
  BY <1>1, <1>2, <1>7, <1>8, SMTT(30)
<1>11. /\ bytes \in Seq(Byte) /\ Len(bytes) = l + n
       /\ \A j \in 1..l : bytes[j] = rx[j]
       /\ \A j \in 1..n : bytes[l + j] = got[j]
  <2>1. l = Len(rx) /\ n = Len(got) /\ n \in Nat
    BY <1>1, <1>2, <1>9
  <2>2. rx \in Seq(Byte) /\ got \in Seq(Byte) /\ l \in Nat
    BY <1>1, <1>8, <1>9
  <2>3. /\ rx \o got \in Seq(Byte) /\ Len(rx \o got) = l + n
        /\ \A j \in 1..l : (rx \o got)[j] = rx[j]
        /\ \A j \in 1..n : (rx \o got)[l + j] = got[j]
    BY <2>1, <2>2
  <2> QED BY <1>5, <2>3, Zenon
<1>12. /\ \A j \in 1..l : s[a + j] = rx[j]
       /\ \A j \in 1..m : s[a + l + j] = wire[j]
  BY <1>1 DEF Unbroken, Carries
<1>13. Carries(s, a, bytes)
  <2>1. ASSUME NEW j \in 1..(l + n) PROVE s[a + j] = bytes[j]
    <3>1. CASE j \in 1..l
      BY <1>11, <1>12, <3>1
    <3>2. CASE j \notin 1..l
      <4>1. PICK i \in 1..n : j = l + i
        <5>1. j - l \in 1..n /\ j = l + (j - l)
          BY <1>2, <3>2
        <5> QED BY <5>1
      <4>2. a + j = a + l + i /\ i \in 1..m
        BY <1>2, <4>1
      <4>3. s[a + l + i] = wire[i] /\ bytes[l + i] = got[i] /\ got[i] = wire[i]
        BY <1>9, <1>11, <1>12, <4>2
      <4> QED BY <4>1, <4>2, <4>3
    <3> QED BY <3>1, <3>2
  <2> QED BY <1>11, <2>1 DEF Carries
<1>14. PICK b \in Nat : b = a + l + n
  BY <1>2
<1>15. Carries(s, b, wire')
  <2>1. ASSUME NEW j \in 1..(m - n) PROVE s[b + j] = wire'[j]
    <3>1. PICK i \in 1..m : i = n + j
      <4>1. n + j \in 1..m
        BY <1>2
      <4> QED BY <4>1
    <3>2. b + j = a + l + i
      BY <1>2, <1>14, <3>1
    <3>3. s[a + l + i] = wire[i] /\ wire'[j] = wire[n + j]
      BY <1>10, <1>12
    <3> QED BY <3>1, <3>2, <3>3
  <2> QED BY <1>10, <2>1 DEF Carries
<1>16. b + Len(wire') = Len(s)
  BY <1>1, <1>2, <1>10, <1>14
<1>17. /\ Stream(s, e, sent) /\ received \in Seq(Commands)
       /\ \A i \in 1..Len(received) : received[i] = sent[i]
  BY DEF Unbroken
<1>18. PICK k \in Nat : k = Len(received)
  BY <1>17
<1>19. Stage(run, s, e, sent, k, b)
  <2>1. Reading(parser, e, sent, k, a)
    BY <1>1, <1>18 DEF Unbroken
  <2>2. a + Len(bytes) = b /\ b <= Len(s)
    BY <1>1, <1>2, <1>11, <1>14
  <2> QED BY <1>6, <1>11, <1>13, <1>17, <2>1, <2>2, ParseReads
<1>20. ASSUME NEW p, run = NewRun(p), Reading(p, e, sent, k, b)
       PROVE  Unbroken(s, e, b)'
  <2>1. rx' = <<>> /\ parser' = p /\ sent' = sent /\ received' = received
    BY <1>7, <1>20 DEF NewRun
  <2>2. Carries(s, b, <<>>) /\ <<>> \in Seq(Byte) /\ Len(<<>>) = 0
    BY DEF Carries
  <2>3. b + Len(rx') = b
    BY <2>1, <2>2
  <2> QED BY <1>10, <1>15, <1>16, <1>17, <1>18, <1>20, <2>1, <2>2, <2>3 DEF Unbroken
<1>21. ASSUME NEW p, NEW rest, Read(p, s, e, sent, k, b, rest),
              run = [parser |-> p, rest |-> rest, done |-> TRUE, frame |-> sent[k + 1]]
       PROVE  \E more : Unbroken(s, e, more)'
  <2>1. /\ rx' = rest /\ parser' = Fresh /\ sent' = sent
        /\ received' = Append(received, sent[k + 1])
    BY <1>7, <1>21 DEF Read
  <2>2. k \in 0..(Len(sent) - 1) /\ rest \in Seq(Byte) /\ Carries(s, e[k + 1], rest)
        /\ e[k + 1] + Len(rest) = b
    BY <1>21 DEF Read
  <2>3. sent[k + 1] \in Commands /\ e[k + 1] \in Nat
    BY <1>17, <2>2, StreamFrame
  <2>4. PICK c \in Nat : c = e[k + 1]
    BY <2>3
  <2>5. /\ received' \in Seq(Commands) /\ Len(received') = k + 1
        /\ received'[k + 1] = sent[k + 1]
        /\ \A i \in 1..k : received'[i] = received[i]
    BY <1>17, <1>18, <2>1, <2>3
  <2>6. \A i \in 1..(k + 1) : received'[i] = sent[i]
    <3> SUFFICES ASSUME NEW i \in 1..(k + 1) PROVE received'[i] = sent[i]
      OBVIOUS
    <3>1. CASE i = k + 1
      BY <2>5, <3>1
    <3>2. CASE i # k + 1
      <4>1. i \in 1..k
        BY <3>2
      <4> QED BY <1>17, <1>18, <2>5, <4>1
    <3> QED BY <3>1, <3>2
  <2>7. Reading(Fresh, e, sent, k + 1, c)
    <3>1. k + 1 \in 0..Len(sent)
      BY <1>17, <2>2 DEF Stream
    <3> QED BY <2>4, <3>1 DEF Reading
  <2>8. Unbroken(s, e, c)'
    BY <1>10, <1>15, <1>16, <1>17, <2>1, <2>2, <2>4, <2>5, <2>6, <2>7 DEF Unbroken
  <2> QED BY <2>8
<1> QED BY <1>19, <1>20, <1>21 DEF Stage

LEMMA FlowKeeps ==
  ASSUME CrcIsSixteenBit
  PROVE  Flowing /\ [Next]_vars => Flowing'
<1> SUFFICES ASSUME Flowing, [Next]_vars PROVE Flowing'
  OBVIOUS
<1>1. ASSUME UNCHANGED receiving PROVE Flowing'
  BY <1>1 DEF receiving, Flowing, Unbroken
<1>2. ASSUME NEW f \in Commands, PeerSends(f) PROVE Flowing'
  <2>1. lossy' = lossy
    BY <1>2 DEF PeerSends
  <2>2. ASSUME ~lossy PROVE \E s, e, at : Unbroken(s, e, at)'
    <3>1. PICK s, e, at : Unbroken(s, e, at)
      BY <2>2 DEF Flowing
    <3>2. PICK s2, e2 : Unbroken(s2, e2, at)'
      BY <1>2, <3>1, SendFlows
    <3> QED BY <3>2
  <2> QED BY <2>1, <2>2 DEF Flowing
<1>3. ASSUME NEW n \in Losses, LineLoses(n) PROVE Flowing'
  BY <1>3 DEF LineLoses, Flowing
<1>4. ASSUME NEW n \in Reads, Poll(n) PROVE Flowing'
  <2>1. lossy' \in BOOLEAN /\ (~lossy' => ~lossy)
    BY <1>4 DEF Poll, Flowing
  <2>2. ASSUME ~lossy' PROVE \E s, e, at : Unbroken(s, e, at)'
    <3>1. PICK s, e, at : Unbroken(s, e, at)
      BY <2>1, <2>2 DEF Flowing
    <3>2. PICK more : Unbroken(s, e, more)'
      BY <1>4, <2>2, <3>1, PollFlows
    <3> QED BY <3>2
  <2> QED BY <2>1, <2>2 DEF Flowing
<1>5. CASE PollNothing
  BY <1>1, <1>5 DEF PollNothing
<1>6. CASE Send
  BY <1>1, <1>6 DEF Send
<1>7. CASE Process
  BY <1>1, <1>7 DEF Process
<1>8. CASE Tick
  BY <1>1, <1>8 DEF Tick
<1>9. CASE Restart
  BY <1>9 DEF Restart, Flowing
<1>10. CASE UNCHANGED vars
  BY <1>1, <1>10 DEF vars, receiving
<1> QED BY <1>2, <1>3, <1>4, <1>5, <1>6, <1>7, <1>8, <1>9, <1>10 DEF Next

\* Whatever the peer sends and however it is split and joined on the way, once everything
\* was read and parsed every frame has been delivered, unless bytes were dropped.
THEOREM NothingIsLost ==
  ASSUME CrcIsSixteenBit
  PROVE  Spec => []NothingLost
<1>1. Flowing => NothingLost
  <2> SUFFICES ASSUME Flowing, ~lossy, wire = <<>>, rx = <<>> PROVE received = sent
    BY DEF NothingLost
  <2>1. PICK s, e, at : Unbroken(s, e, at)
    BY DEF Flowing
  <2>2. /\ Stream(s, e, sent) /\ at = Len(s) /\ received \in Seq(Commands)
        /\ \A i \in 1..Len(received) : received[i] = sent[i]
    <3>1. at \in Nat /\ at + 0 + 0 = Len(s)
      BY <2>1 DEF Unbroken
    <3> QED BY <2>1, <3>1 DEF Unbroken
  <2>3. PICK k \in Nat, n \in Nat : k = Len(received) /\ n = Len(sent)
    BY <2>2 DEF Stream
  <2>4. Reading(parser, e, sent, k, at) /\ k \in 0..n
    BY <2>1, <2>3 DEF Unbroken, Reading
  <2>5. k = n
    <3> SUFFICES ASSUME k < n PROVE FALSE
      BY <2>4
    <3>1. k \in 0..(Len(sent) - 1)
      BY <2>3, <2>4
    <3>2. /\ e[k] \in Nat /\ Size(sent[k + 1]) \in Nat /\ Size(sent[k + 1]) >= 10
          /\ e[k] + Size(sent[k + 1]) <= at
      BY <2>2, <3>1, StreamFrame, SMTT(30)
    <3>3. at \in Nat
      BY <2>1 DEF Unbroken
    <3>4. at = e[k] \/ at - e[k] < Size(sent[k + 1])
      BY <2>4 DEF Reading
    <3> QED BY <3>2, <3>3, <3>4
  <2>6. sent \in Seq(Commands)
    BY <2>2 DEF Stream
  <2>7. received = [i \in 1..k |-> received[i]] /\ sent = [i \in 1..k |-> sent[i]]
    <3>1. \A u \in Seq(Commands) : u = [i \in 1..Len(u) |-> u[i]]
      OBVIOUS
    <3>2. Len(received) = k /\ Len(sent) = k
      BY <2>3, <2>5
    <3>3. received = [i \in 1..Len(received) |-> received[i]]
      BY <2>2, <3>1
    <3>4. sent = [i \in 1..Len(sent) |-> sent[i]]
      BY <2>6, <3>1
    <3> QED BY <3>2, <3>3, <3>4
  <2>8. \A i \in 1..k : received[i] = sent[i]
    BY <2>2, <2>3
  <2> QED BY <2>7, <2>8
<1>2. Flowing /\ [Next]_vars => Flowing'
  BY FlowKeeps
<1> QED BY FlowStarts, <1>1, <1>2, PTL DEF Spec
=============================================================================
