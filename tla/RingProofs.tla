----------------------------- MODULE RingProofs -----------------------------
(***************************************************************************)
(* The two arrays that are used as rings.  The byte ring of the protocol   *)
(* stack: for arrays of every size, every byte set and every sequence of   *)
(* calls its fields stay consistent, what is read was written (behind too  *)
(* small an array perhaps by others), and it implements the bounded queue  *)
(* ByteFifo, which says where others can spoil it.  The containers' queue: *)
(* for every initial capacity and every sequence of calls it loses what    *)
(* had wrapped when it grew, and nothing else.                             *)
(***************************************************************************)
EXTENDS RingBuffer, Containers, SequenceTheorems, FiniteSetTheorems, TLAPS

\* A sequence that agrees with two others one after the other is their concatenation.
LEMMA ConcatIs ==
  ASSUME NEW S, NEW a \in Seq(S), NEW b \in Seq(S), NEW f \in Seq(S),
         Len(f) = Len(a) + Len(b),
         \A i \in 1..Len(f) : f[i] = IF i <= Len(a) THEN a[i] ELSE b[i - Len(a)]
  PROVE  a \o b = f
<1>1. /\ a \o b \in Seq(S) /\ Len(a \o b) = Len(f)
      /\ \A i \in 1..Len(f) : (a \o b)[i] = f[i]
  BY ConcatProperties
<1>2. QED
  BY <1>1, SeqEqual

\* Sixteen-bit reduction does nothing to a number that fits.
LEMMA U16Fits == \A n \in Nat : n <= 65535 => U16(n) = n
  BY DEF U16

\* round_up_pow2 returns 0 (its overflow) or at most 2^15.
LEMMA RoundUpRange ==
  \A n \in Nat \ {0} : RoundUpPow2(n) \in Nat /\ RoundUpPow2(n) <= 32768
<1>1. SUFFICES ASSUME NEW n \in Nat \ {0}
               PROVE  RoundUpPow2(n) \in Nat /\ RoundUpPow2(n) <= 32768
  OBVIOUS
<1>2. CASE n > 32768
  BY <1>2 DEF RoundUpPow2
<1>3. CASE ~(n > 32768)
  <2>1. \E p \in Pow2 : n <= p /\ p < 2 * n
    BY <1>3, SMTT(30) DEF Pow2
  <2>2. RoundUpPow2(n) \in Pow2
    BY <1>3, <2>1 DEF RoundUpPow2
  <2>3. \A p \in Pow2 : p \in Nat /\ p <= 32768
    BY DEF Pow2
  <2>4. QED
    BY <2>2, <2>3
<1>4. QED
  BY <1>2, <1>3

\* A power of two is not rounded: the caller's array has the recorded capacity.
LEMMA Pow2Stays == \A n \in Pow2 : RoundUpPow2(n) = n
<1>1. SUFFICES ASSUME NEW n \in Pow2 PROVE RoundUpPow2(n) = n
  OBVIOUS
<1>2. n \in Nat /\ n <= 32768 /\ \A p \in Pow2 : n <= p /\ p < 2 * n => p = n
  BY SMTT(30) DEF Pow2
<1>3. n <= n /\ n < 2 * n
  BY SMTT(30) DEF Pow2
<1> QED BY <1>2, <1>3 DEF RoundUpPow2

-----------------------------------------------------------------------------
\* The strengthening that every call preserves: the fields' types, the agreement of
\* the two positions with the count, and contents that were written.
IInv == TypeOK /\ PositionsAgree /\ NoStaleByte

\* A position moves len places around the ring.
LEMMA AdvancedIs ==
  ASSUME TypeOK, NEW pos \in 0..(capacity - 1), NEW len \in 1..capacity
  PROVE  Advanced(pos, len) = IF pos + len < capacity THEN pos + len ELSE pos + len - capacity
<1>1. /\ U16(capacity - pos) = capacity - pos
      /\ U16(pos + len) = pos + len
  BY U16Fits DEF TypeOK
<1>2. CASE capacity - pos >= len
  BY <1>1, <1>2 DEF Advanced, WrapPos, TypeOK
<1>3. CASE ~(capacity - pos >= len)
  <2>1. U16(len - (capacity - pos)) = len - (capacity - pos)
    BY U16Fits, <1>3 DEF TypeOK
  <2>2. QED
    BY <1>1, <1>3, <2>1 DEF Advanced, TypeOK
<1>4. QED
  BY <1>2, <1>3

\* What memcpy leaves in each cell, when the source holds every byte copied.
LEMMA BlitIs ==
  \A mem, src : \A at \in Int, from \in Int, n \in Int :
    /\ Blit(mem, at, src, from, n) = [s \in DOMAIN mem |-> Blit(mem, at, src, from, n)[s]]
    /\ \A s \in DOMAIN mem :
         Blit(mem, at, src, from, n)[s] =
           IF at <= s /\ s < at + n THEN src[s - at + from + 1] ELSE mem[s]
  BY DEF Blit

\* A write of len bytes that fit stores them from the write position on, around the
\* end of the array, and touches no other cell.
LEMMA WrittenIs ==
  ASSUME TypeOK, capacity > 0, NEW data \in Seq(Byte), NEW len \in 1..capacity, len <= Len(data)
  PROVE  /\ Written(data, len) \in [0..(capacity - 1) -> Byte \cup {Stale}]
         /\ \A s \in 0..(capacity - 1) :
              Written(data, len)[s] =
                IF write_pos <= s /\ s < write_pos + len THEN data[s - write_pos + 1]
                ELSE IF s + capacity < write_pos + len THEN data[s + capacity - write_pos + 1]
                ELSE buffer[s]
<1> DEFINE room == capacity - write_pos
           first == Blit(buffer, write_pos, data, 0, room)
<1>1. /\ DOMAIN buffer = 0..(capacity - 1)
      /\ capacity \in Nat /\ len \in Nat /\ write_pos \in Nat
      /\ write_pos < capacity
      /\ room \in 1..capacity
      /\ U16(capacity - write_pos) = room
  BY U16Fits DEF TypeOK
<1>2. /\ DOMAIN Written(data, len) = 0..(capacity - 1)
      /\ \A s \in 0..(capacity - 1) :
           Written(data, len)[s] =
             IF write_pos <= s /\ s < write_pos + len THEN data[s - write_pos + 1]
             ELSE IF s + capacity < write_pos + len THEN data[s + capacity - write_pos + 1]
             ELSE buffer[s]
  <2>1. CASE room >= len
    <3>1. Written(data, len) = Blit(buffer, write_pos, data, 0, len)
      BY <1>1, <2>1 DEF Written
    <3>2. QED
      BY <1>1, <2>1, <3>1 DEF Blit
  <2>2. CASE ~(room >= len)
    <3>1. Written(data, len) = Blit(first, 0, data, room, len - room)
      BY <1>1, <2>2 DEF Written
    <3>2. /\ DOMAIN first = 0..(capacity - 1)
          /\ \A s \in 0..(capacity - 1) :
               first[s] = IF write_pos <= s THEN data[s - write_pos + 1] ELSE buffer[s]
      BY <1>1 DEF Blit
    <3>3. /\ DOMAIN Written(data, len) = 0..(capacity - 1)
          /\ \A s \in 0..(capacity - 1) :
               Written(data, len)[s] =
                 IF s < len - room THEN data[s + room + 1] ELSE first[s]
      BY <1>1, <3>1, <3>2 DEF Blit
    <3>4. QED
      BY <1>1, <2>2, <3>2, <3>3
  <2>3. QED
    BY <2>1, <2>2
<1>3. \A i \in 1..len : data[i] \in Byte
  OBVIOUS
<1>4. \A s \in 0..(capacity - 1) : Written(data, len)[s] \in Byte \cup {Stale}
  <2>1. SUFFICES ASSUME NEW s \in 0..(capacity - 1)
                 PROVE  Written(data, len)[s] \in Byte \cup {Stale}
    OBVIOUS
  <2>2. CASE write_pos <= s /\ s < write_pos + len
    BY <1>1, <1>2, <1>3, <2>2
  <2>3. CASE ~(write_pos <= s /\ s < write_pos + len) /\ s + capacity < write_pos + len
    BY <1>1, <1>2, <1>3, <2>3
  <2>4. CASE ~(write_pos <= s /\ s < write_pos + len) /\ ~(s + capacity < write_pos + len)
    BY <1>1, <1>2, <2>4 DEF TypeOK
  <2>5. QED
    BY <2>2, <2>3, <2>4
<1>5. Written(data, len) = [s \in 0..(capacity - 1) |-> Written(data, len)[s]]
  <2>1. CASE room >= len
    BY <1>1, <2>1 DEF Written, Blit
  <2>2. CASE ~(room >= len)
    BY <1>1, <2>2 DEF Written, Blit
  <2>3. QED
    BY <2>1, <2>2
<1>6. QED
  BY <1>2, <1>4, <1>5

\* The cells that hold the bytes are cells of the array, each another one.
LEMMA SlotInRing ==
  ASSUME TypeOK, NEW k \in 0..(capacity - 1)
  PROVE  Slot(k) \in 0..(capacity - 1)
  BY DEF TypeOK, Slot

-----------------------------------------------------------------------------
\* A fresh or given-up array: nothing is held, whatever its size.
LEMMA EmptiedInv ==
  ASSUME NEW size \in Nat, size <= 32768, capacity' = size,
         given' \in UInt16, given' \in Pow2 => size = given',
         buffer' \in [0..(size - 1) -> Byte \cup {Stale}],
         Emptied
  PROVE  IInv'
<1>1. count' = 0 /\ read_pos' = 0 /\ write_pos' = 0
  BY DEF Emptied
<1>2. TypeOK'
  BY <1>1 DEF TypeOK
<1>3. PositionsAgree'
  BY <1>1 DEF PositionsAgree
<1>4. NoStaleByte'
  BY <1>1 DEF NoStaleByte
<1>5. QED
  BY <1>2, <1>3, <1>4 DEF IInv

LEMMA InitInv == RingInit => IInv
<1>1. SUFFICES ASSUME RingInit PROVE IInv
  OBVIOUS
<1>2. /\ given \in Capacities /\ capacity = RoundUpPow2(given)
      /\ buffer = [s \in 0..(capacity - 1) |-> Stale]
  BY <1>1 DEF RingInit
<1>3. /\ capacity \in Nat /\ capacity <= 32768
      /\ given \in UInt16 /\ (given \in Pow2 => capacity = given)
  <2>1. given \in Nat \ {0} /\ given \in UInt16
    BY <1>2, ArgumentsAssumption DEF UInt16
  <2> QED BY <1>2, <2>1, RoundUpRange, Pow2Stays
<1>4. count = 0 /\ read_pos = 0 /\ write_pos = 0
  BY <1>1 DEF RingInit
<1>5. QED
  BY <1>2, <1>3, <1>4 DEF IInv, TypeOK, PositionsAgree, NoStaleByte

\* The part of a write that fits: the clamped length and the fields it updates.
LEMMA WriteFits ==
  ASSUME IInv, NEW data \in Chunks, NEW len, len = Clamp(Len(data), Free), len # 0
  PROVE  /\ capacity > 0
         /\ data \in Seq(Byte)
         /\ len \in 1..capacity /\ len <= Len(data)
         /\ count + len <= capacity
         /\ U16(count + len) = count + len
<1>1. data \in Seq(Byte) /\ Len(data) \in Nat
  BY ArgumentsAssumption
<1>2. Free = capacity - count
  BY U16Fits DEF Free, IInv, TypeOK
<1>3. QED
  BY <1>1, <1>2, U16Fits DEF Clamp, IInv, TypeOK

\* After a write the oldest bytes are untouched and the new ones follow them.
LEMMA WriteHeld ==
  ASSUME IInv, NEW data \in Chunks, NEW len, len = Clamp(Len(data), Free), len # 0,
         buffer' = Written(data, len), UNCHANGED <<capacity, read_pos>>
  PROVE  \A i \in 1..(count + len) :
           buffer'[Slot(i - 1)'] = IF i <= count THEN buffer[Slot(i - 1)] ELSE data[i - count]
<1>1. SUFFICES ASSUME NEW i \in 1..(count + len)
               PROVE  buffer'[Slot(i - 1)'] =
                        IF i <= count THEN buffer[Slot(i - 1)] ELSE data[i - count]
  OBVIOUS
<1>2. /\ capacity > 0 /\ capacity \in Nat /\ count \in Nat /\ len \in Nat
      /\ read_pos \in Nat /\ read_pos < capacity
      /\ write_pos \in Nat /\ write_pos < capacity
      /\ data \in Seq(Byte) /\ len \in 1..capacity /\ len <= Len(data)
      /\ count + len <= capacity
      /\ TypeOK
  BY WriteFits DEF IInv, TypeOK
<1>3. /\ Slot(i - 1)' = Slot(i - 1)
      /\ Slot(i - 1) \in 0..(capacity - 1)
  BY <1>2 DEF Slot
<1>4. buffer'[Slot(i - 1)] =
        IF write_pos <= Slot(i - 1) /\ Slot(i - 1) < write_pos + len
          THEN data[Slot(i - 1) - write_pos + 1]
        ELSE IF Slot(i - 1) + capacity < write_pos + len
          THEN data[Slot(i - 1) + capacity - write_pos + 1]
        ELSE buffer[Slot(i - 1)]
  BY <1>2, <1>3, WrittenIs
<1>5. write_pos = read_pos + count \/ write_pos = read_pos + count - capacity
  BY DEF IInv, PositionsAgree
<1>6. CASE i <= count
  <2>1. /\ ~(write_pos <= Slot(i - 1) /\ Slot(i - 1) < write_pos + len)
        /\ ~(Slot(i - 1) + capacity < write_pos + len)
    BY <1>2, <1>5, <1>6 DEF Slot
  <2>2. QED
    BY <1>3, <1>4, <1>6, <2>1
<1>7. CASE ~(i <= count)
  <2>1. \/ /\ write_pos <= Slot(i - 1) /\ Slot(i - 1) < write_pos + len
           /\ Slot(i - 1) - write_pos + 1 = i - count
        \/ /\ ~(write_pos <= Slot(i - 1) /\ Slot(i - 1) < write_pos + len)
           /\ Slot(i - 1) + capacity < write_pos + len
           /\ Slot(i - 1) + capacity - write_pos + 1 = i - count
    BY <1>2, <1>5, <1>7 DEF Slot
  <2>2. QED
    BY <1>3, <1>4, <1>7, <2>1
<1>8. QED
  BY <1>6, <1>7

LEMMA WriteInv ==
  ASSUME IInv, NEW data \in Chunks, Write(data)
  PROVE  IInv'
<1> DEFINE len == Clamp(Len(data), Free)
<1>1. CASE len = 0
  BY <1>1 DEF Write, IInv, TypeOK, PositionsAgree, NoStaleByte, Slot
<1>2. CASE len # 0
  <2>1. /\ buffer' = Written(data, len)
        /\ write_pos' = Advanced(write_pos, len)
        /\ count' = U16(count + len)
        /\ UNCHANGED <<given, capacity, read_pos>>
    BY <1>2 DEF Write
  <2>2. /\ capacity > 0 /\ capacity \in Nat /\ count \in Nat
        /\ read_pos \in Nat /\ read_pos < capacity
        /\ write_pos \in Nat /\ write_pos < capacity
        /\ data \in Seq(Byte) /\ len \in 1..capacity /\ len <= Len(data)
        /\ count' = count + len /\ count + len <= capacity
        /\ TypeOK
    BY <1>2, <2>1, WriteFits DEF IInv, TypeOK
  <2>3. write_pos' = IF write_pos + len < capacity THEN write_pos + len
                     ELSE write_pos + len - capacity
    BY <2>1, <2>2, AdvancedIs
  <2>4. TypeOK'
    <3>1. buffer' \in [0..(capacity - 1) -> Byte \cup {Stale}]
      BY <2>1, <2>2, WrittenIs
    <3>2. QED
      BY <2>1, <2>2, <2>3, <3>1 DEF IInv, TypeOK
  <2>5. PositionsAgree'
    <3>1. read_pos' = read_pos /\ capacity' = capacity /\ len \in Int
      BY <2>1, <2>2
    <3>2. write_pos = read_pos + count \/ write_pos = read_pos + count - capacity
      BY DEF IInv, PositionsAgree
    <3> HIDE DEF len
    <3>3. \/ write_pos' = read_pos + (count + len)
          \/ write_pos' = read_pos + (count + len) - capacity
      BY <2>2, <2>3, <3>1, <3>2
    <3>4. QED
      BY <2>2, <3>1, <3>3 DEF PositionsAgree
  <2>6. NoStaleByte'
    <3>1. \A i \in 1..(count + len) :
            buffer'[Slot(i - 1)'] = IF i <= count THEN buffer[Slot(i - 1)] ELSE data[i - count]
      BY <1>2, <2>1, WriteHeld
    <3>2. \A i \in 1..(count + len) : ~(i <= count) => data[i - count] \in Byte
      BY <2>2
    <3>3. \A i \in 1..(count + len) :
            i <= count => buffer[Slot(i - 1)] \in Byte \/ Slot(i - 1) >= given
      BY <2>2 DEF IInv, NoStaleByte
    <3>4. \A i \in 1..(count + len) : Slot(i - 1)' = Slot(i - 1)
      BY <2>1 DEF Slot
    <3>5. QED
      BY <2>1, <2>2, <3>1, <3>2, <3>3, <3>4 DEF NoStaleByte
  <2>7. QED
    BY <2>4, <2>5, <2>6 DEF IInv
<1>3. QED
  BY <1>1, <1>2

\* What a read of len bytes returns: the oldest bytes, in order.
LEMMA OldestIs ==
  ASSUME IInv, NEW len \in 0..count
  PROVE  Oldest(len) = [i \in 1..len |-> buffer[Slot(i - 1)]]
<1>1. /\ capacity \in Nat /\ count \in Nat /\ len \in Nat /\ count <= capacity /\ len <= count
      /\ read_pos \in Nat /\ (read_pos < capacity \/ read_pos = 0)
      /\ U16(capacity - read_pos) = capacity - read_pos
  BY U16Fits DEF IInv, TypeOK
<1> DEFINE room == capacity - read_pos
<1>2. CASE room >= len
  <2>1. Oldest(len) = [i \in 1..len |-> buffer[read_pos + i - 1]]
    BY <1>1, <1>2 DEF Oldest, CopyOut
  <2>2. \A i \in 1..len : Slot(i - 1) = read_pos + i - 1
    BY <1>1, <1>2 DEF Slot
  <2>3. QED
    BY <2>1, <2>2
<1>3. CASE ~(room >= len)
  <2> DEFINE a == [i \in 1..room |-> buffer[read_pos + i - 1]]
             b == [i \in 1..(len - room) |-> buffer[0 + i - 1]]
  <2>1. Oldest(len) = a \o b
    BY <1>1, <1>3 DEF Oldest, CopyOut
  <2>2. /\ room \in Nat /\ len - room \in Nat
        /\ DOMAIN a = 1..room /\ DOMAIN b = 1..(len - room)
    BY <1>1, <1>3
  <2>3. /\ Len(a) = room /\ Len(b) = len - room
    BY <2>2
  <2>4. \A i \in 1..len :
          buffer[Slot(i - 1)] = IF i <= room THEN a[i] ELSE b[i - room]
    BY <1>1, <1>3, <2>2 DEF Slot
  <2>5. DOMAIN buffer = 0..(capacity - 1)
        /\ \A c \in 0..(capacity - 1) : buffer[c] \in Byte \cup {Stale}
    BY DEF IInv, TypeOK
  <2>6. a \in Seq(Byte \cup {Stale}) /\ b \in Seq(Byte \cup {Stale})
    <3>1. \A i \in 1..room : read_pos + i - 1 \in 0..(capacity - 1)
      BY <1>1, <1>3
    <3>2. \A i \in 1..(len - room) : 0 + i - 1 \in 0..(capacity - 1)
      BY <1>1, <1>3
    <3>3. a \in [1..room -> Byte \cup {Stale}]
      BY <2>5, <3>1
    <3>4. b \in [1..(len - room) -> Byte \cup {Stale}]
      BY <2>5, <3>2
    <3> HIDE DEF a, b, room
    <3>5. QED
      BY <2>2, <3>3, <3>4
  <2> DEFINE f == [i \in 1..len |-> buffer[Slot(i - 1)]]
  <2>7. f \in Seq(Byte \cup {Stale}) /\ Len(f) = len
    <3>1. \A i \in 1..len : Slot(i - 1) \in 0..(capacity - 1)
      BY <1>1, SlotInRing DEF IInv
    <3>2. f \in [1..len -> Byte \cup {Stale}]
      BY <2>5, <3>1
    <3> HIDE DEF f
    <3>3. QED
      BY <1>1, <3>2
  <2>8. \A i \in 1..len : f[i] = IF i <= room THEN a[i] ELSE b[i - room]
    BY <2>4
  <2>9. a \o b = f
    <3>1. room \in Int /\ len \in Int
      BY <1>1
    <3> HIDE DEF a, b, f, room
    <3>2. room + (len - room) = len
      BY <3>1
    <3>3. Len(f) = Len(a) + Len(b)
      BY <2>3, <2>7, <3>2
    <3>4. QED
      BY <2>3, <2>6, <2>7, <2>8, <3>3, ConcatIs
  <2>10. QED
    BY <2>1, <2>9
<1>4. QED
  BY <1>2, <1>3

\* What a pop of len bytes leaves: the same bytes without the oldest len.
LEMMA PopKeeps ==
  ASSUME IInv, NEW len \in 1..count, UNCHANGED <<buffer, capacity>>,
         read_pos' = Advanced(read_pos, len)
  PROVE  /\ read_pos' = IF read_pos + len < capacity THEN read_pos + len
                        ELSE read_pos + len - capacity
         /\ \A i \in 1..(count - len) : Slot(i - 1)' = Slot((i + len) - 1)
<1>1. /\ capacity \in Nat /\ count \in Nat /\ len \in 1..capacity /\ count <= capacity
      /\ read_pos \in 0..(capacity - 1)
      /\ TypeOK
  BY DEF IInv, TypeOK
<1>2. read_pos' = IF read_pos + len < capacity THEN read_pos + len
                  ELSE read_pos + len - capacity
  BY <1>1, AdvancedIs
<1>3. QED
  BY <1>1, <1>2 DEF Slot

LEMMA ReadPopInv ==
  ASSUME IInv, NEW want \in Lengths, ReadPop(want)
  PROVE  IInv'
<1> DEFINE len == Clamp(want, count)
<1>1. CASE len = 0
  BY <1>1 DEF ReadPop, IInv, TypeOK, PositionsAgree, NoStaleByte, Slot
<1>2. CASE len # 0
  <2>1. /\ read_pos' = Advanced(read_pos, len)
        /\ count' = U16(count - len)
        /\ UNCHANGED <<given, buffer, capacity, write_pos>>
    BY <1>2 DEF ReadPop
  <2>2. /\ capacity \in Nat /\ capacity <= 32768 /\ count \in Nat /\ count <= capacity
        /\ read_pos \in Nat /\ read_pos < capacity
        /\ write_pos \in Nat /\ write_pos < capacity
        /\ len \in 1..count
    BY <1>2, ArgumentsAssumption DEF IInv, TypeOK, Clamp, UInt16
  <2>3. count' = count - len
    BY <2>1, <2>2, U16Fits
  <2>4. read_pos' = IF read_pos + len < capacity THEN read_pos + len
                    ELSE read_pos + len - capacity
    BY <2>1, <2>2, PopKeeps
  <2>5. TypeOK'
    BY <2>1, <2>2, <2>3, <2>4 DEF IInv, TypeOK
  <2>6. PositionsAgree'
    <3>1. write_pos = read_pos + count \/ write_pos = read_pos + count - capacity
      BY DEF IInv, PositionsAgree
    <3>2. \/ write_pos = read_pos' + (count - len)
          \/ write_pos = read_pos' + (count - len) - capacity
      BY <2>2, <2>4, <3>1
    <3>3. QED
      BY <2>1, <2>3, <3>2 DEF PositionsAgree
  <2>7. NoStaleByte'
    <3>1. \A i \in 1..(count - len) : Slot(i - 1)' = Slot((i + len) - 1)
      BY <2>1, <2>2, PopKeeps
    <3>2. \A i \in 1..(count - len) :
            buffer[Slot((i + len) - 1)] \in Byte \/ Slot((i + len) - 1) >= given
      <4>1. \A i \in 1..(count - len) : i + len \in 1..count
        BY <2>2
      <4> QED BY <4>1 DEF IInv, NoStaleByte
    <3>3. QED
      BY <2>1, <2>2, <2>3, <3>1, <3>2 DEF NoStaleByte
  <2>8. QED
    BY <2>5, <2>6, <2>7 DEF IInv
<1>3. QED
  BY <1>1, <1>2

LEMMA OthersInv ==
  ASSUME IInv, NEW s \in given..(capacity - 1), OthersWrite(s)
  PROVE  IInv'
<1>1. /\ buffer' = [buffer EXCEPT ![s] = Stale]
      /\ UNCHANGED <<given, capacity, count, read_pos, write_pos>>
  BY DEF OthersWrite
<1>2. given \in Nat /\ capacity \in Nat /\ s \in Int /\ s >= given
  BY DEF IInv, TypeOK, UInt16
<1>3. TypeOK'
  <2> DEFINE S == Byte \cup {Stale}
             D == 0..(capacity - 1)
  <2>1. buffer \in [D -> S] /\ Stale \in S
    BY DEF IInv, TypeOK
  <2> HIDE DEF S, D
  <2>2. buffer' \in [D -> S]
    BY <1>1, <2>1
  <2> QED BY <1>1, <2>2 DEF IInv, TypeOK, S, D
<1>4. NoStaleByte'
  <2> SUFFICES ASSUME NEW i \in 1..count
               PROVE  buffer'[Slot(i - 1)'] \in Byte \/ Slot(i - 1)' >= given
    BY <1>1 DEF NoStaleByte
  <2>1. Slot(i - 1)' = Slot(i - 1)
    BY <1>1 DEF Slot
  <2>2. buffer[Slot(i - 1)] \in Byte \/ Slot(i - 1) >= given
    BY DEF IInv, NoStaleByte
  <2>3. CASE Slot(i - 1) = s
    BY <1>2, <2>1, <2>3
  <2>4. CASE Slot(i - 1) # s
    <3>1. buffer'[Slot(i - 1)] = buffer[Slot(i - 1)]
      BY <1>1, <2>4 DEF IInv, TypeOK
    <3> QED BY <2>1, <2>2, <3>1
  <2> QED BY <2>3, <2>4
<1> QED BY <1>1, <1>3, <1>4 DEF IInv, PositionsAgree

LEMMA NextInv == IInv /\ [RingNext]_ring_vars => IInv'
<1>1. SUFFICES ASSUME IInv, [RingNext]_ring_vars PROVE IInv'
  OBVIOUS
<1>2. ASSUME NEW data \in Chunks, Write(data) PROVE IInv'
  BY <1>1, <1>2, WriteInv
<1>3. ASSUME NEW len \in Lengths, Read(len) PROVE IInv'
  BY <1>1, <1>3 DEF Read, IInv, TypeOK, PositionsAgree, NoStaleByte, Slot
<1>4. ASSUME NEW len \in Lengths, ReadPop(len) PROVE IInv'
  BY <1>1, <1>4, ReadPopInv
<1>5. CASE Clear
  BY <1>1, <1>5, EmptiedInv DEF Clear, IInv, TypeOK
<1>6. ASSUME NEW c \in Capacities, ReInit(c) PROVE IInv'
  <2>1. c \in Nat \ {0} /\ c \in UInt16
    BY ArgumentsAssumption DEF UInt16
  <2>2. /\ capacity' \in Nat /\ capacity' <= 32768
        /\ given' \in UInt16 /\ (given' \in Pow2 => capacity' = given')
    BY <1>6, <2>1, RoundUpRange, Pow2Stays DEF ReInit
  <2>3. QED
    BY <1>6, <2>2, EmptiedInv DEF ReInit
<1>7. CASE Deinit
  <2>1. 0 \in UInt16 /\ 0 \notin Pow2
    BY DEF UInt16, Pow2
  <2>2. given' = 0 /\ capacity' = 0 /\ Emptied /\ buffer' \in [0..(0 - 1) -> Byte \cup {Stale}]
    BY <1>7 DEF Deinit
  <2> QED BY <2>1, <2>2, EmptiedInv
<1>10. ASSUME NEW s \in given..(capacity - 1), OthersWrite(s) PROVE IInv'
  BY <1>1, <1>10, OthersInv
<1>8. CASE UNCHANGED ring_vars
  BY <1>1, <1>8 DEF ring_vars, IInv, TypeOK, PositionsAgree, NoStaleByte, Slot
<1>9. QED
  BY <1>1, <1>2, <1>3, <1>4, <1>5, <1>6, <1>7, <1>8, <1>10 DEF RingNext

-----------------------------------------------------------------------------
\* ringbuffer.c never leaves a position at or above the capacity it recorded, nor a field
\* outside its type; and that capacity is the array's size where that is a power of two.
THEOREM TypeCorrect == RingSpec => []TypeOK
<1>1. IInv => TypeOK
  BY DEF IInv
<1>2. QED
  BY InitInv, NextInv, <1>1, PTL DEF RingSpec

\* Whatever the sequence of calls, count is the distance between the two positions.
THEOREM PositionsAlwaysAgree == RingSpec => []PositionsAgree
<1>1. IInv => PositionsAgree
  BY DEF IInv
<1>2. QED
  BY InitInv, NextInv, <1>1, PTL DEF RingSpec

\* Every byte a read can return was put in since the last init or clear, or lies behind an
\* array whose size is not a power of two.
THEOREM NeverStale == RingSpec => []NoStaleByte
<1>1. IInv => NoStaleByte
  BY DEF IInv
<1>2. QED
  BY InitInv, NextInv, <1>1, PTL DEF RingSpec

-----------------------------------------------------------------------------
\* The refinement: the bytes held are the abstract queue, the capacity its bound.

LEMMA HeldIs ==
  ASSUME IInv
  PROVE  /\ Held \in Seq(Byte \cup {Stale}) /\ Len(Held) = count
         /\ \A i \in 1..count : Held[i] = buffer[Slot(i - 1)]
<1>1. count \in Nat
  BY DEF IInv, TypeOK
<1>2. \A i \in 1..count : buffer[Slot(i - 1)] \in Byte \cup {Stale}
  <2>1. \A i \in 1..count : i - 1 \in 0..(capacity - 1)
    BY DEF IInv, TypeOK
  <2> QED BY <2>1, SlotInRing DEF IInv, TypeOK
<1>3. QED
  BY <1>1, <1>2 DEF Held

LEMMA InitFifo == RingInit => Fifo!Init
<1>1. SUFFICES ASSUME RingInit PROVE Fifo!Init
  OBVIOUS
<1>2. Held = <<>>
  BY <1>1 DEF RingInit, Held
<1>3. given \in DOMAIN [c \in Capacities |-> RoundUpPow2(c)]
      /\ capacity = [c \in Capacities |-> RoundUpPow2(c)][given]
  BY <1>1 DEF RingInit
<1>4. out = Fifo!Result("init", 0, <<>>)
  BY <1>1 DEF RingInit, Result, Fifo!Result
<1>5. QED
  BY <1>2, <1>3, <1>4 DEF Fifo!Init

LEMMA WriteFifo ==
  ASSUME IInv, NEW data \in Chunks, Write(data)
  PROVE  Fifo!Put(data)
<1> DEFINE len == Clamp(Len(data), Free)
<1>1. /\ data \in Seq(Byte) /\ Len(data) \in Nat
      /\ capacity \in Nat /\ count \in Nat /\ count <= capacity
      /\ Free = capacity - count
  BY ArgumentsAssumption, U16Fits DEF IInv, TypeOK, Free
<1>2. Held \in Seq(Byte \cup {Stale}) /\ Len(Held) = count
  BY HeldIs
<1>3. /\ len = Fifo!Least(Len(data), capacity - Len(Held))
      /\ len \in Nat /\ len <= Len(data)
  BY <1>1, <1>2 DEF Clamp, Fifo!Least
<1>4. /\ out' = Fifo!Result("write", len, <<>>)
      /\ given' = given /\ capacity' = capacity /\ read_pos' = read_pos
  BY DEF Write, Result, Fifo!Result
<1>5. Held' = Held \o SubSeq(data, 1, len)
  <2>1. CASE len = 0
    <3>1. Held' = Held
      BY <2>1 DEF Write, Held, Slot
    <3>2. SubSeq(data, 1, len) = <<>>
      BY <1>1, <2>1
    <3>3. Held \o <<>> = Held
      BY <1>2
    <3>4. QED
      BY <3>1, <3>2, <3>3
  <2>2. CASE len # 0
    <3>1. buffer' = Written(data, len) /\ count' = U16(count + len)
      BY <2>2 DEF Write
    <3>2. count' = count + len
      BY <2>2, <3>1, WriteFits
    <3>3. \A i \in 1..(count + len) :
            buffer'[Slot(i - 1)'] = IF i <= count THEN buffer[Slot(i - 1)] ELSE data[i - count]
      BY <2>2, <3>1, <1>4, WriteHeld
    <3>4. Held' = [i \in 1..(count + len) |->
                     IF i <= count THEN buffer[Slot(i - 1)] ELSE data[i - count]]
      BY <3>2, <3>3 DEF Held
    <3>5. /\ SubSeq(data, 1, len) \in Seq(Byte)
          /\ Len(SubSeq(data, 1, len)) = len
          /\ \A i \in 1..len : SubSeq(data, 1, len)[i] = data[i]
      BY <1>1, <1>3
    <3>6. \A i \in 1..(count + len) :
            (IF i <= count THEN buffer[Slot(i - 1)] ELSE data[i - count])
              = IF i <= count THEN Held[i] ELSE SubSeq(data, 1, len)[i - count]
      BY <1>1, <1>3, <3>5, HeldIs
    <3>7. Held' \in Seq(Byte \cup {Stale}) /\ Len(Held') = count + len
      <4>1. len \in Nat /\ count + len \in Nat
        BY <1>1, <1>3
      <4>2. \A i \in 1..count : Held[i] \in Byte \cup {Stale}
        BY <1>2
      <4>3. \A i \in 1..len : SubSeq(data, 1, len)[i] \in Byte
        BY <3>5
      <4> HIDE DEF len
      <4>4. \A i \in 1..(count + len) : i <= count \/ i - count \in 1..len
        BY <1>1, <4>1
      <4>5. \A i \in 1..(count + len) :
              (IF i <= count THEN Held[i] ELSE SubSeq(data, 1, len)[i - count])
                \in Byte \cup {Stale}
        BY <1>1, <4>1, <4>2, <4>3, <4>4
      <4>6. Held' \in [1..(count + len) -> Byte \cup {Stale}]
        BY ONLY <3>4, <3>6, <4>5
      <4>7. QED
        BY ONLY <4>1, <4>6
    <3>8. \A i \in 1..(count + len) :
            Held'[i] = IF i <= count THEN Held[i] ELSE SubSeq(data, 1, len)[i - count]
      BY <3>4, <3>6
    <3>9. SubSeq(data, 1, len) \in Seq(Byte \cup {Stale})
      BY <3>5
    <3> DEFINE S == Byte \cup {Stale}
    <3>11. PICK a, b, f : a = Held /\ b = SubSeq(data, 1, len) /\ f = Held'
      OBVIOUS
    <3>12. /\ a \in Seq(S) /\ b \in Seq(S) /\ f \in Seq(S)
      BY ONLY <1>2, <3>7, <3>9, <3>11
    <3>13. Len(a) = count /\ Len(b) = len /\ Len(f) = count + len
      BY ONLY <1>2, <3>5, <3>7, <3>11
    <3>14. \A i \in 1..Len(f) : f[i] = IF i <= Len(a) THEN a[i] ELSE b[i - Len(a)]
      BY ONLY <3>8, <3>11, <3>13
    <3> HIDE DEF S, len
    <3>15. Len(f) = Len(a) + Len(b)
      BY ONLY <3>13
    <3>16. a \o b = f
      BY ONLY <3>12, <3>14, <3>15, ConcatIs
    <3>10. QED
      BY ONLY <3>11, <3>16 DEF len
  <2>3. QED
    BY <2>1, <2>2
<1>6. QED
  BY <1>2, <1>3, <1>4, <1>5 DEF Fifo!Put

\* The first n bytes held are what ringbuffer_read and ringbuffer_read_pop return.
LEMMA OldestFifo ==
  ASSUME IInv, NEW want \in Lengths
  PROVE  /\ Clamp(want, count) \in 0..count
         /\ Clamp(want, count) = Fifo!Least(want, Len(Held))
         /\ Oldest(Clamp(want, count)) = SubSeq(Held, 1, Clamp(want, count))
<1> DEFINE len == Clamp(want, count)
<1>1. Held \in Seq(Byte \cup {Stale}) /\ Len(Held) = count /\ count \in Nat
  BY HeldIs DEF IInv, TypeOK
<1>2. len \in 0..count /\ len = Fifo!Least(want, Len(Held))
  BY <1>1, ArgumentsAssumption DEF Clamp, Fifo!Least, UInt16
<1>3. Oldest(len) = [i \in 1..len |-> buffer[Slot(i - 1)]]
  BY <1>2, OldestIs
<1>4. \A i \in 1..len : Held[i] = buffer[Slot(i - 1)]
  BY <1>1, <1>2, HeldIs
<1>5. SubSeq(Held, 1, len) = [i \in 1..len |-> Held[i]]
  BY <1>1, <1>2
<1>6. QED
  BY <1>2, <1>3, <1>4, <1>5

LEMMA ReadPopFifo ==
  ASSUME IInv, NEW want \in Lengths, ReadPop(want)
  PROVE  Fifo!Take(want)
<1> DEFINE len == Clamp(want, count)
<1>1. /\ len \in 0..count /\ len = Fifo!Least(want, Len(Held))
      /\ Oldest(len) = SubSeq(Held, 1, len)
  BY OldestFifo
<1>2. /\ out' = Fifo!Result("read_pop", len, SubSeq(Held, 1, len))
      /\ given' = given /\ buffer' = buffer /\ capacity' = capacity
  BY <1>1 DEF ReadPop, Result, Fifo!Result
<1>3. /\ count \in Nat /\ count <= 32768
      /\ Held \in Seq(Byte \cup {Stale}) /\ Len(Held) = count
  BY HeldIs DEF IInv, TypeOK
<1>4. Held' = SubSeq(Held, len + 1, Len(Held))
  <2>1. CASE len = 0
    <3>1. Held' = Held
      BY <2>1 DEF ReadPop, Held, Slot
    <3>2. QED
      BY <1>3, <2>1, <3>1
  <2>2. CASE len # 0
    <3>1. read_pos' = Advanced(read_pos, len) /\ count' = U16(count - len)
      BY <2>2 DEF ReadPop
    <3>2. count' = count - len /\ len \in 1..count
      BY <1>1, <1>3, <2>2, <3>1, U16Fits
    <3>3. \A i \in 1..(count - len) : Slot(i - 1)' = Slot((i + len) - 1)
      BY <1>2, <3>1, <3>2, PopKeeps
    <3>4. \A i \in 1..(count - len) : Held[i + len] = buffer[Slot((i + len) - 1)]
      BY <1>3, <3>2, HeldIs
    <3>5. \A i \in 1..(count - len) : buffer[Slot(i - 1)'] = Held[i + len]
      BY <3>3, <3>4
    <3>6. Held' = [i \in 1..(count - len) |-> buffer[Slot(i - 1)']]
      BY <1>2, <3>2 DEF Held
    <3>7. SubSeq(Held, len + 1, Len(Held)) = [i \in 1..(count - len) |-> Held[i + len]]
      BY <1>3, <3>2
    <3>8. QED
      BY <3>5, <3>6, <3>7
  <2>3. QED
    BY <2>1, <2>2
<1>5. QED
  BY <1>1, <1>2, <1>4 DEF Fifo!Take

\* Nothing is held after a call that zeroes the three fields.
LEMMA EmptiedHeld == Emptied => Held' = <<>>
  BY DEF Emptied, Held

\* Others change at most the one held byte that lies in the cell they write.
LEMMA OthersFifo ==
  ASSUME IInv, NEW s \in given..(capacity - 1), OthersWrite(s)
  PROVE  [Fifo!Next]_(Fifo!vars)
<1>1. /\ buffer' = [buffer EXCEPT ![s] = Stale]
      /\ UNCHANGED <<given, capacity, count, read_pos, write_pos, out>>
  BY DEF OthersWrite
<1>2. /\ given \in Nat /\ capacity \in Nat /\ count \in 0..capacity
      /\ s \in 0..(capacity - 1) /\ capacity > given
      /\ read_pos \in Nat /\ (read_pos < capacity \/ read_pos = 0)
      /\ buffer \in [0..(capacity - 1) -> Byte \cup {Stale}]
  BY DEF IInv, TypeOK, UInt16
<1>3. Held \in Seq(Byte \cup {Stale}) /\ Len(Held) = count
      /\ \A i \in 1..count : Held[i] = buffer[Slot(i - 1)]
  BY HeldIs
<1>4. Held' = [i \in 1..count |-> buffer'[Slot(i - 1)]]
  BY <1>1 DEF Held, Slot
<1>5. \A i \in 1..count : Slot(i - 1) \in 0..(capacity - 1)
  BY <1>2 DEF Slot
<1>6. \A i \in 1..count : buffer'[Slot(i - 1)] = IF Slot(i - 1) = s THEN Stale ELSE Held[i]
  BY <1>1, <1>2, <1>3, <1>5
<1>7. DOMAIN Held = 1..count
  BY <1>3
<1>8. CASE \E k \in 1..count : Slot(k - 1) = s
  <2>1. PICK k \in 1..count : Slot(k - 1) = s
    BY <1>8
  <2>2. \A i \in 1..count : Slot(i - 1) = s => i = k
    BY <1>2, <2>1 DEF Slot
  <2>3. Held' = [i \in 1..count |-> IF i = k THEN Stale ELSE Held[i]]
    BY <1>4, <1>6, <2>1, <2>2
  <2>4. [Held EXCEPT ![k] = Stale] = [i \in 1..count |-> IF i = k THEN Stale ELSE Held[i]]
    BY <1>7
  <2>5. Fifo!Disturb(k)
    BY <1>1, <1>2, <2>3, <2>4 DEF Fifo!Disturb
  <2> QED BY <1>3, <2>5 DEF Fifo!Next
<1>9. CASE ~\E k \in 1..count : Slot(k - 1) = s
  <2>1. Held' = [i \in 1..count |-> Held[i]]
    BY <1>4, <1>6, <1>9
  <2>2. Held = [i \in 1..count |-> Held[i]]
    BY <1>3, <1>7 DEF Held
  <2>3. Held' = Held
    BY <2>1, <2>2
  <2> QED BY <1>1, <2>3 DEF Fifo!vars
<1> QED BY <1>8, <1>9

LEMMA StepFifo == IInv /\ [RingNext]_ring_vars => [Fifo!Next]_(Fifo!vars)
<1>1. SUFFICES ASSUME IInv, [RingNext]_ring_vars PROVE [Fifo!Next]_(Fifo!vars)
  OBVIOUS
<1>2. ASSUME NEW data \in Chunks, Write(data) PROVE Fifo!Next
  BY <1>1, <1>2, WriteFifo DEF Fifo!Next
<1>3. ASSUME NEW want \in Lengths, Read(want) PROVE Fifo!Next
  <2>1. Held' = Held
    BY <1>3 DEF Read, Held, Slot
  <2>2. Fifo!Look(want)
    BY <1>1, <1>3, <2>1, OldestFifo DEF Read, Result, Fifo!Look, Fifo!Result
  <2>3. QED
    BY <2>2 DEF Fifo!Next
<1>4. ASSUME NEW want \in Lengths, ReadPop(want) PROVE Fifo!Next
  BY <1>1, <1>4, ReadPopFifo DEF Fifo!Next
<1>5. CASE Clear
  <2>1. Fifo!Empty
    BY <1>5, EmptiedHeld DEF Clear, Result, Fifo!Empty, Fifo!Result
  <2>2. QED
    BY <2>1 DEF Fifo!Next
<1>6. ASSUME NEW c \in Capacities, ReInit(c) PROVE Fifo!Next
  <2>1. Fifo!Renew(c, RoundUpPow2(c), "init")
    BY <1>6, EmptiedHeld DEF ReInit, Result, Fifo!Renew, Fifo!Result
  <2>2. /\ c \in DOMAIN [d \in Capacities |-> RoundUpPow2(d)]
        /\ RoundUpPow2(c) = [d \in Capacities |-> RoundUpPow2(d)][c]
    OBVIOUS
  <2>3. QED
    BY <2>1, <2>2 DEF Fifo!Next
<1>7. CASE Deinit
  <2>1. Fifo!Renew(0, 0, "deinit")
    BY <1>7, EmptiedHeld DEF Deinit, Result, Fifo!Renew, Fifo!Result
  <2>2. QED
    BY <2>1 DEF Fifo!Next
<1>8. CASE UNCHANGED ring_vars
  BY <1>8 DEF ring_vars, Fifo!vars, Held, Slot
<1>10. ASSUME NEW s \in given..(capacity - 1), OthersWrite(s) PROVE [Fifo!Next]_(Fifo!vars)
  BY <1>1, <1>10, OthersFifo
<1>9. QED
  BY <1>1, <1>2, <1>3, <1>4, <1>5, <1>6, <1>7, <1>8, <1>10 DEF RingNext

\* The ring implements the bounded byte queue: the same results and the same bytes in
\* the same order, for arrays of every size and every sequence of calls, but for bytes
\* that lie behind the array, which others may change one by one.
THEOREM ImplementsFifo == RingSpec => FifoSpec
  BY InitInv, NextInv, InitFifo, StepFifo, PTL DEF RingSpec, FifoSpec, Fifo!Spec

-----------------------------------------------------------------------------
\* The queue's array and its ring: length cells from the front on, the rear behind them.
QueueInv ==
  \E n \in Nat \ {0} :
    /\ cells \in [0..(n - 1) -> Data \cup {Unknown}]
    /\ length \in 0..n /\ front \in 0..(n - 1) /\ rear = (front + length) % n
    /\ promised \in Seq([data : Data, passed : BOOLEAN]) /\ Len(promised) = length
    /\ \A i \in 1..length :
         cells[(front + i - 1) % n] = IF promised[i].passed THEN Unknown ELSE promised[i].data

ArrayInv == kind = "queue" => QueueInv

LEMMA CapacityIs ==
  ASSUME NEW n \in Nat, DOMAIN cells = 0..(n - 1)
  PROVE  Capacity = n
<1>1. Cardinality(0..(n - 1)) = IF 0 > n - 1 THEN 0 ELSE (n - 1) - 0 + 1
  BY FS_Interval
<1> QED BY <1>1 DEF Capacity

\* Positions around a ring of n cells.
LEMMA Around ==
  ASSUME NEW n \in Nat \ {0}, NEW a \in 0..(n - 1), NEW k \in 0..n
  PROVE  (a + k) % n = IF a + k < n THEN a + k ELSE a + k - n
<1>1. PICK d \in Int, r \in Int : d = (a + k) \div n /\ r = (a + k) % n
  OBVIOUS
<1>2. a + k = n * d + r /\ 0 <= r /\ r < n
  BY <1>1
<1>3. CASE a + k < n
  <2>1. (a + k) % n = a + k
    BY <1>3
  <2> QED BY <1>3, <2>1
<1>4. CASE a + k >= n
  <2>1. (a + k - n) % n = a + k - n
    BY <1>4
  <2>2. (a + k) % n = (a + k - n) % n
    <3>1. PICK x \in Nat : x = a + k - n /\ a + k = x + n /\ x < n
      BY <1>4
    <3>2. (x + n) % n = x
      <4>1. x + n = n * d + r
        BY <1>2, <3>1
      <4>2. d = 1
        <5>1. n * d <= x + n /\ n * d > x
          BY <1>2, <4>1
        <5>2. d > 0 /\ d < 2
          <6>1. ~(d <= 0)
            <7> SUFFICES ASSUME d <= 0 PROVE FALSE
              OBVIOUS
            <7>1. n * d <= 0
              OBVIOUS
            <7> QED BY <3>1, <5>1, <7>1
          <6>2. ~(d >= 2)
            <7> SUFFICES ASSUME d >= 2 PROVE FALSE
              OBVIOUS
            <7>1. n * d >= n * 2
              OBVIOUS
            <7> QED BY <3>1, <5>1, <7>1
          <6> QED BY <1>1, <6>1, <6>2
        <5> QED BY <1>1, <5>2
      <4> QED BY <1>1, <1>2, <3>1, <4>1, <4>2
    <3> QED BY <3>1, <3>2, <2>1
  <2> QED BY <1>4, <2>1, <2>2
<1> QED BY <1>3, <1>4

LEMMA ArrayStarts == Init => ArrayInv
<1> SUFFICES ASSUME Init PROVE QueueInv
  BY DEF ArrayInv
<1>1. PICK n \in Nat \ {0} : n = InitialCapacity
  BY ArrayAssumption
<1>2. cells = [i \in 0..(n - 1) |-> Unknown] /\ front = 0 /\ rear = 0 /\ promised = <<>> /\ length = 0
  BY <1>1 DEF Init, ArrayInit
<1>3. (0 + 0) % n = 0
  <2>1. PICK a \in 0..(n - 1), k \in 0..n : a = 0 /\ k = 0
    OBVIOUS
  <2>2. (a + k) % n = IF a + k < n THEN a + k ELSE a + k - n
    BY <2>1, Around
  <2> QED BY <2>1, <2>2
<1>4. cells \in [0..(n - 1) -> Data \cup {Unknown}]
  BY <1>2
<1>5. length \in 0..n /\ front \in 0..(n - 1) /\ rear = (front + length) % n
  BY <1>2, <1>3
<1>6. promised \in Seq([data : Data, passed : BOOLEAN]) /\ Len(promised) = length /\ 1..length = {}
  BY <1>2
<1> QED BY <1>4, <1>5, <1>6 DEF QueueInv

\* Growing: what had wrapped is not copied.
LEMMA EnqueueKeeps ==
  ASSUME NEW d \in Data, Enqueue(d), QueueInv
  PROVE  QueueInv'
<1>1. PICK n \in Nat \ {0} :
        /\ cells \in [0..(n - 1) -> Data \cup {Unknown}]
        /\ length \in 0..n /\ front \in 0..(n - 1) /\ rear = (front + length) % n
        /\ promised \in Seq([data : Data, passed : BOOLEAN]) /\ Len(promised) = length
        /\ \A i \in 1..length :
             cells[(front + i - 1) % n] = IF promised[i].passed THEN Unknown ELSE promised[i].data
  BY DEF QueueInv
<1>2. Capacity = n
  BY <1>1, CapacityIs
<1>3. PICK f \in 0..(n - 1), l \in 0..n : f = front /\ l = length
  BY <1>1
<1>4. length' = l + 1
  BY <1>3 DEF Enqueue
<1>5. CASE l < n
  <2>1. /\ cells' = [cells EXCEPT ![rear] = d] /\ front' = f /\ rear' = (rear + 1) % n
        /\ promised' = Append(promised, [data |-> d, passed |-> FALSE])
    BY <1>2, <1>3, <1>5 DEF Enqueue
  <2>2. PICK r \in 0..(n - 1) : r = rear /\ r = (IF f + l < n THEN f + l ELSE f + l - n)
    <3>1. (f + l) % n = IF f + l < n THEN f + l ELSE f + l - n
      BY Around
    <3>2. (IF f + l < n THEN f + l ELSE f + l - n) \in 0..(n - 1)
      BY <1>5
    <3> QED BY <1>1, <1>3, <3>1, <3>2
  <2>3. rear' = (f + (l + 1)) % n
    <3>1. PICK m \in 0..n, o \in 0..n : m = l + 1 /\ o = 1
      BY <1>5
    <3>2. (f + m) % n = IF f + m < n THEN f + m ELSE f + m - n
      BY Around
    <3>3. (r + o) % n = IF r + o < n THEN r + o ELSE r + o - n
      BY Around
    <3>4. rear' = (r + o) % n
      BY <2>1, <2>2, <3>1
    <3>5. (r + o) % n = (f + m) % n
      BY <1>5, <2>2, <3>1, <3>2, <3>3
    <3> QED BY <3>1, <3>4, <3>5
  <2>4. cells' \in [0..(n - 1) -> Data \cup {Unknown}] /\ cells'[r] = d
        /\ \A j \in 0..(n - 1) : j # r => cells'[j] = cells[j]
    BY <1>1, <2>1, <2>2
  <2>5. PICK q : q = [data |-> d, passed |-> FALSE]
    OBVIOUS
  <2>6. q \in [data : Data, passed : BOOLEAN] /\ q.data = d /\ q.passed = FALSE
    BY <2>5
  <2>7. /\ promised' \in Seq([data : Data, passed : BOOLEAN]) /\ Len(promised') = l + 1
        /\ promised'[l + 1] = q
        /\ \A i \in 1..l : promised'[i] = promised[i]
    BY <1>1, <1>3, <2>1, <2>5, <2>6
  <2>8. ASSUME NEW i \in 1..(l + 1)
        PROVE  cells'[(f + i - 1) % n] = IF promised'[i].passed THEN Unknown ELSE promised'[i].data
    <3>1. PICK k \in 0..n : k = i - 1 /\ f + i - 1 = f + k
      BY <1>5
    <3>2. (f + k) % n = IF f + k < n THEN f + k ELSE f + k - n
      BY Around
    <3>3. CASE i = l + 1
      <4>1. (f + k) % n = r
        BY <1>3, <2>2, <3>1, <3>2, <3>3
      <4> QED BY <2>4, <2>6, <2>7, <3>1, <3>3, <4>1
    <3>4. CASE i # l + 1
      <4>1. i \in 1..l /\ k < l
        BY <3>1, <3>4
      <4>2. PICK j \in 0..(n - 1) : j = (f + k) % n /\ j # r
        <5>1. (f + k) % n \in 0..(n - 1) /\ (f + k) % n # r
          BY <1>3, <1>5, <2>2, <3>1, <3>2, <4>1
        <5> QED BY <5>1
      <4>3. cells[j] = IF promised[i].passed THEN Unknown ELSE promised[i].data
        BY <1>1, <1>3, <3>1, <4>1, <4>2
      <4> QED BY <2>4, <2>7, <3>1, <4>1, <4>2, <4>3
    <3> QED BY <3>3, <3>4
  <2>9. /\ length' \in 0..n /\ front' \in 0..(n - 1) /\ rear' = (front' + length') % n
        /\ cells' \in [0..(n - 1) -> Data \cup {Unknown}]
        /\ promised' \in Seq([data : Data, passed : BOOLEAN]) /\ Len(promised') = length'
    BY <1>4, <1>5, <2>1, <2>3, <2>4, <2>7
  <2>10. \A i \in 1..length' : cells'[(front' + i - 1) % n]
                               = IF promised'[i].passed THEN Unknown ELSE promised'[i].data
    BY <1>4, <2>1, <2>8
  <2> QED BY <2>9, <2>10 DEF QueueInv
<1>6. CASE l = n
  <2>1. /\ cells' = [Moved EXCEPT ![l] = d] /\ front' = 0 /\ rear' = (l + 1) % (2 * n)
        /\ promised' = Append([i \in DOMAIN promised |->
                            [promised[i] EXCEPT !.passed = @ \/ i > n - front]],
                            [data |-> d, passed |-> FALSE])
    <3>1. ~(length < Capacity)
      BY <1>2, <1>3, <1>6
    <3>2. /\ cells' = [Moved EXCEPT ![length] = d]
          /\ front' = 0 /\ rear' = (length + 1) % (2 * Capacity)
          /\ promised' = Append([i \in DOMAIN promised |->
                            [promised[i] EXCEPT !.passed = @ \/ i > Capacity - front]],
                            [data |-> d, passed |-> FALSE])
      BY <3>1 DEF Enqueue
    <3> HIDE DEF Moved, Capacity
    <3> QED BY <1>2, <1>3, <3>2
  <2>2. front = rear
    <3>1. (f + l) % n = IF f + l < n THEN f + l ELSE f + l - n
      BY Around
    <3>2. (f + l) % n = f
      BY <1>6, <3>1
    <3> QED BY <1>1, <1>3, <3>2
  <2>3. Moved = [i \in 0..(2 * n - 1) |-> IF i >= n THEN Unknown ELSE Cell(f + i)]
    <3>1. \A i \in 0..(2 * n - 1) : (front <= rear \/ i < n - front)
      BY <1>3, <2>2
    <3> QED BY <1>2, <1>3, <1>6, <3>1 DEF Moved
  <2>4. \A j \in Nat : Cell(j) = (IF j < n THEN cells[j] ELSE Unknown) /\ Cell(j) \in Data \cup {Unknown}
    <3> SUFFICES ASSUME NEW j \in Nat
                 PROVE  Cell(j) = (IF j < n THEN cells[j] ELSE Unknown) /\ Cell(j) \in Data \cup {Unknown}
      OBVIOUS
    <3>1. j \in DOMAIN cells <=> j < n
      BY <1>1
    <3> QED BY <1>1, <3>1 DEF Cell
  <2>5. PICK c : c = cells'
    OBVIOUS
  <2>6. /\ c \in [0..(2 * n - 1) -> Data \cup {Unknown}] /\ c[n] = d
        /\ \A i \in 0..(n - 1) : c[i] = Cell(f + i)
    <3>1. PICK m : m = Moved
      OBVIOUS
    <3>2. m \in [0..(2 * n - 1) -> Data \cup {Unknown}]
      <4>1. \A i \in 0..(2 * n - 1) : (IF i >= n THEN Unknown ELSE Cell(f + i)) \in Data \cup {Unknown}
        BY <1>3, <2>4
      <4> QED BY <2>3, <3>1, <4>1
    <3>3. \A i \in 0..(n - 1) : m[i] = Cell(f + i) /\ i \in 0..(2 * n - 1) /\ i # n
      BY <2>3, <3>1
    <3>4. c = [m EXCEPT ![n] = d] /\ n \in 0..(2 * n - 1)
      BY <1>6, <2>1, <2>5, <3>1
    <3> QED BY <3>2, <3>3, <3>4
  <2>7. PICK p : p = [i \in DOMAIN promised |-> [promised[i] EXCEPT !.passed = @ \/ i > n - front]]
    OBVIOUS
  <2>8. /\ p \in Seq([data : Data, passed : BOOLEAN]) /\ Len(p) = n
        /\ \A i \in 1..n : p[i].data = promised[i].data
                          /\ (p[i].passed <=> (promised[i].passed \/ i > n - f))
    <3>1. DOMAIN promised = 1..n
      BY <1>1, <1>3, <1>6
    <3>2. ASSUME NEW i \in 1..n
          PROVE  /\ p[i] \in [data : Data, passed : BOOLEAN] /\ p[i].data = promised[i].data
                 /\ (p[i].passed <=> (promised[i].passed \/ i > n - f))
      <4>1. PICK q \in [data : Data, passed : BOOLEAN] : q = promised[i]
        <5>1. i \in 1..Len(promised)
          BY <1>1, <1>3, <1>6
        <5> DEFINE Q == [data : Data, passed : BOOLEAN]
        <5>2. promised \in Seq(Q)
          BY <1>1
        <5> HIDE DEF Q
        <5>3. promised[i] \in Q
          BY <5>1, <5>2
        <5>4. PICK q \in Q : q = promised[i]
          BY <5>3
        <5> QED BY <5>4 DEF Q
      <4>2. p[i] = [q EXCEPT !.passed = @ \/ i > n - f]
        BY <1>3, <2>7, <3>1, <4>1
      <4>3. PICK b \in BOOLEAN : b = (q.passed \/ i > n - f)
        OBVIOUS
      <4>4. p[i] = [q EXCEPT !.passed = b]
        <5>1. [q EXCEPT !.passed = @ \/ i > n - f] = [q EXCEPT !.passed = b]
          BY <4>3
        <5> QED BY <4>2, <5>1
      <4>5. [q EXCEPT !.passed = b] = [data |-> q.data, passed |-> b]
        BY <4>1
      <4>6. q.data \in Data
        BY <4>1
      <4> QED BY <4>1, <4>3, <4>4, <4>5, <4>6
    <3> DEFINE R == [data : Data, passed : BOOLEAN]
    <3>3. p = [i \in 1..n |-> p[i]]
      BY <2>7, <3>1
    <3>4. \A i \in 1..n : p[i] \in R
      BY <3>2
    <3> HIDE DEF R
    <3>5. p \in [1..n -> R]
      BY <3>3, <3>4
    <3>6. n \in Nat
      OBVIOUS
    <3>7. p \in Seq(R) /\ Len(p) = n
      BY <3>5, <3>6
    <3> USE DEF R
    <3> QED BY <3>2, <3>7 DEF R
  <2>9. PICK q : q = [data |-> d, passed |-> FALSE]
    OBVIOUS
  <2>10. q \in [data : Data, passed : BOOLEAN] /\ q.data = d /\ q.passed = FALSE
    BY <2>9
  <2>11. /\ promised' \in Seq([data : Data, passed : BOOLEAN]) /\ Len(promised') = n + 1
         /\ promised'[n + 1] = q
         /\ \A i \in 1..n : promised'[i] = p[i]
    <3>1. promised' = Append(p, q)
      BY <2>1, <2>7, <2>9
    <3> QED BY <2>8, <2>10, <3>1
  <2>12. PICK z \in Nat \ {0} : z = 2 * n
    OBVIOUS
  <2>13. ASSUME NEW i \in 1..(n + 1)
         PROVE  c[(0 + i - 1) % z] = IF promised'[i].passed THEN Unknown ELSE promised'[i].data
    <3>1. PICK k \in 0..z : k = i - 1 /\ k < z /\ k <= n
      BY <2>12
    <3>2. (0 + i - 1) % z = k
      <4>1. PICK o \in 0..(z - 1) : o = 0
        BY <2>12
      <4>2. (o + k) % z = IF o + k < z THEN o + k ELSE o + k - z
        BY Around
      <4>3. 0 + i - 1 = o + k /\ o + k = k
        BY <3>1, <4>1
      <4>4. (o + k) % z = k
        BY <3>1, <4>2, <4>3
      <4> QED BY <4>3, <4>4
    <3>3. CASE i = n + 1
      <4>1. k = n /\ promised'[i] = q
        BY <2>11, <3>1, <3>3
      <4>2. (0 + i - 1) % z = n
        BY <3>2, <4>1
      <4> QED BY <2>6, <2>10, <4>1, <4>2
    <3>4. CASE i # n + 1
      <4>1. i \in 1..n /\ k \in 0..(n - 1)
        BY <3>1, <3>4
      <4>2. c[k] = IF f + k < n THEN cells[f + k] ELSE Unknown
        BY <2>4, <2>6, <4>1
      <4>3. promised'[i] = p[i] /\ p[i].data = promised[i].data
            /\ (p[i].passed <=> (promised[i].passed \/ i > n - f))
        BY <2>8, <2>11, <4>1
      <4>4. f + k >= n <=> i > n - f
        BY <1>3, <3>1
      <4>5. f + k < n => cells[f + k] = IF promised[i].passed THEN Unknown ELSE promised[i].data
        <5> SUFFICES ASSUME f + k < n
                     PROVE  cells[f + k] = IF promised[i].passed THEN Unknown ELSE promised[i].data
          OBVIOUS
        <5>1. (f + k) % n = f + k
          <6>1. PICK w \in 0..n : w = k
            BY <4>1
          <6>2. (f + w) % n = IF f + w < n THEN f + w ELSE f + w - n
            BY Around
          <6> QED BY <6>1, <6>2
        <5>2. front + i - 1 = f + k /\ i \in 1..length
          BY <1>3, <1>6, <3>1, <4>1
        <5> QED BY <1>1, <5>1, <5>2
      <4> QED BY <3>2, <4>2, <4>3, <4>4, <4>5
    <3> QED BY <3>3, <3>4
  <2>14. /\ length' \in 0..z /\ front' \in 0..(z - 1) /\ rear' = (front' + length') % z
         /\ cells' \in [0..(z - 1) -> Data \cup {Unknown}]
    BY <1>4, <1>6, <2>1, <2>5, <2>6, <2>12
  <2>15. \A i \in 1..length' : cells'[(front' + i - 1) % z]
                               = IF promised'[i].passed THEN Unknown ELSE promised'[i].data
    BY <1>4, <1>6, <2>1, <2>5, <2>13
  <2> QED BY <1>4, <1>6, <2>11, <2>14, <2>15 DEF QueueInv
<1> QED BY <1>3, <1>5, <1>6

LEMMA DequeueKeeps ==
  ASSUME Dequeue, QueueInv
  PROVE  QueueInv'
<1>1. PICK n \in Nat \ {0} :
        /\ cells \in [0..(n - 1) -> Data \cup {Unknown}]
        /\ length \in 0..n /\ front \in 0..(n - 1) /\ rear = (front + length) % n
        /\ promised \in Seq([data : Data, passed : BOOLEAN]) /\ Len(promised) = length
        /\ \A i \in 1..length :
             cells[(front + i - 1) % n] = IF promised[i].passed THEN Unknown ELSE promised[i].data
  BY DEF QueueInv
<1>2. Capacity = n
  BY <1>1, CapacityIs
<1>3. PICK f \in 0..(n - 1), l \in 0..n : f = front /\ l = length /\ l > 0
  BY <1>1 DEF Dequeue
<1>4. /\ front' = (f + 1) % n /\ length' = l - 1 /\ promised' = Tail(promised)
      /\ cells' = cells /\ rear' = rear
  BY <1>2, <1>3 DEF Dequeue
<1>5. PICK g \in 0..(n - 1) : g = front' /\ g = (IF f + 1 < n THEN f + 1 ELSE f + 1 - n)
  <2>1. PICK o \in 0..n : o = 1
    OBVIOUS
  <2>2. (f + o) % n = IF f + o < n THEN f + o ELSE f + o - n
    BY Around
  <2>3. (IF f + 1 < n THEN f + 1 ELSE f + 1 - n) \in 0..(n - 1)
    OBVIOUS
  <2> QED BY <1>4, <2>1, <2>2, <2>3
<1>6. ASSUME NEW k \in 0..(l - 1)
      PROVE  (g + k) % n = (f + (k + 1)) % n
  <2>1. PICK v \in 0..n, w \in 0..n : v = k /\ w = k + 1
    BY <1>3
  <2>2. (g + v) % n = IF g + v < n THEN g + v ELSE g + v - n
    BY Around
  <2>3. (f + w) % n = IF f + w < n THEN f + w ELSE f + w - n
    BY Around
  <2>4. (g + v) % n = (f + w) % n
    BY <1>3, <1>5, <2>1, <2>2, <2>3
  <2> QED BY <2>1, <2>4
<1>7. rear' = (g + (l - 1)) % n
  <2>1. PICK k \in 0..(l - 1) : k = l - 1
    BY <1>3
  <2>2. (g + k) % n = (f + (k + 1)) % n
    BY <1>6
  <2>3. f + (k + 1) = f + l
    BY <2>1
  <2> QED BY <1>1, <1>3, <1>4, <2>1, <2>2, <2>3
<1>8. /\ promised' \in Seq([data : Data, passed : BOOLEAN]) /\ Len(promised') = l - 1
      /\ \A i \in 1..(l - 1) : promised'[i] = promised[i + 1]
  BY <1>1, <1>3, <1>4
<1>9. ASSUME NEW i \in 1..(l - 1)
      PROVE  cells'[(g + i - 1) % n] = IF promised'[i].passed THEN Unknown ELSE promised'[i].data
  <2>1. PICK k \in 0..(l - 1) : k = i - 1 /\ g + i - 1 = g + k
    BY <1>5
  <2>2. PICK j \in 1..l : j = i + 1 /\ f + j - 1 = f + (k + 1)
    BY <1>3, <2>1
  <2>3. cells[(f + j - 1) % n] = IF promised[j].passed THEN Unknown ELSE promised[j].data
    BY <1>1, <1>3
  <2>4. (g + k) % n = (f + (k + 1)) % n
    BY <1>6
  <2> QED BY <1>4, <1>8, <2>1, <2>2, <2>3, <2>4
<1>10. length' \in 0..n /\ front' \in 0..(n - 1) /\ cells' \in [0..(n - 1) -> Data \cup {Unknown}]
  BY <1>1, <1>3, <1>4, <1>5
<1>11. \A i \in 1..length' : cells'[(front' + i - 1) % n]
                             = IF promised'[i].passed THEN Unknown ELSE promised'[i].data
  BY <1>4, <1>5, <1>9
<1>12. rear' = (front' + length') % n /\ Len(promised') = length'
       /\ promised' \in Seq([data : Data, passed : BOOLEAN])
  BY <1>4, <1>5, <1>7, <1>8
<1> QED BY <1>10, <1>11, <1>12 DEF QueueInv

LEMMA ArrayKeeps == ArrayInv /\ [Next]_vars => ArrayInv'
<1> SUFFICES ASSUME ArrayInv, [Next]_vars, kind' = "queue" PROVE QueueInv'
  BY DEF ArrayInv
<1>1. kind = "queue" /\ QueueInv
  BY DEF Next, vars, ArrayInv
<1>2. CASE UNCHANGED vars
  BY <1>1, <1>2 DEF vars, array_vars, QueueInv
<1>3. CASE Next
  <2>1. ~ListNext /\ ~TableNext /\ ~TreeNext
    BY <1>1 DEF ListNext, ListInsertAt, ListRemoveAt, ListClear, TableNext, InsertTable,
                RemoveTable, SearchTable, ReplaceTable, TreeNext, InsertTree, RemoveTree, ReplaceTree
  <2>2. ArrayNext
    BY <1>3, <2>1 DEF Next
  <2>3. \A d \in Data : ~Push(d)
    BY <1>1 DEF Push
  <2>4. ~Pop
    BY <1>1 DEF Pop
  <2> QED BY <1>1, <2>2, <2>3, <2>4, EnqueueKeeps, DequeueKeeps DEF ArrayNext
<1> QED BY <1>2, <1>3

\* A queue gives out what was put in, in order, but for what a growth while wrapped loses;
\* for every initial capacity, every set of elements and every sequence of calls.
THEOREM LosesNoMore == Spec => []LosesExactlyTheWrapped
<1>1. ArrayInv => LosesExactlyTheWrapped
  <2> SUFFICES ASSUME ArrayInv, kind = "queue"
               PROVE  /\ Len(promised) = length
                      /\ \A i \in 1..length :
                           cells[(front + i - 1) % Capacity] =
                             IF promised[i].passed THEN Unknown ELSE promised[i].data
    BY DEF LosesExactlyTheWrapped
  <2>1. PICK n \in Nat \ {0} :
          /\ cells \in [0..(n - 1) -> Data \cup {Unknown}] /\ Len(promised) = length
          /\ \A i \in 1..length :
               cells[(front + i - 1) % n] = IF promised[i].passed THEN Unknown ELSE promised[i].data
    BY DEF ArrayInv, QueueInv
  <2>2. Capacity = n
    BY <2>1, CapacityIs
  <2> QED BY <2>1, <2>2
<1>2. ArrayInv /\ [Next]_vars => ArrayInv'
  BY ArrayKeeps
<1> QED BY ArrayStarts, <1>1, <1>2, PTL DEF Spec
=============================================================================
