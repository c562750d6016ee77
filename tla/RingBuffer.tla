----------------------------- MODULE RingBuffer -----------------------------
(***************************************************************************)
(* The byte ring of the protocol stack                                     *)
(* (comm-protocol-stack/src/core/ringbuffer.c): a backing array, a read    *)
(* and a write position and a count, all uint16_t.  One action per         *)
(* function; a function that returns early is the disjunct that changes    *)
(* nothing but the result.  The functions run to completion on one thread, *)
(* as README.md:365 of that directory requires of its callers.             *)
(*                                                                         *)
(* ringbuffer_init rounds the capacity up and keeps the caller's array as  *)
(* it is: positions then reach memory behind it, which belongs to others.  *)
(***************************************************************************)
EXTENDS Integers, Sequences

CONSTANTS
  Byte,        \* byte values
  Chunks,      \* what callers write: non-empty and empty sequences of bytes
  Lengths,     \* how many bytes callers ask for
  Capacities,  \* the sizes of callers' arrays, which they pass to ringbuffer_init
  Stale        \* a byte that no write of the ring left: what fresh memory holds, or
               \* what the owner of memory behind the array put there

VARIABLES
  given,       \* how many cells the caller's array has
  buffer,      \* the memory from rb->buffer on, as far as positions can reach
  capacity,    \* rb->capacity
  count,       \* rb->count
  read_pos,    \* rb->read_pos
  write_pos,   \* rb->write_pos
  out          \* what the last call returned

ring_vars == <<given, buffer, capacity, count, read_pos, write_pos, out>>

UInt16 == {n \in Nat : n <= 65535}

\* The arguments' types: uint16_t lengths, and init refuses capacity 0.
ASSUME ArgumentsAssumption ==
  /\ Chunks \subseteq Seq(Byte)
  /\ \A data \in Chunks : Len(data) \in UInt16
  /\ Lengths \subseteq UInt16
  /\ Capacities \subseteq UInt16 \ {0}
  /\ Stale \notin Byte

-----------------------------------------------------------------------------
\* uint16_t arithmetic.
U16(n) == n % 65536

Pow2 == {1, 2, 4, 8, 16, 32, 64, 128, 256, 512, 1024, 2048, 4096, 8192, 16384, 32768}

\* round_up_pow2: above 32768 the smeared bits increment to 0 in 16 bits; below, the
\* result is the one power of two from n on that is less than twice n.
RoundUpPow2(n) == IF n > 32768 THEN 0 ELSE CHOOSE p \in Pow2 : n <= p /\ p < 2 * n

\* ringbuffer_free
Free == U16(capacity - count)

\* memcpy(mem + at, src + from, n)
Blit(mem, at, src, from, n) ==
  [s \in DOMAIN mem |-> IF at <= s /\ s < at + n THEN src[s - at + from + 1] ELSE mem[s]]

\* memcpy(data, buffer + at, n), as the sequence of the bytes copied
CopyOut(at, n) == [i \in 1..n |-> buffer[at + i - 1]]

\* A position that reached the end of the array starts over.
NoWrapPos(pos) == pos   \* mutated: it does not
WrapPos(pos) == IF pos = capacity THEN 0 ELSE pos

Clamp(len, limit) == IF len > limit THEN limit ELSE len

Result(op, n, data) == [op |-> op, n |-> n, data |-> data]

Emptied == count' = 0 /\ read_pos' = 0 /\ write_pos' = 0

-----------------------------------------------------------------------------
RingInit ==
  /\ given \in Capacities
  /\ capacity = RoundUpPow2(given)
  /\ buffer = [s \in 0..(capacity - 1) |-> Stale]
  /\ count = 0 /\ read_pos = 0 /\ write_pos = 0
  /\ out = Result("init", 0, <<>>)

\* ringbuffer_init on a ring in use, with a fresh array
ReInit(c) ==
  /\ given' = c
  /\ capacity' = RoundUpPow2(c)
  /\ buffer' = [s \in 0..(capacity' - 1) |-> Stale]
  /\ Emptied
  /\ out' = Result("init", 0, <<>>)

Deinit ==
  /\ given' = 0
  /\ capacity' = 0
  /\ buffer' = [s \in {} |-> Stale]
  /\ Emptied
  /\ out' = Result("deinit", 0, <<>>)

\* mutated Clear: the write position is not reset
ClearKeepsWritePos ==
  /\ count' = 0 /\ read_pos' = 0
  /\ out' = Result("clear", 0, <<>>)
  /\ UNCHANGED <<given, buffer, capacity, write_pos>>

Clear ==
  /\ Emptied
  /\ out' = Result("clear", 0, <<>>)
  /\ UNCHANGED <<given, buffer, capacity>>

\* mutated Written: the second memcpy copies from the start of the data again
WrittenTwice(data, len) ==
  LET tail == U16(capacity - write_pos)
  IN  IF tail >= len
        THEN Blit(buffer, write_pos, data, 0, len)
        ELSE Blit(Blit(buffer, write_pos, data, 0, tail), 0, data, 0, len - tail)

\* The array after ringbuffer_write copied len bytes, in one piece or in two.
Written(data, len) ==
  LET tail == U16(capacity - write_pos)
  IN  IF tail >= len
        THEN Blit(buffer, write_pos, data, 0, len)
        ELSE Blit(Blit(buffer, write_pos, data, 0, tail), 0, data, tail, len - tail)

\* Where a position stands after len bytes from it on.
Advanced(pos, len) ==
  LET tail == U16(capacity - pos)
  IN  IF tail >= len THEN WrapPos(U16(pos + len)) ELSE U16(len - tail)

Write(data) ==
  LET len == Clamp(Len(data), Free)
  IN  /\ out' = Result("write", len, <<>>)
      /\ \/ /\ len = 0
            /\ UNCHANGED <<buffer, count, write_pos>>
         \/ /\ len # 0
            /\ buffer' = Written(data, len)
            /\ write_pos' = Advanced(write_pos, len)
            /\ count' = U16(count + len)
      /\ UNCHANGED <<given, capacity, read_pos>>

\* The bytes ringbuffer_read and ringbuffer_read_pop copy out, in one piece or in two.
Oldest(len) ==
  LET tail == U16(capacity - read_pos)
  IN  IF tail >= len
        THEN CopyOut(read_pos, len)
        ELSE CopyOut(read_pos, tail) \o CopyOut(0, len - tail)

Read(want) ==
  LET len == Clamp(want, count)
  IN  /\ out' = Result("read", len, Oldest(len))
      /\ UNCHANGED <<given, buffer, capacity, count, read_pos, write_pos>>

ReadPop(want) ==
  LET len == Clamp(want, count)
  IN  /\ out' = Result("read_pop", len, Oldest(len))
      /\ \/ /\ len = 0
            /\ UNCHANGED <<count, read_pos>>
         \/ /\ len # 0
            /\ read_pos' = Advanced(read_pos, len)
            /\ count' = U16(count - len)
      /\ UNCHANGED <<given, buffer, capacity, write_pos>>

\* Memory behind the caller's array belongs to others, who use it as they like.
OthersWrite(s) ==
  /\ s \in given..(capacity - 1)
  /\ buffer' = [buffer EXCEPT ![s] = Stale]
  /\ UNCHANGED <<given, capacity, count, read_pos, write_pos, out>>

RingNext ==
  \/ \E data \in Chunks : Write(data)
  \/ \E len \in Lengths : Read(len) \/ ReadPop(len)
  \/ Clear
  \/ \E c \in Capacities : ReInit(c)
  \/ Deinit
  \/ \E s \in given..(capacity - 1) : OthersWrite(s)

RingSpec == RingInit /\ [][RingNext]_ring_vars

-----------------------------------------------------------------------------
\* The cell that holds the byte k places after the oldest.
Slot(k) == IF read_pos + k < capacity THEN read_pos + k ELSE read_pos + k - capacity

\* The bytes the ring holds, oldest first.
Held == [i \in 1..count |-> buffer[Slot(i - 1)]]

\* Every field keeps its C type, and every position names a cell below the capacity
\* recorded: no call leaves a position one past the end, where the next memcpy would
\* start.  Of the caller's array that is said only when its size is a power of two;
\* with any other size up to 32768 the last cells lie behind it.
TypeOK ==
  /\ given \in UInt16
  /\ capacity \in Nat /\ capacity <= 32768
  /\ given \in Pow2 => capacity = given
  /\ buffer \in [0..(capacity - 1) -> Byte \cup {Stale}]
  /\ count \in 0..capacity
  /\ read_pos \in Nat /\ (read_pos < capacity \/ read_pos = 0)
  /\ write_pos \in Nat /\ (write_pos < capacity \/ write_pos = 0)

\* The three bookkeeping fields never disagree: the write position is the count ahead
\* of the read position, around the ring.  count is what tells a full ring from an
\* empty one (ringbuffer.h:26), so a call that updates two of the three loses the data.
PositionsAgree ==
  \/ write_pos = read_pos + count
  \/ write_pos = read_pos + count - capacity

\* A byte that is given out was put in since the last init or clear, whatever wrapped in
\* between, unless it lies behind the caller's array, where its owner may have written.
NoStaleByte ==
  \A i \in 1..count : buffer[Slot(i - 1)] \in Byte \/ Slot(i - 1) >= given

\* The ring is the bounded byte queue its header promises: same return values, same
\* bytes out, in the same order, across wrap-around, truncated writes and re-use; but a
\* byte may come out as another when the array's size is not a power of two, although
\* ringbuffer.h:37 says that such a size is rounded up.
Fifo == INSTANCE ByteFifo
  WITH queue <- Held, bound <- capacity, Foreign <- Stale,
       Bound <- [c \in Capacities |-> RoundUpPow2(c)]

FifoSpec == Fifo!Spec
=============================================================================
