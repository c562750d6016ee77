---------------------------- MODULE MCRingBuffer ----------------------------
(***************************************************************************)
(* Arrays of one, two, three and four cells, the third of them rounded up  *)
(* to a ring of four, and one whose capacity overflows to 0, with writes   *)
(* of up to five distinct bytes: every write can be cut short and every    *)
(* write and read can straddle the end of the array.                       *)
(***************************************************************************)
EXTENDS RingBuffer, Bitwise

MCByte == 1..5
MCChunks == {<<>>, <<1>>, <<1, 2>>, <<3, 4, 5>>, <<1, 2, 3, 4, 5>>}
MCLengths == 0..5
MCCapacities == {1, 2, 3, 4, 40000}

\* round_up_pow2 with its shifts and ors, and the definition the model uses: they
\* agree on every boundary of the sixteen-bit range.
Smear(n, k) == n | (n \div 2^k)
RoundedByBits(n) ==
  IF n = 0 THEN 1
  ELSE IF (n & (n - 1)) = 0 THEN n
  ELSE (Smear(Smear(Smear(Smear(n, 1), 2), 4), 8) + 1) % 65536

ASSUME RoundUpPow2Assumption ==
  \A n \in (1..130) \cup {2047, 2048, 2049, 16385, 32767, 32768, 32769, 65535} :
    RoundedByBits(n) = RoundUpPow2(n)
=============================================================================
