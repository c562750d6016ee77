------------------------------ MODULE ByteFifo ------------------------------
(***************************************************************************)
(* What the receive buffer of the protocol stack promises its callers      *)
(* (comm-protocol-stack/src/core/ringbuffer.h, lines 46-86): a bounded     *)
(* first-in first-out queue of bytes.  A write that does not fit keeps the *)
(* prefix that does and says how long it was; a read looks at the oldest   *)
(* bytes, a pop also removes them.  Positions, wrap-around and the backing *)
(* array are no part of the promise: RingBuffer implements this module.    *)
(* A buffer that may hold more than the array it was given has cells is    *)
(* exposed: others may change a byte while it is held.                     *)
(***************************************************************************)
EXTENDS Integers, Sequences

CONSTANTS
  Chunks,    \* what a caller may pass to a write: a set of byte sequences
  Lengths,   \* how many bytes a caller may ask for in a read
  Bound,     \* what a buffer may hold, for every size of an array it may be given
  Foreign    \* a byte that others left

VARIABLES
  queue,     \* the bytes held, oldest first
  given,     \* how many cells the array has
  bound,     \* how many bytes the buffer can hold
  out        \* what the last call returned

vars == <<queue, given, bound, out>>

\* A call's observable result: its name, its return value, the bytes it copied out.
Result(op, n, data) == [op |-> op, n |-> n, data |-> data]

Least(m, n) == IF m <= n THEN m ELSE n

Init ==
  /\ queue = <<>>
  /\ given \in DOMAIN Bound
  /\ bound = Bound[given]
  /\ out = Result("init", 0, <<>>)

Put(data) ==
  LET n == Least(Len(data), bound - Len(queue))
  IN  /\ queue' = queue \o SubSeq(data, 1, n)
      /\ out' = Result("write", n, <<>>)
      /\ UNCHANGED <<given, bound>>

Look(len) ==
  LET n == Least(len, Len(queue))
  IN  /\ out' = Result("read", n, SubSeq(queue, 1, n))
      /\ UNCHANGED <<queue, given, bound>>

Take(len) ==
  LET n == Least(len, Len(queue))
  IN  /\ out' = Result("read_pop", n, SubSeq(queue, 1, n))
      /\ queue' = SubSeq(queue, n + 1, Len(queue))
      /\ UNCHANGED <<given, bound>>

Empty ==
  /\ queue' = <<>>
  /\ out' = Result("clear", 0, <<>>)
  /\ UNCHANGED <<given, bound>>

\* The buffer is given up (bound 0) or set up again.
Renew(g, b, op) ==
  /\ queue' = <<>>
  /\ given' = g
  /\ bound' = b
  /\ out' = Result(op, 0, <<>>)

Disturb(i) ==
  /\ bound > given
  /\ queue' = [queue EXCEPT ![i] = Foreign]
  /\ UNCHANGED <<given, bound, out>>

Next ==
  \/ \E data \in Chunks : Put(data)
  \/ \E len \in Lengths : Look(len) \/ Take(len)
  \/ Empty
  \/ \E g \in DOMAIN Bound : Renew(g, Bound[g], "init")
  \/ Renew(0, 0, "deinit")
  \/ \E i \in 1..Len(queue) : Disturb(i)

Spec == Init /\ [][Next]_vars
=============================================================================
