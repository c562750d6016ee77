---------------------------- MODULE MailboxQueue ----------------------------
(***************************************************************************)
(* What a mailbox's kernel queue delivers                                  *)
(* (mailbox_framework/kernel/mbox_kern.c): messages come out in the order  *)
(* they went in, each once.  A read of some channels takes the oldest      *)
(* message on them; the older messages on other channels go with it, and   *)
(* the room they took stays lost until a flush.  A new message may spoil   *)
(* one that is queued in two cases only, and then the contents are         *)
(* anyone's guess until the queue has run empty, but not their number.     *)
(* Mailbox implements it; MailboxLib is built on it.                       *)
(***************************************************************************)
EXTENDS Integers, Sequences

CONSTANTS
  Ids,            \* what numbers messages may have
  Channels,
  Lengths,        \* how long payloads may be, in header lengths
  SizeModulus,    \* the size of a message is told modulo this
  Masks,          \* the channel sets a reader may ask for
  Depth,          \* how many messages fit
  IndexModulus    \* places are numbered modulo this

VARIABLES
  queue,     \* the messages held, oldest first
  lost,      \* places taken by messages that are gone
  place,     \* the number of the place the next message gets
  spoilt,    \* a message was spoilt and the queue has not run empty since
  got        \* the message the last step delivered, if it delivered one

vars == <<queue, lost, place, spoilt, got>>

Nothing == [id |-> 0, channel |-> -1, size |-> 0]

Init == queue = <<>> /\ lost = 0 /\ place = 0 /\ spoilt = FALSE /\ got = Nothing

\* A payload of n header lengths that comes round to the oldest message.
ComesRound(n) == Len(queue) + n >= Depth

\* The places of the queue are numbered past IndexModulus, which Depth does not divide:
\* they are not the entries next to each other that they should be.
Jumps == place < Len(queue) /\ IndexModulus % Depth # 0

\* A message m with a payload of n header lengths.
Put(m, n) ==
  /\ Len(queue) + lost < Depth
  /\ \/ ~spoilt' /\ queue' = Append(queue, m)
     \/ spoilt' /\ queue # <<>> /\ (ComesRound(n) \/ Jumps)
  /\ place' = (place + 1) % IndexModulus
  /\ got' = Nothing
  /\ UNCHANGED lost

\* What a reader that passes messages over takes and leaves.
Take(mask) ==
  \E k \in DOMAIN queue :
    /\ queue[k].channel \in mask /\ \A j \in 1..(k - 1) : queue[j].channel \notin mask
    /\ got' = queue[k]
    /\ queue' = SubSeq(queue, k + 1, Len(queue))
    /\ lost' = lost + (k - 1)
    /\ place' = place /\ spoilt' = spoilt

Flush == queue' = <<>> /\ lost' = 0 /\ place' = 0 /\ got' = Nothing /\ spoilt' = spoilt

Others ==
  got' = Nothing /\ place' = place /\ spoilt' = spoilt /\ UNCHANGED <<queue, lost>>

Next ==
  \/ /\ ~spoilt
     /\ \/ \E id \in Ids, channel \in Channels, n \in Lengths :
             Put([id |-> id, channel |-> channel, size |-> n % SizeModulus], n)
        \/ \E mask \in Masks : Take(mask)
        \/ Flush \/ Others
  \/ spoilt /\ (spoilt' \/ queue' = <<>>) /\ Len(queue') + lost' <= Depth

Spec == Init /\ [][Next]_vars
=============================================================================
