------------------------------ MODULE Mailbox ------------------------------
(***************************************************************************)
(* One kernel mailbox (mailbox_framework/kernel/mbox_kern.c): the message  *)
(* ring in shared memory, its senders, and readers that wait for messages  *)
(* on some of the channels.  What a spinlock protects is one step; between *)
(* two looks at the ring a waiting reader holds nothing.  Memory is        *)
(* counted in header lengths (20 bytes): entries[i] is header length i, so *)
(* a payload lies where the next entries' headers are.  The size in the    *)
(* header is a uint16_t, whatever the length of the payload.  Statistics   *)
(* (dropped, received, bytes) are left out.                                *)
(***************************************************************************)
EXTENDS Integers, Sequences

CONSTANTS
  Depth,          \* queue->depth
  MsgSize,        \* queue->msg_size
  IndexModulus,   \* 2^32: head, tail, count and total_sent are uint32_t
  SizeModulus,    \* 2^16: size is uint16_t
  Channels,
  Payloads,       \* what senders send: sequences of header lengths
  Readers,
  Calls,          \* what each reader asks for: [mask, patience]
  WaitLimit       \* bound: how long a timed reader waits

VARIABLES
  cells,          \* mbox->entries and what lies behind them
  head, tail,     \* free-running indices, taken modulo Depth
  count,          \* "current message count"
  total_sent,
  reader,         \* where each reader is in mbox_dequeue
  got,            \* the header the last step returned to a reader, if it did
  spoilt          \* history: a queued message's header was written over, and the queue
                  \* has not run empty since

queue_vars == <<cells, head, tail, count, total_sent, spoilt>>
vars == <<queue_vars, reader, got>>

Indices == 0..(IndexModulus - 1)

\* Twenty bytes of memory, read as a message header.
Units == [id : Indices, channel : Channels, size : Nat]

ASSUME MailboxAssumption ==
  /\ Depth \in Nat /\ Depth >= 2
  /\ MsgSize \in Nat
  /\ IndexModulus \in Nat /\ IndexModulus >= 2 * Depth
  /\ SizeModulus \in Nat \ {0}
  /\ 0 \in Channels
  /\ \A payload \in Payloads : payload \in Seq(Units) /\ Len(payload) <= MsgSize
  /\ \A r \in Readers : \A c \in Calls[r] :
       c.mask \subseteq Channels /\ c.patience \in {"none", "timed", "forever"}
  /\ WaitLimit \in Nat \ {0}

-----------------------------------------------------------------------------
\* mutated Wrap: the indices never wrap
NoWrap(n) == n

Wrap(n) == n % IndexModulus

\* mbox_get_entry: the entry an index stands for
EntryAt(idx) == idx % Depth

\* How many messages lie between tail and head.
Live == Wrap(head - tail)

\* The header of the k-th message from the oldest on, k from 0.
HeaderOf(k) == cells[EntryAt(Wrap(tail + k))]

\* entry->size = size
StoredSize(length) == length % SizeModulus

\* The queued messages on whose headers a new header and n cells of payload fall: those
\* that the payload reaches, and those in the entry that is used next.
Hit(n) == {k \in 0..(Live - 1) : EntryAt(Wrap(tail + k)) - EntryAt(head) \in 0..n}

\* The memory after header and payload were written at an entry.
FillEntry(slot, header, payload) ==
  [c \in DOMAIN cells |->
     IF c = slot THEN header
     ELSE IF slot < c /\ c <= slot + Len(payload) THEN payload[c - slot]
     ELSE cells[c]]

-----------------------------------------------------------------------------
Nothing == [id |-> 0, channel |-> -1, size |-> 0]

ReaderStates ==
  [at : {"idle", "scan", "waiting", "asleep"}, mask : SUBSET Channels,
   patience : {"none", "timed", "forever"}, left : 0..WaitLimit, woken : BOOLEAN]

Idle == [at |-> "idle", mask |-> {}, patience |-> "none", left |-> 0, woken |-> FALSE]

\* mbox_create
Init ==
  /\ cells = [c \in 0..(Depth + MsgSize - 1) |-> [id |-> 0, channel |-> 0, size |-> 0]]
  /\ head = 0 /\ tail = 0 /\ count = 0 /\ total_sent = 0
  /\ reader = [r \in Readers |-> Idle]
  /\ got = Nothing
  /\ spoilt = FALSE

\* mutated WakeAll: nobody is told
WakeNone == reader

\* wake_up_interruptible: every sleeper gets to look again.
WakeAll == [r \in Readers |-> [reader[r] EXCEPT !.woken = (reader[r].at = "asleep")]]

\* mutated Full: the indices are compared, not the count
FullByIndices == Live > Depth

\* mbox_queue_full
Full == count >= Depth

\* mbox_enqueue returns the number of the message as an int.
Negative(id) == 2 * id >= IndexModulus

\* mbox_enqueue, from mbox_write.  Its error codes are positive numbers, so that a
\* refused message also wakes the readers and mbox_write reports it as written; but a
\* message whose number reads as a negative one wakes nobody.
Send(channel, payload) ==
  /\ \/ /\ Full
        /\ reader' = WakeAll
        /\ UNCHANGED queue_vars
     \/ /\ ~Full
        /\ reader' = IF Negative(Wrap(total_sent + 1)) THEN reader ELSE WakeAll
        /\ cells' = FillEntry(EntryAt(head),
                      [id |-> Wrap(total_sent + 1), channel |-> channel,
                       size |-> StoredSize(Len(payload))],
                      payload)
        /\ head' = Wrap(head + 1)
        /\ count' = Wrap(count + 1)
        /\ total_sent' = Wrap(total_sent + 1)
        /\ spoilt' = (spoilt \/ Hit(Len(payload)) # {})
        /\ UNCHANGED tail
  /\ got' = Nothing

\* ioctl MBOX_IOC_FLUSH
Flush ==
  /\ head' = 0 /\ tail' = 0 /\ count' = 0
  /\ spoilt' = FALSE
  /\ got' = Nothing
  /\ UNCHANGED <<cells, total_sent, reader>>

-----------------------------------------------------------------------------
\* A reader enters mbox_dequeue, from mbox_read or ioctl MBOX_IOC_RECV.
Call(r, c) ==
  /\ reader[r].at = "idle"
  /\ reader' = [reader EXCEPT ![r] =
       [at |-> "scan", mask |-> c.mask, patience |-> c.patience,
        left |-> IF c.patience = "timed" THEN WaitLimit ELSE 0, woken |-> FALSE]]
  /\ got' = Nothing
  /\ UNCHANGED queue_vars

\* The messages a reader asked for, by their place from the oldest on.
Matching(r) == {k \in 0..(Live - 1) : k < Depth /\ HeaderOf(k).channel \in reader[r].mask}

\* mutated TailAfter: what was passed over stays, what was read is read again
TailAfterStays(k) == IF k = 0 THEN Wrap(tail + 1) ELSE tail

\* The tail moves behind the message taken, past those in front of it.
TailAfter(k) == Wrap(tail + k + 1)

\* The locked part of the loop in mbox_dequeue, when there is a message.
Take(r) ==
  /\ reader[r].at = "scan"
  /\ \E k \in Matching(r) :
       /\ \A j \in Matching(r) : k <= j
       /\ got' = HeaderOf(k)
       /\ tail' = TailAfter(k)
       /\ spoilt' = (spoilt /\ tail' # head)
  /\ count' = Wrap(count - 1)
  /\ reader' = [reader EXCEPT ![r] = Idle]
  /\ UNCHANGED <<cells, head, total_sent>>

TimeIsNeverUp(r) == FALSE   \* mutated TimeIsUp: the deadline is not looked at
TimeIsUp(r) == reader[r].patience = "timed" /\ reader[r].left = 0

\* The same when there is none: the reader gives up or goes on to wait.
FindNothing(r) ==
  /\ reader[r].at = "scan" /\ Matching(r) = {}
  /\ reader' = [reader EXCEPT ![r] =
       IF reader[r].patience = "none" \/ TimeIsUp(r) THEN Idle
       ELSE [reader[r] EXCEPT !.at = "waiting"]]
  /\ got' = Nothing
  /\ UNCHANGED queue_vars

\* wait_event_interruptible_timeout: the count is looked at, without the lock, before
\* the reader sleeps and whenever it was woken.
Wait(r) ==
  /\ \/ reader[r].at = "waiting"
     \/ reader[r].at = "asleep" /\ reader[r].woken
  /\ reader' = [reader EXCEPT ![r].at = IF count # 0 THEN "scan" ELSE "asleep",
                              ![r].woken = FALSE]
  /\ got' = Nothing
  /\ UNCHANGED queue_vars

\* The slice of at most 100 ms is over.  Without a message the whole call ends, whatever
\* time the reader has left; for a reader that waits forever the slice is computed from
\* an uninitialised variable and may be any length.
SliceOver(r) ==
  /\ reader[r].at = "asleep"
  /\ reader' = [reader EXCEPT ![r] =
       IF count # 0 THEN [reader[r] EXCEPT !.at = "scan", !.woken = FALSE] ELSE Idle]
  /\ got' = Nothing
  /\ UNCHANGED queue_vars

\* A signal ends the sleep and the call.
Signal(r) ==
  /\ reader[r].at = "asleep" /\ count = 0
  /\ reader' = [reader EXCEPT ![r] = Idle]
  /\ got' = Nothing
  /\ UNCHANGED queue_vars

\* Time passes for a timed reader.
Tick(r) ==
  /\ reader[r].at # "idle" /\ reader[r].left > 0
  /\ reader' = [reader EXCEPT ![r].left = @ - 1]
  /\ got' = Nothing
  /\ UNCHANGED queue_vars

Step(r) == Take(r) \/ FindNothing(r) \/ Wait(r)

Next ==
  \/ \E channel \in Channels, payload \in Payloads : Send(channel, payload)
  \/ Flush
  \/ \E r \in Readers :
       (\E c \in Calls[r] : Call(r, c)) \/ Step(r) \/ SliceOver(r) \/ Signal(r) \/ Tick(r)

Spec == Init /\ [][Next]_vars

\* A reader in the kernel runs on, the clock advances, and a slice of a timed reader ends.
Fairness ==
  \A r \in Readers :
    /\ WF_vars(Step(r)) /\ WF_vars(Tick(r))
    /\ WF_vars(reader[r].patience = "timed" /\ SliceOver(r))

FairSpec == Spec /\ Fairness

-----------------------------------------------------------------------------
\* Fields keep their types; every index and the count stay 32-bit values although flushes
\* and failed calls come in between.
TypeOK ==
  /\ head \in Indices /\ tail \in Indices /\ count \in Indices /\ total_sent \in Indices
  /\ cells \in [0..(Depth + MsgSize - 1) -> Units]
  /\ reader \in [Readers -> ReaderStates]

\* The count never says less than what is queued, and never more than fits, although a
\* read that passes messages over takes only one off the count.
CountCoversQueue == Live <= count /\ count <= Depth

\* The ring and its indices behave as the queue MailboxQueue describes: no header is
\* lost, doubled, reordered or altered by index wrap-around, flushes and readers of
\* different channels.  A queued header is written over only by a payload that goes round
\* to it, or by the message behind it when the indices wrapped between the two at a
\* number that the depth does not divide.
Queue == INSTANCE MailboxQueue
  WITH Ids <- Indices, Lengths <- 0..MsgSize,
       Masks <- {c.mask : c \in UNION {Calls[r] : r \in Readers}},
       queue <- [i \in 1..Live |-> HeaderOf(i - 1)],
       lost <- count - Live,
       place <- head

QueueSpec == Queue!Spec

\* No reader sleeps through a message: whoever is asleep while the count is not zero has
\* been woken, though the count is read outside the lock.  The one exception is a message
\* numbered 2^31 or more (mbox_kern.c:224), which the end of the slice has to make up for.
NoSleepOverMessage ==
  \A r \in Readers :
    reader[r].at = "asleep" /\ count # 0 => reader[r].woken \/ Negative(total_sent)

\* A reader with a timeout returns, even when messages on other channels keep the count
\* above zero for good and it never sleeps.
TimedReaderReturns ==
  \A r \in Readers : (reader[r].patience = "timed") ~> (reader[r].at = "idle")

-----------------------------------------------------------------------------
\* docs/03_shared_memory.md:31-46: each entry is a header with its payload, the next
\* entry lies behind them.  Sending a message changes none that is queued.
MessageOf(k) ==
  [header |-> HeaderOf(k),
   payload |-> [i \in 1..HeaderOf(k).size |-> cells[EntryAt(Wrap(tail + k)) + i]]]

SendKeepsOthers ==
  [][head' = Wrap(head + 1) /\ tail' = tail
     => \A k \in 0..(Live - 1) : MessageOf(k)' = MessageOf(k)]_vars
=============================================================================
