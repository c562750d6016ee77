--------------------------- MODULE MailboxProofs ---------------------------
(***************************************************************************)
(* What holds of a mailbox for every depth, index width, set of readers    *)
(* and set of messages: its types, the count that keeps queued messages    *)
(* from being overwritten, and that nobody sleeps through a message.       *)
(***************************************************************************)
EXTENDS Mailbox, TLAPS

-----------------------------------------------------------------------------
\* Arithmetic modulo IndexModulus.
LEMMA WrapRange == \A n \in Int : Wrap(n) \in Indices
  BY MailboxAssumption DEF Wrap, Indices

LEMMA WrapBelow == \A n \in Int : 0 <= n /\ n < IndexModulus => Wrap(n) = n
  BY MailboxAssumption DEF Wrap

LEMMA WrapAbove ==
  \A n \in Int : IndexModulus <= n /\ n < 2 * IndexModulus => Wrap(n) = n - IndexModulus
  BY MailboxAssumption DEF Wrap

LEMMA WrapNegative ==
  \A n \in Int : 0 - IndexModulus <= n /\ n < 0 => Wrap(n) = n + IndexModulus
  BY MailboxAssumption DEF Wrap

\* Moving the head one on makes the distance one larger, unless it comes round.
LEMMA DistanceGrows ==
  ASSUME NEW h \in Indices, NEW t \in Indices, Wrap(h - t) + 1 < IndexModulus
  PROVE  Wrap(Wrap(h + 1) - t) = Wrap(h - t) + 1
<1>1. IndexModulus \in Nat /\ IndexModulus >= 1
  BY MailboxAssumption
<1>2. h \in Int /\ t \in Int /\ 0 <= h /\ h < IndexModulus /\ 0 <= t /\ t < IndexModulus
  BY <1>1 DEF Indices
<1>3. Wrap(h - t) = IF h >= t THEN h - t ELSE h - t + IndexModulus
  BY <1>1, <1>2, WrapBelow, WrapNegative
<1>4. Wrap(h + 1) = IF h + 1 < IndexModulus THEN h + 1 ELSE 0
  BY <1>1, <1>2, WrapBelow, WrapAbove
<1>5. CASE h + 1 < IndexModulus
  BY <1>1, <1>2, <1>3, <1>4, <1>5, WrapBelow, WrapNegative
<1>6. CASE h + 1 = IndexModulus
  BY <1>1, <1>2, <1>3, <1>4, <1>6, WrapBelow, WrapNegative
<1>7. QED
  BY <1>1, <1>2, <1>5, <1>6

\* Moving the tail up to the head makes the distance smaller by as much.
LEMMA DistanceShrinks ==
  ASSUME NEW h \in Indices, NEW t \in Indices, NEW n \in Nat, n <= Wrap(h - t)
  PROVE  Wrap(h - Wrap(t + n)) = Wrap(h - t) - n
<1>1. IndexModulus \in Nat /\ IndexModulus >= 1
  BY MailboxAssumption
<1>2. h \in Int /\ t \in Int /\ 0 <= h /\ h < IndexModulus /\ 0 <= t /\ t < IndexModulus
  BY <1>1 DEF Indices
<1>3. Wrap(h - t) = IF h >= t THEN h - t ELSE h - t + IndexModulus
  BY <1>1, <1>2, WrapBelow, WrapNegative
<1>4. n < IndexModulus
  BY <1>1, <1>2, <1>3
<1>5. Wrap(t + n) = IF t + n < IndexModulus THEN t + n ELSE t + n - IndexModulus
  BY <1>1, <1>2, <1>4, WrapBelow, WrapAbove
<1>6. CASE t + n < IndexModulus
  BY <1>1, <1>2, <1>3, <1>5, <1>6, WrapBelow, WrapNegative
<1>7. CASE t + n >= IndexModulus
  BY <1>1, <1>2, <1>3, <1>4, <1>5, <1>7, WrapBelow, WrapNegative
<1>8. QED
  BY <1>1, <1>2, <1>6, <1>7

-----------------------------------------------------------------------------
IInv == TypeOK /\ CountCoversQueue /\ NoSleepOverMessage

LEMMA Constants ==
  /\ Depth \in Nat /\ Depth >= 2 /\ MsgSize \in Nat
  /\ IndexModulus \in Nat /\ IndexModulus >= 2 * Depth /\ SizeModulus \in Nat \ {0}
  /\ 0 \in Indices /\ 0 \in Channels /\ WaitLimit \in Nat
  BY MailboxAssumption DEF Indices

LEMMA IndexType == ASSUME NEW n \in Indices PROVE n \in Int /\ 0 <= n /\ n < IndexModulus
  BY Constants DEF Indices

LEMMA SizeType == ASSUME NEW n \in Nat PROVE StoredSize(n) \in Nat
  BY Constants DEF StoredSize

LEMMA IdleType == Idle \in ReaderStates
  BY Constants DEF Idle, ReaderStates

LEMMA LiveType == ASSUME TypeOK PROVE Live \in Nat /\ Live < IndexModulus
  BY WrapRange, IndexType, Constants, SMTT(30) DEF TypeOK, Live, Indices

LEMMA InitInv == Init => IInv
<1>1. SUFFICES ASSUME Init PROVE IInv
  OBVIOUS
<1>2. [id |-> 0, channel |-> 0, size |-> 0] \in Units
  BY Constants DEF Units
<1>3. TypeOK
  BY <1>1, <1>2, Constants, IdleType DEF Init, TypeOK
<1>4. Live = 0
  BY <1>1, Constants, WrapBelow DEF Init, Live
<1>5. CountCoversQueue
  BY <1>1, <1>4, Constants DEF Init, CountCoversQueue
<1>6. NoSleepOverMessage
  BY <1>1 DEF Init, Idle, NoSleepOverMessage
<1>7. QED
  BY <1>3, <1>5, <1>6 DEF IInv

\* Waking keeps the readers' types and leaves no sleeper unwoken.
LEMMA WakeAllType ==
  ASSUME reader \in [Readers -> ReaderStates]
  PROVE  /\ WakeAll \in [Readers -> ReaderStates]
         /\ \A r \in Readers : WakeAll[r].at = "asleep" => WakeAll[r].woken
  BY DEF WakeAll, ReaderStates

\* A message accepted goes into free memory and is counted.
LEMMA SendKeeps ==
  ASSUME IInv, NEW channel \in Channels, NEW payload \in Payloads, Send(channel, payload)
  PROVE  IInv'
<1>1. reader \in [Readers -> ReaderStates]
  BY DEF IInv, TypeOK
<1>2. reader' \in [Readers -> ReaderStates]
  BY <1>1, WakeAllType DEF Send
<1>3. NoSleepOverMessage'
  <2>1. CASE reader' = WakeAll
    BY <1>1, <2>1, WakeAllType DEF NoSleepOverMessage
  <2>2. CASE reader' # WakeAll
    <3>1. Negative(total_sent')
      BY <2>2 DEF Send
    <3>2. Negative(total_sent)'
      BY <3>1 DEF Negative
    <3>3. QED
      BY <3>2 DEF NoSleepOverMessage
  <2>3. QED
    BY <2>1, <2>2
<1>4. CASE Full
  BY <1>2, <1>3, <1>4 DEF Send, IInv, TypeOK, CountCoversQueue, Live, queue_vars
<1>5. CASE ~Full
  <2> DEFINE header == [id |-> Wrap(total_sent + 1), channel |-> channel,
                        size |-> StoredSize(Len(payload))]
  <2>1. /\ cells' = FillEntry(EntryAt(head), header, payload)
        /\ head' = Wrap(head + 1) /\ tail' = tail
        /\ count' = Wrap(count + 1) /\ total_sent' = Wrap(total_sent + 1)
    BY <1>5 DEF Send
  <2>2. /\ head \in Indices /\ tail \in Indices /\ count \in Indices
        /\ total_sent \in Indices /\ cells \in [0..(Depth + MsgSize - 1) -> Units]
    BY DEF IInv, TypeOK
  <2>3. /\ head' \in Indices /\ tail' \in Indices /\ count' \in Indices
        /\ total_sent' \in Indices
    BY <2>1, <2>2, IndexType, WrapRange
  <2>4. payload \in Seq(Units) /\ Len(payload) \in Nat
    BY MailboxAssumption
  <2>5. header \in Units
    BY <2>2, <2>4, IndexType, WrapRange, SizeType DEF Units
  <2>6. EntryAt(head) \in Int
    BY <2>2, IndexType, Constants DEF EntryAt
  <2> HIDE DEF header
  <2>7. cells' \in [0..(Depth + MsgSize - 1) -> Units]
    BY <2>1, <2>2, <2>4, <2>5, <2>6, Constants DEF FillEntry
  <2>8. TypeOK'
    BY <1>2, <2>3, <2>7 DEF TypeOK
  <2>9. /\ Live \in Nat /\ count \in Int /\ 0 <= count
        /\ Live <= count /\ count < Depth
    BY <1>5, <2>2, LiveType, IndexType, Constants DEF IInv, CountCoversQueue, Full
  <2>10. count' = count + 1
    BY <2>1, <2>9, Constants, WrapBelow
  <2>11. Live' = Live + 1
    BY <2>1, <2>2, <2>9, Constants, DistanceGrows DEF Live
  <2>12. CountCoversQueue'
    BY <2>9, <2>10, <2>11, Constants DEF CountCoversQueue
  <2>13. QED
    BY <1>3, <2>8, <2>12 DEF IInv
<1>6. QED
  BY <1>4, <1>5

LEMMA FlushKeeps == ASSUME IInv, Flush PROVE IInv'
<1>1. TypeOK'
  BY Constants DEF IInv, TypeOK, Flush
<1>2. Live' = 0
  BY Constants, WrapBelow DEF Flush, Live
<1>3. CountCoversQueue'
  BY <1>2, Constants DEF Flush, CountCoversQueue
<1>4. NoSleepOverMessage'
  BY DEF Flush, NoSleepOverMessage
<1>5. QED
  BY <1>1, <1>3, <1>4 DEF IInv

\* A message taken was queued, so the count was not zero.
LEMMA TakeKeeps ==
  ASSUME IInv, NEW r \in Readers, Take(r)
  PROVE  IInv'
<1>1. PICK k \in Matching(r) : tail' = TailAfter(k)
  BY DEF Take
<1>2. /\ head \in Indices /\ tail \in Indices /\ count \in Indices
      /\ reader \in [Readers -> ReaderStates]
  BY DEF IInv, TypeOK
<1>3. Live \in Nat /\ Live <= count /\ count <= Depth
  BY LiveType DEF IInv, CountCoversQueue
<1>4. k \in Nat /\ k + 1 \in Nat /\ k + 1 <= Live
  BY <1>1, <1>3 DEF Matching
<1>5. tail' = Wrap(tail + (k + 1)) /\ head' = head /\ count' = Wrap(count - 1)
  BY <1>1, <1>2, <1>4, IndexType DEF TailAfter, Take
<1>6. Live' = Live - (k + 1)
  BY <1>2, <1>4, <1>5, DistanceShrinks DEF Live
<1>7. count \in Int /\ count < IndexModulus
  BY <1>2, IndexType
<1>8. count' = count - 1
  BY <1>3, <1>4, <1>5, <1>7, Constants, WrapBelow
<1>9. CountCoversQueue'
  BY <1>3, <1>4, <1>6, <1>7, <1>8, Constants DEF CountCoversQueue
<1>10. reader' = [reader EXCEPT ![r] = Idle]
  BY DEF Take
<1>11. TypeOK'
  <2>1. tail' \in Indices /\ count' \in Indices /\ head' \in Indices
    BY <1>2, <1>4, <1>5, <1>7, IndexType, WrapRange
  <2>2. reader' \in [Readers -> ReaderStates]
    BY <1>2, <1>10, IdleType
  <2>3. QED
    BY <2>1, <2>2 DEF Take, IInv, TypeOK
<1>12. NoSleepOverMessage'
  <2>1. ASSUME NEW q \in Readers, reader'[q].at = "asleep"
        PROVE  (reader[q].woken \/ Negative(total_sent)) /\ q # r
    <3>1. q # r
      BY <1>2, <1>10, <2>1 DEF Idle
    <3>2. reader[q].at = "asleep"
      BY <1>2, <1>10, <2>1, <3>1
    <3>3. count # 0
      BY <1>3, <1>4, <1>7
    <3>4. QED
      BY <3>1, <3>2, <3>3 DEF IInv, NoSleepOverMessage
  <2>2. Negative(total_sent) => Negative(total_sent)'
    BY DEF Take, Negative
  <2>3. QED
    BY <1>2, <1>10, <2>1, <2>2 DEF NoSleepOverMessage
<1>13. QED
  BY <1>9, <1>11, <1>12 DEF IInv

\* What a step of one reader does to the invariant depends on that reader only.
LEMMA ReaderMoves ==
  ASSUME IInv, NEW r \in Readers, NEW s \in ReaderStates,
         reader' = [reader EXCEPT ![r] = s], UNCHANGED queue_vars,
         s.at = "asleep" /\ count # 0 => s.woken \/ Negative(total_sent)
  PROVE  IInv'
<1>1. reader \in [Readers -> ReaderStates]
  BY DEF IInv, TypeOK
<1>2. reader' \in [Readers -> ReaderStates]
  BY <1>1
<1>3. TypeOK' /\ CountCoversQueue'
  BY <1>2 DEF IInv, TypeOK, CountCoversQueue, Live, queue_vars
<1>4. \A q \in Readers : reader'[q] = IF q = r THEN s ELSE reader[q]
  BY <1>1
<1>5. NoSleepOverMessage'
  <2>1. Negative(total_sent) => Negative(total_sent)'
    BY DEF Negative, queue_vars
  <2>2. QED
    BY <1>4, <2>1 DEF IInv, NoSleepOverMessage, queue_vars
<1>6. QED
  BY <1>3, <1>5 DEF IInv

LEMMA CallKeeps == ASSUME IInv, NEW r \in Readers, NEW c \in Calls[r], Call(r, c) PROVE IInv'
<1> DEFINE s == [at |-> "scan", mask |-> c.mask, patience |-> c.patience,
                 left |-> IF c.patience = "timed" THEN WaitLimit ELSE 0, woken |-> FALSE]
<1>1. s \in ReaderStates
  BY MailboxAssumption DEF ReaderStates
<1>2. reader' = [reader EXCEPT ![r] = s] /\ UNCHANGED queue_vars
  BY DEF Call
<1>3. s.at # "asleep"
  OBVIOUS
<1> HIDE DEF s
<1>4. QED
  BY <1>1, <1>2, <1>3, ReaderMoves

LEMMA FindNothingKeeps == ASSUME IInv, NEW r \in Readers, FindNothing(r) PROVE IInv'
<1> DEFINE s == IF reader[r].patience = "none" \/ TimeIsUp(r) THEN Idle
                ELSE [reader[r] EXCEPT !.at = "waiting"]
<1>1. reader[r] \in ReaderStates
  BY DEF IInv, TypeOK
<1>2. s \in ReaderStates /\ s.at # "asleep"
  BY <1>1, IdleType DEF ReaderStates, Idle
<1>3. reader' = [reader EXCEPT ![r] = s] /\ UNCHANGED queue_vars
  BY DEF FindNothing
<1> HIDE DEF s
<1>4. QED
  BY <1>2, <1>3, ReaderMoves

\* Falling asleep and looking at the count are one step.
LEMMA WaitKeeps == ASSUME IInv, NEW r \in Readers, Wait(r) PROVE IInv'
<1> DEFINE s == [reader[r] EXCEPT !.at = IF count # 0 THEN "scan" ELSE "asleep",
                                  !.woken = FALSE]
<1>1. reader[r] \in ReaderStates /\ reader \in [Readers -> ReaderStates]
  BY DEF IInv, TypeOK
<1>2. s \in ReaderStates
  BY <1>1 DEF ReaderStates
<1>3. s.at = "asleep" /\ count # 0 => s.woken
  BY <1>1 DEF ReaderStates
<1>4. reader' = [reader EXCEPT ![r] = s] /\ UNCHANGED queue_vars
  BY <1>1 DEF Wait
<1> HIDE DEF s
<1>5. QED
  BY <1>2, <1>3, <1>4, ReaderMoves

LEMMA SliceOverKeeps == ASSUME IInv, NEW r \in Readers, SliceOver(r) PROVE IInv'
<1> DEFINE s == IF count # 0 THEN [reader[r] EXCEPT !.at = "scan", !.woken = FALSE] ELSE Idle
<1>1. reader[r] \in ReaderStates
  BY DEF IInv, TypeOK
<1>2. s \in ReaderStates /\ s.at # "asleep"
  BY <1>1, IdleType DEF ReaderStates, Idle
<1>3. reader' = [reader EXCEPT ![r] = s] /\ UNCHANGED queue_vars
  BY DEF SliceOver
<1> HIDE DEF s
<1>4. QED
  BY <1>2, <1>3, ReaderMoves

LEMMA SignalKeeps == ASSUME IInv, NEW r \in Readers, Signal(r) PROVE IInv'
<1>1. reader' = [reader EXCEPT ![r] = Idle] /\ UNCHANGED queue_vars
  BY DEF Signal
<1>2. Idle.at # "asleep"
  BY DEF Idle
<1>3. QED
  BY <1>1, <1>2, IdleType, ReaderMoves

LEMMA TickKeeps == ASSUME IInv, NEW r \in Readers, Tick(r) PROVE IInv'
<1> DEFINE s == [reader[r] EXCEPT !.left = @ - 1]
<1>1. reader[r] \in ReaderStates /\ reader \in [Readers -> ReaderStates]
  BY DEF IInv, TypeOK
<1>2. s \in ReaderStates
  BY <1>1, Constants DEF ReaderStates, Tick
<1>3. s.at = "asleep" /\ count # 0 => s.woken \/ Negative(total_sent)
  BY <1>1 DEF IInv, NoSleepOverMessage, ReaderStates
<1>4. reader' = [reader EXCEPT ![r] = s] /\ UNCHANGED queue_vars
  BY <1>1 DEF Tick
<1> HIDE DEF s
<1>5. QED
  BY <1>2, <1>3, <1>4, ReaderMoves

LEMMA NextInv == IInv /\ [Next]_vars => IInv'
<1>1. SUFFICES ASSUME IInv, [Next]_vars PROVE IInv'
  OBVIOUS
<1>2. ASSUME NEW channel \in Channels, NEW payload \in Payloads, Send(channel, payload)
      PROVE  IInv'
  BY <1>1, <1>2, SendKeeps
<1>3. CASE Flush
  BY <1>1, <1>3, FlushKeeps
<1>4. ASSUME NEW r \in Readers,
             (\E c \in Calls[r] : Call(r, c)) \/ Step(r) \/ SliceOver(r) \/ Signal(r) \/ Tick(r)
      PROVE  IInv'
  BY <1>1, <1>4, CallKeeps, TakeKeeps, FindNothingKeeps, WaitKeeps, SliceOverKeeps,
     SignalKeeps, TickKeeps DEF Step
<1>5. CASE UNCHANGED vars
  BY <1>1, <1>5
     DEF vars, queue_vars, IInv, TypeOK, CountCoversQueue, NoSleepOverMessage, Live
<1>6. QED
  BY <1>1, <1>2, <1>3, <1>4, <1>5 DEF Next

-----------------------------------------------------------------------------
\* Entries are indices modulo Depth.  With a depth that does not divide the modulus of the
\* indices themselves they jump when an index wraps.
DepthDivides == \E m \in Nat : IndexModulus = Depth * m

LEMMA Distributes ==
  ASSUME NEW a \in Int, NEW b \in Int, NEW c \in Int PROVE a * (b - c) = (a * b) - (a * c)
  OBVIOUS

LEMMA NotDivided == ~DepthDivides => IndexModulus % Depth # 0
<1>1. SUFFICES ASSUME IndexModulus % Depth = 0 PROVE DepthDivides
  OBVIOUS
<1>2. /\ IndexModulus = (Depth * (IndexModulus \div Depth)) + (IndexModulus % Depth)
      /\ IndexModulus \div Depth \in Nat
  BY Constants
<1>3. IndexModulus = Depth * (IndexModulus \div Depth)
  BY <1>1, <1>2, Constants
<1> QED BY <1>2, <1>3 DEF DepthDivides

LEMMA EntryQuotient ==
  ASSUME NEW x \in Int
  PROVE  \E q \in Int, e \in Int : x = (Depth * q) + e /\ 0 <= e /\ e < Depth /\ EntryAt(x) = e
<1>1. /\ x = (Depth * (x \div Depth)) + (x % Depth)
      /\ x % Depth \in 0..(Depth - 1) /\ x \div Depth \in Int
  BY Constants
<1> DEFINE q == x \div Depth
           e == x % Depth
<1>2. q \in Int /\ e \in Int /\ x = (Depth * q) + e /\ 0 <= e /\ e < Depth
  BY <1>1, Constants
<1>3. EntryAt(x) = e
  BY DEF EntryAt
<1> HIDE DEF q, e
<1>4. QED
  BY <1>2, <1>3

LEMMA EntryUnique ==
  ASSUME NEW x \in Nat, NEW q \in Int, NEW e \in Int, 0 <= e, e < Depth, x = (Depth * q) + e
  PROVE  EntryAt(x) = e
  BY Constants DEF EntryAt

\* An index that wrapped keeps its entry.
LEMMA EntryOfWrapped ==
  ASSUME DepthDivides, NEW x \in Nat, x < 2 * IndexModulus
  PROVE  EntryAt(Wrap(x)) = EntryAt(x)
<1>1. PICK m \in Nat : IndexModulus = Depth * m
  BY DEF DepthDivides
<1>2. CASE x < IndexModulus
  BY <1>2, WrapBelow
<1>3. CASE x >= IndexModulus
  <2>1. PICK q \in Int, e \in Int : x = (Depth * q) + e /\ 0 <= e /\ e < Depth /\ EntryAt(x) = e
    BY EntryQuotient
  <2>2. Depth * (q - m) = (Depth * q) - (Depth * m)
    BY Constants, Distributes
  <2>3. Wrap(x) = x - IndexModulus /\ Wrap(x) \in Nat
    BY <1>3, Constants, WrapAbove
  <2>4. Wrap(x) = (Depth * (q - m)) + e
    BY <1>1, <2>1, <2>2, <2>3, Constants
  <2>5. EntryAt(Wrap(x)) = e
    BY <2>1, <2>3, <2>4, EntryUnique
  <2>6. QED
    BY <2>1, <2>5
<1>4. QED
  BY <1>2, <1>3, Constants

LEMMA NoMultipleBetween ==
  ASSUME NEW k \in Int, 0 < Depth * k, Depth * k < Depth PROVE FALSE
<1>1. CASE k <= 0
  <2>1. Depth * k <= 0
    BY <1>1, Constants
  <2>2. QED
    BY <2>1, Constants
<1>2. CASE k >= 1
  <2>1. Depth * k >= Depth
    BY <1>2, Constants
  <2>2. QED
    BY <2>1, Constants
<1>3. QED
  BY <1>1, <1>2

\* The head is as far ahead of the tail as there are messages.
LEMMA HeadFollowsTail == ASSUME TypeOK PROVE head = Wrap(tail + Live)
<1>1. IndexModulus \in Nat /\ IndexModulus >= 1
  BY Constants
<1>2. /\ head \in Int /\ 0 <= head /\ head < IndexModulus
      /\ tail \in Int /\ 0 <= tail /\ tail < IndexModulus
  BY IndexType DEF TypeOK
<1>3. Live = IF head >= tail THEN head - tail ELSE head - tail + IndexModulus
  BY <1>1, <1>2, WrapBelow, WrapNegative DEF Live
<1>4. QED
  BY <1>1, <1>2, <1>3, WrapBelow, WrapAbove

\* A queue the indices of which did not wrap, or wrapped at a multiple of the depth.
Aligned == DepthDivides \/ Live <= head

LEMMA EntryAhead ==
  ASSUME TypeOK, Aligned, NEW k \in Nat, k <= Live
  PROVE  tail + k \in Nat /\ EntryAt(Wrap(tail + k)) = EntryAt(tail + k)
<1>1. /\ IndexModulus \in Nat /\ tail \in Nat /\ tail < IndexModulus
      /\ Live \in Nat /\ Live < IndexModulus /\ head \in Int
  BY LiveType, IndexType, Constants DEF TypeOK
<1>2. tail + k \in Nat /\ tail + k < 2 * IndexModulus
  BY <1>1
<1>3. CASE DepthDivides
  BY <1>2, <1>3, EntryOfWrapped
<1>4. CASE Live <= head
  <2>1. CASE tail + Live < IndexModulus
    BY <1>1, <1>2, <2>1, WrapBelow
  <2>2. CASE tail + Live >= IndexModulus
    <3>1. head = (tail + Live) - IndexModulus
      BY <1>1, <2>2, HeadFollowsTail, WrapAbove
    <3> QED BY <1>1, <1>4, <3>1
  <2> QED BY <1>1, <2>1, <2>2
<1> QED BY <1>2, <1>3, <1>4 DEF Aligned

-----------------------------------------------------------------------------
LEMMA Invariance == Spec => []IInv
  BY InitInv, NextInv, PTL DEF Spec

\* Every field of mbox_queue, every entry and every reader keeps its type.
THEOREM TypeCorrect == Spec => []TypeOK
<1>1. IInv => TypeOK
  BY DEF IInv
<1>2. QED
  BY Invariance, <1>1, PTL

\* The count covers what is queued and never exceeds the depth, whatever the readers pass
\* over.
THEOREM CountIsEnough == Spec => []CountCoversQueue
<1>1. IInv => CountCoversQueue
  BY DEF IInv
<1>2. QED
  BY Invariance, <1>1, PTL

\* No wake-up is lost between mbox_enqueue and the wait of mbox_dequeue.
THEOREM NobodyOversleeps == Spec => []NoSleepOverMessage
<1>1. IInv => NoSleepOverMessage
  BY DEF IInv
<1>2. QED
  BY Invariance, <1>1, PTL
-----------------------------------------------------------------------------
\* The refinement.  What the abstract queue holds, as MailboxQueue sees it.
Held == [i \in 1..Live |-> HeaderOf(i - 1)]

\* A reader in mbox_dequeue still asks for what one of its calls asked for.
Asks(r) == reader[r].at # "idle" => \E c \in Calls[r] : reader[r].mask = c.mask

AsksInv == \A r \in Readers : Asks(r)

LEMMA SpoiltType == ASSUME spoilt \in BOOLEAN, [Next]_vars PROVE spoilt' \in BOOLEAN
BY DEF Next, Send, Flush, Step, Call, Take, FindNothing, Wait, SliceOver, Signal, Tick,
   queue_vars, vars

LEMMA AsksNext == ASSUME IInv, AsksInv, [Next]_vars PROVE AsksInv'
<1>1. reader \in [Readers -> ReaderStates]
  BY DEF IInv, TypeOK
<1>2. ASSUME reader' \in {reader, WakeAll} PROVE AsksInv'
  <2>1. \A r \in Readers : reader'[r].at = reader[r].at /\ reader'[r].mask = reader[r].mask
    BY <1>1, <1>2 DEF WakeAll, ReaderStates
  <2> QED BY <2>1 DEF AsksInv, Asks
<1>3. ASSUME NEW r \in Readers, NEW s, reader' = [reader EXCEPT ![r] = s],
             s.at # "idle" => s.mask = reader[r].mask /\ reader[r].at # "idle"
      PROVE  AsksInv'
  <2>1. \A q \in Readers : reader'[q] = IF q = r THEN s ELSE reader[q]
    BY <1>1, <1>3
  <2> QED BY <1>3, <2>1 DEF AsksInv, Asks
<1>4. ASSUME NEW channel \in Channels, NEW payload \in Payloads, Send(channel, payload)
      PROVE  AsksInv'
  BY <1>2, <1>4 DEF Send
<1>5. CASE Flush
  BY <1>2, <1>5 DEF Flush
<1>6. ASSUME NEW r \in Readers, NEW c \in Calls[r], Call(r, c) PROVE AsksInv'
  <2>1. \A q \in Readers : q # r => reader'[q] = reader[q]
    BY <1>1, <1>6 DEF Call
  <2>2. reader'[r].mask = c.mask
    BY <1>1, <1>6 DEF Call
  <2> QED BY <1>6, <2>1, <2>2 DEF AsksInv, Asks
<1>7. Idle.at = "idle"
  BY DEF Idle
<1>8. ASSUME NEW r \in Readers, Take(r) \/ Signal(r) PROVE AsksInv'
  BY <1>3, <1>7, <1>8 DEF Take, Signal
<1>9. ASSUME NEW r \in Readers, FindNothing(r) \/ Wait(r) \/ SliceOver(r) \/ Tick(r)
      PROVE  AsksInv'
  <2> DEFINE waits == [reader[r] EXCEPT !.at = "waiting"]
             looks == [reader[r] EXCEPT !.at = IF count # 0 THEN "scan" ELSE "asleep",
                                        !.woken = FALSE]
             scans == [reader[r] EXCEPT !.at = "scan", !.woken = FALSE]
             ticks == [reader[r] EXCEPT !.left = @ - 1]
  <2>1. reader[r].at # "idle"
    BY <1>9 DEF FindNothing, Wait, SliceOver, Tick
  <2>2. \A s \in {waits, looks, scans, ticks} : s.mask = reader[r].mask
    BY <1>1 DEF ReaderStates
  <2>3. \E s \in {Idle, waits, looks, scans, ticks} : reader' = [reader EXCEPT ![r] = s]
    <3>1. FindNothing(r) => reader' = [reader EXCEPT ![r] = Idle]
                              \/ reader' = [reader EXCEPT ![r] = waits]
      BY DEF FindNothing
    <3>2. Wait(r) => reader' = [reader EXCEPT ![r] = looks]
      BY <1>1 DEF Wait
    <3>3. SliceOver(r) => reader' = [reader EXCEPT ![r] = Idle]
                            \/ reader' = [reader EXCEPT ![r] = scans]
      BY DEF SliceOver
    <3>4. Tick(r) => reader' = [reader EXCEPT ![r] = ticks]
      BY <1>1 DEF Tick
    <3> QED BY <1>9, <3>1, <3>2, <3>3, <3>4
  <2> HIDE DEF waits, looks, scans, ticks
  <2> QED BY <1>3, <1>7, <2>1, <2>2, <2>3
<1>10. CASE UNCHANGED vars
  BY <1>2, <1>10 DEF vars
<1> QED BY <1>4, <1>5, <1>6, <1>8, <1>9, <1>10 DEF Next, Step

-----------------------------------------------------------------------------
\* Positions counted on from a position that wrapped.
LEMMA WrapAdds ==
  ASSUME NEW x \in Nat, NEW y \in Nat, x + y < 2 * IndexModulus
  PROVE  Wrap(Wrap(x) + y) = Wrap(x + y)
<1>1. IndexModulus \in Nat /\ IndexModulus >= 1
  BY Constants
<1>2. CASE x < IndexModulus
  BY <1>2, WrapBelow
<1>3. CASE x >= IndexModulus
  <2>1. Wrap(x) = x - IndexModulus
    BY <1>1, <1>3, WrapAbove
  <2>2. Wrap(x + y) = x + y - IndexModulus
    BY <1>1, <1>3, WrapAbove
  <2>3. Wrap(x - IndexModulus + y) = x - IndexModulus + y
    BY <1>1, <1>3, WrapBelow
  <2> QED BY <1>1, <2>1, <2>2, <2>3
<1> QED BY <1>1, <1>2, <1>3

\* The entry behind the queue and those that a payload reaches from there are those of no
\* queued message while messages and payload are together shorter than the ring.
LEMMA PayloadMissesQueue ==
  ASSUME NEW x \in Nat, NEW live \in Nat, NEW k \in Nat, k < live, NEW n \in Nat,
         live + n < Depth, NEW j \in 0..n
  PROVE  EntryAt(x + k) # EntryAt(x + live) + j
<1>0. x + k \in Int /\ x + live \in Int
  OBVIOUS
<1>1. PICK q \in Int, e \in Int :
        x + k = (Depth * q) + e /\ 0 <= e /\ e < Depth /\ EntryAt(x + k) = e
  BY <1>0, EntryQuotient
<1>2. PICK p \in Int, f \in Int :
        x + live = (Depth * p) + f /\ 0 <= f /\ f < Depth /\ EntryAt(x + live) = f
  BY <1>0, EntryQuotient
<1>3. SUFFICES ASSUME e = f + j PROVE FALSE
  BY <1>1, <1>2
<1>4. Depth * (p - q) = (Depth * p) - (Depth * q)
  BY Constants, Distributes
<1>5. Depth * (p - q) = live - k + j
  BY <1>1, <1>2, <1>3, <1>4, Constants
<1> QED BY <1>5, Constants, NoMultipleBetween

\* A message falls on no other unless its payload comes round or the entries jumped.
LEMMA HitsOnlyThen ==
  ASSUME TypeOK, Aligned, NEW n \in Nat, Live + n < Depth
  PROVE  Hit(n) = {}
<1>1. SUFFICES ASSUME NEW k \in 0..(Live - 1), EntryAt(Wrap(tail + k)) - EntryAt(head) \in 0..n
               PROVE  FALSE
  BY DEF Hit
<1>2. PICK L \in Nat : L = Live
  BY LiveType
<1>3. k \in Nat /\ k < L /\ k <= Live /\ tail \in Nat /\ head \in Int /\ L + n < Depth
  BY <1>1, <1>2, IndexType DEF TypeOK
<1>4. EntryAt(Wrap(tail + k)) = EntryAt(tail + k) /\ tail + k \in Nat
  BY <1>3, EntryAhead
<1>5. EntryAt(head) = EntryAt(tail + L) /\ tail + L \in Nat
  BY <1>2, EntryAhead, HeadFollowsTail
<1>6. EntryAt(tail + k) \in Int /\ EntryAt(tail + L) \in Int
  BY <1>4, <1>5, Constants DEF EntryAt
<1>7. PICK j \in 0..n : EntryAt(tail + k) - EntryAt(tail + L) = j
  BY <1>1, <1>4, <1>5
<1>8. EntryAt(tail + k) = EntryAt(tail + L) + j
  BY <1>6, <1>7
<1> QED BY <1>2, <1>3, <1>8, PayloadMissesQueue

\* A message that is accepted is appended, unless it falls on one that is queued.
LEMMA SendAppends ==
  ASSUME IInv, NEW channel \in Channels, NEW payload \in Payloads,
         Send(channel, payload), ~Full, Hit(Len(payload)) = {}
  PROVE  Held' = Append(Held, [id |-> Wrap(total_sent + 1), channel |-> channel,
                               size |-> StoredSize(Len(payload))])
<1> DEFINE header == [id |-> Wrap(total_sent + 1), channel |-> channel,
                      size |-> StoredSize(Len(payload))]
<1>0. PICK L : L = Live
  OBVIOUS
<1>1. /\ L \in Nat /\ L < Depth /\ Len(payload) \in Nat
      /\ tail \in Nat /\ tail < IndexModulus /\ head \in Nat
      /\ cells = [c \in 0..(Depth + MsgSize - 1) |-> cells[c]]
      /\ head \in Indices /\ tail \in Indices
  <2>1. L \in Nat /\ L <= count /\ count \in Int /\ count < Depth
    BY <1>0, LiveType, IndexType, Constants DEF IInv, TypeOK, CountCoversQueue, Full
  <2>2. Len(payload) \in Nat
    BY MailboxAssumption
  <2>3. cells = [c \in 0..(Depth + MsgSize - 1) |-> cells[c]]
    BY DEF IInv, TypeOK
  <2>4. head \in Indices /\ tail \in Indices
    BY DEF IInv, TypeOK
  <2> QED BY <2>1, <2>2, <2>3, <2>4, IndexType, Constants
<1>2. /\ cells' = FillEntry(EntryAt(head), header, payload)
      /\ head' = Wrap(head + 1) /\ tail' = tail
  BY DEF Send
<1>3. Live' = L + 1
  BY <1>0, <1>1, <1>2, Constants, DistanceGrows DEF Live
<1>4. \A k \in Nat : EntryAt(Wrap(tail + k)) \in 0..(Depth - 1)
  <2>1. ASSUME NEW k \in Nat PROVE EntryAt(Wrap(tail + k)) \in 0..(Depth - 1)
    <3>1. Wrap(tail + k) \in Int
      BY <1>1, WrapRange, IndexType
    <3> QED BY <3>1, Constants DEF EntryAt
  <2> QED BY <2>1
<1>5. \A k : HeaderOf(k)' = cells'[EntryAt(Wrap(tail + k))]
  BY <1>2 DEF HeaderOf, EntryAt, Wrap
<1>6. \A c \in 0..(Depth - 1) :
        cells'[c] = IF c = EntryAt(head) THEN header
                    ELSE IF EntryAt(head) < c /\ c <= EntryAt(head) + Len(payload)
                         THEN payload[c - EntryAt(head)] ELSE cells[c]
  BY <1>1, <1>2, Constants DEF FillEntry
<1> HIDE DEF header
<1>7. HeaderOf(L)' = header
  <2>1. EntryAt(Wrap(tail + L)) = EntryAt(head)
    BY <1>0, HeadFollowsTail DEF IInv
  <2> QED BY <1>1, <1>4, <1>5, <1>6, <2>1
<1>8. ASSUME NEW k \in 0..(L - 1) PROVE HeaderOf(k)' = HeaderOf(k)
  <2>1. PICK c \in 0..(Depth - 1), e \in Int : c = EntryAt(Wrap(tail + k)) /\ e = EntryAt(head)
    BY <1>1, <1>4, Constants DEF EntryAt
  <2>2. c - e \notin 0..Len(payload)
    BY <1>0, <1>8, <2>1 DEF Hit
  <2>3. c # e /\ ~(e < c /\ c <= e + Len(payload))
    BY <1>1, <2>1, <2>2
  <2>4. cells'[c] = cells[c]
    BY <1>6, <2>1, <2>3
  <2> QED BY <1>5, <2>1, <2>4 DEF HeaderOf
<1>9. Held = [i \in 1..L |-> HeaderOf(i - 1)] /\ Held' = [i \in 1..(L + 1) |-> HeaderOf(i - 1)']
  BY <1>0, <1>3 DEF Held
<1>10. \A i \in 1..L : HeaderOf(i - 1)' = HeaderOf(i - 1)
  BY <1>1, <1>8
<1>11. Append(Held, header) = [i \in 1..(L + 1) |-> IF i <= L THEN HeaderOf(i - 1) ELSE header]
  <2>1. Len(Held) = L
    BY <1>1, <1>9
  <2> QED BY <1>1, <1>9, <2>1
<1>12. Held' = Append(Held, header)
  <2>1. ASSUME NEW i \in 1..(L + 1)
        PROVE  HeaderOf(i - 1)' = IF i <= L THEN HeaderOf(i - 1) ELSE header
    <3>1. CASE i <= L
      BY <1>1, <1>10, <3>1
    <3>2. CASE ~(i <= L)
      <4>1. i - 1 = L
        BY <1>1, <3>2
      <4> QED BY <1>7, <3>2, <4>1
    <3> QED BY <3>1, <3>2
  <2> QED BY <1>9, <1>11, <2>1
<1> QED BY <1>12 DEF header

\* A message that is taken is the oldest the reader asked for; those before it go too.
LEMMA TakeShifts ==
  ASSUME IInv, NEW r \in Readers, Take(r)
  PROVE  \E k \in 1..Live :
           /\ Held[k].channel \in reader[r].mask
           /\ \A j \in 1..(k - 1) : Held[j].channel \notin reader[r].mask
           /\ got' = Held[k]
           /\ Held' = [i \in 1..(Live - k) |-> Held[i + k]]
           /\ Live' = Live - k /\ count' = count - 1
<1>1. PICK k \in Matching(r) :
        /\ \A j \in Matching(r) : k <= j
        /\ got' = HeaderOf(k) /\ tail' = TailAfter(k)
  BY DEF Take
<1>2. PICK L : L = Live
  OBVIOUS
<1>3. /\ head \in Indices /\ tail \in Indices /\ tail \in Nat /\ tail < IndexModulus
      /\ L \in Nat /\ L < IndexModulus /\ L <= count /\ count <= Depth /\ count \in Int
      /\ count < IndexModulus
  BY <1>2, LiveType, IndexType DEF IInv, TypeOK, CountCoversQueue
<1>4. k \in Nat /\ k + 1 \in 1..L /\ HeaderOf(k).channel \in reader[r].mask
  BY <1>1, <1>2, <1>3 DEF Matching
<1>5. tail' = Wrap(tail + (k + 1)) /\ head' = head /\ cells' = cells /\ count' = Wrap(count - 1)
  BY <1>1, <1>3, <1>4 DEF TailAfter, Take
<1>6. Live' = L - (k + 1)
  BY <1>2, <1>3, <1>4, <1>5, DistanceShrinks DEF Live
<1>7. count' = count - 1
  BY <1>3, <1>4, <1>5, Constants, WrapBelow
<1>8. ASSUME NEW i \in 1..(L - (k + 1)) PROVE HeaderOf(i - 1)' = HeaderOf(i + k)
  <2>1. /\ tail + (k + 1) \in Nat /\ i - 1 \in Nat
        /\ tail + (k + 1) + (i - 1) = tail + (i + k)
        /\ tail + (k + 1) + (i - 1) < 2 * IndexModulus
    BY <1>3, <1>4, Constants
  <2>2. Wrap(tail' + (i - 1)) = Wrap(tail + (i + k))
    BY <1>5, <2>1, WrapAdds
  <2> QED BY <1>5, <2>2 DEF HeaderOf, EntryAt
<1>9. Held = [i \in 1..L |-> HeaderOf(i - 1)]
  BY <1>2 DEF Held
<1>15. \A j \in 1..L : Held[j] = HeaderOf(j - 1)
  BY <1>9
<1>10. Held' = [i \in 1..(L - (k + 1)) |-> HeaderOf(i - 1)']
  BY <1>6 DEF Held
<1>11. Held' = [i \in 1..(L - (k + 1)) |-> Held[i + (k + 1)]]
  <2>1. ASSUME NEW i \in 1..(L - (k + 1)) PROVE HeaderOf(i - 1)' = Held[i + (k + 1)]
    <3>1. PICK n : n = i + (k + 1)
      OBVIOUS
    <3>2. n \in 1..L /\ n - 1 = i + k
      BY <1>3, <1>4, <3>1
    <3>3. Held[n] = HeaderOf(n - 1)
      BY <1>15, <3>2
    <3>4. Held[n] = HeaderOf(i + k)
      BY <3>2, <3>3
    <3> QED BY <1>8, <3>1, <3>4
  <2> QED BY <1>10, <2>1
<1>12. Held[k + 1] = HeaderOf(k)
  <2>1. k + 1 - 1 = k
    BY <1>4
  <2> QED BY <1>4, <1>9, <2>1
<1>13. ASSUME NEW j \in 1..k PROVE Held[j].channel \notin reader[r].mask
  <2>1. /\ j \in 1..L /\ j - 1 \in 0..(L - 1) /\ j - 1 < Depth /\ ~(k <= j - 1)
    BY <1>3, <1>4, Constants
  <2>2. j - 1 \notin Matching(r)
    BY <1>1, <2>1
  <2>3. HeaderOf(j - 1).channel \notin reader[r].mask
    BY <1>2, <2>1, <2>2 DEF Matching
  <2> QED BY <1>9, <2>1, <2>3
<1>14. (k + 1) - 1 = k
  BY <1>4
<1> QED BY <1>1, <1>2, <1>4, <1>6, <1>7, <1>11, <1>12, <1>13, <1>14

-----------------------------------------------------------------------------
LEMMA QueueStarts == Init => Queue!Init
<1>1. SUFFICES ASSUME Init PROVE Queue!Init
  OBVIOUS
<1>2. Live = 0
  BY <1>1, Constants, WrapBelow DEF Init, Live
<1>3. [i \in 1..Live |-> HeaderOf(i - 1)] = <<>>
  BY <1>2
<1>4. count - Live = 0 /\ spoilt = FALSE /\ head = 0
  BY <1>1, <1>2 DEF Init
<1> QED BY <1>1, <1>3, <1>4 DEF Queue!Init, Init, Queue!Nothing, Nothing

\* However its contents were spoilt, the queue holds no more than fits.
LEMMA NumberHolds == ASSUME IInv' PROVE Len(Held') + (count' - Live') <= Depth
<1>1. PICK L \in Nat : L = Live'
  <2>1. head' \in Int /\ tail' \in Int
    BY IndexType DEF IInv, TypeOK
  <2>2. Live' \in Nat
    BY <2>1, WrapRange, Constants DEF Live, Indices
  <2> QED BY <2>2
<1>2. count' \in Int /\ count' <= Depth
  BY IndexType, Constants DEF IInv, TypeOK, CountCoversQueue, Indices
<1>3. Held' = [i \in 1..L |-> HeaderOf(i - 1)']
  BY <1>1 DEF Held
<1>4. Len(Held') = L
  BY <1>3
<1>5. L \in Nat
  BY <1>1
<1>6. \A c \in Int : L + (c - L) = c
  BY <1>5
<1> QED BY <1>1, <1>2, <1>4, <1>6

\* A step that leaves the queue alone and returns no message.
LEMMA NothingHappens ==
  ASSUME IInv', UNCHANGED queue_vars, got' = Nothing
  PROVE  Queue!Next
<1>1. Held' = Held /\ Live' = Live /\ count' = count /\ spoilt' = spoilt /\ head' = head
  BY DEF queue_vars, Held, HeaderOf, Live, EntryAt
<1>2. CASE spoilt = TRUE
  BY <1>1, <1>2, NumberHolds DEF Queue!Next, Held
<1>3. CASE ~spoilt
  <2>1. Queue!Others
    BY <1>1 DEF Queue!Others, Held, Queue!Nothing, Nothing
  <2> QED BY <1>3, <2>1 DEF Queue!Next
<1> QED BY <1>2, <1>3

LEMMA SendQueues ==
  ASSUME IInv, IInv', spoilt \in BOOLEAN, NEW channel \in Channels, NEW payload \in Payloads,
         Send(channel, payload)
  PROVE  Queue!Next
<1> DEFINE m == [id |-> Wrap(total_sent + 1), channel |-> channel,
                 size |-> StoredSize(Len(payload))]
<1>1. CASE Full
  BY <1>1, NothingHappens DEF Send
<1>2. CASE ~Full /\ spoilt
  <2>1. spoilt'
    BY <1>2 DEF Send
  <2> QED BY <1>2, <2>1, NumberHolds DEF Queue!Next, Held
<1>3. CASE ~Full /\ ~spoilt
  <2>1. /\ Live \in Nat /\ Live <= count /\ count < Depth /\ count \in Int
        /\ head \in Indices /\ tail \in Indices
    BY <1>3, LiveType, IndexType, Constants DEF IInv, TypeOK, CountCoversQueue, Full
  <2>2. PICK n \in 0..MsgSize : n = Len(payload)
    BY MailboxAssumption
  <2>3. Wrap(total_sent + 1) \in Indices
    BY WrapRange, IndexType DEF IInv, TypeOK
  <2>4. Len(Held) = Live /\ (Held # <<>> <=> Live # 0)
    <3>1. PICK L \in Nat : L = Live
      BY <2>1
    <3>2. Held = [i \in 1..L |-> HeaderOf(i - 1)]
      BY <3>1 DEF Held
    <3> QED BY <3>1, <3>2
  <2>5. Live' = Live + 1 /\ count' = count + 1 /\ head' = (head + 1) % IndexModulus
    BY <1>3, <2>1, Constants, WrapBelow, DistanceGrows DEF Live, Send, Wrap
  <2>6. count' - Live' = count - Live
    BY <2>1, <2>5
  <2>7. Len(Held) + (count - Live) < Depth /\ got' = Nothing
    BY <2>1, <2>4 DEF Send
  <2>8. spoilt' = (Hit(n) # {})
    BY <1>3, <2>2 DEF Send
  <2>9. ASSUME Hit(n) = {} PROVE Queue!Put(m, n)
    <3>1. ~spoilt' /\ Held' = Append(Held, m)
      BY <1>3, <2>2, <2>8, <2>9, SendAppends
    <3> HIDE DEF m
    <3> QED BY <2>5, <2>6, <2>7, <3>1 DEF Queue!Put, Held, Queue!Nothing, Nothing
  <2>10. ASSUME Hit(n) # {} PROVE Queue!Put(m, n)
    <3>1. Live # 0
      <4>1. SUFFICES ASSUME Live = 0 PROVE FALSE
        OBVIOUS
      <4> QED BY <2>10, <4>1 DEF Hit
    <3>2. Live + n >= Depth \/ ~Aligned
      BY <2>1, <2>2, <2>10, Constants, HitsOnlyThen DEF IInv
    <3>3. ~Aligned => head < Live /\ IndexModulus % Depth # 0
      BY <2>1, IndexType, NotDivided DEF Aligned
    <3>4. Queue!ComesRound(n) \/ Queue!Jumps
      BY <2>4, <3>2, <3>3 DEF Queue!ComesRound, Queue!Jumps, Held
    <3>5. spoilt' /\ Held # <<>>
      BY <2>4, <2>8, <2>10, <3>1
    <3> HIDE DEF m
    <3> QED BY <2>5, <2>6, <2>7, <3>4, <3>5 DEF Queue!Put, Held, Queue!Nothing, Nothing
  <2>11. Queue!Put(m, n)
    BY <2>9, <2>10
  <2>12. m = [id |-> Wrap(total_sent + 1), channel |-> channel, size |-> n % SizeModulus]
    BY <2>2 DEF StoredSize
  <2> HIDE DEF m
  <2> QED BY <1>3, <2>2, <2>3, <2>11, <2>12 DEF Queue!Next
<1> QED BY <1>1, <1>2, <1>3

LEMMA FlushQueues == ASSUME IInv', spoilt \in BOOLEAN, Flush PROVE Queue!Next
<1>1. Live' = 0
  BY Constants, WrapBelow DEF Flush, Live
<1>2. Held' = <<>>
  BY <1>1 DEF Held
<1>3. count' - Live' = 0 /\ spoilt' = FALSE /\ got' = Nothing /\ head' = 0
  BY <1>1, Constants DEF Flush
<1>4. CASE spoilt
  BY <1>2, <1>4, NumberHolds DEF Queue!Next, Held
<1>5. CASE ~spoilt
  <2>1. spoilt' = spoilt
    BY <1>3, <1>5
  <2>2. Queue!Flush
    BY <1>1, <1>2, <1>3, <2>1 DEF Queue!Flush, Held, Queue!Nothing, Nothing
  <2> QED BY <1>5, <2>2 DEF Queue!Next
<1> QED BY <1>4, <1>5

LEMMA TakeQueues ==
  ASSUME IInv, IInv', AsksInv, spoilt \in BOOLEAN, NEW r \in Readers, Take(r)
  PROVE  Queue!Next
<1>1. PICK k \in 1..Live :
        /\ Held[k].channel \in reader[r].mask
        /\ \A j \in 1..(k - 1) : Held[j].channel \notin reader[r].mask
        /\ got' = Held[k]
        /\ Held' = [i \in 1..(Live - k) |-> Held[i + k]]
        /\ Live' = Live - k /\ count' = count - 1
  BY TakeShifts
<1>2. PICK L : L = Live
  OBVIOUS
<1>3. L \in Nat /\ count \in Int
  BY <1>2, LiveType, IndexType DEF IInv, TypeOK
<1>4. Held = [i \in 1..L |-> HeaderOf(i - 1)] /\ DOMAIN Held = 1..L /\ Len(Held) = L
  <2>1. Held = [i \in 1..L |-> HeaderOf(i - 1)]
    BY <1>2 DEF Held
  <2> QED BY <1>3, <2>1
<1>5. CASE spoilt
  <2>1. CASE spoilt'
    BY <1>5, <2>1, NumberHolds DEF Queue!Next, Held
  <2>2. CASE ~spoilt'
    <3>1. head' = head /\ tail' = head
      BY <1>5, <2>2 DEF Take
    <3>2. Live' = 0
      BY <3>1, Constants, WrapBelow, IndexType DEF Live, IInv, TypeOK
    <3>3. Held' = <<>>
      BY <3>2 DEF Held
    <3> QED BY <1>5, <3>3, NumberHolds DEF Queue!Next, Held
  <2> QED BY <2>1, <2>2
<1>6. CASE ~spoilt
  <2>1. PICK c \in Calls[r] : reader[r].mask = c.mask
    BY DEF AsksInv, Asks, Take
  <2>2. reader[r].mask \in {d.mask : d \in UNION {Calls[q] : q \in Readers}}
    BY <2>1
  <2>3. SubSeq(Held, k + 1, L) = [i \in 1..(L - k) |-> Held[i + k]]
    BY <1>1, <1>2, <1>3
  <2>4. Held' = SubSeq(Held, k + 1, Len(Held))
    BY <1>1, <1>2, <1>4, <2>3
  <2>5. count' - Live' = (count - Live) + (k - 1)
    BY <1>1, <1>2, <1>3
  <2>6. spoilt' = FALSE /\ spoilt = FALSE /\ head' = head
    BY <1>6 DEF Take
  <2>7. Queue!Take(reader[r].mask)
    BY <1>1, <1>2, <1>4, <2>4, <2>5, <2>6 DEF Queue!Take, Held
  <2> QED BY <1>6, <2>2, <2>7 DEF Queue!Next
<1> QED BY <1>5, <1>6

LEMMA QueueSteps ==
  ASSUME IInv, IInv', AsksInv, spoilt \in BOOLEAN, [Next]_vars
  PROVE  [Queue!Next]_(Queue!vars)
<1>1. ASSUME NEW channel \in Channels, NEW payload \in Payloads, Send(channel, payload)
      PROVE  Queue!Next
  BY <1>1, SendQueues
<1>2. CASE Flush
  BY <1>2, FlushQueues
<1>3. ASSUME NEW r \in Readers, Take(r) PROVE Queue!Next
  BY <1>3, TakeQueues
<1>4. ASSUME NEW r \in Readers,
             \/ \E c \in Calls[r] : Call(r, c)
             \/ FindNothing(r) \/ Wait(r) \/ SliceOver(r) \/ Signal(r) \/ Tick(r)
      PROVE  Queue!Next
  BY <1>4, NothingHappens DEF Call, FindNothing, Wait, SliceOver, Signal, Tick
<1>5. CASE UNCHANGED vars
  BY <1>5 DEF vars, queue_vars, Queue!vars, HeaderOf, EntryAt, Live
<1> QED BY <1>1, <1>2, <1>3, <1>4, <1>5 DEF Next, Step

\* The ring, its indices and its readers are the queue MailboxQueue describes, message by
\* message, for every depth, every set of readers and every payload; with the two cases
\* in which a message spoils another, and no third.
THEOREM ImplementsQueue == Spec => QueueSpec
<1> DEFINE Sound == AsksInv /\ spoilt \in BOOLEAN
<1>1. Init => Sound
  <2>1. SUFFICES ASSUME Init PROVE Sound
    OBVIOUS
  <2>2. \A r \in Readers : reader[r].at = "idle"
    BY <2>1 DEF Init, Idle
  <2>3. spoilt \in BOOLEAN
    BY <2>1 DEF Init
  <2> QED BY <2>2, <2>3 DEF AsksInv, Asks
<1>2. IInv /\ Sound /\ [Next]_vars => Sound'
  BY AsksNext, SpoiltType
<1>3. IInv /\ IInv' /\ Sound /\ [Next]_vars => [Queue!Next]_(Queue!vars)
  BY QueueSteps
<1> HIDE DEF Sound
<1> QED BY Invariance, <1>1, <1>2, <1>3, QueueStarts, PTL DEF Spec, QueueSpec, Queue!Spec
=============================================================================
