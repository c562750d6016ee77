----------------------------- MODULE MailboxLib -----------------------------
(***************************************************************************)
(* The mailbox library (mailbox_framework/lib/mbox_lib.c) over the device  *)
(* file of the kernel module: processes that send, receive and peek, each  *)
(* call made of several system calls between which others run.  writev     *)
(* reaches mbox_write once for the request and once for the payload, and a *)
(* receive reads twice; each is a message of its own to the kernel.  The   *)
(* kernel's queue is the one MailboxQueue describes and Mailbox implements,*)
(* with sizes in bytes, and each message remembers who wrote it as what.   *)
(* Messages that could spoil others are not sent here, and so few that the *)
(* kernel's indices do not wrap.                                           *)
(***************************************************************************)
EXTENDS Integers, Sequences, FiniteSets

CONSTANTS
  Procs,
  Channels,
  Sizes,        \* payload sizes the processes send
  Depth,        \* how many messages the mailbox holds
  MaxMessages   \* bound: messages numbered in a behaviour

VARIABLES
  queue,        \* the messages in the mailbox, oldest first
  lost,         \* places in it that a read passed over
  sent,         \* total_sent: the number of the last message
  proc,         \* where each process is in its call
  got,          \* the message the kernel handed over in the last step
  refused,      \* history: processes a write of which met a full mailbox
  told          \* history: which message each successful receive or peek reported

vars == <<queue, lost, sent, proc, got, refused, told>>

ASSUME LibAssumption ==
  /\ 0 \in Channels /\ Sizes \subseteq 0..4096 /\ Depth \in Nat \ {0} /\ MaxMessages \in Nat

SendReq == 12     \* sizeof(struct mbox_send_req)
RecvReq == 24     \* sizeof(struct mbox_recv_req)

Returned == [at |-> "out", id |-> 0, channel |-> 0, size |-> 0]
Second(id) == [at |-> "second", id |-> id, channel |-> 0, size |-> 0]

-----------------------------------------------------------------------------
\* The header lengths a payload takes, of 20 bytes each.
Cells(size) == (size + 19) \div 20

Kernel == INSTANCE MailboxQueue
  WITH Ids <- 1..MaxMessages, Lengths <- {Cells(size) : size \in 0..4096},
       SizeModulus <- 65536, Masks <- SUBSET Channels, IndexModulus <- 1,
       place <- 0, spoilt <- FALSE

\* mbox_enqueue: a full mailbox takes nothing, and mbox_write reports it written.
Enqueue(p, channel, size, part) ==
  \/ /\ Len(queue) + lost >= Depth
     /\ refused' = refused \cup {p}
     /\ Kernel!Others /\ UNCHANGED sent
  \/ /\ queue = <<>> \/ ~Kernel!ComesRound(Cells(size))
     /\ sent < MaxMessages /\ sent' = sent + 1
     /\ Kernel!Put([id |-> sent + 1, channel |-> channel, size |-> size,
                    from |-> p, part |-> part], Cells(size))
     /\ UNCHANGED refused

Init ==
  /\ Kernel!Init
  /\ sent = 0 /\ proc = [p \in Procs |-> Returned]
  /\ refused = {} /\ told = {}

Offers(mask) == \E k \in DOMAIN queue : queue[k].channel \in mask

At(p, where) == proc' = [proc EXCEPT ![p].at = where]
Return(p) == proc' = [proc EXCEPT ![p] = Returned]

-----------------------------------------------------------------------------
\* mutated SendRequest: the payload goes first
SendPayloadFirst(p) ==
  /\ proc[p].at = "out"
  /\ \E channel \in Channels, size \in Sizes :
       /\ Enqueue(p, 0, size, "payload")
       /\ proc' = [proc EXCEPT ![p] = [at |-> "payload", id |-> 0, channel |-> channel,
                                       size |-> 0]]
  /\ UNCHANGED <<told>>

\* mbox_send: writev writes the request, which makes an empty message of it.
SendRequest(p) ==
  /\ proc[p].at = "out"
  /\ \E channel \in Channels, size \in Sizes :
       /\ Enqueue(p, channel, 0, "request")
       /\ proc' = [proc EXCEPT ![p] =
            IF size = 0 THEN Returned
            ELSE [at |-> "payload", id |-> 0, channel |-> channel, size |-> size]]
  /\ UNCHANGED <<told>>

\* Then the payload: on channel 0 when it is shorter than a request; otherwise its
\* first bytes are taken for one, and its first byte for the channel.
SendPayload(p) ==
  /\ proc[p].at = "payload"
  /\ IF proc[p].size < SendReq THEN Enqueue(p, 0, proc[p].size, "payload")
     ELSE \E first \in Channels : Enqueue(p, first, proc[p].size - SendReq, "payload")
  /\ Return(p)
  /\ UNCHANGED <<told>>

\* mbox_recv with a timeout waits until poll sees a count above zero.
Poll(p) ==
  /\ proc[p].at = "out" /\ Len(queue) + lost > 0
  /\ At(p, "polled")
  /\ Kernel!Others /\ UNCHANGED <<sent, refused, told>>

\* mutated Found: a peek leaves the message where it is
FoundKept(p, mask) ==
  /\ \E k \in DOMAIN queue : queue[k].channel \in mask /\ got' = queue[k]
  /\ IF got'.size < RecvReq THEN Return(p) /\ UNCHANGED told
     ELSE /\ proc' = [proc EXCEPT ![p] = Second(got'.id)]
          /\ told' = told \cup {[to |-> p, id |-> got'.id, size |-> got'.size]}
  /\ UNCHANGED <<queue, lost>>

\* The first read found a message.  The kernel returns the message's size, and the
\* library refuses what is less than the size of the request it read; otherwise it
\* will report that size.
Found(p, mask) ==
  /\ Kernel!Take(mask)
  /\ IF got'.size < RecvReq THEN Return(p) /\ UNCHANGED told
     ELSE /\ proc' = [proc EXCEPT ![p] = Second(got'.id)]
          /\ told' = told \cup {[to |-> p, id |-> got'.id, size |-> got'.size]}

\* The first read of mbox_recv, with or without poll, and of mbox_peek.  Without a
\* message it returns what was in the request: zero in a peek, anything in a receive.
FirstRead(p) ==
  /\ proc[p].at \in {"out", "polled"}
  /\ \E mask \in (SUBSET Channels) \ {{}} :
       \/ Found(p, mask)
       \/ /\ ~Offers(mask)
          /\ Return(p) \/ proc' = [proc EXCEPT ![p] = Second(0)]
          /\ Kernel!Others /\ UNCHANGED told
  /\ UNCHANGED <<sent, refused>>

\* The second read, for a buffer that is large enough: not the payload of the first
\* message but a message of its own, on whatever channels the caller's buffer names
\* (or the file's, when what the first read returned was less than a request).
SecondRead(p) ==
  /\ proc[p].at = "second"
  /\ Kernel!Others \/ \E mask \in SUBSET Channels : Kernel!Take(mask)
  /\ Return(p)
  /\ UNCHANGED <<sent, refused, told>>

\* mbox_flush
Flush(p) ==
  /\ proc[p].at = "out"
  /\ Kernel!Flush
  /\ UNCHANGED <<sent, proc, refused, told>>

Next == \E p \in Procs :
  SendRequest(p) \/ SendPayload(p) \/ Poll(p) \/ FirstRead(p) \/ SecondRead(p) \/ Flush(p)

Spec == Init /\ [][Next]_vars

-----------------------------------------------------------------------------
\* Messages are queued in the order they were numbered, and between the payload of a
\* send and the next payload of the same process lies that one's request, with only
\* other processes' messages around it (mbox_lib.c:214-219, where one writev is meant to
\* make one message of both); unless a full mailbox swallowed one of the process's
\* writes, each of which was reported as done (mbox_kern.c:556).
OrderOfSender ==
  \A i, j \in DOMAIN queue :
    i < j => /\ queue[i].id < queue[j].id
             /\ \/ queue[i].from # queue[j].from \/ queue[i].from \in refused
                \/ queue[i].part = "request"
                \/ \E k \in (i + 1)..j : queue[k].part = "request" /\ queue[k].from = queue[i].from

\* A receive or peek that reports a message has removed it, for itself alone, and only
\* ever reports one of 24 bytes or more (mbox_lib.c:256, 318).  So mbox_peek, "without
\* removing" (mbox.h:160), removes, and shorter messages cannot be received.
ReportedIsGone ==
  \A t \in told :
    /\ \A k \in DOMAIN queue : queue[k].id # t.id
    /\ \A u \in told : u.id = t.id => u.to = t.to
    /\ t.size >= RecvReq
=============================================================================
