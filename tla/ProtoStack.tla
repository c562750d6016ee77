----------------------------- MODULE ProtoStack -----------------------------
(***************************************************************************)
(* One protocol stack (comm-protocol-stack/src/proto/proto_stack.c): the   *)
(* receive ring, the parser and the session, driven by the user's loop of  *)
(* proto_stack_poll and proto_stack_process, over a byte-stream transport. *)
(* A peer sends frames; what has arrived at a poll is any prefix of what   *)
(* is on the wire, so frames arrive split and joined, and a serial line    *)
(* may lose bytes.  The ring is the byte queue that RingBuffer implements  *)
(* (ByteFifo); parser is stack->parser.                                    *)
(***************************************************************************)
EXTENDS ProtoParser, Session

CONSTANTS
  Commands,      \* the frames the peer sends: [addr, cmd, data]
  RxCapacity,    \* the ring: 2048 bytes in the code
  Reads,         \* how many bytes a poll may get from the transport: up to 256 in the code
  Losses,        \* how many bytes a serial line may lose at a time
  PeerLimit      \* bound: how many frames the peer sends

\* What the peer sends are frames that proto_pack packs; a poll gets a number of bytes.
ASSUME StackAssumption ==
  /\ \A f \in Commands :
       /\ f = [addr |-> f.addr, cmd |-> f.cmd, data |-> f.data]
       /\ f.addr \in Byte /\ f.cmd \in Byte
       /\ f.data \in Seq(Byte) /\ Len(f.data) <= MaxDataSize
  /\ RxCapacity \in Nat /\ Reads \subseteq Nat

VARIABLES
  wire,       \* bytes on their way to this stack
  rx,         \* stack->rx_rb: the bytes held, oldest first
  session,    \* stack->session
  now,        \* the time the user passes to poll and process
  answer,     \* the last poll or process and its result
  sent,       \* the frames the peer sent
  received,   \* the frames on_frame_recv was called with
  lossy,      \* bytes were dropped: on the line, by a full ring, or by a restart
  owed        \* what requests sent since the last frame came are still due: "nothing",
              \* a "reply", or one that was "forgotten" when the timeout was reported

vars == <<wire, rx, parser, session, now, answer, sent, received, lossy, owed>>

receiving == <<wire, rx, parser, sent, received, lossy>>

Answer(call, result) == [call |-> call, result |-> result]

-----------------------------------------------------------------------------
Taken(p) == [addr |-> p.addr, cmd |-> p.cmd, data |-> SubSeq(p.data, 1, p.data_len)]

\* mutated ParseStep: the bytes behind the first frame are dropped with it
ParseStepDropsRest(run, b) ==
  IF run.done THEN run
  ELSE LET fed == Fed(run.parser, b)
       IN  CASE fed.ret = 0  -> [parser |-> Fresh, rest |-> <<>>, done |-> TRUE,
                                 frame |-> Taken(fed.parser)]
             [] fed.ret = -2 -> [run EXCEPT !.parser = Fresh]
             [] OTHER        -> [run EXCEPT !.parser = fed.parser]

\* One turn of proto_parser_parse_rb's loop; from the first frame on the bytes stay.
ParseStep(run, b) ==
  IF run.done THEN [run EXCEPT !.rest = Append(@, b)]
  ELSE LET fed == Fed(run.parser, b)
       IN  CASE fed.ret = 0  -> [parser |-> Fresh, rest |-> <<>>, done |-> TRUE,
                                 frame |-> Taken(fed.parser)]
             [] fed.ret = -2 -> [run EXCEPT !.parser = Fresh]
             [] OTHER        -> [run EXCEPT !.parser = fed.parser]

\* proto_parser_parse_rb over the bytes of the ring
Parse(p, bytes) ==
  LET run[i \in 0..Len(bytes)] ==
        IF i = 0 THEN [parser |-> p, rest |-> <<>>, done |-> FALSE, frame |-> <<>>]
        ELSE ParseStep(run[i - 1], bytes[i])
  IN  run[Len(bytes)]

-----------------------------------------------------------------------------
\* proto_stack_init
Init ==
  /\ wire = <<>> /\ rx = <<>>
  /\ parser = Fresh
  /\ \E max_retry \in Retries : session = NewSession(max_retry)
  /\ now = 0
  /\ answer = Answer("init", 0)
  /\ sent = <<>> /\ received = <<>>
  /\ lossy = FALSE /\ owed = "nothing"

\* proto_stack_deinit, then proto_stack_init
Restart ==
  /\ rx' = <<>>
  /\ parser' = Fresh
  /\ session' = NewSession(session.max_retry)
  /\ answer' = Answer("init", 0)
  /\ lossy' = TRUE /\ owed' = "nothing"
  /\ UNCHANGED <<wire, now, sent, received>>

\* The peer puts a frame on the wire, each once: the frames are told apart by their data.
PeerSends(f) ==
  /\ Len(sent) < PeerLimit /\ \A i \in DOMAIN sent : sent[i] # f
  /\ wire' = wire \o Pack(f.addr, f.cmd, f.data)
  /\ sent' = Append(sent, f)
  /\ UNCHANGED <<rx, parser, session, now, answer, received, lossy, owed>>

\* The next n bytes do not arrive.
LineLoses(n) ==
  /\ n <= Len(wire)
  /\ wire' = SubSeq(wire, n + 1, Len(wire))
  /\ lossy' = TRUE
  /\ UNCHANGED <<rx, parser, session, now, answer, sent, received, owed>>

\* proto_stack_send, of a request that fits.  The session is told time 0; when the
\* transport refuses, or nothing was packed, it is told nothing.  proto_stack_send_raw,
\* _send_heartbeat and _send_ack only call the transport.
Sends(s) == OnSend(s, 0)

Send ==
  /\ session' = Sends(session)
  /\ owed' = "reply"
  /\ UNCHANGED <<receiving, now, answer>>

\* mutated Delivered: the user's callback runs before the session hears of the frame
DeliveredAfterCallback(s, request) == OnRecv(IF request THEN Sends(s) ELSE s, now)

\* session_on_recv, then on_frame_recv, which may send a request of its own.
Delivered(s, request) ==
  LET heard == OnRecv(s, now)
  IN  IF request THEN Sends(heard) ELSE heard

\* proto_stack_poll when the transport delivered n bytes
Poll(n) ==
  LET fits == IF n <= RxCapacity - Len(rx) THEN n ELSE RxCapacity - Len(rx)
      run  == Parse(parser, rx \o SubSeq(wire, 1, fits))
  IN  /\ n <= Len(wire)
      /\ wire' = SubSeq(wire, n + 1, Len(wire))
      /\ rx' = run.rest
      /\ parser' = run.parser
      /\ lossy' = (lossy \/ fits < n)
      /\ \/ /\ run.done
            /\ \E request \in BOOLEAN :
                 /\ session' = Delivered(session, request)
                 /\ owed' = IF request THEN "reply" ELSE "nothing"
            /\ received' = Append(received, run.frame)
            /\ answer' = Answer("poll", 0)
         \/ /\ ~run.done
            /\ answer' = Answer("poll", -1)
            /\ UNCHANGED <<session, owed, received>>
      /\ UNCHANGED <<now, sent>>

\* proto_stack_poll when the transport has nothing: the ring is not looked at.
PollNothing ==
  /\ answer' = Answer("poll", -1)
  /\ UNCHANGED <<receiving, session, now, owed>>

\* on_session_timeout, which may send a request of its own, then session_reset.
TimedOut(s, request) == SessionReset(IF request THEN Sends(s) ELSE s)

\* proto_stack_process
Process ==
  /\ \/ /\ ~IsTimeout(session, now)
        /\ answer' = Answer("process", 0)
        /\ UNCHANGED <<session, owed>>
     \/ /\ IsTimeout(session, now) /\ ShouldRetry(session, now)
        /\ answer' = Answer("process", 1)
        /\ UNCHANGED <<session, owed>>
     \/ /\ IsTimeout(session, now) /\ ~ShouldRetry(session, now)
        /\ \E request \in BOOLEAN :
             /\ session' = TimedOut(session, request)
             /\ owed' = IF request THEN "forgotten" ELSE "nothing"
        /\ answer' = Answer("process", 2)
  /\ UNCHANGED <<receiving, now>>

\* The clock is a uint32_t.
Later(t) == (t + 1) % TimeModulus

Tick ==
  /\ now' = Later(now)
  /\ UNCHANGED <<receiving, session, answer, owed>>

Next ==
  \/ \E f \in Commands : PeerSends(f)
  \/ \E n \in Losses : LineLoses(n)
  \/ \E n \in Reads : Poll(n)
  \/ PollNothing
  \/ Send
  \/ Process
  \/ Tick
  \/ Restart

Spec == Init /\ [][Next]_vars

-----------------------------------------------------------------------------
\* However the bytes were split and joined on the way, once all of them were read and
\* parsed every frame sent has been delivered, unless bytes were dropped.
NothingLost == (~lossy /\ wire = <<>> /\ rx = <<>>) => received = sent

\* Frames are handed over unaltered, at most once and in the order sent, even when bytes
\* are missing in the middle of a frame and the rest is made up by the next one.
Place(f) ==
  IF \E i \in DOMAIN sent : sent[i] = f THEN CHOOSE i \in DOMAIN sent : sent[i] = f ELSE 0

Channel == INSTANCE FrameChannel
  WITH Frame <- Commands, offered <- sent,
       accepted <- [k \in DOMAIN received |-> Place(received[k])]

ChannelSpec == Channel!Spec

\* A session without an unanswered request is never reported as timed out: a reply, a
\* disconnect or a new start ends the wait for good, whatever the clock does afterwards.
AnsweredNeverTimesOut == [][Process /\ answer'.result # 0 => owed = "reply"]_vars

\* A request that is still unanswered is reported, also one sent from inside
\* on_frame_recv, as soon as the clock is past the timeout, which counts from time 0 and
\* not from the request (proto_stack.c:78 records time 0), and as often as process is
\* called.  With any retry configured the report is to repeat the request, for ever,
\* because nothing counts the repetitions (proto_stack.c:132); the user is told of the
\* timeout only without.  A request that the user sends when told is the exception: the
\* session is reset behind the callback (line 136), and that request is never reported.
TimeoutCountsFromZero ==
  [][Process =>
       answer' = Answer("process", IF owed # "reply" \/ now <= TimeoutMs THEN 0
                                   ELSE IF session.max_retry > 0 THEN 1 ELSE 2)]_vars
=============================================================================
