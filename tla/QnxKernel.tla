----------------------------- MODULE QnxKernel ------------------------------
(***************************************************************************)
(* What the example programs under qnx-apps use of the QNX kernel: threads *)
(* that block in MsgSend until their message was received and replied to,  *)
(* in MsgReceive until there is a message or a pulse, and pulses that are  *)
(* queued without blocking anyone.                                         *)
(***************************************************************************)
EXTENDS Integers, Sequences

CONSTANTS
  Threads,      \* threads by name; a program with a single thread is a thread here
  Channels      \* channels by the thread that receives on them

VARIABLES
  program,      \* the program that runs, with its mode
  pc,           \* where each thread is in it
  inbox,        \* channel -> the messages and pulses nobody has received yet
  wait,         \* how far the MsgSend of each thread is: no, sent, replied
  answer        \* what the last MsgSend of each thread brought back

kernel_vars == <<program, pc, inbox, wait, answer>>

Running(t, label) == pc[t] = label /\ wait[t] = "no"
Returned(t, label) == pc[t] = label /\ wait[t] = "replied"

Goto(t, label) == pc' = [pc EXCEPT ![t] = label] /\ UNCHANGED <<program, inbox, wait, answer>>

MsgSend(t, channel, type) ==
  /\ wait' = [wait EXCEPT ![t] = "sent"]
  /\ inbox' = [inbox EXCEPT ![channel] = Append(@, [from |-> t, type |-> type])]
  /\ UNCHANGED <<program, pc, answer>>

\* The thread comes back from MsgSend and goes on.
Resume(t, label) ==
  /\ wait' = [wait EXCEPT ![t] = "no"]
  /\ pc' = [pc EXCEPT ![t] = label]
  /\ UNCHANGED <<program, inbox, answer>>

\* The call fails before the message has left.
SendFails(t, label) ==
  /\ answer' = [answer EXCEPT ![t] = -1]
  /\ pc' = [pc EXCEPT ![t] = label]
  /\ UNCHANGED <<program, inbox, wait>>

\* A pulse has no sender: MsgReceive returns 0 for it, and a reply to 0 reaches nobody.
Pulse(code) == [from |-> "kernel", type |-> code]

\* SIGEV_PULSE_INIT takes the priority before the code.
SigevPulse(priority, code) == Pulse(code)

Deliver(channel, pulse) == inbox' = [inbox EXCEPT ![channel] = Append(@, pulse)]

Receive(channel) == inbox[channel] # <<>> /\ inbox' = [inbox EXCEPT ![channel] = Tail(@)]

MsgReply(sender, status) ==
  IF sender = "kernel" THEN UNCHANGED <<wait, answer>>
  ELSE wait' = [wait EXCEPT ![sender] = "replied"] /\ answer' = [answer EXCEPT ![sender] = status]

\* The process returns, and its threads end with it.
Ends(ts) == pc' = [t \in Threads |-> IF t \in ts THEN "exit" ELSE pc[t]]

Exit(ts) == Ends(ts) /\ UNCHANGED <<program, inbox, wait, answer>>
=============================================================================
