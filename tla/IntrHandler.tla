---------------------------- MODULE IntrHandler -----------------------------
(***************************************************************************)
(* qnx-apps/interrupt_example/intr_handler.c: an interrupt delivered as a  *)
(* pulse to a channel on which a thread receives and the main thread waits *)
(* with a timeout.  The function intr_handler is passed to nobody.         *)
(***************************************************************************)
EXTENDS QnxKernel

CONSTANT Interrupts   \* bound: times the device raises its line

VARIABLES
  attached,     \* InterruptAttachEvent succeeded
  masked,       \* the kernel has masked the interrupt
  raised,       \* how often the device raised its line
  taken         \* pulses each of the two has received

intr_vars == <<attached, masked, raised, taken>>

IntrThreads == {"main", "thread"}

IntrInit ==
  /\ attached = FALSE /\ masked = FALSE /\ raised = 0
  /\ taken = [t \in IntrThreads |-> 0]

-----------------------------------------------------------------------------
\* Channel, connection, interrupt and thread; without one of them main returns.
IntrStart ==
  /\ program = "intr" /\ Running("main", "start")
  /\ \/ Exit(IntrThreads) /\ UNCHANGED attached
     \/ /\ attached' = TRUE
        /\ pc' = [pc EXCEPT !["main"] = "wait", !["thread"] = "wait"]
        /\ UNCHANGED <<program, inbox, wait, answer>>
  /\ UNCHANGED <<masked, raised, taken>>

\* The kernel masks the interrupt before it delivers the event, until InterruptUnmask.
Interrupt ==
  /\ attached /\ raised < Interrupts
  /\ raised' = raised + 1
  /\ IF masked THEN UNCHANGED <<inbox, masked>> ELSE Deliver("intr", SigevPulse(10, 0)) /\ masked' = TRUE
  /\ UNCHANGED <<program, pc, wait, answer, attached, taken>>

\* mutated ThreadReceives: InterruptUnmask is called
ThreadUnmasks ==
  /\ pc["thread"] = "wait" /\ Receive("intr")
  /\ taken' = [taken EXCEPT !["thread"] = @ + 1]
  /\ masked' = FALSE
  /\ UNCHANGED <<program, pc, wait, answer, attached, raised>>

\* interrupt_thread: a pulse with the code 10 would be counted, and InterruptUnmask is
\* commented out (line 104).
ThreadReceives ==
  /\ pc["thread"] = "wait" /\ Receive("intr")
  /\ taken' = [taken EXCEPT !["thread"] = @ + 1]
  /\ UNCHANGED <<program, pc, wait, answer, attached, masked, raised>>

\* intr_wait_timeout found a pulse in time; one that has not the code 10 is an error to it.
MainReceives ==
  /\ program = "intr" /\ Running("main", "wait") /\ Receive("intr")
  /\ taken' = [taken EXCEPT !["main"] = @ + 1]
  /\ IF Head(inbox["intr"]).type = 10 THEN UNCHANGED <<pc, attached>>
     ELSE Ends(IntrThreads) /\ attached' = FALSE
  /\ UNCHANGED <<program, wait, answer, masked, raised>>

\* An error, which a timeout is not, ends the loop, and the clean-up the process.
WaitFails ==
  /\ program = "intr" /\ Running("main", "wait")
  /\ attached' = FALSE
  /\ Exit(IntrThreads)
  /\ UNCHANGED <<masked, raised, taken>>

IntrNext == IntrStart \/ Interrupt \/ ThreadReceives \/ MainReceives \/ WaitFails

-----------------------------------------------------------------------------
\* However often the device raises its line, the thread and main together receive one
\* pulse in the life of the process: it goes to whoever receives first (and means
\* nothing to the thread and an error to main, for both wait for the code 10), and nobody
\* unmasks the interrupt for the next.
OneInterrupt ==
  taken["main"] + taken["thread"] + Len(inbox["intr"]) <= 1
=============================================================================
