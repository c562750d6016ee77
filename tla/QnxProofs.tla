----------------------------- MODULE QnxProofs ------------------------------
(***************************************************************************)
(* However often the device of intr_handler.c raises its line, the process *)
(* sees one interrupt: for any number of interrupts, and beside whatever   *)
(* the other programs do with channels of their own.                       *)
(***************************************************************************)
EXTENDS QnxPrograms, TLAPS

-----------------------------------------------------------------------------
\* What is known of the interrupt's channel: a pulse is on it or was taken only when the
\* interrupt is masked, and then there is one.
PulseInv ==
  /\ inbox = [c \in Channels |-> inbox[c]]
  /\ \E S : inbox["intr"] \in Seq(S)
  /\ taken \in [IntrThreads -> Nat]
  /\ OneInterrupt
  /\ ~masked => taken["main"] + taken["thread"] + Len(inbox["intr"]) = 0

\* The other programs do not use the channel of the interrupt.
LEMMA OtherChannels ==
  ASSUME PulseInv, NEW c, c # "intr", UNCHANGED intr_vars,
         \/ UNCHANGED inbox
         \/ \E x : inbox' = [inbox EXCEPT ![c] = x]
  PROVE  PulseInv'
<1>1. inbox'["intr"] = inbox["intr"] /\ inbox' = [d \in Channels |-> inbox'[d]]
  BY QnxAssumption DEF PulseInv
<1> QED BY <1>1 DEF PulseInv, OneInterrupt, intr_vars

LEMMA OthersKeep ==
  ASSUME PulseInv, UNCHANGED intr_vars,
         \/ IpcNext
         \/ \E t \in {"server"} \cup Procs : ServerStep(t)
         \/ \E p \in Procs : ShmemStep(p)
  PROVE  PulseInv'
<1>1. CASE IpcNext
  <2>1. CASE MainStep
    <3>1. \/ UNCHANGED inbox
          \/ \E x : inbox' = [inbox EXCEPT !["server"] = x]
      BY <2>1 DEF MainStep, StartServer, ClientConnect, SendEcho, EchoAnswered, SendGetStats,
         SendQuit, ClientDisconnect, MainReturns, StartTimer, StartWorkers, Exit, Goto, Resume,
         ClientSendMsg, MsgSend, SendFails, Deliver
    <3> QED BY <3>1, OtherChannels
  <2>2. CASE TimerFires \/ TakePulse
    <3>1. \E x : inbox' = [inbox EXCEPT !["timer"] = x]
      BY <2>2 DEF TimerFires, TakePulse, Deliver, Receive
    <3> QED BY <3>1, OtherChannels
  <2>3. CASE \E w \in Workers : WorkerStep(w)
    <3>1. UNCHANGED inbox
      BY <2>3 DEF WorkerStep, SemWait, MutexLock, MutexUnlock, SemPost, Goto
    <3> QED BY <3>1, OtherChannels
  <2> QED BY <1>1, <2>1, <2>2, <2>3 DEF IpcNext
<1>2. ASSUME NEW t \in {"server"} \cup Procs, ServerStep(t) PROVE PulseInv'
  <2>1. t # "intr" /\ (UNCHANGED inbox \/ \E x : inbox' = [inbox EXCEPT ![t] = x])
    BY <1>2, QnxAssumption DEF ServerStep, Serve, LeaveLoop, Receive, Goto
  <2> QED BY <2>1, OtherChannels
<1>3. ASSUME NEW p \in Procs, ShmemStep(p) PROVE PulseInv'
  <2>1. UNCHANGED inbox \/ \E c \in Procs : \E x : inbox' = [inbox EXCEPT ![c] = x]
    BY <1>3 DEF ShmemStep, ShmCreate, ShmOpen, Resize, Map, ServerInit, Fill, SendWrite,
       WhoseChannel, Goto, Exit, MsgSend
  <2> QED BY <2>1, OtherChannels, QnxAssumption
<1> QED BY <1>1, <1>2, <1>3

LEMMA TailIsShorter ==
  ASSUME NEW S, NEW s \in Seq(S), s # <<>>
  PROVE  Tail(s) \in Seq(S) /\ Len(Tail(s)) = Len(s) - 1 /\ Len(s) \in Nat
OBVIOUS

\* A pulse that is delivered masks the interrupt, and one that is received was delivered.
LEMMA IntrKeeps == ASSUME PulseInv, IntrNext PROVE PulseInv'
<1> PICK S : inbox["intr"] \in Seq(S)
  BY DEF PulseInv
<1>1. CASE IntrStart \/ WaitFails
  BY <1>1 DEF IntrStart, WaitFails, Exit, PulseInv, OneInterrupt
<1>2. CASE Interrupt
  <2>1. CASE masked
    BY <1>2, <2>1 DEF Interrupt, PulseInv, OneInterrupt
  <2>2. CASE ~masked
    <3> DEFINE pulse == SigevPulse(10, 0)
    <3>1. /\ inbox' = [inbox EXCEPT !["intr"] = Append(inbox["intr"], pulse)]
          /\ masked' = TRUE /\ taken' = taken
      BY <1>2, <2>2 DEF Interrupt, Deliver
    <3>2. inbox'["intr"] = Append(inbox["intr"], pulse) /\ inbox' = [c \in Channels |-> inbox'[c]]
      BY <3>1, QnxAssumption DEF PulseInv
    <3>3. inbox'["intr"] \in Seq(S \cup {pulse}) /\ Len(inbox'["intr"]) = Len(inbox["intr"]) + 1
      BY <3>2
    <3>4. taken["main"] + taken["thread"] + Len(inbox["intr"]) = 0 /\ Len(inbox["intr"]) \in Nat
      BY <2>2 DEF PulseInv
    <3>5. taken'["main"] + taken'["thread"] + Len(inbox'["intr"]) = 1
      BY <3>1, <3>3, <3>4 DEF PulseInv, IntrThreads
    <3> HIDE DEF pulse
    <3> QED BY <3>1, <3>2, <3>3, <3>5 DEF PulseInv, OneInterrupt
  <2> QED BY <2>1, <2>2
<1>3. ASSUME NEW t \in IntrThreads, Receive("intr"), masked' = masked,
             taken' = [taken EXCEPT ![t] = @ + 1]
      PROVE  PulseInv'
  <2>1. inbox["intr"] # <<>> /\ inbox' = [inbox EXCEPT !["intr"] = Tail(inbox["intr"])]
    BY <1>3 DEF Receive
  <2>2. inbox'["intr"] = Tail(inbox["intr"]) /\ inbox' = [c \in Channels |-> inbox'[c]]
    BY <2>1, QnxAssumption DEF PulseInv
  <2>3. inbox'["intr"] \in Seq(S) /\ Len(inbox'["intr"]) = Len(inbox["intr"]) - 1
        /\ Len(inbox["intr"]) \in Nat
    BY <2>1, <2>2, TailIsShorter
  <2>4. /\ taken' \in [IntrThreads -> Nat]
        /\ taken'["main"] + taken'["thread"] = taken["main"] + taken["thread"] + 1
    BY <1>3 DEF PulseInv, IntrThreads
  <2>5. taken'["main"] + taken'["thread"] + Len(inbox'["intr"])
          = taken["main"] + taken["thread"] + Len(inbox["intr"])
    BY <2>3, <2>4 DEF PulseInv, IntrThreads
  <2> QED BY <1>3, <2>2, <2>3, <2>4, <2>5 DEF PulseInv, OneInterrupt
<1>4. CASE ThreadReceives
  BY <1>3, <1>4 DEF ThreadReceives, IntrThreads
<1>5. CASE MainReceives
  BY <1>3, <1>5 DEF MainReceives, IntrThreads
<1> QED BY <1>1, <1>2, <1>4, <1>5 DEF IntrNext

\* In the whole life of the process its two receivers together see one interrupt, however
\* often the device raises its line (intr_handler.c:104, where the call that would unmask
\* it is commented out).
THEOREM OnlyOneInterrupt == Spec => []OneInterrupt
<1>1. Init => PulseInv
  <2> SUFFICES ASSUME Init PROVE PulseInv
    OBVIOUS
  <2>1. inbox["intr"] = <<>> /\ inbox = [c \in Channels |-> inbox[c]]
    BY QnxAssumption DEF Init
  <2>2. inbox["intr"] \in Seq({}) /\ Len(inbox["intr"]) = 0
    BY <2>1
  <2>3. taken \in [IntrThreads -> Nat] /\ taken["main"] = 0 /\ taken["thread"] = 0
    BY DEF Init, IntrInit, IntrThreads
  <2> QED BY <2>1, <2>2, <2>3 DEF PulseInv, OneInterrupt
<1>2. PulseInv /\ [Next]_vars => PulseInv'
  <2> SUFFICES ASSUME PulseInv, [Next]_vars PROVE PulseInv'
    OBVIOUS
  <2>1. CASE Next
    BY <2>1, OthersKeep, IntrKeeps DEF Next, OnlyIpc
  <2>2. CASE UNCHANGED vars
    BY <2>2 DEF vars, kernel_vars, intr_vars, PulseInv, OneInterrupt
  <2> QED BY <2>1, <2>2
<1>3. PulseInv => OneInterrupt
  BY DEF PulseInv
<1> QED BY <1>1, <1>2, <1>3, PTL DEF Spec
=============================================================================
