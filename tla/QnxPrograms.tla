---------------------------- MODULE QnxPrograms -----------------------------
(***************************************************************************)
(* The example programs on the QNX kernel.  A behaviour runs one of them:  *)
(* qnxIPC in one of its modes, the processes of shmem_demo, or the         *)
(* interrupt example.                                                      *)
(***************************************************************************)
EXTENDS QnxIpc, ShmemDemo, IntrHandler

\* Nobody else receives on the channel that intr_handler.c creates (line 158).
ASSUME QnxAssumption == "intr" \in Channels /\ "intr" \notin Procs

vars == <<kernel_vars, ipc_vars, shmem_vars, intr_vars>>

Init ==
  /\ program \in Modes \cup {"shmem", "intr"}
  /\ pc = [t \in Threads |-> "start"]
  /\ inbox = [c \in Channels |-> <<>>]
  /\ wait = [t \in Threads |-> "no"] /\ answer = [t \in Threads |-> 0]
  /\ IpcInit /\ IntrInit
  /\ ShmemInit /\ (program # "shmem" => role = CHOOSE r \in [Procs -> Roles] : TRUE)

\* A server receives a message, handles it and, unless it forgets to, replies: the
\* server thread of qnxIPC (server_thread) or of shmem_demo (server_handle_msg).  Who
\* sent the message runs on from here.
Serve(t) ==
  /\ pc[t] = "receive" /\ Receive(t)
  /\ LET m == Head(inbox[t])
         done == IF t \in Procs THEN ServerHandleMsg(m.type) ELSE HandleMessage(m.type)
     IN  /\ IF done.replies THEN MsgReply(m.from, done.status) ELSE UNCHANGED <<wait, answer>>
         /\ pc' = IF done.ends THEN [pc EXCEPT ![t] = "done"] ELSE pc
         /\ total_messages' = total_messages + (IF m.type = "ECHO" THEN 1 ELSE 0)
  /\ UNCHANGED <<program, sent, semaphore, owner, rounds, count>>

\* The loop looks at what the message asked for, and the server ends.
LeaveLoop(t) ==
  /\ pc[t] = "done"
  /\ Goto(t, "ended")
  /\ UNCHANGED ipc_vars

ServerStep(t) == Serve(t) \/ LeaveLoop(t)

OnlyIpc == UNCHANGED <<shmem_vars, intr_vars>>

Next ==
  \/ IpcNext /\ OnlyIpc
  \/ \E t \in {"server"} \cup Procs : ServerStep(t) /\ OnlyIpc
  \/ \E p \in Procs : ShmemStep(p) /\ UNCHANGED <<ipc_vars, intr_vars>>
  \/ IntrNext /\ UNCHANGED <<ipc_vars, shmem_vars>>

\* Every thread that can go on does, and an armed timer fires: the threads have equal
\* priority, and the kernel wakes those who wait.
Fairness ==
  /\ WF_vars(MainStep /\ OnlyIpc)
  /\ WF_vars(TimerFires /\ OnlyIpc) /\ WF_vars(TakePulse /\ OnlyIpc)
  /\ \A t \in {"server"} \cup Procs : WF_vars(ServerStep(t) /\ OnlyIpc)
  /\ \A w \in Workers : WF_vars(WorkerStep(w) /\ OnlyIpc)
  /\ \A p \in Procs : WF_vars(ShmemStep(p) /\ UNCHANGED <<ipc_vars, intr_vars>>)

Spec == Init /\ [][Next]_vars /\ Fairness

=============================================================================
