------------------------------- MODULE QnxIpc -------------------------------
(***************************************************************************)
(* qnx-apps/qnxIPC/qnxIPC.c, a process in one of its five modes: a server  *)
(* thread, the client in the main thread, a thread that takes the pulses   *)
(* of a timer, and workers that share a semaphore and a mutex.  Texts,     *)
(* byte counts and delays are left out.                                    *)
(***************************************************************************)
EXTENDS QnxKernel

CONSTANTS
  Workers,        \* the threads of the semaphore demo (three in the code)
  Messages,       \* echoes the client sends (5 in the code)
  Rounds,         \* rounds of each worker (5 in the code)
  Pulses,         \* pulses the timer thread waits for (10 in the code)
  Backlog         \* bound: pulses queued at a time

VARIABLES
  total_messages, \* global_stats.total_messages
  sent,           \* the client's loop counter
  semaphore,      \* sem_demo
  owner,          \* who holds print_mutex
  rounds,         \* the workers' loop counters
  count           \* the timer thread's pulses

ipc_vars == <<total_messages, sent, semaphore, owner, rounds, count>>

Modes == {"both", "server", "client", "timer", "sem"}
IpcThreads == {"main", "server", "timer"} \cup Workers

IpcInit ==
  /\ total_messages = 0 /\ sent = 0 /\ count = 0
  /\ semaphore = 1 /\ owner = "nobody"
  /\ rounds = [w \in Workers |-> 0]

-----------------------------------------------------------------------------
\* start_server: without a channel or a thread main returns 1.  In server mode it then
\* waits for a signal.
StartServer ==
  /\ program \in {"both", "server"} /\ Running("main", "start")
  /\ \/ Exit(IpcThreads)
     \/ /\ pc' = [pc EXCEPT !["server"] = "receive",
                            !["main"] = IF program = "both" THEN "connect" ELSE "pause"]
        /\ UNCHANGED <<program, inbox, wait, answer>>
  /\ UNCHANGED ipc_vars

\* client_connect attaches to the channel of this very process, whatever the name of the
\* server: in client mode there is none.
ClientConnect ==
  /\ \/ program = "both" /\ Running("main", "connect") /\ (Goto("main", "echo") \/ Exit(IpcThreads))
     \/ program = "client" /\ Running("main", "start") /\ Exit(IpcThreads)
  /\ UNCHANGED ipc_vars

\* client_send_msg: the message is sent and an answer awaited, or the call fails.
ClientSendMsg(type, next) == MsgSend("main", "server", type) \/ SendFails("main", next)

\* client_main: the echoes until one fails, then the statistics, then the request to quit.
SendEcho ==
  /\ Running("main", "echo")
  /\ ClientSendMsg("ECHO", "stats")
  /\ UNCHANGED ipc_vars

EchoAnswered ==
  /\ Returned("main", "echo")
  /\ sent' = IF answer["main"] = 0 THEN sent + 1 ELSE sent
  /\ Resume("main", IF answer["main"] # 0 \/ sent + 1 = Messages THEN "stats" ELSE "echo")
  /\ UNCHANGED <<total_messages, semaphore, owner, rounds, count>>

SendGetStats ==
  /\ \/ Running("main", "stats") /\ ClientSendMsg("GET_STATS", "quit")
     \/ Returned("main", "stats") /\ Resume("main", "quit")
  /\ UNCHANGED ipc_vars

SendQuit ==
  /\ \/ Running("main", "quit") /\ ClientSendMsg("QUIT", "disconnect")
     \/ Returned("main", "quit") /\ Resume("main", "disconnect")
  /\ UNCHANGED ipc_vars

\* client_disconnect, of which the kernel tells the channel by a pulse, and a second's
\* sleep before main returns.
ClientDisconnect ==
  /\ Running("main", "disconnect")
  /\ Deliver("server", Pulse("disconnect")) /\ pc' = [pc EXCEPT !["main"] = "sleep"]
  /\ UNCHANGED <<program, wait, answer, ipc_vars>>

\* A thread that was not created leaves its number uninitialised: the join fails, or it
\* names another thread and waits for that one.
Joined(ts) == \A t \in ts : pc[t] \in {"ended", "start"}

MainReturns ==
  /\ \/ Running("main", "sleep")
     \/ program = "timer" /\ Running("main", "join") /\ Joined({"timer"})
     \/ program = "sem" /\ Running("main", "join") /\ Joined(Workers)
  /\ Exit(IpcThreads)
  /\ UNCHANGED ipc_vars

-----------------------------------------------------------------------------
\* mutated HandleMessage: a request to quit is not replied to
QuitUnanswered(type) ==
  [status |-> IF type \in {"ECHO", "GET_STATS"} THEN 0 ELSE 1,
   replies |-> type # "QUIT", ends |-> type \notin {"ECHO", "GET_STATS"}]

\* handle_message, and what server_thread makes of it: a reply always, and the end of
\* the loop unless it returned 0.
HandleMessage(type) ==
  [status |-> CASE type \in {"ECHO", "GET_STATS"} -> 0 [] type = "QUIT" -> 1 [] OTHER -> -1,
   replies |-> TRUE, ends |-> type \notin {"ECHO", "GET_STATS"}]

-----------------------------------------------------------------------------
\* timer_pulse_thread: the thread is not created, or ends for want of a channel, a
\* connection or a timer; whether TimerSet armed the timer it does not ask.
StartTimer ==
  /\ program = "timer" /\ Running("main", "start")
  /\ \E label \in {"start", "ended", "unarmed", "armed"} :
       pc' = [pc EXCEPT !["main"] = "join", !["timer"] = label]
  /\ UNCHANGED <<program, inbox, wait, answer, ipc_vars>>

\* The timer fires at once (its first time is an absolute one, long past), then periodically.
TimerFires ==
  /\ pc["timer"] = "armed" /\ Len(inbox["timer"]) < Backlog
  /\ Deliver("timer", SigevPulse(10, 1))
  /\ UNCHANGED <<program, pc, wait, answer, ipc_vars>>

\* Only pulses of code 10 count.
TakePulse ==
  /\ pc["timer"] = "armed" /\ Receive("timer")
  /\ count' = IF Head(inbox["timer"]).type = 10 THEN count + 1 ELSE count
  /\ pc' = IF count' < Pulses THEN pc ELSE [pc EXCEPT !["timer"] = "ended"]
  /\ UNCHANGED <<program, wait, answer, total_messages, sent, semaphore, owner, rounds>>

-----------------------------------------------------------------------------
\* run_semaphore_demo and sem_worker; it does not ask which threads were created.
StartWorkers ==
  /\ program = "sem" /\ Running("main", "start")
  /\ \E created \in SUBSET Workers :
       pc' = [t \in Threads |-> IF t = "main" THEN "join" ELSE IF t \in created THEN "wait" ELSE pc[t]]
  /\ UNCHANGED <<program, inbox, wait, answer, ipc_vars>>

SemWait(w) ==
  /\ pc[w] = "wait" /\ semaphore > 0
  /\ semaphore' = semaphore - 1
  /\ Goto(w, "lock")
  /\ UNCHANGED <<total_messages, sent, owner, rounds, count>>

MutexLock(w) ==
  /\ pc[w] = "lock" /\ owner = "nobody"
  /\ owner' = w
  /\ Goto(w, "critical")
  /\ UNCHANGED <<total_messages, sent, semaphore, rounds, count>>

MutexUnlock(w) ==
  /\ pc[w] = "critical"
  /\ owner' = "nobody"
  /\ Goto(w, "post")
  /\ UNCHANGED <<total_messages, sent, semaphore, rounds, count>>

SemPost(w) ==
  /\ pc[w] = "post"
  /\ semaphore' = semaphore + 1
  /\ rounds' = [rounds EXCEPT ![w] = @ + 1]
  /\ Goto(w, IF rounds[w] + 1 = Rounds THEN "ended" ELSE "wait")
  /\ UNCHANGED <<total_messages, sent, owner, count>>

-----------------------------------------------------------------------------
MainStep ==
  \/ StartServer \/ ClientConnect \/ SendEcho \/ EchoAnswered \/ SendGetStats \/ SendQuit
  \/ ClientDisconnect \/ MainReturns \/ StartTimer \/ StartWorkers

WorkerStep(w) == SemWait(w) \/ MutexLock(w) \/ MutexUnlock(w) \/ SemPost(w)

IpcNext == MainStep \/ TimerFires \/ TakePulse \/ \E w \in Workers : WorkerStep(w)

-----------------------------------------------------------------------------
\* Whichever calls fail, the modes "both", "client" and "sem" return.  At the end of "both"
\* every echo that was answered has been counted once, and the server thread is out of its
\* loop or has before it what ends the loop (the quit, or when that could not be sent the
\* pulse of the client's end), although main only sleeps and does not wait for it.  The
\* mode "timer" returns only when its thread does not get as far as its loop (line 338):
\* there it waits for ever, for pulses of a code that its timer does not send.
IpcEnds ==
  /\ program \in {"both", "client", "sem"} ~> pc["main"] = "exit"
  /\ [](pc["main"] = "sleep" =>
          /\ total_messages = sent
          /\ pc["server"] = "receive" =>
               \E i \in DOMAIN inbox["server"] : HandleMessage(inbox["server"][i].type).ends)
  /\ program = "timer" => \/ <>(pc["main"] = "exit")
                          \/ <>[](pc["main"] = "join" /\ pc["timer"] \in {"armed", "unarmed"})
=============================================================================
