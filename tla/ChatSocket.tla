----------------------------- MODULE ChatSocket -----------------------------
(***************************************************************************)
(* The socket of the web console (ai-gateway-frontend/src/api/ws.js) and   *)
(* the chat page that uses it (views/ChatConsole.vue).  ws.js keeps one    *)
(* socket, one timer and one counter for the whole application, but a      *)
(* socket it has replaced, and a timer it has forgotten, live on.  What    *)
(* the messages say, and the stored history of a chat, are left out.       *)
(***************************************************************************)
EXTENDS Integers, Sequences

CONSTANTS
  maxReconnectAttempts,   \* 5 in the code
  MaxSockets,             \* bound: sockets made in a behaviour
  MaxVisits               \* bound: how often the page is opened

ASSUME SocketAssumption == maxReconnectAttempts \in Nat /\ MaxSockets \in Nat

VARIABLES
  sockets,        \* every socket made, by its readyState
  ws,             \* which of them ws.js holds, 0 for null
  attempts,       \* reconnectAttempts
  timer,          \* the reconnectTimer is pending
  forgotten,      \* timers that are pending and overwritten in reconnectTimer
  mounted,        \* the chat page is open
  visits,
  streaming,      \* "generating", which disables sending, in the page that is open
  asked,          \* sockets over which a question went that has no "done" yet
  over,           \* history: the socket the page's question went over, 0 if it was dropped
  crowded         \* history: a socket was made while another was not closed

socket_vars ==
  <<sockets, ws, attempts, timer, forgotten, mounted, visits, streaming, asked, over, crowded>>

SocketInit ==
  /\ sockets = <<>> /\ ws = 0 /\ attempts = 0 /\ timer = FALSE /\ forgotten = 0
  /\ mounted = FALSE /\ visits = 0
  /\ streaming = FALSE /\ asked = {} /\ over = 0 /\ crowded = FALSE

IsOpen(s) == s # 0 /\ sockets[s] = "open"

-----------------------------------------------------------------------------
\* connect: only an open socket keeps it from making another.
Connect ==
  IF IsOpen(ws) THEN UNCHANGED <<sockets, ws, crowded>>
  ELSE /\ Len(sockets) < MaxSockets
       /\ sockets' = Append(sockets, "connecting") /\ ws' = Len(sockets) + 1
       /\ crowded' = (crowded \/ \E s \in DOMAIN sockets : sockets[s] # "closed")

\* onMounted of a page that begins anew
Mount ==
  /\ ~mounted /\ visits < MaxVisits
  /\ mounted' = TRUE /\ visits' = visits + 1
  /\ streaming' = FALSE /\ over' = 0
  /\ Connect
  /\ UNCHANGED <<attempts, timer, forgotten, asked>>

\* mutated Unmount: the timer is not stopped
UnmountTicking ==
  /\ mounted /\ mounted' = FALSE
  /\ attempts' = maxReconnectAttempts
  /\ IF ws = 0 THEN UNCHANGED <<sockets, ws>>
     ELSE /\ ws' = 0
          /\ sockets' = [sockets EXCEPT ![ws] = IF @ = "closed" THEN @ ELSE "closing"]
  /\ UNCHANGED <<timer, forgotten, visits, streaming, asked, over, crowded>>

\* mutated Unmount: the socket is not closed
UnmountOpen ==
  /\ mounted /\ mounted' = FALSE
  /\ timer' = FALSE /\ attempts' = maxReconnectAttempts
  /\ ws' = 0
  /\ UNCHANGED <<sockets, forgotten, visits, streaming, asked, over, crowded>>

\* onUnmounted: disconnect, which stops the timer it knows and keeps others from being set
\* by using the attempts up.
Unmount ==
  /\ mounted /\ mounted' = FALSE
  /\ timer' = FALSE /\ attempts' = maxReconnectAttempts
  /\ IF ws = 0 THEN UNCHANGED <<sockets, ws>>
     ELSE /\ ws' = 0
          /\ sockets' = [sockets EXCEPT ![ws] = IF @ = "closed" THEN @ ELSE "closing"]
  /\ UNCHANGED <<forgotten, visits, streaming, asked, over, crowded>>

\* onopen
Open(s) ==
  /\ sockets[s] = "connecting"
  /\ sockets' = [sockets EXCEPT ![s] = "open"]
  /\ attempts' = 0 /\ timer' = FALSE
  /\ UNCHANGED <<ws, forgotten, mounted, visits, streaming, asked, over, crowded>>

\* The connection fails, ends or has been closed: onclose and scheduleReconnect.
Close(s) ==
  /\ sockets[s] # "closed"
  /\ sockets' = [sockets EXCEPT ![s] = "closed"]
  /\ IF attempts >= maxReconnectAttempts THEN UNCHANGED <<attempts, timer, forgotten>>
     ELSE /\ attempts' = attempts + 1
          /\ timer' = TRUE /\ forgotten' = forgotten + (IF timer THEN 1 ELSE 0)
  /\ asked' = asked \ {s}
  /\ UNCHANGED <<ws, mounted, visits, streaming, over, crowded>>

\* A timer that was set by scheduleReconnect
TimerFires ==
  /\ \/ timer /\ timer' = FALSE /\ UNCHANGED forgotten
     \/ forgotten > 0 /\ forgotten' = forgotten - 1 /\ UNCHANGED timer
  /\ Connect
  /\ UNCHANGED <<attempts, mounted, visits, streaming, asked, over>>

\* sendMessage: the page waits from now on, but send does nothing on a socket that is not open.
SendMessage ==
  /\ mounted /\ ~streaming
  /\ streaming' = TRUE
  /\ IF IsOpen(ws) THEN asked' = asked \cup {ws} /\ over' = ws
     ELSE over' = 0 /\ UNCHANGED asked
  /\ UNCHANGED <<sockets, ws, attempts, timer, forgotten, mounted, visits, crowded>>

\* The server has answered.  handleMessage calls the handlers of all pages there ever were,
\* the oldest first, and one that throws (saveHistory may, ChatConsole.vue:61) ends the
\* loop: then the open page, which is last, hears nothing.
Done(s) ==
  /\ s \in asked /\ sockets[s] = "open"
  /\ asked' = asked \ {s}
  /\ streaming' \in {FALSE} \cup {streaming : page \in 1..(visits - 1)}
  /\ UNCHANGED <<sockets, ws, attempts, timer, forgotten, mounted, visits, over, crowded>>

SocketNext ==
  \/ Mount \/ Unmount \/ TimerFires \/ SendMessage
  \/ \E s \in DOMAIN sockets : Open(s) \/ Close(s) \/ Done(s)

-----------------------------------------------------------------------------
\* Once the page is left, nothing of it stays behind: no socket that is or will be open and
\* no timer, so that nobody connects any more.  That holds unless a socket was ever made
\* while another was there; then a timer or a socket that ws.js has lost sight of may
\* survive (ws.js:24 looks at an open socket only, ws.js:52 overwrites the timer).
LeavesNothingBehind ==
  ~mounted /\ ~crowded =>
    /\ ~timer /\ forgotten = 0
    /\ \A s \in DOMAIN sockets : sockets[s] \in {"closing", "closed"}

\* A page that waits is released by the answer to its own question and by nothing else:
\* not by an answer to what an earlier page asked, over whatever socket, and not by a new
\* socket.  So a page waits until it is left, and can send no more (ChatConsole.vue:46), when
\* its question was dropped without a word (ws.js:56), when the socket closes under it, and
\* when an older page's handler throws before its own is called (ws.js:17).
ReleasedByItsAnswer ==
  [][mounted /\ mounted' /\ streaming /\ ~streaming' => over \in asked /\ asked' = asked \ {over}]_socket_vars
=============================================================================
