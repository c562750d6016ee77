-------------------------- MODULE WebConsoleProofs --------------------------
(***************************************************************************)
(* What a page leaves behind, and where the tokens of a session are, for   *)
(* every number of sockets, visits, requests and tokens.                   *)
(***************************************************************************)
EXTENDS WebConsole, TLAPS

-----------------------------------------------------------------------------
\* The session.  Each conjunct of StorageAgrees can be broken only by what a request
\* under way brings back, so the invariant says who may still wait for a token: with an
\* empty store, only requests that the logout found waiting.
SessionTypes ==
  /\ issued \in Nat
  /\ request \in [Requests -> [for : {"nothing", "login", "logout", "data", "profile"},
                             waits : {"nothing", "answer", "token"}]]

TokensAgree ==
  /\ renewable => local # None
  /\ store = None => ~renewable
  /\ store # None => local # None \/ failed
  /\ store = None => late \/ \A q \in Requests : request[q].waits # "token"

SessionInv == SessionTypes /\ TokensAgree /\ StorageAgrees

\* A logout leaves both places empty, and whoever still waits for a token is on record.
LEMMA SignOutAgrees ==
  ASSUME SessionInv, NEW r \in Requests, Finish(r), SignOut(r), issued' = issued
  PROVE  SessionInv'
<1>1. SessionTypes'
  BY DEF SessionInv, SessionTypes, Finish, Idle
<1>2. \A q \in Requests \ {r} : request'[q] = request[q]
  BY DEF Finish, SessionInv, SessionTypes
<1>3. request'[r].waits = "nothing"
  BY DEF Finish, SessionInv, SessionTypes, Idle
<1>4. TokensAgree'
  <2>1. late' \/ \A q \in Requests : request'[q].waits # "token"
    BY <1>2, <1>3 DEF SignOut
  <2> QED BY <2>1 DEF TokensAgree, SignOut
<1> QED BY <1>1, <1>4 DEF SessionInv, StorageAgrees, SignOut

\* A request that is rejected ends, with the storage as it was or emptied.
LEMMA RejectedAgrees ==
  ASSUME SessionInv, NEW r \in Requests,
         \/ /\ Rejected(r, local, renewable, page) \/ Rejected(r, local, FALSE, "login")
            /\ failed' = failed
         \/ Rejected(r, None, FALSE, "login") /\ failed'
  PROVE  SessionInv'
<1>1. Finish(r) /\ issued' = issued
  BY DEF Rejected
<1>2. CASE request[r].for = "logout"
  BY <1>1, <1>2, SignOutAgrees DEF Rejected
<1>3. CASE request[r].for # "logout"
  <2>1. SessionTypes'
    BY <1>1 DEF SessionInv, SessionTypes, Finish, Idle
  <2>2. \A q \in Requests : request'[q].waits = "token" => request[q].waits = "token"
    BY <1>1 DEF Finish, SessionInv, SessionTypes, Idle
  <2>3. store' = store /\ late' = late
    BY <1>3 DEF Rejected
  <2>4. \/ local' = local /\ renewable' = renewable /\ failed' = failed
        \/ local' = local /\ ~renewable' /\ failed' = failed
        \/ local' = None /\ ~renewable' /\ failed'
    BY <1>3 DEF Rejected
  <2>5. page' \in {"login", page, Enters(store)}
    BY <1>3 DEF Rejected
  <2>6. TokensAgree'
    BY <2>2, <2>3, <2>4 DEF SessionInv, TokensAgree
  <2>7. StorageAgrees'
    BY <2>3, <2>4, <2>5 DEF SessionInv, TokensAgree, StorageAgrees, Enters
  <2> QED BY <2>1, <2>6, <2>7 DEF SessionInv
<1> QED BY <1>2, <1>3

LEMMA SessionKept == ASSUME SessionInv, SessionNext PROVE SessionInv'
<1>1. ASSUME NEW r \in Requests, Send(r) PROVE SessionInv'
  <2>1. SessionTypes'
    BY <1>1 DEF Send, SessionInv, SessionTypes
  <2>2. \A q \in Requests : request'[q].waits = "token" => request[q].waits = "token"
    BY <1>1 DEF Send, SessionInv, SessionTypes
  <2> QED BY <1>1, <2>1, <2>2 DEF Send, SessionInv, TokensAgree, StorageAgrees
<1>2. ASSUME NEW r \in Requests, Accepted(r) PROVE SessionInv'
  <2>1. CASE request[r].for = "login"
    <3>1. /\ issued' = issued + 1 /\ local' = issued + 1 /\ store' = issued + 1
          /\ ~late' /\ ~failed' /\ renewable'
      BY <1>2, <2>1 DEF Accepted
    <3>2. request' = [request EXCEPT ![r] = [for |-> "profile", waits |-> "answer"]]
      BY <1>2, <2>1 DEF Accepted
    <3>3. SessionTypes'
      BY <3>1, <3>2 DEF SessionInv, SessionTypes
    <3>4. local' # None /\ store' # None
      BY <3>1 DEF SessionInv, SessionTypes, None
    <3> QED BY <3>3, <3>4 DEF SessionInv, TokensAgree, StorageAgrees
  <2>2. CASE request[r].for = "logout"
    BY <1>2, <2>2, SignOutAgrees DEF Accepted
  <2>3. CASE request[r].for \notin {"login", "logout"}
    <3>1. /\ Finish(r) /\ page' \in {page, Enters(store)}
          /\ UNCHANGED <<local, renewable, store, issued, late, failed>>
      BY <1>2, <2>3 DEF Accepted
    <3>2. SessionTypes'
      BY <3>1 DEF SessionInv, SessionTypes, Finish, Idle
    <3>3. \A q \in Requests : request'[q].waits = "token" => request[q].waits = "token"
      BY <3>1 DEF Finish, SessionInv, SessionTypes, Idle
    <3> QED BY <3>1, <3>2, <3>3 DEF SessionInv, TokensAgree, StorageAgrees, Enters
  <2> QED BY <2>1, <2>2, <2>3
<1>3. ASSUME NEW r \in Requests, Fails(r) PROVE SessionInv'
  BY <1>3, RejectedAgrees DEF Fails
<1>4. ASSUME NEW r \in Requests, Unauthorized(r) PROVE SessionInv'
  <2>1. CASE renewable
    <3>1. SessionTypes'
      BY <1>4, <2>1 DEF Unauthorized, SessionInv, SessionTypes
    <3> QED BY <1>4, <2>1, <3>1 DEF Unauthorized, SessionInv, TokensAgree, StorageAgrees
  <2>2. CASE ~renewable
    BY <1>4, <2>2, RejectedAgrees DEF Unauthorized
  <2> QED BY <2>1, <2>2
<1>5. ASSUME NEW r \in Requests, Refreshed(r) PROVE SessionInv'
  <2>1. SessionTypes'
    BY <1>5 DEF Refreshed, SessionInv, SessionTypes
  <2>2. local' # None
    BY <1>5 DEF Refreshed, SessionInv, SessionTypes, None
  <2>3. store = None => late
    BY <1>5 DEF Refreshed, SessionInv, TokensAgree
  <2> QED BY <1>5, <2>1, <2>2, <2>3 DEF Refreshed, SessionInv, TokensAgree, StorageAgrees
<1>6. ASSUME NEW r \in Requests, RefreshFails(r) PROVE SessionInv'
  BY <1>6, RejectedAgrees DEF RefreshFails
<1>7. CASE Navigate
  BY <1>7 DEF Navigate, Enters, SessionInv, SessionTypes, TokensAgree, StorageAgrees
<1>8. CASE Reload
  BY <1>8 DEF Reload, Enters, Idle, SessionInv, SessionTypes, TokensAgree, StorageAgrees
<1> QED BY <1>1, <1>2, <1>3, <1>4, <1>5, <1>6, <1>7, <1>8 DEF SessionNext

-----------------------------------------------------------------------------
\* The socket.  Unless sockets were ever crowded there is at most one that is not
\* closed, and none beside a pending timer; while the page is open that one is the one
\* ws.js holds, which is why leaving the page reaches it.
ReadyStates == {"connecting", "open", "closing", "closed"}

SocketTypes ==
  /\ sockets \in Seq(ReadyStates) /\ ws \in 0..Len(sockets)
  /\ attempts \in Nat /\ forgotten \in Nat
  /\ timer \in BOOLEAN /\ mounted \in BOOLEAN /\ crowded \in BOOLEAN

Closed == \A s \in DOMAIN sockets : sockets[s] = "closed"

OneSocket ==
  /\ \A s, t \in DOMAIN sockets : sockets[s] # "closed" /\ sockets[t] # "closed" => s = t
  /\ forgotten = 0
  /\ timer => mounted /\ Closed
  /\ mounted => \A s \in DOMAIN sockets : sockets[s] \in {"connecting", "open"} => s = ws
  /\ ~mounted => /\ attempts >= maxReconnectAttempts \/ Closed
                 /\ \A s \in DOMAIN sockets : sockets[s] \in {"closing", "closed"}

SocketInv == SocketTypes /\ (~crowded => OneSocket)

\* connect keeps the types, and crowds unless all sockets are closed or one is open.
LEMMA ConnectKeeps ==
  ASSUME SocketTypes, Connect
  PROVE  /\ sockets' \in Seq(ReadyStates) /\ ws' \in 0..Len(sockets') /\ crowded' \in BOOLEAN
         /\ ~crowded' => ~crowded
         /\ ~crowded' =>
              \/ /\ ws \in DOMAIN sockets /\ sockets[ws] = "open"
                 /\ UNCHANGED <<sockets, ws>>
              \/ /\ Closed /\ ws' = Len(sockets) + 1
                 /\ sockets' = Append(sockets, "connecting")
<1>1. CASE IsOpen(ws)
  BY <1>1 DEF Connect, IsOpen, SocketTypes
<1>2. CASE ~IsOpen(ws)
  <2>1. /\ sockets' = Append(sockets, "connecting") /\ ws' = Len(sockets) + 1
        /\ crowded' = (crowded \/ \E s \in DOMAIN sockets : sockets[s] # "closed")
    BY <1>2 DEF Connect
  <2>2. sockets' \in Seq(ReadyStates) /\ Len(sockets') = Len(sockets) + 1
    BY <2>1 DEF SocketTypes, ReadyStates
  <2>3. ws' \in 0..Len(sockets')
    BY <2>1, <2>2 DEF SocketTypes
  <2> QED BY <2>1, <2>2, <2>3 DEF SocketTypes, Closed
<1> QED BY <1>1, <1>2

\* A new socket beside closed ones is the only one.
LEMMA OnlyOne ==
  ASSUME SocketTypes, Closed, sockets' = Append(sockets, "connecting")
  PROVE  /\ DOMAIN sockets' = 1..(Len(sockets) + 1)
         /\ \A s \in DOMAIN sockets' : sockets'[s] # "closed" => s = Len(sockets) + 1
<1>1. DOMAIN sockets' = 1..(Len(sockets) + 1)
  BY DEF SocketTypes
<1>2. \A s \in 1..Len(sockets) : sockets'[s] = "closed"
  BY DEF SocketTypes, Closed
<1> QED BY <1>1, <1>2 DEF SocketTypes

\* A timer that makes a socket, or a page that is opened, leaves one socket, which ws.js holds.
LEMMA ConnectedOnce ==
  ASSUME SocketInv, Connect, ~crowded', mounted', ~timer', forgotten' = 0,
         ~mounted \/ timer
  PROVE  OneSocket'
<1>1. OneSocket
  BY ConnectKeeps DEF SocketInv
<1>2. ~(ws \in DOMAIN sockets /\ sockets[ws] = "open")
  BY <1>1 DEF OneSocket, Closed
<1>3. Closed /\ ws' = Len(sockets) + 1 /\ sockets' = Append(sockets, "connecting")
  BY <1>2, ConnectKeeps DEF SocketInv
<1>4. \A s \in DOMAIN sockets' : sockets'[s] # "closed" => s = ws'
  BY <1>3, OnlyOne DEF SocketInv
<1> QED BY <1>4 DEF OneSocket

\* A socket that changes its state leaves the others as they are.
LEMMA OneChanges ==
  ASSUME SocketTypes, NEW s \in DOMAIN sockets, NEW state \in ReadyStates,
         sockets' = [sockets EXCEPT ![s] = state]
  PROVE  /\ sockets' \in Seq(ReadyStates) /\ Len(sockets') = Len(sockets)
         /\ DOMAIN sockets' = DOMAIN sockets
         /\ sockets'[s] = state
         /\ \A t \in DOMAIN sockets : t # s => sockets'[t] = sockets[t]
BY DEF SocketTypes

LEMMA SocketKept == ASSUME SocketInv, SocketNext PROVE SocketInv'
<1> USE SocketAssumption
<1>1. CASE Mount
  <2>1. SocketTypes'
    BY <1>1, ConnectKeeps DEF Mount, SocketInv, SocketTypes
  <2>2. ASSUME ~crowded' PROVE OneSocket'
    <3>1. OneSocket
      BY <1>1, <2>2, ConnectKeeps DEF Mount, SocketInv
    <3>2. ~timer' /\ forgotten' = 0 /\ mounted' /\ ~mounted /\ Connect
      BY <1>1, <3>1 DEF Mount, OneSocket
    <3> QED BY <2>2, <3>2, ConnectedOnce
  <2> QED BY <2>1, <2>2 DEF SocketInv
<1>2. CASE Unmount
  <2>1. CASE ws = 0
    <3>1. SocketTypes'
      BY <1>2, <2>1 DEF Unmount, SocketInv, SocketTypes
    <3>2. ASSUME ~crowded' PROVE OneSocket'
      <4>1. OneSocket /\ mounted
        BY <1>2, <3>2 DEF Unmount, SocketInv
      <4>2. \A s \in DOMAIN sockets : sockets[s] \in {"closing", "closed"}
        BY <2>1, <4>1 DEF OneSocket, SocketInv, SocketTypes, ReadyStates
      <4> QED BY <1>2, <2>1, <4>1, <4>2 DEF Unmount, OneSocket
    <3> QED BY <3>1, <3>2 DEF SocketInv
  <2>2. CASE ws # 0
    <3> DEFINE state == IF sockets[ws] = "closed" THEN "closed" ELSE "closing"
    <3>1. /\ ws \in DOMAIN sockets /\ state \in ReadyStates
          /\ sockets' = [sockets EXCEPT ![ws] = state] /\ ws' = 0
      BY <1>2, <2>2 DEF Unmount, SocketInv, SocketTypes, ReadyStates
    <3>2. state \in {"closing", "closed"} /\ (sockets[ws] = "closed" => state = "closed")
      OBVIOUS
    <3> HIDE DEF state
    <3>3. /\ sockets' \in Seq(ReadyStates) /\ DOMAIN sockets' = DOMAIN sockets
          /\ Len(sockets') = Len(sockets) /\ sockets'[ws] = state
          /\ \A t \in DOMAIN sockets : t # ws => sockets'[t] = sockets[t]
      BY <3>1, OneChanges DEF SocketInv
    <3>4. SocketTypes'
      <4>1. /\ mounted' = FALSE /\ timer' = FALSE /\ attempts' = maxReconnectAttempts
            /\ UNCHANGED <<forgotten, crowded>>
        BY <1>2 DEF Unmount
      <4>2. 0 \in 0..Len(sockets)
        BY DEF SocketInv, SocketTypes
      <4> QED BY <3>1, <3>3, <4>1, <4>2 DEF SocketInv, SocketTypes
    <3>5. ASSUME ~crowded' PROVE OneSocket'
      <4>1. OneSocket /\ mounted
        BY <1>2, <3>5 DEF Unmount, SocketInv
      <4>2. \A t \in DOMAIN sockets : t # ws => sockets[t] \in {"closing", "closed"}
        <5>1. \A t \in DOMAIN sockets : sockets[t] \in ReadyStates
          BY DEF SocketInv, SocketTypes
        <5> QED BY <4>1, <5>1 DEF OneSocket, ReadyStates
      <4>3. \A s \in DOMAIN sockets' : sockets'[s] \in {"closing", "closed"}
        BY <3>2, <3>3, <4>2
      <4>4. \A s, t \in DOMAIN sockets' : sockets'[s] # "closed" /\ sockets'[t] # "closed" => s = t
        BY <3>1, <3>2, <3>3, <4>1 DEF OneSocket
      <4>5. ~timer' /\ ~mounted' /\ forgotten' = forgotten /\ attempts' = maxReconnectAttempts
        BY <1>2 DEF Unmount
      <4> QED BY <4>1, <4>3, <4>4, <4>5 DEF OneSocket
    <3> QED BY <3>4, <3>5 DEF SocketInv
  <2> QED BY <2>1, <2>2
<1>3. CASE TimerFires
  <2>1. SocketTypes'
    <3>1. CASE timer /\ timer' = FALSE /\ UNCHANGED forgotten
      BY <1>3, <3>1, ConnectKeeps DEF TimerFires, SocketInv, SocketTypes
    <3>2. CASE forgotten > 0 /\ forgotten' = forgotten - 1 /\ UNCHANGED timer
      <4>1. forgotten' \in Nat
        BY <3>2 DEF SocketInv, SocketTypes
      <4> QED BY <1>3, <3>2, <4>1, ConnectKeeps DEF TimerFires, SocketInv, SocketTypes
    <3> QED BY <1>3, <3>1, <3>2 DEF TimerFires
  <2>2. ASSUME ~crowded' PROVE OneSocket'
    <3>1. OneSocket
      BY <1>3, <2>2, ConnectKeeps DEF TimerFires, SocketInv
    <3>2. timer /\ mounted' /\ ~timer' /\ forgotten' = 0 /\ Connect
      BY <1>3, <3>1 DEF TimerFires, OneSocket
    <3> QED BY <2>2, <3>2, ConnectedOnce
  <2> QED BY <2>1, <2>2 DEF SocketInv
<1>4. CASE SendMessage
  BY <1>4 DEF SendMessage, SocketInv, SocketTypes, OneSocket, Closed
<1>5. ASSUME NEW s \in DOMAIN sockets, Open(s) PROVE SocketInv'
  <2>1. /\ sockets' \in Seq(ReadyStates) /\ DOMAIN sockets' = DOMAIN sockets
        /\ Len(sockets') = Len(sockets) /\ sockets'[s] = "open"
        /\ \A t \in DOMAIN sockets : t # s => sockets'[t] = sockets[t]
    BY <1>5, OneChanges DEF Open, SocketInv, ReadyStates
  <2>2. SocketTypes'
    BY <1>5, <2>1 DEF Open, SocketInv, SocketTypes
  <2>3. ASSUME ~crowded' PROVE OneSocket'
    <3>1. OneSocket /\ sockets[s] = "connecting"
      BY <1>5, <2>3 DEF Open, SocketInv
    <3>2. mounted /\ s = ws
      BY <3>1 DEF OneSocket, SocketInv, SocketTypes
    <3>3. \A t \in DOMAIN sockets : t # s => sockets'[t] = "closed"
      BY <2>1, <3>1 DEF OneSocket
    <3> QED BY <1>5, <2>1, <3>1, <3>2, <3>3 DEF Open, OneSocket
  <2> QED BY <2>2, <2>3 DEF SocketInv
<1>6. ASSUME NEW s \in DOMAIN sockets, Close(s) PROVE SocketInv'
  <2>1. /\ sockets' \in Seq(ReadyStates) /\ DOMAIN sockets' = DOMAIN sockets
        /\ Len(sockets') = Len(sockets) /\ sockets'[s] = "closed"
        /\ \A t \in DOMAIN sockets : t # s => sockets'[t] = sockets[t]
    BY <1>6, OneChanges DEF Close, SocketInv, ReadyStates
  <2>2. attempts' \in Nat /\ forgotten' \in Nat /\ timer' \in BOOLEAN
    <3>1. attempts \in Nat /\ forgotten \in Nat /\ timer \in BOOLEAN
      BY DEF SocketInv, SocketTypes
    <3>2. CASE attempts >= maxReconnectAttempts
      BY <1>6, <3>1, <3>2 DEF Close
    <3>3. CASE ~(attempts >= maxReconnectAttempts)
      <4>1. /\ attempts' = attempts + 1 /\ timer' = TRUE
            /\ forgotten' = forgotten + (IF timer THEN 1 ELSE 0)
        BY <1>6, <3>3 DEF Close
      <4> QED BY <3>1, <4>1
    <3> QED BY <3>2, <3>3
  <2>3. SocketTypes'
    BY <1>6, <2>1, <2>2 DEF Close, SocketInv, SocketTypes
  <2>4. ASSUME ~crowded' PROVE OneSocket'
    <3>1. OneSocket /\ sockets[s] # "closed"
      BY <1>6, <2>4 DEF Close, SocketInv
    <3>2. Closed'
      BY <2>1, <3>1 DEF OneSocket, Closed
    <3>3. ~timer /\ forgotten = 0
      BY <3>1 DEF OneSocket, Closed
    <3>4. forgotten' = 0
      BY <1>6, <3>3 DEF Close
    <3>5. CASE mounted
      BY <1>6, <3>2, <3>4, <3>5 DEF Close, OneSocket, Closed
    <3>6. CASE ~mounted
      <4>1. UNCHANGED <<attempts, timer, forgotten, mounted>>
        BY <1>6, <3>1, <3>6 DEF Close, OneSocket, Closed
      <4> QED BY <3>1, <3>2, <3>3, <3>6, <4>1 DEF OneSocket, Closed
    <3> QED BY <3>5, <3>6
  <2> QED BY <2>3, <2>4 DEF SocketInv
<1>7. ASSUME NEW s \in DOMAIN sockets, Done(s) PROVE SocketInv'
  BY <1>7 DEF Done, SocketInv, SocketTypes, OneSocket, Closed
<1> QED BY <1>1, <1>2, <1>3, <1>4, <1>5, <1>6, <1>7 DEF SocketNext

-----------------------------------------------------------------------------
\* Questions.  A socket that can still bring an answer is the one ws.js holds, and the page
\* that asked is open and waits for it: leaving the page closes the socket, and as long as
\* it is open no other takes its place.
AskedInv ==
  \A s \in asked :
    /\ s \in DOMAIN sockets /\ sockets[s] # "connecting"
    /\ sockets[s] = "open" => mounted /\ streaming /\ ws = s /\ over = s

\* connect leaves the sockets there are as they were, and ws too when it is open.
LEMMA ConnectLeaves ==
  ASSUME SocketTypes, Connect
  PROVE  /\ \A s \in DOMAIN sockets : s \in DOMAIN sockets' /\ sockets'[s] = sockets[s]
         /\ \A s \in DOMAIN sockets : sockets[s] = "open" /\ ws = s => ws' = ws
<1>1. CASE IsOpen(ws)
  BY <1>1 DEF Connect
<1>2. CASE ~IsOpen(ws)
  <2>1. sockets' = Append(sockets, "connecting")
    BY <1>2 DEF Connect
  <2>2. \A s \in DOMAIN sockets : s # 0
    BY DEF SocketTypes
  <2> QED BY <1>2, <2>1, <2>2 DEF IsOpen, SocketTypes
<1> QED BY <1>1, <1>2

LEMMA AskedKept == ASSUME SocketTypes, AskedInv, SocketNext PROVE AskedInv'
<1>1. CASE Mount
  <2>1. Connect /\ ~mounted /\ asked' = asked
    BY <1>1 DEF Mount
  <2> QED BY <2>1, ConnectLeaves DEF AskedInv
<1>2. CASE Unmount
  <2>1. CASE ws = 0
    <3>1. \A s \in asked : s # ws
      BY <2>1 DEF AskedInv, SocketTypes
    <3> QED BY <1>2, <2>1, <3>1 DEF Unmount, AskedInv
  <2>2. CASE ws # 0
    <3>1. /\ sockets' = [sockets EXCEPT ![ws] = IF @ = "closed" THEN @ ELSE "closing"]
          /\ asked' = asked
      BY <1>2, <2>2 DEF Unmount
    <3>2. \A s \in asked : s \in DOMAIN sockets' /\ sockets'[s] \notin {"open", "connecting"}
      BY <3>1 DEF AskedInv
    <3> QED BY <3>1, <3>2 DEF AskedInv
  <2> QED BY <2>1, <2>2
<1>3. CASE TimerFires
  <2>1. Connect /\ UNCHANGED <<mounted, streaming, over, asked>>
    BY <1>3 DEF TimerFires
  <2>2. ASSUME NEW s \in asked
        PROVE  /\ s \in DOMAIN sockets' /\ sockets'[s] # "connecting"
               /\ sockets'[s] = "open" => mounted' /\ streaming' /\ ws' = s /\ over' = s
    BY <2>1, ConnectLeaves DEF AskedInv
  <2> QED BY <2>1, <2>2 DEF AskedInv
<1>4. CASE SendMessage
  <2>1. mounted /\ ~streaming /\ mounted' /\ streaming' /\ UNCHANGED <<sockets, ws>>
    BY <1>4 DEF SendMessage
  <2>2. CASE IsOpen(ws)
    <3>1. asked' = asked \cup {ws} /\ over' = ws
      BY <1>4, <2>2 DEF SendMessage
    <3>2. ws \in DOMAIN sockets /\ sockets[ws] = "open"
      BY <2>2 DEF IsOpen, SocketTypes
    <3> QED BY <2>1, <3>1, <3>2 DEF AskedInv
  <2>3. CASE ~IsOpen(ws)
    BY <1>4, <2>1, <2>3 DEF SendMessage, AskedInv
  <2> QED BY <2>2, <2>3
<1>5. ASSUME NEW s \in DOMAIN sockets, Open(s) PROVE AskedInv'
  BY <1>5 DEF Open, AskedInv
<1>6. ASSUME NEW s \in DOMAIN sockets, Close(s) PROVE AskedInv'
  <2>1. asked' = asked \ {s} /\ sockets' = [sockets EXCEPT ![s] = "closed"]
        /\ UNCHANGED <<ws, mounted, streaming, over>>
    BY <1>6 DEF Close
  <2> QED BY <2>1 DEF AskedInv
<1>7. ASSUME NEW s \in DOMAIN sockets, Done(s) PROVE AskedInv'
  <2>1. s \in asked /\ sockets[s] = "open" /\ asked' = asked \ {s}
        /\ UNCHANGED <<sockets, ws, mounted, over>>
    BY <1>7 DEF Done
  <2>2. \A t \in asked' : sockets[t] # "open"
    BY <2>1 DEF AskedInv
  <2> QED BY <2>1, <2>2 DEF AskedInv
<1> QED BY <1>1, <1>2, <1>3, <1>4, <1>5, <1>6, <1>7 DEF SocketNext

-----------------------------------------------------------------------------
WebInv == SessionInv /\ SocketInv /\ AskedInv

LEMMA WebHolds == Spec => []WebInv
<1>1. Init => WebInv
  <2>1. ASSUME Init PROVE SessionInv
    BY <2>1 DEF Init, SessionInit, SessionInv, SessionTypes, TokensAgree, StorageAgrees, Idle, None
  <2>2. ASSUME Init PROVE SocketInv
    <3>1. sockets = <<>> /\ DOMAIN sockets = {} /\ Len(sockets) = 0
      BY <2>2 DEF Init, SocketInit
    <3>2. attempts = 0 /\ forgotten = 0 /\ timer = FALSE /\ mounted = FALSE /\ ws = 0
      BY <2>2 DEF Init, SocketInit
    <3>3. crowded = FALSE /\ sockets \in Seq(ReadyStates) /\ ws \in 0..Len(sockets)
      BY <2>2, <3>1, <3>2 DEF Init, SocketInit
    <3>4. SocketTypes
      BY <3>2, <3>3 DEF SocketTypes
    <3>5. OneSocket
      BY <3>1, <3>2 DEF OneSocket, Closed
    <3> QED BY <3>4, <3>5 DEF SocketInv
  <2>3. ASSUME Init PROVE AskedInv
    BY <2>3 DEF Init, SocketInit, AskedInv
  <2> QED BY <2>1, <2>2, <2>3 DEF WebInv
<1>2. WebInv /\ [Next]_vars => WebInv'
  <2>1. ASSUME WebInv, SocketStep PROVE WebInv'
    <3>1. SessionInv'
      BY <2>1 DEF SocketStep, WebInv, SessionInv, SessionTypes, TokensAgree, StorageAgrees,
                  session_vars
    <3> QED BY <2>1, <3>1, SocketKept, AskedKept DEF SocketStep, WebInv, SocketInv
  <2>2. ASSUME WebInv, SessionStep PROVE WebInv'
    <3>1. SocketInv'
      BY <2>2 DEF SessionStep, WebInv, SocketInv, SocketTypes, OneSocket, Closed, socket_vars
    <3>2. AskedInv'
      BY <2>2 DEF SessionStep, WebInv, AskedInv, socket_vars
    <3> QED BY <2>2, <3>1, <3>2, SessionKept DEF SessionStep, WebInv
  <2>3. ASSUME WebInv, UNCHANGED vars PROVE WebInv'
    BY <2>3 DEF vars, session_vars, socket_vars, WebInv, SessionInv, SessionTypes, TokensAgree,
                StorageAgrees, SocketInv, SocketTypes, OneSocket, Closed, AskedInv
  <2> QED BY <2>1, <2>2, <2>3 DEF Next
<1> QED BY <1>1, <1>2, PTL DEF Spec

\* Whatever requests, refreshes, logouts and reloads overlap, the store and localStorage
\* agree, but for the late and the failed refresh that StorageAgrees names.
THEOREM StorageStaysTrue == Spec => []StorageAgrees
<1>1. WebInv => StorageAgrees
  BY DEF WebInv, SessionInv
<1> QED BY <1>1, WebHolds, PTL

\* For any number of visits and sockets: a page that never made one socket beside another
\* leaves neither a socket nor a timer behind.
THEOREM LeftPageIsQuiet == Spec => []LeavesNothingBehind
<1>1. WebInv => LeavesNothingBehind
  BY DEF WebInv, SocketInv, OneSocket, LeavesNothingBehind
<1> QED BY <1>1, WebHolds, PTL

\* For any number of visits and sockets: only the answer to its own question ends the
\* waiting of a page (ChatConsole.vue:40), whatever else arrives or reconnects meanwhile.
THEOREM OnlyItsAnswerReleases == Spec => ReleasedByItsAnswer
<1> DEFINE Release == mounted /\ mounted' /\ streaming /\ ~streaming'
                        => over \in asked /\ asked' = asked \ {over}
<1>1. WebInv /\ [Next]_vars => [Release]_socket_vars
  <2> SUFFICES ASSUME AskedInv, [Next]_vars, mounted, mounted', streaming, ~streaming'
               PROVE  over \in asked /\ asked' = asked \ {over}
    BY DEF WebInv
  <2>1. SocketNext
    BY DEF Next, SessionStep, SocketStep, vars, socket_vars
  <2>2. PICK s \in DOMAIN sockets : Done(s)
    BY <2>1 DEF SocketNext, Mount, Unmount, TimerFires, SendMessage, Open, Close
  <2>3. s \in asked /\ sockets[s] = "open" /\ asked' = asked \ {s}
    BY <2>2 DEF Done
  <2>4. over = s
    BY <2>3 DEF AskedInv
  <2> QED BY <2>3, <2>4
<1> QED BY <1>1, WebHolds, PTL DEF Spec, ReleasedByItsAnswer
=============================================================================
