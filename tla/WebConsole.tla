----------------------------- MODULE WebConsole -----------------------------
(***************************************************************************)
(* The web console: the socket of its chat page and the session of its     *)
(* requests.  They share no state but the token a socket is made with,     *)
(* which the models leave out; a behaviour follows one of the two.         *)
(***************************************************************************)
EXTENDS ChatSocket, ApiSession

VARIABLE part

vars == <<part, socket_vars, session_vars>>

Init == part \in {"socket", "session"} /\ SocketInit /\ SessionInit

SocketStep == part = "socket" /\ SocketNext /\ UNCHANGED <<part, session_vars>>
SessionStep == part = "session" /\ SessionNext /\ UNCHANGED <<part, socket_vars>>

Next == SocketStep \/ SessionStep

Spec == Init /\ [][Next]_vars
=============================================================================
