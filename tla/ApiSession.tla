----------------------------- MODULE ApiSession -----------------------------
(***************************************************************************)
(* The session of the web console: requests with the token refresh of      *)
(* their interceptors (ai-gateway-frontend/src/api/index.js), the store of *)
(* the tokens (stores/auth.js) and the guard of the router                 *)
(* (router/index.js).  Requests overlap, and each waits for the server     *)
(* once for its own answer and once for a new token.  The server may       *)
(* answer anything; profile, messages and registration are left out.       *)
(***************************************************************************)
EXTENDS Integers, FiniteSets

CONSTANTS
  Requests,       \* requests that may be under way at a time
  MaxTokens       \* bound: access tokens the server issues

VARIABLES
  local,          \* the access token in localStorage, 0 if none
  renewable,      \* there is a refresh token in localStorage
  store,          \* auth.token, 0 if empty
  page,           \* "login" or "inside"
  request,        \* what each request is for and what it waits for
  issued,         \* access tokens the server has issued
  late,           \* history: a logout ended while another request was being refreshed
  failed          \* history: a refresh failed since the store was filled

session_vars == <<local, renewable, store, page, request, issued, late, failed>>

None == 0
Idle == [for |-> "nothing", waits |-> "nothing"]

SessionInit ==
  /\ local = None /\ renewable = FALSE /\ store = None /\ page = "login"
  /\ request = [r \in Requests |-> Idle] /\ issued = 0
  /\ late = FALSE /\ failed = FALSE

\* Who may go where: the guard lets nobody in whose store is empty.
Enters(token) == IF token = None THEN "login" ELSE "inside"

-----------------------------------------------------------------------------
\* A page sends a request, which gets the token of localStorage: a login from the login page,
\* anything else from inside.
Send(r) ==
  /\ request[r] = Idle
  /\ \E for \in {"login", "logout", "data"} :
       /\ page = IF for = "login" THEN "login" ELSE "inside"
       /\ for = "data" \/ \A q \in Requests : request[q].for \notin {for, "profile"}
       /\ request' = [request EXCEPT ![r] = [for |-> for, waits |-> "answer"]]
  /\ UNCHANGED <<local, renewable, store, page, issued, late, failed>>

Finish(r) == request' = [request EXCEPT ![r] = Idle]

\* mutated SignOut: localStorage is not emptied
SignOutStore(r) ==
  /\ store' = None /\ page' = "login"
  /\ late' = (late \/ \E q \in Requests \ {r} : request[q].waits = "token")
  /\ UNCHANGED <<local, renewable>>

\* The rest of logout, whatever became of its request.
SignOut(r) ==
  /\ store' = None /\ local' = None /\ renewable' = FALSE /\ page' = "login"
  /\ late' = (late \/ \E q \in Requests \ {r} : request[q].waits = "token")

\* The server accepts.  A login stores the tokens, asks for the profile and then enters.
Accepted(r) ==
  /\ request[r].waits = "answer"
  /\ CASE request[r].for = "login" ->
            /\ issued < MaxTokens /\ issued' = issued + 1
            /\ local' = issued + 1 /\ store' = issued + 1 /\ renewable' = TRUE
            /\ late' = FALSE /\ failed' = FALSE
            /\ request' = [request EXCEPT ![r] = [for |-> "profile", waits |-> "answer"]]
            /\ UNCHANGED page
       [] request[r].for = "logout" -> Finish(r) /\ SignOut(r) /\ UNCHANGED <<issued, failed>>
       [] OTHER ->
            /\ Finish(r)
            /\ page' = IF request[r].for = "profile" THEN Enters(store) ELSE page
            /\ UNCHANGED <<local, renewable, store, issued, late, failed>>

\* The request is rejected, with localStorage and the page as the interceptor left them:
\* a logout goes on all the same, and so does a login that only lacks the profile.
Rejected(r, token, refresh, where) ==
  /\ Finish(r)
  /\ IF request[r].for = "logout" THEN SignOut(r)
     ELSE /\ local' = token /\ renewable' = refresh
          /\ page' = IF request[r].for = "profile" THEN Enters(store) ELSE where
          /\ UNCHANGED <<store, late>>
  /\ UNCHANGED issued

\* A failure that is not about the token
Fails(r) ==
  /\ request[r].waits = "answer"
  /\ Rejected(r, local, renewable, page)
  /\ UNCHANGED failed

\* Status 401, also for a wrong password: with a refresh token a new access token is asked
\* for; without one, to the login page.
Unauthorized(r) ==
  /\ request[r].waits = "answer"
  /\ IF renewable
     THEN /\ request' = [request EXCEPT ![r].waits = "token"]
          /\ UNCHANGED <<local, renewable, store, page, issued, late>>
     ELSE Rejected(r, local, FALSE, "login")
  /\ UNCHANGED failed

\* The new token is stored, in localStorage only, and the request sent again with it.
Refreshed(r) ==
  /\ request[r].waits = "token" /\ issued < MaxTokens
  /\ issued' = issued + 1 /\ local' = issued + 1
  /\ request' = [request EXCEPT ![r].waits = "answer"]
  /\ UNCHANGED <<renewable, store, page, late, failed>>

\* The refresh fails: localStorage is emptied, and to the login page.
RefreshFails(r) ==
  /\ request[r].waits = "token"
  /\ failed' = TRUE
  /\ Rejected(r, None, FALSE, "login")

\* Someone follows a link, or loads the page again, which fills the store from localStorage.
Navigate ==
  /\ page' = Enters(store)
  /\ UNCHANGED <<local, renewable, store, request, issued, late, failed>>

Reload ==
  /\ request' = [r \in Requests |-> Idle]
  /\ store' = local /\ page' = Enters(local)
  /\ late' = FALSE /\ failed' = FALSE
  /\ UNCHANGED <<local, renewable, issued>>

SessionNext ==
  \/ \E r \in Requests :
       Send(r) \/ Accepted(r) \/ Fails(r) \/ Unauthorized(r) \/ Refreshed(r) \/ RefreshFails(r)
  \/ Navigate \/ Reload

-----------------------------------------------------------------------------
\* The two places that hold the session agree: who has signed out leaves no token in
\* localStorage, unless a refresh was under way, whose token then stays and signs the next
\* visitor in (index.js:44); and who is inside has a token to send, unless a refresh failed,
\* which empties localStorage but not the store the guard looks at (index.js:50).
StorageAgrees ==
  /\ store = None => local = None \/ late
  /\ page = "inside" => local # None \/ failed
=============================================================================
