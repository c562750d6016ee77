------------------------------ MODULE Session ------------------------------
(***************************************************************************)
(* The request/reply bookkeeping of one connection                         *)
(* (comm-protocol-stack/src/proto/session.c): a record and the functions   *)
(* that update or question it.  Time is a free-running counter of          *)
(* TimeModulus ticks (uint32_t milliseconds) and differences wrap with it. *)
(***************************************************************************)
EXTENDS Integers

CONSTANTS
  TimeModulus,   \* 2^32 in the code
  TimeoutMs,     \* rx_timeout_ms: how long a reply may take
  Retries        \* the values of tx_retry

ASSUME SessionAssumption ==
  /\ TimeModulus \in Nat \ {0}
  /\ TimeoutMs \in Nat /\ TimeoutMs < TimeModulus
  /\ Retries \subseteq Nat

Elapsed(now, then) == (now - then) % TimeModulus

\* session_init
NewSession(max_retry) ==
  [state |-> "IDLE", last_send_time |-> 0, last_recv_time |-> 0, retry_count |-> 0,
   max_retry |-> max_retry, waiting_ack |-> FALSE]

\* session_reset: the two times stay.
SessionReset(s) == [s EXCEPT !.state = "IDLE", !.retry_count = 0, !.waiting_ack = FALSE]

OnSend(s, now) == [s EXCEPT !.last_send_time = now, !.waiting_ack = TRUE, !.state = "BUSY"]

OnRecvKeepsWaiting(s, now) ==   \* mutated OnRecv
  [s EXCEPT !.last_recv_time = now, !.retry_count = 0, !.state = "CONNECTED"]

OnRecv(s, now) ==
  [s EXCEPT !.last_recv_time = now, !.waiting_ack = FALSE, !.retry_count = 0,
            !.state = "CONNECTED"]

IsTimeout(s, now) == s.waiting_ack /\ Elapsed(now, s.last_send_time) > TimeoutMs

ShouldRetry(s, now) == s.waiting_ack /\ s.retry_count < s.max_retry /\ IsTimeout(s, now)

Sessions ==
  [state : {"IDLE", "BUSY", "CONNECTED"}, last_send_time : 0..(TimeModulus - 1),
   last_recv_time : 0..(TimeModulus - 1), retry_count : Nat, max_retry : Retries,
   waiting_ack : BOOLEAN]
=============================================================================
