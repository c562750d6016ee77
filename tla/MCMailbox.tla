----------------------------- MODULE MCMailbox -----------------------------
(***************************************************************************)
(* A mailbox read by two processes on different channels and with every    *)
(* kind of patience.  The indices wrap at a number that the depth does not *)
(* divide, as 2^32 is for most depths mbox_create accepts, and a payload   *)
(* of three header lengths is longer than the size field can say.          *)
(***************************************************************************)
EXTENDS Mailbox

\* Payloads whose bytes would read as headers of channel 1.
Bytes == [id |-> 0, channel |-> 1, size |-> 0]
MCPayloads == {<<>>, <<Bytes, Bytes, Bytes>>}

MCCalls ==
  <<{[mask |-> {0}, patience |-> "timed"], [mask |-> {0, 1}, patience |-> "none"]},
    {[mask |-> {1}, patience |-> "forever"]}>>
=============================================================================
