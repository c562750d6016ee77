---------------------------- MODULE MCMailboxLib ----------------------------
(***************************************************************************)
(* Two processes that send and receive on one mailbox of four places:      *)
(* empty messages, payloads shorter than a request, and payloads long      *)
(* enough to be received at all.                                           *)
(***************************************************************************)
EXTENDS MailboxLib, TLC

MCSymmetry == Permutations(Procs)

=============================================================================
