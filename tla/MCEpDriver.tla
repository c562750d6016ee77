---------------------------- MODULE MCEpDriver -----------------------------
(***************************************************************************)
(* Two endpoints and one or two minor numbers for them, so that numbers    *)
(* run out and that two probes meet on one; two addresses for their        *)
(* records, so that a record comes to lie where another one was, under the *)
(* file that was open there.                                               *)
(***************************************************************************)
EXTENDS EpDriver, TLC

\* Nothing tells one address from another.
Alike == Permutations(Records)
=============================================================================
