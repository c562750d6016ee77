---------------------------- MODULE MCContainers ----------------------------
(***************************************************************************)
(* Lists of up to five elements of two values, four keys in two buckets    *)
(* (three of them collide), trees of up to five numbers, and arrays that   *)
(* grow twice.                                                             *)
(***************************************************************************)
EXTENDS Containers
=============================================================================
