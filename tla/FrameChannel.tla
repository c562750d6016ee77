---------------------------- MODULE FrameChannel ----------------------------
(***************************************************************************)
(* What the receiving side of the stack promises its user about the frames *)
(* a peer sends: each is handed over at most once, unaltered and in the    *)
(* order sent; some may be lost.  ProtoStack implements it.                *)
(***************************************************************************)
EXTENDS Naturals, Sequences

CONSTANT Frame

VARIABLES
  offered,   \* the frames sent, in order
  accepted   \* for each frame handed to the user, its place in offered

vars == <<offered, accepted>>

Init == offered = <<>> /\ accepted = <<>>

Offer(f) == offered' = Append(offered, f) /\ UNCHANGED accepted

\* Some frame after the last one handed over.
Accept(i) ==
  /\ \A k \in DOMAIN accepted : accepted[k] < i
  /\ accepted' = Append(accepted, i)
  /\ UNCHANGED offered

Next == (\E f \in Frame : Offer(f)) \/ (\E i \in DOMAIN offered : Accept(i))

Spec == Init /\ [][Next]_vars
=============================================================================
