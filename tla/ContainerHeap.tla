--------------------------- MODULE ContainerHeap ----------------------------
(***************************************************************************)
(* What the containers share: memory blocks that malloc hands out or not.  *)
(* A node and the copy of the data that belongs to it are one block here;  *)
(* the code takes and frees them together, and gives the first back when   *)
(* the second cannot be had.                                               *)
(***************************************************************************)
EXTENDS Integers, Sequences, FiniteSets

CONSTANTS
  Kind,         \* the containers a behaviour may be about
  Data,         \* the elements of lists and arrays, the values of tables
  Addresses     \* bound: blocks that can be had

Null == 0

ASSUME HeapAssumption == Addresses \subseteq Nat \ {Null}

VARIABLES
  kind,         \* the container of this behaviour
  heap,         \* address -> what the block holds, for the allocated ones
  length        \* list->length, s->top, q->length, table->size

\* malloc may fail at any time; which block it hands out does not matter.
Fresh == CHOOSE a \in Addresses \ DOMAIN heap : TRUE
CanAllocate == Addresses \ DOMAIN heap # {}

\* The heap with a block written, and with some freed.
HeapWith(a, block) == [b \in DOMAIN heap \cup {a} |-> IF b = a THEN block ELSE heap[b]]
Freed(h, blocks) == [b \in DOMAIN h \ blocks |-> h[b]]
=============================================================================
