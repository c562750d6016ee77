------------------------------ MODULE Containers ----------------------------
(***************************************************************************)
(* The six containers, one of them in each behaviour, and how what is in   *)
(* memory is read as what Collections speaks of.                           *)
(***************************************************************************)
EXTENDS LinkedLists, HashTable, BinaryTree, GrowingArrays

CONSTANT Absent

vars == <<kind, heap, length, list_vars, root, table_vars, array_vars>>

Init ==
  /\ kind \in Kind /\ heap = <<>> /\ length = 0
  /\ ListInit /\ TableInit /\ TreeInit /\ ArrayInit

Next ==
  /\ ~faulted
  /\ \/ ListNext /\ UNCHANGED <<root, table_vars, array_vars>>
     \/ TableNext /\ UNCHANGED <<list_vars, root, array_vars>>
     \/ TreeNext /\ UNCHANGED <<list_vars, table_vars, array_vars>>
     \/ ArrayNext /\ UNCHANGED <<heap, list_vars, root, table_vars>>
  /\ UNCHANGED kind

Spec == Init /\ [][Next]_vars

-----------------------------------------------------------------------------
Contents ==
  CASE kind \in {"linked", "doubly"} -> Elements
    [] kind = "table" -> [k \in Keys |-> Value(k, Absent)]
    [] kind = "tree" -> InorderData
    [] kind = "stack" -> Stacked
    [] OTHER -> <<>>

Promised == INSTANCE Collections
  WITH contents <- Contents,
       blocks <- IF kind = "stack" THEN length ELSE Cardinality(DOMAIN heap)

\* Each call does what the collection promises for this call, its index, element and key.
CallByCall ==
  /\ \A i \in 0..length :
       /\ ListRemoveAt(i) => Promised!Call(Promised!TakeOut(i))
       /\ \A d \in Data : ListInsertAt(i, d) => Promised!Call(Promised!Insert(i, d))
  /\ \A d \in Data : Push(d) => Promised!Call(Promised!Push(d))
  /\ Pop => Promised!Call(Promised!Pop)
  /\ \A d \in Numbers :
       /\ InsertTree(d) => Promised!Call(Promised!Add(d))
       /\ RemoveTree(d) => Promised!Call(Promised!Delete(d))
  /\ \A k \in Keys :
       /\ RemoveTable(k) => Promised!Call(Promised!Forget(k))
       /\ \A d \in Data : InsertTable(k, d) => Promised!Call(Promised!Put(k, d))
       /\ SearchTable(k) /\ faulted' => Promised!Fault(k)

\* Whatever the calls and the failures of malloc, what a walk over the pointers finds is
\* what the container promises, changed at the index, element or key of the call, and every
\* block it has allocated can be reached and is counted: insertion and removal at both
\* ends and in the middle, by the pointers of both directions, chains of colliding keys,
\* and the removal of tree nodes with two children.  A table that replaces a value may
\* lose the old one and keep the key (hash_table.c:54-57); then, and only then, a search
\* for the key copies from NULL (line 89).
KeepsItsPromise == Promised!Spec /\ [][CallByCall]_vars
=============================================================================
