----------------------------- MODULE BinaryTree -----------------------------
(***************************************************************************)
(* binary_tree/binary_tree.c, for kind "tree": a binary search tree whose  *)
(* removal of a node with two children copies the successor's data and     *)
(* removes the successor.                                                  *)
(***************************************************************************)
EXTENDS ContainerHeap

CONSTANT Numbers    \* the elements of trees

ASSUME TreeAssumption == Numbers \subseteq Int

VARIABLE root

TreeInit == root = Null

\* Side of a node on which data belongs that is not the node's own.
Side(d, node) == IF d < heap[node].data THEN "left" ELSE "right"

\* search_node and the way down of insert_node: the node that holds the data, or the one
\* under which it is missing.
Descend(d) ==
  LET last[n \in DOMAIN heap] ==
        IF heap[n].data = d \/ heap[n][Side(d, n)] = Null THEN n ELSE last[heap[n][Side(d, n)]]
  IN  IF root = Null THEN Null ELSE last[root]

Holds(d) == Descend(d) # Null /\ heap[Descend(d)].data = d

FindMin(node) ==
  LET min[n \in DOMAIN heap] == IF heap[n].left = Null THEN n ELSE min[heap[n].left] IN min[node]

-----------------------------------------------------------------------------
\* btree_insert: data that is there already is not inserted again.
InsertTree(d) ==
  /\ kind = "tree" /\ ~Holds(d) /\ CanAllocate
  /\ LET leaf == [data |-> d, left |-> Null, right |-> Null]
     IN  IF root = Null THEN root' = Fresh /\ heap' = HeapWith(Fresh, leaf)
         ELSE /\ heap' = [HeapWith(Fresh, leaf) EXCEPT ![Descend(d)][Side(d, Descend(d))] = Fresh]
              /\ UNCHANGED root
  /\ UNCHANGED length

\* The tree with every pointer to one node turned to another, and the node freed.
Spliced(h, node, child) ==
  Freed([a \in DOMAIN h |->
           [h[a] EXCEPT !.left = IF @ = node THEN child ELSE @,
                        !.right = IF @ = node THEN child ELSE @]], {node})

OnlyChild(node) == IF heap[node].left = Null THEN heap[node].right ELSE heap[node].left

\* mutated RemoveTree: the successor's own subtree is not kept
RemoveSubtree(d) ==
  /\ kind = "tree" /\ Holds(d)
  /\ LET node == Descend(d)
         successor == FindMin(heap[node].right)
     IN  IF Null \in {heap[node].left, heap[node].right}
         THEN /\ heap' = Spliced(heap, node, OnlyChild(node))
              /\ root' = IF root = node THEN OnlyChild(node) ELSE root
         ELSE /\ heap' = Spliced([heap EXCEPT ![node].data = heap[successor].data],
                                 successor, Null)
              /\ UNCHANGED root
  /\ UNCHANGED length

\* btree_remove: a node with at most one child gives way to it; otherwise it gets the
\* data of its successor, which is removed from the right subtree instead.
RemoveTree(d) ==
  /\ kind = "tree" /\ Holds(d)
  /\ LET node == Descend(d)
         successor == FindMin(heap[node].right)
     IN  IF Null \in {heap[node].left, heap[node].right}
         THEN /\ heap' = Spliced(heap, node, OnlyChild(node))
              /\ root' = IF root = node THEN OnlyChild(node) ELSE root
         ELSE /\ heap' = Spliced([heap EXCEPT ![node].data = heap[successor].data],
                                 successor, heap[successor].right)
              /\ UNCHANGED root
  /\ UNCHANGED length

\* The nodes below a node, in order (inorder).
Inorder(node) ==
  LET nodes[n \in DOMAIN heap \cup {Null}] ==
        IF n = Null THEN <<>> ELSE nodes[heap[n].left] \o <<n>> \o nodes[heap[n].right]
  IN  nodes[node]

\* btree_destroy frees the nodes (postorder); a new tree takes its place.
ReplaceTree ==
  /\ kind = "tree"
  /\ heap' = Freed(heap, {Inorder(root)[i] : i \in DOMAIN Inorder(root)})
  /\ root' = Null
  /\ UNCHANGED length

TreeNext == (\E d \in Numbers : InsertTree(d) \/ RemoveTree(d)) \/ ReplaceTree

\* btree_inorder
InorderData == LET nodes == Inorder(root) IN [i \in DOMAIN nodes |-> heap[nodes[i]].data]
=============================================================================
