---------------------------- MODULE LinkedLists -----------------------------
(***************************************************************************)
(* linked_list/linked_list.c and doubly_linked_list/doubly_linked_list.c:  *)
(* insertion and removal at an index by pointer surgery, for kind "linked" *)
(* and "doubly".  A singly linked node has no prev, and its list no tail:  *)
(* both stay Null.                                                         *)
(***************************************************************************)
EXTENDS ContainerHeap

VARIABLES head, tail

list_vars == <<head, tail>>

Doubly == kind = "doubly"

ListInit == head = Null /\ tail = Null

\* The node after k steps from the head, or back from the tail.
FromHead(k) == LET node[i \in Nat] == IF i = 0 THEN head ELSE heap[node[i - 1]].next IN node[k]
FromTail(k) == LET node[i \in Nat] == IF i = 0 THEN tail ELSE heap[node[i - 1]].prev IN node[k]

-----------------------------------------------------------------------------
\* The new node between its neighbours, Null at either end, and their pointers to it.
Linked(new, d, before, after) ==
  [a \in DOMAIN heap \cup {new} |->
     IF a = new THEN [data |-> d, next |-> after, prev |-> IF Doubly THEN before ELSE Null]
     ELSE [heap[a] EXCEPT !.next = IF a = before THEN new ELSE @,
                          !.prev = IF Doubly /\ a = after THEN new ELSE @]]

\* ll_insert_at, dll_insert_at (and append and prepend, which are insertions at the end and
\* at the front); without memory nothing changes.
ListInsertAt(index, d) ==
  /\ kind \in {"linked", "doubly"} /\ index <= length /\ CanAllocate
  /\ LET before == IF index = 0 THEN Null
                   ELSE IF Doubly /\ index = length THEN tail ELSE FromHead(index - 1)
         after == IF index = 0 THEN head
                  ELSE IF Doubly /\ index = length THEN Null ELSE heap[before].next
     IN  /\ heap' = Linked(Fresh, d, before, after)
         /\ head' = IF index = 0 THEN Fresh ELSE head
         /\ tail' = IF Doubly /\ index = length THEN Fresh ELSE tail
  /\ length' = length + 1

\* The neighbours of a removed node point past it.
Unlinked(node) ==
  [a \in DOMAIN heap |->
     [heap[a] EXCEPT !.next = IF @ = node THEN heap[node].next ELSE @,
                     !.prev = IF @ = node THEN heap[node].prev ELSE @]]

\* ll_remove_at, dll_remove_at
ListRemoveAt(index) ==
  /\ kind \in {"linked", "doubly"} /\ index < length
  /\ LET node == IF Doubly /\ index > 0 /\ index = length - 1 THEN tail ELSE FromHead(index)
     IN  /\ heap' = Freed(Unlinked(node), {node})
         /\ head' = IF index = 0 THEN heap[node].next ELSE head
         /\ tail' = IF Doubly /\ index = length - 1 THEN heap[node].prev ELSE tail
  /\ length' = length - 1

Reached == {FromHead(k) : k \in 0..(length - 1)}

\* ll_clear, dll_clear: what can be reached from the head is freed.
ListClear ==
  /\ kind \in {"linked", "doubly"}
  /\ heap' = Freed(heap, Reached)
  /\ head' = Null /\ tail' = Null /\ length' = 0

ListNext ==
  \/ \E index \in 0..length, d \in Data : ListInsertAt(index, d)
  \/ \E index \in 0..length : ListRemoveAt(index)
  \/ ListClear

\* ll_get_at, dll_get_at: the doubly linked list is walked from the nearer end.
GetAt(index) ==
  heap[IF Doubly /\ index >= length \div 2 THEN FromTail(length - 1 - index)
       ELSE FromHead(index)].data

Elements == [i \in 1..length |-> GetAt(i - 1)]
=============================================================================
