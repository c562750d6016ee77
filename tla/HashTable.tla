------------------------------ MODULE HashTable -----------------------------
(***************************************************************************)
(* hash_table/hash_table.c, for kind "table": buckets of chained entries.  *)
(* Keys are hashed to themselves and compared as test.c does it.           *)
(***************************************************************************)
EXTENDS ContainerHeap

CONSTANTS
  Keys,
  NumBuckets,
  NoValue       \* the value NULL

VARIABLES
  buckets,
  faulted       \* a search has copied from NULL

table_vars == <<buckets, faulted>>

ASSUME TableAssumption == Keys \subseteq Nat /\ NumBuckets \in Nat \ {0}

TableInit == buckets = [b \in 0..(NumBuckets - 1) |-> Null] /\ faulted = FALSE

Bucket(key) == key % NumBuckets

\* The entries of a chain, from one entry on.
Chain(entry) ==
  LET chain[e \in DOMAIN heap \cup {Null}] ==
        IF e = Null THEN {} ELSE {e} \cup chain[heap[e].next]
  IN  chain[entry]

\* The walk along a bucket to the key, which ends with Null when it is not there.
Find(key) ==
  LET from[e \in DOMAIN heap \cup {Null}] ==
        IF e = Null \/ heap[e].key = key THEN e ELSE from[heap[e].next]
  IN  from[buckets[Bucket(key)]]

-----------------------------------------------------------------------------
\* ht_insert.  The old value of a key is freed before memory for the new one is asked for.
InsertTable(key, value) ==
  /\ kind = "table"
  /\ LET entry == Find(key)
     IN  IF entry # Null
         THEN /\ \E v \in {value, NoValue} : heap' = [heap EXCEPT ![entry].value = v]
              /\ UNCHANGED <<buckets, length>>
         ELSE /\ CanAllocate
              /\ heap' = HeapWith(Fresh, [key |-> key, value |-> value, next |-> buckets[Bucket(key)]])
              /\ buckets' = [buckets EXCEPT ![Bucket(key)] = Fresh]
              /\ length' = length + 1
  /\ UNCHANGED faulted

\* ht_remove: what pointed to the entry points past it.
RemoveTable(key) ==
  /\ kind = "table" /\ Find(key) # Null
  /\ LET entry == Find(key)
         Past(pointer) == IF pointer = entry THEN heap[entry].next ELSE pointer
     IN  /\ buckets' = [buckets EXCEPT ![Bucket(key)] = Past(@)]
         /\ heap' = Freed([a \in DOMAIN heap |-> [heap[a] EXCEPT !.next = Past(@)]], {entry})
  /\ length' = length - 1
  /\ UNCHANGED faulted

\* What the table holds for a key.
Value(key, absent) == LET entry == Find(key) IN IF entry = Null THEN absent ELSE heap[entry].value

\* ht_search changes nothing; it copies the value without looking whether there is one.
SearchTable(key) ==
  /\ kind = "table" /\ Find(key) # Null
  /\ faulted' = (heap[Find(key)].value = NoValue)
  /\ UNCHANGED <<heap, buckets, length>>

\* ht_destroy frees the chains of all buckets; a new table takes its place.
ReplaceTable ==
  /\ kind = "table"
  /\ heap' = Freed(heap, UNION {Chain(buckets[b]) : b \in DOMAIN buckets})
  /\ buckets' = [b \in DOMAIN buckets |-> Null] /\ length' = 0
  /\ UNCHANGED faulted

TableNext ==
  \/ \E key \in Keys, value \in Data : InsertTable(key, value)
  \/ \E key \in Keys : RemoveTable(key) \/ SearchTable(key)
  \/ ReplaceTable
=============================================================================
