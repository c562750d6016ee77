---------------------------- MODULE Collections -----------------------------
(***************************************************************************)
(* What a container promises its caller, whatever it is built of: a list   *)
(* changes at the index that was asked for, a stack at its end, a tree     *)
(* holds a set in order, a table maps keys to values, and no block of      *)
(* memory is held for anything else.  A call that fails changes nothing,   *)
(* but for one that replaces a value in a table: it may lose the old one,  *)
(* and then a search for the key faults.                                   *)
(***************************************************************************)
EXTENDS Integers, SequencesExt

CONSTANTS Data, Numbers, Keys, Absent, NoValue

VARIABLES kind, contents, blocks, faulted

Listed == {"linked", "doubly"}
Kinds == Listed \cup {"stack", "queue", "tree", "table"}

\* How many elements or entries the container has.
Size(c) == IF kind = "table" THEN Cardinality({k \in Keys : c[k] # Absent}) ELSE Len(c)

Empty == IF kind = "table" THEN [k \in Keys |-> Absent] ELSE <<>>

Init == kind \in Kinds /\ contents = Empty /\ blocks = 0 /\ faulted = FALSE

-----------------------------------------------------------------------------
\* What a call may make of the contents.
Insert(index, d) == IF index \in 0..Len(contents) THEN {InsertAt(contents, index + 1, d)} ELSE {}
TakeOut(index) == IF index \in 0..(Len(contents) - 1) THEN {RemoveAt(contents, index + 1)} ELSE {}

Push(d) == {Append(contents, d)}
Pop == IF contents = <<>> THEN {} ELSE {Front(contents)}

Add(d) == {SelectSeq(contents, LAMBDA e : e < d) \o <<d>> \o SelectSeq(contents, LAMBDA e : e > d)}
Delete(d) == {SelectSeq(contents, LAMBDA e : e # d)}

Put(k, d) == {[contents EXCEPT ![k] = v] : v \in {d} \cup (IF contents[k] = Absent THEN {} ELSE {NoValue})}
Forget(k) == {[contents EXCEPT ![k] = Absent]}

Changes ==
  {Empty} \cup
  CASE kind \in Listed -> UNION {Insert(i, d) : i \in 0..Len(contents), d \in Data}
                          \cup UNION {TakeOut(i) : i \in 0..Len(contents)}
    [] kind = "stack" -> UNION {Push(d) : d \in Data} \cup Pop
    [] kind = "tree" -> UNION {Add(d) \cup Delete(d) : d \in Numbers}
    [] kind = "table" -> UNION {Put(k, d) : k \in Keys, d \in Data} \cup UNION {Forget(k) : k \in Keys}
    [] OTHER -> {}

Call(results) ==
  /\ contents' \in results
  /\ blocks' = Size(contents')
  /\ UNCHANGED <<kind, faulted>>

\* Undefined behaviour, for a key that has lost its value and for no other.
Fault(k) ==
  /\ kind = "table" /\ contents[k] = NoValue
  /\ faulted' = TRUE /\ UNCHANGED <<kind, contents, blocks>>

Next == Call(Changes) \/ \E k \in Keys : Fault(k)

Spec == Init /\ [][Next]_<<kind, contents, blocks, faulted>>
=============================================================================
