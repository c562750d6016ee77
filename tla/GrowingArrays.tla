---------------------------- MODULE GrowingArrays ---------------------------
(***************************************************************************)
(* queue/queue.c and stack/stack.c: an array that doubles when it is full. *)
(* The queue uses its array as a ring, the stack from the bottom up.       *)
(***************************************************************************)
EXTENDS ContainerHeap

CONSTANTS
  InitialCapacity,
  MaxLength,      \* bound: elements held at a time
  Unknown         \* what lies in memory nobody wrote

VARIABLES
  cells,          \* the array: a function on 0..(Capacity - 1)
  front, rear,    \* of the queue
  promised        \* history: what was enqueued and not dequeued, with a mark on what
                  \* lay before the front when the queue grew

array_vars == <<cells, front, rear, promised>>

ASSUME ArrayAssumption ==
  /\ InitialCapacity \in Nat \ {0} /\ MaxLength \in Nat
  /\ Unknown \notin Data

Capacity == Cardinality(DOMAIN cells)

ArrayInit ==
  /\ cells = [i \in 0..(InitialCapacity - 1) |-> Unknown]
  /\ front = 0 /\ rear = 0 /\ promised = <<>>

Cell(i) == IF i \in DOMAIN cells THEN cells[i] ELSE Unknown

-----------------------------------------------------------------------------
\* mutated Moved: the array is copied as it lies
MovedAsItLies ==
  [i \in 0..(2 * Capacity - 1) |-> IF i >= length THEN Unknown ELSE Cell(i)]

\* grow of the queue.  A full queue has its front at its rear, so that the first branch is
\* taken whatever the front is: length cells are copied from the front on, which runs
\* past the end of the array.
Moved ==
  [i \in 0..(2 * Capacity - 1) |->
     IF i >= length THEN Unknown
     ELSE IF front <= rear \/ i < Capacity - front THEN Cell(front + i)
     ELSE cells[i - (Capacity - front)]]

\* queue_enqueue, with or without growth; when it cannot grow nothing changes.
Enqueue(d) ==
  /\ kind = "queue" /\ length < MaxLength
  /\ IF length < Capacity
     THEN /\ cells' = [cells EXCEPT ![rear] = d]
          /\ rear' = (rear + 1) % Capacity
          /\ promised' = Append(promised, [data |-> d, passed |-> FALSE])
          /\ UNCHANGED front
     ELSE /\ cells' = [Moved EXCEPT ![length] = d]
          /\ front' = 0 /\ rear' = (length + 1) % (2 * Capacity)
          /\ promised' = Append([i \in DOMAIN promised |->
                            [promised[i] EXCEPT !.passed = @ \/ i > Capacity - front]],
                            [data |-> d, passed |-> FALSE])
  /\ length' = length + 1

\* queue_dequeue
Dequeue ==
  /\ kind = "queue" /\ length > 0
  /\ front' = (front + 1) % Capacity
  /\ length' = length - 1
  /\ promised' = Tail(promised)
  /\ UNCHANGED <<cells, rear>>

\* stack_push: realloc keeps what there was.
Push(d) ==
  /\ kind = "stack" /\ length < MaxLength
  /\ cells' = IF length < Capacity THEN [cells EXCEPT ![length] = d]
              ELSE [i \in 0..(2 * Capacity - 1) |-> IF i = length THEN d ELSE Cell(i)]
  /\ length' = length + 1
  /\ UNCHANGED <<front, rear, promised>>

\* stack_pop
Pop ==
  /\ kind = "stack" /\ length > 0
  /\ length' = length - 1
  /\ UNCHANGED array_vars

ArrayNext == (\E d \in Data : Enqueue(d) \/ Push(d)) \/ Dequeue \/ Pop

\* stack_peek from the top down
Stacked == [i \in 1..length |-> cells[i - 1]]

-----------------------------------------------------------------------------
\* What queue_peek and queue_dequeue return, now and after any number of calls, is what was
\* enqueued first, across wrap-around and growth; except that a growth loses exactly
\* what had wrapped to the cells before the front (queue.c:35), and hands out memory from
\* behind the array in its place.
LosesExactlyTheWrapped ==
  kind = "queue" =>
    /\ Len(promised) = length
    /\ \A i \in 1..length :
         cells[(front + i - 1) % Capacity] =
           IF promised[i].passed THEN Unknown ELSE promised[i].data
=============================================================================
