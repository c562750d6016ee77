SPECIFICATION Spec
CONSTANTS
  Kind = {"linked", "doubly", "stack", "table", "tree", "queue"}
  Data = {1, 2}
  Numbers = {1, 2, 3, 4, 5}
  Addresses = {1, 2, 3, 4, 5}
  Keys = {1, 2, 3, 5}
  NumBuckets = 2
  NoValue = 0
  Absent = 9
  InitialCapacity = 2
  MaxLength = 5
  Unknown = 0
INVARIANTS LosesExactlyTheWrapped
PROPERTIES KeepsItsPromise
\* a program that copied from NULL goes no further
CHECK_DEADLOCK FALSE
