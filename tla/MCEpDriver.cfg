CONSTANTS
  Devices = {d1, d2}
  WithBar1 = {d1}
  Files = {f1}
  Limits = {1, 2}
  Records = {r1, r2}
  Nowhere = Nowhere
SPECIFICATION Spec
SYMMETRY Alike
INVARIANTS UndoneExactly HandlerHasItsDevice MarksMatch RefcountCountsFiles
CHECK_DEADLOCK FALSE
