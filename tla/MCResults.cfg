CONSTANTS
  Result = {x, y}
  Judge = {runner, judge}
  Executor = runner
  Id = {e1, e2, e3}
  Req = {q1, q2}
  Max = 1
SPECIFICATION Spec
SYMMETRY Symmetry
INVARIANTS ResultsInv ExecutorIsTold SizedHasFile OvershootBounded
CHECK_DEADLOCK FALSE
