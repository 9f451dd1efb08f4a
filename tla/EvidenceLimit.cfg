CONSTANTS
  Id = {e1, e2}
  Req = {q1}
  Max = 1
SPECIFICATION EvidenceSpec
INVARIANT EvidenceLimit
CHECK_DEADLOCK FALSE
