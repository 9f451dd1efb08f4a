SPECIFICATION Spec
CONSTANTS
  Req = {r1, r2}
  Environment = {e1, e2}
  LastOrder = 1
  MaxFailures = 1
  Session = {s1, s2}
  HeartbeatTimeout = 2
  MaxRestarts = 1
INVARIANTS TypesOK OneDefault OneActiveSession
PROPERTIES LiveProjectStays DeletedProjectGoes TimeoutsJustified SilentSessionsEnd
CHECK_DEADLOCK FALSE
