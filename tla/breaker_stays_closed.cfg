SPECIFICATION Spec
CONSTANTS
  None = None
  s1 = s1
  s2 = s2
  o1 = o1
  k1 = k1
  Session = {s1, s2}
  Alert = {s1, s2}
  Parent = {}
  Canceller = {}
  Limit = 2
  Threshold = 2
  FaultModes <- NothingFails
  MaxFaults = 0
INVARIANT StormStopped
CHECK_DEADLOCK FALSE
