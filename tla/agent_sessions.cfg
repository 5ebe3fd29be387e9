SPECIFICATION FairSpec
CONSTANTS
  None = None
  s1 = s1
  s2 = s2
  o1 = o1
  k1 = k1
  Session = {s1, s2}
  Alert = {s1}
  Parent = {o1}
  Canceller = {k1}
  Limit = 1
  Threshold = 1
  FaultModes <- EitherMode
  MaxFaults = 1
INVARIANTS TypeOK SlotsBounded NoLeak RunsHoldSlots
PROPERTIES EndStays SessionsEnd
CHECK_DEADLOCK FALSE
