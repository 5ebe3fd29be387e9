SPECIFICATION SpecJobs
CONSTANTS
  None = None
  j1 = j1
  Retries = {j1}
  Settings <- FailingBeside
  Attempts = 2
  NoticeAttempts = 2
  MaxRereads = 2
  MaxFaults = 1
INVARIANT SettledIsTrue
CHECK_DEADLOCK FALSE
