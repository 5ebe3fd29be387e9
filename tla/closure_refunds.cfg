SPECIFICATION FairJobs
CONSTANTS
  None = None
  j1 = j1
  Retries = {j1}
  Settings <- AllSettings
  Attempts = 2
  NoticeAttempts = 2
  MaxRereads = 2
  MaxFaults = 1
INVARIANTS TypeOK SettledIsTrue FailureShows ToldOnce CallListTrue
PROPERTIES NoFalseFailure OutcomeSettles
CHECK_DEADLOCK FALSE
