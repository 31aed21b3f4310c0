\* Two processes and one account that is disabled, enabled and deleted under
\* them while one dies and starts, rounds and commands fail.
\* When every process has died there is nothing left to happen.
SPECIFICATION FairSpec
CONSTANTS
  a1 = a1
  a2 = a2
  NWorker = 2
  Account <- OneAccount
  LeaseTicks = 2
  Capacity = 2
  Batch = 2
  LoadLevels <- FullSpeed
  Punctual = TRUE
  MaxCrashes = 1
  MaxShutdowns = 0
  MaxToggles = 2
  MaxDeletes = 1
  MaxFaults = 1
CHECK_DEADLOCK FALSE
INVARIANTS OneSession
PROPERTIES AllOwned LostIsStopped
