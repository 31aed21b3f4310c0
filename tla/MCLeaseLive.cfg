\* Two processes with room for one account each, one of which may die; another
\* is stopped, or the accounts are switched off and on.
\* When every process has died there is nothing left to happen.
SPECIFICATION PlanSpec
CONSTANTS
  a1 = a1
  a2 = a2
  NWorker = 2
  Account <- TwoAccounts
  LeaseTicks = 2
  Capacity = 1
  Batch = 2
  LoadLevels <- FullSpeed
  Punctual = TRUE
  MaxCrashes = 1
  MaxShutdowns = 1
  MaxToggles = 2
  MaxDeletes = 0
  MaxFaults = 0
CHECK_DEADLOCK FALSE
CONSTRAINT SwitchedWithoutCalls
INVARIANTS WithinCapacity
PROPERTIES SessionOpens
