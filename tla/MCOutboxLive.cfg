\* Every message ends as sent or failed; the two messages are a native forward,
\* the first waits for its file, and nobody presses retry.
SPECIFICATION FairSpec
CONSTANTS
  NMsg = 2
  ConvOf <- OneDialog
  PartsOf <- OnePart
  BatchOf <- ForwardAtEnd
  FileOf <- FirstFilePending
  Worker = {w1, w2}
  None = None
  MaxAttempts = 2
  Backoff <- BackoffTicks
  FileWait = 1
  FloodWait = 2
  Tab = {}
  MaxTime = 2
  MaxFaults = 2
  MaxUpsets = 1
INVARIANT ForwardShownOnce
PROPERTY Settled
