\* Two processes share the queue: the lease moves, a drain outlives it,
\* processes die in the middle of a message that takes two calls; it is retried
\* in two tabs at once, alone.
SPECIFICATION Spec
CONSTANTS
  NMsg = 2
  ConvOf <- OneDialog
  PartsOf <- TwoPartsThenOne
  BatchOf <- AllPlain
  FileOf <- NoFiles
  Worker = {w1, w2}
  None = None
  MaxAttempts = 2
  Backoff <- BackoffTicks
  FileWait = 1
  FloodWait = 2
  Tab = {t1, t2}
  MaxTime = 2
  MaxFaults = 3
  MaxUpsets = 2
SYMMETRY Symmetry
CONSTRAINT RetriedTwiceAlone
INVARIANTS OneSender ShownOnce MarksAreTrue
PROPERTIES BanIsKept ImplementsDelivery
