\* One file of 10 units and two processes that fetch; one upload, three
\* listeners of one voice message; three chats and a memory of one; two events
\* in nested savepoints and one outage; a server of
\* three cores with two places and a pool of seven.
CONSTANTS
  File = {1}
  FileSize <- Sizes
  FileKind <- Kinds
  Worker = {w1, w2}
  NoWorker = noworker
  NoKey = nokey
  MAX_DOWNLOAD = 100
  MAX_ATTEMPTS = 2
  BATCH = 1
  MaxDiskChanges = 1
  MaxFileMoves = 2
  MaxFileCrashes = 1
  Upload = {u1}
  Voice = {"v1", "v2"}
  Request = {"r1", "r2", "r3"}
  Process = {"p1"}
  NoLock = nolock
  AskedFor <- Voices
  ServedBy <- Served
  MaxParallel = 1
  MaxConvertFailures = 1
  Chat = {1, 2, 3}
  NoChat = nochat
  IsManager = TRUE
  MAX_TAKEN = 1
  MaxMessages = 3
  MaxNotices = 2
  MaxSavepoints = 2
  MaxOutages = 1
  Polled = TRUE
  Cores = 3
  DbPoolSize = 6
  DbMaxOverflow = 8
  MaxSenders = 1
  MaxSyncs = 3
  MaxElsewhere = 1
  MaxSyncCrashes = 1
SPECIFICATION ProgressSpec
CHECK_DEADLOCK FALSE
INVARIANTS ReadyHasObject MadeWholeOnce EventsMatchRows HistoriesLeaveRoom
PROPERTIES FilesEnd EveryoneIsAnswered OfferedInTurn ScreenCatchesUp EverySyncEnds
