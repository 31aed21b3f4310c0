\* A manager, the scheduler and two notifications at a time.
\* A deal that is over may stay as it is for ever.
SPECIFICATION FairSpec
CONSTANTS
  User = {u1}
  Courier = {c1, c2}
  Job = Job
  None = None
  Amount = {1, 2}
  Requisite = {1}
  MaxLinks = 2
  MaxEdits = 2
  MaxEditions = 2
CHECK_DEADLOCK FALSE
INVARIANTS BooksAgree
PROPERTIES PaidIsFinalInTurn DealsEnd
