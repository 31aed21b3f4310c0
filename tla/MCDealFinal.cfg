\* A manager's request overtaken by a payment.
SPECIFICATION Spec
CONSTANTS
  User = {u1}
  Courier = {c1}
  Job = Job
  None = None
  Amount = {1, 2}
  Requisite = {1}
  MaxLinks = 2
  MaxEdits = 2
  MaxEditions = 2
CHECK_DEADLOCK FALSE
PROPERTIES PaidIsFinal
