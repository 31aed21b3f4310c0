\* Two people, two requests at a time: a login meets a change of the password
\* or of the row.
SPECIFICATION Spec
CONSTANTS
  User = {ann, bob}
  Founder = ann
  Request = {r1, r2}
  MaxAttempts = 1
  MaxRequests = 4
  MaxLinks <- TwoInvitations
  MaxAttemptsKept = 1
CHECK_DEADLOCK FALSE
INVARIANTS SessionsEnd
