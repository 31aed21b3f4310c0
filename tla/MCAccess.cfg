\* Two people, two requests at a time, two wrong passwords allowed.
SPECIFICATION FairSpec
CONSTANTS
  User = {ann, bob}
  Founder = ann
  Request = {r1, r2}
  MaxAttempts = 1
  MaxRequests = 4
  MaxLinks <- TwoInvitations
  MaxAttemptsKept = 3
CHECK_DEADLOCK FALSE
INVARIANTS WaysInHold SessionsAreCurrent
PROPERTIES SocketsEnd
