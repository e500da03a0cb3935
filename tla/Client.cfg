SPECIFICATION FairSpec
CONSTANTS
  MaxTries = 3
  MaxNews = 2
  MaxRequests = 2
INVARIANTS
  TypeOK
  SessionOfThisAttempt
  CaptureOnlyInSession
PROPERTIES
  LossIsNoticed
  ImplementsConnection
CHECK_DEADLOCK FALSE
