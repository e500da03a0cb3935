SPECIFICATION FairSpec
INVARIANTS
  TypeOK
  DashboardIsReal
  WaitingIsLed
PROPERTIES
  WaitingEnds
CHECK_DEADLOCK FALSE
