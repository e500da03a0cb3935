SPECIFICATION FairSpec
CONSTANTS
  MaxHelpers = 2
  MaxCommands = 2
INVARIANTS
  TypeOK
  StoppedIsQuiet
  GrabNeedsConnection
PROPERTIES
  DevicesReturned
  StopReturns
