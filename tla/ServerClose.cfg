SPECIFICATION FairSpec
CONSTANTS
  MaxClients = 2
  MaxRequests = 3
  MaxUpdates = 1
  MaxQueue = 3
  Names = {"a"}
  NewNames = {"b"}
  Roles = {"Host", "Receiver"}
  Kinds = {"shutdown", "kick", "query", "upload"}
  Faults = {"accept", "ssl", "error", "wrong", "unparsable"}
INVARIANTS
  HostIsOpen
  NoOrphan
  OneOperation
PROPERTIES
  CloseTakesEffect
CHECK_DEADLOCK FALSE
