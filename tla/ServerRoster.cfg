SPECIFICATION FairSpec
CONSTANTS
  MaxClients = 3
  MaxRequests = 5
  MaxUpdates = 0
  MaxQueue = 3
  Names = {"a"}
  NewNames = {"b"}
  Roles = {"Host", "Receiver"}
  Kinds = {"rename", "kick"}
  Faults = {"error"}
INVARIANTS
  TypeOK
  OneHost
  RosterAgrees
  RosterFirst
CHECK_DEADLOCK FALSE
