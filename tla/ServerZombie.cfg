SPECIFICATION Spec
CONSTANTS
  MaxClients = 2
  MaxRequests = 2
  MaxUpdates = 0
  MaxQueue = 3
  Names = {"a"}
  NewNames = {"b"}
  Roles = {"Host"}
  Kinds = {"shutdown"}
  Faults = {}
INVARIANTS
  StoppedMeansClosed
CHECK_DEADLOCK FALSE
