SPECIFICATION Spec
CONSTANTS
  MaxClients = 3
  MaxRequests = 4
  MaxUpdates = 0
  MaxQueue = 1
  Names = {"a"}
  NewNames = {"b"}
  Roles = {"Host", "Broadcaster", "Receiver"}
  Kinds = {"input"}
  Faults = {}
PROPERTIES
  BroadcasterStreams
CHECK_DEADLOCK FALSE
