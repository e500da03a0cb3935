SPECIFICATION FairSpec
CONSTANTS
  MaxClients = 3
  MaxRequests = 5
  MaxUpdates = 0
  MaxQueue = 2
  Names = {"a"}
  NewNames = {"b"}
  Roles = {"Host", "Broadcaster", "Receiver"}
  Kinds = {"input", "toggle", "chat"}
  Faults = {"wrong"}
INVARIANTS
  NoEcho
  InputFromMember
  RefusedHearsNothing
CHECK_DEADLOCK FALSE
