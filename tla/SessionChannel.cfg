SPECIFICATION FairSpec
CONSTANTS
  Senders = {ui, io}
  MaxSends = 4
  MaxCloses = 2
INVARIANTS
  TypeOK
  DisconnectReportedOnce
  QueueIsBeingWritten
PROPERTIES
  EveryMessageLeaves
  CloseCompletes
  ImplementsPipe
CHECK_DEADLOCK FALSE
