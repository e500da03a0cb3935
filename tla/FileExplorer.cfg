SPECIFICATION Spec
CONSTANTS
  Guests = {guest}
  FileName = file
  FolderName = folder
  MaxJobs = 3
INVARIANTS
  TypeOK
  ViewsAgree
PROPERTIES
  NothingReplaced
CHECK_DEADLOCK FALSE
