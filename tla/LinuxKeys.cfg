SPECIFICATION FairSpec
CONSTANTS
  Keys = {ctrl, zero}
  Combos = {{ctrl, zero}, {zero}}
  MaxInFlight = 2
INVARIANTS
  TypeOK
  KeysAgree
PROPERTIES
  ChangesAreNoticed
