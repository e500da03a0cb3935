SPECIFICATION Spec
CONSTANTS
  Ctrls = {lctrl, rctrl}
  Others = {zero}
  Zero = zero
  Buttons = {left}
  MaxInFlight = 2
SYMMETRY Symmetry
INVARIANTS
  TypeOK
  PauseReleasesCombo
  KeysAgree
