CONSTANTS
  Setup = setup
  Jobs = {j1, j2}
  Starts = {s1, s2}
  Opks = 2
  MaxCrashes = 1
  MaxDrops = 1
SPECIFICATION Spec
SYMMETRY Symmetry
INVARIANTS TypeOK SignsAsRegistered PublishedIsHeld
CHECK_DEADLOCK FALSE
