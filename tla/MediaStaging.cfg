SPECIFICATION Spec
CONSTANTS
  u1 = u1
  u2 = u2
  c1 = c1
  c2 = c2
  boot = boot
  Boot <- boot
  Urls <- TwoUrls
  Calls <- TwoCalls
  Services <- Drive
  Cap = 1
  MaxIds = 3
  MaxFaults = 1
SYMMETRY Symmetry
INVARIANTS TypeOK StagingConsistent
PROPERTIES OneDriveCopy
CHECK_DEADLOCK FALSE
