SPECIFICATION Spec
CONSTANTS
  u1 = u1
  u2 = u2
  c1 = c1
  c2 = c2
  boot = boot
  Boot <- boot
  Urls <- OneUrl
  Calls <- OneCall
  Services <- DriveAndCompanyCam
  Cap = 1
  MaxIds = 2
  MaxFaults = 0
PROPERTIES OneDriveCopy
CHECK_DEADLOCK FALSE
