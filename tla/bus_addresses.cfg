SPECIFICATION Spec
CONSTANTS
  OnBus = 3
  Managed = 3
  Base = 1
  Width = 8
INVARIANTS AccessReachesOwnSlave ObjectsDoNotShareAddresses
