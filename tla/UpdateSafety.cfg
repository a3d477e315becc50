\* Two updates in a row, a crash and a fault, on every kind of installation.
SPECIFICATION FairSpec
CONSTANTS
  Proc = {p1, p2, p3}
  Hosts <- AllHosts
  MaxVersion = 3
  MaxApplies = 2
  MaxCrashes = 2
  MaxFaults = 1
INVARIANT TypeOK
INVARIANT Recoverable
INVARIANT RollbackRestores
PROPERTY InstalledSpec
PROPERTY SupervisedSettles
CHECK_DEADLOCK FALSE
