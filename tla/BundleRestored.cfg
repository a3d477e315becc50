\* A macOS bundle whose update is rolled back, with two crashes.
SPECIFICATION Spec
CONSTANTS
  Proc = {p1, p2}
  Hosts <- BundleHosts
  MaxVersion = 2
  MaxApplies = 1
  MaxCrashes = 2
  MaxFaults = 0
INVARIANT BundleRestored
CHECK_DEADLOCK FALSE
