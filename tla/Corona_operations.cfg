\* One save, one edit, two operations of every kind, two faults.
SPECIFICATION FairSpec
CONSTANTS
  c0 = c0  c1 = c1  junk = junk
  Content = {c0, c1, junk}
  Broken = {junk}
  Initial = c0
  Scopes = {"nucleus", "corona"}
  Kinds = {"apply", "restart", "core_start", "core_stop"}
  MaxStarts = 2
  MaxSaves = 1
  MaxEdits = 1
  MaxOps = 2
  MaxFaults = 2
INVARIANTS
  DesiredIsOnDisk
  LogIsTrue
  AppliedWasReady
  RecoveryOnce
PROPERTIES
  ImplementsOperations
  OperationsEnd
CHECK_DEADLOCK FALSE
