\* One change of a controller setting, applied, and nothing fails.
SPECIFICATION Spec
CONSTANTS
  c0 = c0  c1 = c1  junk = junk
  Content = {c0, c1}
  Broken = {}
  Initial = c0
  Scopes = {"corona"}
  Kinds = {"apply"}
  MaxStarts = 2
  MaxSaves = 1
  MaxEdits = 0
  MaxOps = 1
  MaxFaults = 0
INVARIANT RolledBackForCause
CHECK_DEADLOCK FALSE
