\* Two reminders of one group, each run on request; two workers, two faults.
SPECIFICATION Spec
CONSTANTS
  None = None
  t1 = t1  t2 = t2  g1 = g1
  Task = {t1, t2}
  Group = {g1}
  Worker = {w1, w2}
  Horizon = 0
  MaxRevision = 1
  MaxFaults = 2
  MaxManual = 2
  GroupOf <- OneGroup
  Agents = {}
  Latest = {}
  TaskLimit = 2
  Cap = 3
SYMMETRY Symmetry
INVARIANTS
  GroupIsSerial
CHECK_DEADLOCK FALSE
