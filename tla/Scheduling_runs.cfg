\* One agent task that is edited, paused and cancelled; two workers, two faults.
SPECIFICATION FairSpec
CONSTANTS
  None = None
  t1 = t1  t2 = t2  g1 = g1
  Task = {t1}
  Group = {g1}
  Worker = {w1, w2}
  Horizon = 1
  MaxRevision = 2
  MaxFaults = 2
  MaxManual = 0
  GroupOf <- OneGroup
  Agents = {t1}
  Latest = {t1}
  TaskLimit = 2
  Cap = 2
INVARIANTS
  PostedOnce
PROPERTIES
  EndedIsFinal
  ImplementsReport
  SlotFrees
CHECK_DEADLOCK FALSE
