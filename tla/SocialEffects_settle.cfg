\* Two replies with overlapping windows, a queue of one, one fault.
SPECIFICATION FairSpec
CONSTANTS
  None = None
  e1 = e1  e2 = e2  u1 = u1  u2 = u2
  Effect = {e1, e2}
  User = {u1, u2}
  Target <- OneTarget
  QueueLimit = 1
  MaxAttempts = 2
  MaxFollowUps = 1
  Lost = {}
  MaxLog = 2
  MaxFaults = 1
INVARIANTS
  ClaimedOnce
  WholeWindow
PROPERTIES
  EffectsSettle
CHECK_DEADLOCK FALSE
