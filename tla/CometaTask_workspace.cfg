\* Two tasks of one workspace, two workers; nothing crashes or stalls.
SPECIFICATION Spec
CONSTANTS
  None = None
  t1 = t1  t2 = t2  k1 = k1  u1 = u1  w1 = w1  w2 = w2
  Task <- TwoTasks
  Worker = {w1, w2}
  Workspace = {k1}
  Scope = {u1}
  MaxAttempts = 1
  WorkspaceOf <- SharedWorkspace
  ScopesOf <- SharedUser
  Limit <- LimitTwo
  MaxConcurrent = 2
  Stallable = {}
  Crashable = {}
  Cancellable = {}
  Deadlined = {}
  Interactive = {}
  CrashInRecovery = FALSE
INVARIANT WorkspaceExclusive
CHECK_DEADLOCK FALSE
