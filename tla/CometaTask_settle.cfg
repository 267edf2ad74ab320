\* One task with a workspace; one worker may crash, but not between the steps of recover_task.
SPECIFICATION FairSpec
CONSTANTS
  None = None
  t1 = t1  t2 = t2  k1 = k1  u1 = u1  w1 = w1  w2 = w2
  Task <- OneTask
  Worker = {w1, w2}
  Workspace = {k1}
  Scope = {u1}
  MaxAttempts = 2
  WorkspaceOf <- SharedWorkspace
  ScopesOf <- SharedUser
  Limit <- LimitTwo
  MaxConcurrent = 2
  Stallable = {}
  Crashable = {w1}
  Cancellable <- OneTask
  Deadlined <- OneTask
  Interactive <- OneTask
  CrashInRecovery = FALSE
INVARIANTS
  WorkspaceLeaseOwned
  AtMostOneExecution
PROPERTIES
  Settles
  ImplementsContract
CHECK_DEADLOCK FALSE
