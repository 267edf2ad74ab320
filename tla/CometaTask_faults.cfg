\* One task; both workers may crash, one may stall; every interruption.
SPECIFICATION Spec
CONSTANTS
  None = None
  t1 = t1  t2 = t2  k1 = k1  u1 = u1  w1 = w1  w2 = w2
  Task <- OneTask
  Worker = {w1, w2}
  Workspace = {}
  Scope = {u1}
  MaxAttempts = 2
  WorkspaceOf <- NoWorkspace
  ScopesOf <- SharedUser
  Limit <- LimitTwo
  MaxConcurrent = 2
  Stallable = {w1}
  Crashable = {w1, w2}
  Cancellable <- OneTask
  Deadlined <- OneTask
  Interactive <- OneTask
  CrashInRecovery = TRUE
INVARIANTS
  OneResult
  CurrentIsNewest
  InterruptionHasCause
  SuccessWasExecuted
PROPERTIES
  TerminalIsFinal
CHECK_DEADLOCK FALSE
