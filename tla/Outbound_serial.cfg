\* Three sends to one target; the first has a deadline and the second arrives
\* in the same iteration of the event loop.
SPECIFICATION Spec
CONSTANTS
  None = None
  s1 = s1  s2 = s2  s3 = s3  ta = ta  tb = tb  all = all  one = one  two = two
  Send = {s1, s2, s3}
  Target = {ta}
  Handle = {h1}
  Bucket = {}
  Calls <- OneTarget
  Parts <- SingleParts
  Deadline <- FirstDeadlined
  Explicit <- NoExplicit
  BucketsFor <- NoBuckets
  LimitOf <- Limits
  WindowOf <- Windows
  QueueLimit = 2
  MaxLanes = 2
  MaxBuckets = 2
  MaxRetries = 1
  RetryAfters = {1}
  MaxRetryAfter = 5
  Burst = TRUE
  Impatient = {}
  MaxTime = 2
  MaxRebinds = 0
INVARIANT TargetSerial
CHECK_DEADLOCK FALSE
