\* Two sends to one target, one of them with a deadline, and one to another.
SPECIFICATION FairSpec
CONSTANTS
  None = None
  s1 = s1  s2 = s2  s3 = s3  ta = ta  tb = tb  all = all  one = one  two = two
  Send = {s1, s2, s3}
  Target = {ta, tb}
  Handle = {h1, h2}
  Bucket = {all, one, two}
  Calls <- SomeTargets
  Parts <- FirstInTwo
  Deadline <- SecondDeadlined
  Explicit <- NoExplicit
  BucketsFor <- Buckets
  LimitOf <- Limits
  WindowOf <- Windows
  QueueLimit = 1
  MaxLanes = 2
  MaxBuckets = 2
  MaxRetries = 1
  RetryAfters = {1, 9}
  MaxRetryAfter = 5
  Burst = FALSE
  Impatient = {s1, s2}
  MaxTime = 2
  MaxRebinds = 1
INVARIANTS
  TargetSerial
  ResultIsTrue
  QuotaRespected
  ExactBot
  LanesAreReturned
PROPERTIES
  DeadlineSendsEnd
  ImplementsDelivery
CHECK_DEADLOCK FALSE
