\* Two claims, two coroutines that ask, one stop of the process.
SPECIFICATION FairSpec
CONSTANTS
  None = None
  k1 = k1  k2 = k2  r1 = r1  r2 = r2
  MaxCands = 2
  Claim = {k1, k2}
  Row = {r1, r2}
  SourcesOf <- Sources
  Asker = {a1, a2}
  Enforce = TRUE
  MaxAttempts = 2
  MaxWrites = 2
  MaxCrashes = 1
INVARIANTS
  OneOpenQuestion
  NegativeIsOff
  NoSecondQuestion
PROPERTIES
  ImplementsQuestions
  QuestionsSettle
CHECK_DEADLOCK FALSE
