\* A long result, two progress events, two attempts; the bot may crash.
SPECIFICATION Spec
CONSTANTS
  MaxProgress = 2
  MaxTries = 2
  LongResult = TRUE
  CrashBot = TRUE
INVARIANTS
  OneSender
  ReportIsTrue
  FilesBounded
PROPERTIES
  ImplementsReport
CHECK_DEADLOCK FALSE
