SPECIFICATION FairSpec
CONSTANTS
  ok1 = ok1
  ok2 = ok2
  bad = bad
  NoResult = NoResult
  Successes = {ok1, ok2}
  Failures = {bad}
  GracePolls = 3
INVARIANTS NothingLeftBehind KnownWorkerOutlivesHost
PROPERTIES ReportedExitIsReal CallEnds ImplementsCall
CHECK_DEADLOCK FALSE
