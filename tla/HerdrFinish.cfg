SPECIFICATION FairSpec
CONSTANTS
  w1 = w1
  w2 = w2
  p1 = p1
  None = None
  Waits = {w1, w2}
  Others = {p1}
  MaxChanges = 3
INVARIANTS SleepsInformed
PROPERTIES PromptJustified WaitsEnd
CHECK_DEADLOCK FALSE
