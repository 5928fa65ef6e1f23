SPECIFICATION Spec
CONSTANTS
  c1 = c1
  c2 = c2
  None = None
  Calls = {c1, c2}
  Banner = {}
  Output = {"D"}
  Background = {}
  ReadLimit = 4
  MaxLog = 6
PROPERTIES FinishedWhenAlone
CHECK_DEADLOCK FALSE
