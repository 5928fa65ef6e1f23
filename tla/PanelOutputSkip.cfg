SPECIFICATION Spec
CONSTANTS
  c1 = c1
  c2 = c2
  None = None
  Calls = {c1}
  Banner = {"hit", "nl"}
  Output = {"hit", "nl", "D"}
  Background = {}
  ReadLimit = 4
  MaxLog = 6
PROPERTIES ContinuesAfterMatch
CHECK_DEADLOCK FALSE
