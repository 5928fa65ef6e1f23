SPECIFICATION Spec
CONSTANTS
  c1 = c1
  c2 = c2
  None = None
  Calls = {c1}
  Banner = {"hit", "nl"}
  Output = {}
  Background = {}
  ReadLimit = 4
  MaxLog = 4
PROPERTIES MatchBeforePrompt
CHECK_DEADLOCK FALSE
