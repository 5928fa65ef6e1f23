SPECIFICATION FairSpec
CONSTANTS
  c1 = c1
  c2 = c2
  None = None
  Calls = {c1}
  Banner = {"hit", "blank", "nl"}
  Output = {}
  Background = {}
  ReadLimit = 2
  MaxLog = 3
PROPERTIES CallsReturn
CHECK_DEADLOCK FALSE
