SPECIFICATION Spec
CONSTANTS
  h1 = h1
  h2 = h2
  t1 = t1
  None = None
  Herdr = {h1, h2}
  Tau = {t1}
  Late = {}
  MaxActs = 3
  MaxExits = 0
PROPERTIES RestorationKept
CHECK_DEADLOCK FALSE
