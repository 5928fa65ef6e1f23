SPECIFICATION Spec
CONSTANTS
  h1 = h1
  h2 = h2
  t1 = t1
  None = None
  Herdr = {h1, h2}
  Tau = {t1}
  Late = {h1, h2}
  MaxActs = 3
  MaxExits = 1
PROPERTIES HandedOver UpToDate ImplementsConversations
CHECK_DEADLOCK FALSE
SYMMETRY Symmetry
