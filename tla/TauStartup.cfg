SPECIFICATION FairSpec
CONSTANTS
  c1 = c1
  c2 = c2
  c3 = c3
  m1 = m1
  None = None
  Clients = {c1, c2, c3}
  Manual = {m1}
  MaxFaults = 2
INVARIANTS StartupSafe
PROPERTIES CallsEnd
CHECK_DEADLOCK FALSE
