SPECIFICATION ReviewSpec
CONSTANTS
  NoDocument = NoDocument
  Documents <- MCDocuments
  Continuations = 3
INVARIANTS UnitsSound FrictionInOrder
PROPERTIES ReportEarned
CHECK_DEADLOCK FALSE
