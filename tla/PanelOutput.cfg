SPECIFICATION Spec
CONSTANTS
  c1 = c1
  c2 = c2
  None = None
  Calls = {c1, c2}
  Banner = {}
  Output = {"hit", "blank", "D"}
  Background = {}
  ReadLimit = 3
  MaxLog = 6
INVARIANTS InputKept ReadsAdvance
PROPERTIES AnswerIsFirst PromptAfterInput FinishedIsOwn
SYMMETRY Symmetry
CHECK_DEADLOCK FALSE
