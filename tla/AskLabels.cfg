SPECIFICATION AskSpec
CONSTANTS
  t1 = t1
  Options <- MCCounted
  Questions = 2
  Recommended = 4
  Texts = {t1}
  NoText = NoText
  MaxVisible = 3
INVARIANTS AnswersGiven
CHECK_DEADLOCK FALSE
