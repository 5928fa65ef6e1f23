SPECIFICATION AskSpec
CONSTANTS
  t1 = t1
  Options <- MCOptions
  Questions = 2
  Recommended = 2
  Texts = {t1}
  NoText = NoText
  MaxVisible = 3
INVARIANTS AnswersGiven AbortedAsksNothing CursorRendered
CHECK_DEADLOCK FALSE
