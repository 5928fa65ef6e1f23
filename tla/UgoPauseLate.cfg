SPECIFICATION Spec
CONSTANTS
  a = a
  b = b
  None = None
  Reflections = {a, b}
PROPERTIES PauseHonoured
