SPECIFICATION Spec
CONSTANTS
  a = a
  b = b
  None = None
  Reflections = {a, b}
PROPERTIES StepCommitted ReflectionReachesGuide PauseKept SingleLoop
