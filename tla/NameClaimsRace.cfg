SPECIFICATION Spec
CONSTANTS
  Tasks <- TrioTasks
  Processes <- TrioProcesses
  Home <- TrioHome
  Op <- TrioOp
  Registered = 9
  Inodes = {1, 2}
  MaxCrashes = 1
PROPERTIES OnlyStaleRemoved
CHECK_DEADLOCK FALSE
