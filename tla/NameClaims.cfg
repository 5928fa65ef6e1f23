SPECIFICATION FairSpec
CONSTANTS
  Tasks <- BatchTasks
  Processes <- BatchProcesses
  Home <- BatchHome
  Op <- BatchOp
  Registered = 9
  Inodes = {1}
  MaxCrashes = 1
INVARIANTS LiveTargetRegistered ClaimExclusive
PROPERTIES OperationsSerialized ImplementsNamedTarget CallsEnd
CHECK_DEADLOCK FALSE
