SPECIFICATION Spec
CONSTANTS
  r1 = r1
  r2 = r2
  t1 = t1
  c1 = c1
  c2 = c2
  None = None
  Replies = {r1, r2}
  Texts = {t1}
  Calls = {c1, c2}
  MaxInputs = 2
INVARIANTS GuidanceComplete StatusTruthful PolicyFollowsPhase StoppedWorkerWaits
PROPERTIES ImplementsArtifacts ResultHonest
CHECK_DEADLOCK FALSE
