SPECIFICATION Spec
CONSTANTS
  w1 = w1
  w2 = w2
  w3 = w3
  Workers = {w1,w2,w3}
  NoWorker = NoWorker
  Sources = {s1}
  MaxAttempts = 2
  MaxJobs = 2
  MaxManual = 0
  MaxFaults = 4
  FaultKinds = {"crash","drop","stop"}
SYMMETRY WorkerSymmetry
INVARIANTS ClaimIsExclusive OneActivePerSource
PROPERTY FollowsLifecycle
