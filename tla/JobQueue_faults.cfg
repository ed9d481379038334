SPECIFICATION Spec
CONSTANTS
  w1 = w1
  w2 = w2
  w3 = w3
  Workers = {w1,w2}
  NoWorker = NoWorker
  Sources = {s1}
  MaxAttempts = 2
  MaxJobs = 2
  MaxManual = 0
  MaxFaults = 2
  FaultKinds = {"crash","stall","beat","drop","reply","stop","late"}
SYMMETRY WorkerSymmetry
INVARIANTS TypeOK FailedIsExhausted OneCollectionPerJob DistinctAttempts AttemptsBounded RunsWithinAttempts
