SPECIFICATION FairSpec
CONSTANTS
  w1 = w1
  w2 = w2
  w3 = w3
  Workers = {w1,w2}
  NoWorker = NoWorker
  Sources = {s1}
  MaxAttempts = 2
  MaxJobs = 1
  MaxManual = 1
  MaxFaults = 3
  FaultKinds = {"crash","stall","beat","drop","reply","stop","late"}
PROPERTY Settles
