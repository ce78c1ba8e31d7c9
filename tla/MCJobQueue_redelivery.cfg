CONSTANTS
  w1 = w1
  w2 = w2
  NoJob = NoJob
  MaxRetries = 1
  Workers <- TwoWorkers
  Jobs <- TwoJobs
  OnceWorkers <- NoWorkers
  Addressable <- TwoJobs
SPECIFICATION FairSpec
PROPERTY DoneIsFinal
