CONSTANTS
  w1 = w1
  w2 = w2
  NoJob = NoJob
  MaxRetries = 1
  Workers <- TwoWorkers
  Jobs <- ThreeJobs
  OnceWorkers <- JustW1
  Addressable <- TwoJobs
SPECIFICATION FairSpec
INVARIANT OneRunnerPerJob
PROPERTY EveryJobSettles
PROPERTY ImplementsLifecycle
