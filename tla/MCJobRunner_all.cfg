SPECIFICATION FairSpec
CONSTANTS
  j1 = j1  j2 = j2
  Jobs = {j1, j2}
  MaxConcurrent = 1
  Phases = 1
  NoJob = none
INVARIANT SlotsAccounted
INVARIANT ListsTruthful
INVARIANT AbandonedBottomUp
PROPERTY EveryRunnerEnds
