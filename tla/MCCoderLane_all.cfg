SPECIFICATION FairSpec
CONSTANTS
  w1 = w1  w2 = w2  srv = srv  shell = shell  f1 = f1  f2 = f2
  Workers = {w1, w2}
  Servers = {srv}
  Owner = shell
  Jobs = {1}
  Files = {f1, f2}
  MaxIters = 2
  Validate = TRUE
  NoJob = none
INVARIANT BuiltOnce
INVARIANT DoneIsListed
INVARIANT OnlyReviewedCodeRuns
PROPERTY EveryRequestSettles
