SPECIFICATION Spec
CONSTANTS
  w1 = w1  w2 = w2  srv = srv  shell = shell  f1 = f1  f2 = f2
  Workers = {w1}
  Servers = {srv}
  Owner = shell
  Jobs = {1, 2}
  Files = {f1}
  MaxIters = 1
  Validate = TRUE
  NoJob = none
INVARIANT GeneratedCodeIsReviewed
