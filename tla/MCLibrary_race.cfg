SPECIFICATION Spec
CONSTANTS
  p = p  q = q  c = c  d = d  log = log  out = out
  Procs = {p, q}
  Librarians = {p, q}
  Codes = {c}
  Artifacts = {log, out}
  MaxOps = 3
  MaxKills = 0
CHECK_DEADLOCK FALSE
INVARIANT NothingLost
