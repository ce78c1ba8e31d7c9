SPECIFICATION Spec
CONSTANTS
  p = p  q = q  c = c  d = d  log = log  out = out
  Procs = {p, q}
  Librarians = {p}
  Codes = {c, d}
  Artifacts = {log, out}
  MaxOps = 4
  MaxKills = 1
CHECK_DEADLOCK FALSE
INVARIANT NothingLost
INVARIANT ListedIsReadable
