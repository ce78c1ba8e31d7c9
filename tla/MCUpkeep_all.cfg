SPECIFICATION MCSpec
CONSTANTS
  r1 = r1  r2 = r2  service = service  once = once  a = a  b = b  null = null
  Ids = {1, 2}
  Texts = {a}
  NoText = null
  Classes = {"none", "short", "core"}
  PromoteUses = 1
  Readers = {r1, r2}
  Workers = {service}
  MaxReads = 2
  MaxBreaks = 1
CHECK_DEADLOCK FALSE
INVARIANT UseCountExact
PROPERTY RecallKeepsText
PROPERTY LapsedLeavesRecall
PROPERTY DueIsRun
