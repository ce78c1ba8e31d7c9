SPECIFICATION MCSpec
CONSTANTS
  r1 = r1  r2 = r2  service = service  once = once  a = a  b = b  null = null
  Ids = {1}
  Texts = {a}
  NoText = null
  Classes = {"none"}
  PromoteUses = 1
  Readers = {}
  Workers = {service, once}
  MaxReads = 0
  MaxBreaks = 0
CHECK_DEADLOCK FALSE
INVARIANT OneRowPerKind
