SPECIFICATION MCSpec
CONSTANTS
  p1 = p1  p2 = p2  login = login  a1 = a1  a2 = a2  none = none  q1 = q1  q2 = q2
  Procs = {p1, p2}
  Login = login
  Accounts = {a1, a2}
  NoAccount = none
  EnvAccount = none
  MaxLogins = 2
  MaxLapses = 1
  MaxKills = 1
  Queries = {q1, q2}
  DailyMax = 1
  MaxTurns = 2
  MaxNights = 1
CHECK_DEADLOCK FALSE
INVARIANT NoMixedAccounts
INVARIANT AuditTruthful
INVARIANT BudgetHolds
PROPERTY EveryTurnEnds
