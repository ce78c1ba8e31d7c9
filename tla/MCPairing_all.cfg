SPECIFICATION MCSpec
CONSTANTS
  b1 = b1  b2 = b2  a1 = a1  a2 = a2  cli = cli  own = own  other = other  none = none
  Bots = {b1, b2}
  Accounts = {a1, a2}
  Console = cli
  Logins = {own, other}
  Pin = none
  NoLogin = none
  NoAccount = none
  Ttl = 1
  MaxPerWindow = 1
  Window = 1
  MaxTime = 2
  MaxCodes = 1
  MaxTickets = 2
  MaxGrants = 2
  MaxInbound = 2
  MaxDeaths = 1
SYMMETRY Symmetry
CHECK_DEADLOCK FALSE
INVARIANT CodePairsOnce
INVARIANT ApprovalBindsItsSender
PROPERTY OwnerStays
