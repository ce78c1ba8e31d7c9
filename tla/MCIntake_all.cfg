SPECIFICATION MCSpec
CONSTANTS
  bot = bot  sh = sh
  Bot = bot
  Shells = {sh}
  MaxUpdates = 2
  MaxStarts = 2
  MaxReroutes = 1
CHECK_DEADLOCK FALSE
INVARIANT AckedIsHandled
INVARIANT OneHomePerTurn
INVARIANT QueuedIsSound
PROPERTY EveryUpdateIsHandled
