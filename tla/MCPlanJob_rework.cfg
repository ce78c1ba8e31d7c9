CONSTANTS
  MaxRetries = 1
  MaxReplans = 1
  MaxDeclines = 1
  Shapes <- WorkShapes
  Kinds <- JustTasks
SPECIFICATION FairSpec
INVARIANT DeclinedPhaseIsReworked
CHECK_DEADLOCK FALSE
