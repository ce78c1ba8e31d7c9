CONSTANTS
  MaxRetries = 1
  MaxReplans = 1
  MaxDeclines = 1
  Shapes <- AnyShapes
  Kinds <- BothKinds
SPECIFICATION FairSpec
INVARIANT TreeConsistent
INVARIANT HonestCompletion
PROPERTY ImplementsContract
PROPERTY ImplementsLifecycle
PROPERTY EveryRunEnds
CHECK_DEADLOCK FALSE
