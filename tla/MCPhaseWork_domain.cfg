SPECIFICATION Spec
CONSTANTS
  Skills <- AllSkills
  Research <- Web
  Needs <- NeedsOf
  Effect <- EffectOf
  Granted <- Default
  Proposals <- AnyCall
  NTasks = 2
  MaxSteps = 2
  MaxRetries = 1
  MaxFaults = 1
CHECK_DEADLOCK FALSE
INVARIANT CodingStaysLocal
