SPECIFICATION SetupSpec
CONSTANTS
  CustomKeys = {"A_API_KEY", "B_API_KEY"}
  Shell = {}
  MaxRuns = 2
  MaxBreaks = 2
CHECK_DEADLOCK FALSE
INVARIANT SecretsKept
INVARIANT OkMeansKeyed
INVARIANT PassMeansRunnable
