SPECIFICATION Spec
CONSTANTS
  Redacted <- MCRedacted
  Configs <- MCConfigs
  Arguments <- MCArguments
  Schemas <- MCSchemas
  Payloads <- MCPayloads
  Samples <- MCSamples
  Retries = 1
  PollAttempts = 2
  MaxRuns = 1
  MaxEdits = 1
INVARIANTS
  FlagsWin
  JobsExplained
  ReportSeen
  ModeDecides
  TestedHolds
  TestsStable
CHECK_DEADLOCK FALSE
