CONSTANTS
  NumCases = 3
  Baselines = {1, 2}
  Runners = {r1, r2}
  MaxAttempts = 1
  MaxCrashes = 1
  CrashInLock = TRUE
SPECIFICATION CampaignSpec
PROPERTY ReportKeepsSuccess
CHECK_DEADLOCK FALSE
