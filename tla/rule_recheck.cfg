CONSTANTS
  Children = 2
  d1 = d1
  d2 = d2
  q1 = q1
  q2 = q2
  Requests = {q1, q2}
  Decisions = {d1, d2}
  Choices = {"approve", "revise", "fork"}
  Overlapping = {"fork"}
  MaxRounds = 2
  MaxFaults = 1

  NumCases = 3
  Baselines = {1, 2}
  r1 = r1
  r2 = r2
  Runners = {r1, r2}
  MaxAttempts = 2
  MaxCrashes = 1
  CrashInLock = FALSE

  Claims = {"claim"}
  Rules = {"rule"}
  Shortcuts = {"shortcut"}
  Requirements = {"turn"}
  Optional = {}
  Alleged <- MCAlleged
  Excerpts = {"said", "done"}
  Selections <- MCSelections
  MaxBlockers = 2

  Anchors = {"outcome"}
  EndAnchor = "outcome"
  Says = {"a"}
  Audits <- MCAudits
  IssueKinds <- MCIssueKinds
  MaxReviews = 2
  MaxReported = 2

  Characters = {"ann"}
  Stranger = "stranger"
  ThreadIds = {"t"}
  Statements = {"x", "y"}
  Prohibitions = {"p"}
  MaxScenes = 3
  MaxDelta = 2

  Minimums = {1, 2}
  Maximums = {1, 2, 3}
  MaxPasses = 2

SPECIFICATION ServicesSpec
INVARIANT KeepingIsAdmitted
CHECK_DEADLOCK FALSE
