\* Two units with one revision each, any retries, a dialogue pass in the first;
\* then, on their own, the calls of one task, the evidence of a writer, the
\* presets and the event log.
CONSTANTS
  NumUnits = 2
  MaxRevisions = 1
  DialogueUnits = {1}
  DialogueSteps = 2
  MaxLosses = 1
  InputRate = 2
  CachedRate = 1
  OutputRate = 3
  CallBudgets <- MCCallBudgets
  InputTokens = {1, 2}
  OutputTokens = {1, 2}
  NodeAttempts = 2
  MaxExecutions = 2

  Assigned = {"turning_point", "outcome"}
  Audits <- MCHandoffAudits
  WriteAttempts = 2
  MaxWriting = 2

  Editors = {1, 2}
  MaxRequests = 3

  Writers = {1, 2}
  Followers = {1}
  LoggedRuns = {"a", "b"}
  PageLimit = 1
  BatchSize = 2
  MaxEvents = 3
SPECIFICATION PartsSpec
INVARIANTS
  PartsTypeOK
  AcceptedReviewed
  CanonicalBible
  HistoryIsExact
  StepsWithinEnvelope
  AdjudicationIsLast
  NoStateError
  ChargesAreBounded
  PromptsStayOnDevice
  EscalationSurvivesLoss
PROPERTIES CanonSpec FeedSpec ScenesEnd StoriesRunTheDefault 
CHECK_DEADLOCK FALSE
