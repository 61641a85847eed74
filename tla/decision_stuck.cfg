CONSTANTS
  Children = 1
  Requests = {q1}
  Decisions = {d1, d2}
  Choices = {"approve", "revise", "fork"}
  Overlapping = {}
  MaxRounds = 2
  MaxFaults = 1
SPECIFICATION LifeSpec
INVARIANT DecisionRetriable
CHECK_DEADLOCK FALSE
