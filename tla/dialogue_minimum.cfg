CONSTANTS
  Minimums = {1, 2}
  Maximums = {1, 2, 3}
  MaxPasses = 2

SPECIFICATION DialogueSpec
INVARIANT MinimumRoundsHeld
CHECK_DEADLOCK FALSE
