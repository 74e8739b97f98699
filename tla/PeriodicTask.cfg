\* Three runs that overlap at most, two calls of stop() under way at once.
CONSTANTS
  Chains = {1, 2, 3}
  Stops = {u1, u2}
  Patient = TRUE
SPECIFICATION TaskSpec
INVARIANTS
  OneRunAtATime
PROPERTIES
  StopReturns
  KeepsRunning
