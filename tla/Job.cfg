\* Three calls of trigger() or trigger_success(): one for the run in progress, one
\* for the next, one after both.
CONSTANTS
  Calls = {u1, u2, u3}
SPECIFICATION Spec
INVARIANTS
  RunsAreHonest
  DestroyedIsQuiet
PROPERTIES
  TriggerReturns
