\* A request on the future of the task and one on a derived future; the task may
\* be dropped and its chain broken; its token had a callback already.
CONSTANTS
  Cancelers = {c1}
  Derived = {d1}
  Runner = runner
  Continuation = continuation
  InitialStack <- CallersToken
  MayDrop = TRUE
  MayBreak = TRUE
SPECIFICATION Spec
INVARIANTS
  TakenOnce
  ResultTellsTheTruth
  CancelIsHeard
PROPERTIES
  EverybodyEnds
