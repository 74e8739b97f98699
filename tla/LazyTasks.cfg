\* Three stages, an executor with two threads: two handlers may run at once while the
\* user still submits the first stage.
CONSTANTS
  Last = 3
  Executors = 2
SPECIFICATION LazySpec
INVARIANTS
  CanceledStageIsSkipped
PROPERTIES
  ResultIsFinal
  CancelEnds
CHECK_DEADLOCK FALSE
