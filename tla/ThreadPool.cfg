\* Three tasks, two of which throw, two threads, and another thread that calls
\* run_thread().
CONSTANTS
  Tasks = {t1, t2, t3}
  Bad = {t1, t2}
  Threads = {p1, p2}
  Workers = {w}
  Sizes = {2}
SPECIFICATION Spec
INVARIANTS
  DrainedByStop
PROPERTIES
  ForkRestoresThreads
  StopReturns
  PostedTasksRun
CHECK_DEADLOCK FALSE
