\* Two tasks in a task_canceler, terminated by a user and by the destructor, and a
\* call of when_all() or when_any() by a user on the futures of the tasks; or two futures
\* in a future_group terminated twice.
CONSTANTS
  Futures = {t1, t2}
  Whens = {user, owner, w}
  Terminators = {user, owner}
  Kinds = {"all", "auto"}
  None = None
  Destructor = owner
  Reentrant = {t1}
SPECIFICATION Spec
INVARIANTS
  NoneIsForgotten
  ResultsAreComplete
  CancelReachesAll
PROPERTIES
  TerminateEnds
CHECK_DEADLOCK FALSE
