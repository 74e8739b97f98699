\* Two stages and one thread: a timer fires before async_wait() sets its canceler.
CONSTANTS
  Last = 2
  Executors = 1
SPECIFICATION LazySpec
INVARIANTS
  OneCanceler
CHECK_DEADLOCK FALSE
