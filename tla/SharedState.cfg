\* Three promise_ptrs (an original, a copy, a try_lock), a then(), a wait() and
\* a wait_for().
CONSTANTS
  Promises = {p1, p2, p3}
  Original = p1
  Conts = {c1}
  Waiters = {w1, w2}
  TimedWaiters = {w2}
SPECIFICATION Spec
INVARIANTS
  AssertsNeverFail
  BrokenOnlyWhenAbandoned
  ContinuationsArePosted
PROPERTIES
  WaitersReturn
  ImplementsOneShot
