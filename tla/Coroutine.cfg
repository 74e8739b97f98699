\* Two coroutines that take three steps each: each may await, start and cancel the
\* other, and cancel itself.  The code of a stackless one nests two cotasks.
CONSTANTS
  Coroutines = {c1, c2}
  First = c1
  Null = Null
  Steps = 3
  Nesting = 2
SPECIFICATION Spec
INVARIANTS
  CancelIsSynchronous
  NeverTouchedDead
  CurrentIsInnermost
PROPERTIES
  AnswersResume
CHECK_DEADLOCK FALSE
