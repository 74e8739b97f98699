\* Two permits at most, one of them released by code that acquired none; four
\* calls, one of which may release its permit as soon as it comes.
CONSTANTS
  Calls = {a, b, c, d}
  Permits = 1
  MaxExtra = 1
  Careless = {a}
SPECIFICATION Spec
INVARIANTS
  PermitsAreConserved
  ServedInOrder
PROPERTIES
  AnswersCome
CHECK_DEADLOCK FALSE
