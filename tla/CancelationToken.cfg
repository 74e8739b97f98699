\* Three scopes, nested in every way, and two cancelers that ask again and again.
CONSTANTS
  Scopes = {s1, s2, s3}
  Cancelers = {c1, c2}
SPECIFICATION TokenSpec
INVARIANTS
  InnermostIsCanceled
PROPERTIES
  InnermostHears
