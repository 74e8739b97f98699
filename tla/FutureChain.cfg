\* Two steps of any kind, a thread that requests the cancelation of any of the
\* three futures, and breaks between them.
CONSTANTS
  Names <- TwoSteps
  Cancelers = {c1}
  Kinds = {"then", "and_then", "then_token"}
  Breakable = {0, 1}
SPECIFICATION Spec
INVARIANTS
  InnerHears
  BreakIsolates
PROPERTIES
  NoCallbackDueAfterCancel
  CanceledChainEnds
