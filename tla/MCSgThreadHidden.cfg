SPECIFICATION FairSpec
CONSTANTS
  Controllers = {c1, c2}
  NoThread = NoThread
  Target = Target
  Ops <- HideOps
  Forced = TRUE
CHECK_DEADLOCK FALSE
PROPERTY TerminatedBeforeReturn
