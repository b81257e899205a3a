SPECIFICATION Spec
CONSTANTS
  Chars = {"a"}
  Sizes <- MCSizes
  Scrolls <- MCScrolls
  InitialMax = 2
  MaxOps = 2
  MaxEvents = 2
INVARIANTS RowsCurrent ScrollSound ViewCurrent ViewFits
CHECK_DEADLOCK FALSE
