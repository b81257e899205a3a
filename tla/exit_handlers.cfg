SPECIFICATION Spec
CONSTANTS
  Funcs = {"f", "g"}
  Dsos = {1}
  Max = 3
  Inits = 1
  Finis = 1
CHECK_DEADLOCK FALSE
INVARIANTS
  RunOnceAsRegistered
  NewestFirst
  ExitComplete
PROPERTIES
  ExitEnds
