SPECIFICATION Spec
CONSTANTS
  MaxCalls = 3
  MaxLines = 2
  PipeSize = 1
  Items = 2
  Faults = {"pipe", "spawn", "exit"}
INVARIANTS NothingHeld OutputComplete
PROPERTIES PromptReturns ProcessesEnd
CHECK_DEADLOCK FALSE
