SPECIFICATION Spec
CONSTANTS
  LongMax = 127
  Kinds <- MCKinds
  Elements <- MCElements
  MaxLength <- MCMaxLength
INVARIANTS WrittenIsParsed ArgumentsArrive SortAndSearch NumberRead EnvironmentIsMap
CHECK_DEADLOCK FALSE
