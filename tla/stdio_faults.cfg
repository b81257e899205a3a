SPECIFICATION Spec
CONSTANTS
  Bytes = {10}
  NL = 10
  BUFSIZ = 3
  BUFSIZMIN = 1
  UNGET = 1
  UserSizes = {1}
  Opens = {"r", "w", "r+"}
  ElementSizes = {2}
  Lengths = {1}
  MaxFile = 3
  Faults = {"error", "eof", "short", "seek", "close"}
  Habits = {"mode"}
INVARIANTS
  TypeOK
  BufferBounds
  DirectionSound
  EofExplained
PROPERTIES
  ReadOnlyKept
