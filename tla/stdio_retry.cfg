SPECIFICATION Spec
CONSTANTS
  Bytes = {10, 65}
  NL = 10
  BUFSIZ = 2
  BUFSIZMIN = 1
  UNGET = 1
  UserSizes = {1}
  Opens = {"w"}
  ElementSizes = {2}
  Lengths = {1}
  MaxFile = 2
  Faults = {"error"}
  Habits = {"retry"}
INVARIANTS
  BufferBounds
