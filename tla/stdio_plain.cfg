SPECIFICATION Spec
CONSTANTS
  Bytes = {10, 65}
  NL = 10
  BUFSIZ = 3
  BUFSIZMIN = 2
  UNGET = 1
  UserSizes = {1}
  Opens = {"r+", "w+"}
  ElementSizes = {2}
  Lengths = {1}
  MaxFile = 3
  Faults = {"short"}
  Habits = {}
INVARIANTS
  LinesDelivered
PROPERTIES
  StreamRefinement
