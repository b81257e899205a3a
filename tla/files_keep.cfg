SPECIFICATION KeepSpec
CONSTANTS
  Files = {f1, f2}
  Stdout = stdout
  Threads = {t1, t2}
  Mutexes = {m1, m2, m3}
  MaxCalls = 3
  Closing = {}
  NULL = NULL
CHECK_DEADLOCK FALSE
INVARIANTS
  TypeOK
  ListSound
  FlushAllComplete
  FiniComplete
PROPERTIES
  CallsReturn
