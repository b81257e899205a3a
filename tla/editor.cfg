SPECIFICATION Spec
CONSTANTS
  Letters = {"a", " ", "sign"}
  Ignored = {"sign"}
  MaxKeys = 4
  BufferSize = 2
  Completions <- MCCompletions
   
PROPERTIES SettlesAgain
CHECK_DEADLOCK FALSE
