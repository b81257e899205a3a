SPECIFICATION Spec
CONSTANTS
  Chars = {"a"}
  Outs = {"stdout"}
  PipeSize = 3
  MaxEvents = 3

  
PROPERTIES
  KeysTaken
  OutputProcessed
  Drawn
