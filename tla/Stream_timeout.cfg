SPECIFICATION Spec
CONSTANTS
  c1 = c1
  c2 = c2
  None = None
  Client <- OneClient
  MaxSeq = 1
  MaxNotes = 0
  MaxGarbage = 0
  PromptWrite = FALSE
PROPERTY TimeoutMeansNoAnswer
CHECK_DEADLOCK FALSE
