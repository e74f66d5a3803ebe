SPECIFICATION FairSpec
CONSTANTS
  c1 = c1
  c2 = c2
  None = None
  Client <- OneClient
  MaxSeq = 2
  MaxNotes = 1
  MaxGarbage = 1
  PromptWrite = TRUE
PROPERTIES HandlersDrain CallsReturn NotesHandled
CHECK_DEADLOCK FALSE
