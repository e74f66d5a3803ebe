SPECIFICATION Spec
CONSTANTS
  c1 = c1
  c2 = c2
  None = None
  Client <- TwoClients
  MaxSeq = 2
  MaxNotes = 1
  MaxGarbage = 1
  PromptWrite = FALSE
SYMMETRY ClientSymmetry
INVARIANTS TypeOK AnswerToCaller LockHolder
CHECK_DEADLOCK FALSE
