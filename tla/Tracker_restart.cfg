SPECIFICATION Spec
CONSTANTS
    Block <- MCBlock
    Branch <- MCBranch
    HasLog <- MCHasLog
    HeadMoves <- OneReorg
    FirstHead = "a4"
    f1 = f1
    f2 = f2
    Filter = {f1}
    FastStart <- NoFastStart
    Async <- NoneAsync
    None = None
    Rec = Rec
    MaxBlockBacklog = 2
    BatchSize = 1
    ResultCap = 1
    MaxFails = 0
    MaxCrashes = 1
CHECK_DEADLOCK FALSE
INVARIANT ExactAfterRestart
