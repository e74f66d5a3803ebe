SPECIFICATION Spec
CONSTANTS
    Block <- MCBlock
    Branch <- MCBranch
    HasLog <- MCHasLog
    HeadMoves <- TwoReorgs
    FirstHead = "a4"
    f1 = f1
    f2 = f2
    Filter = {f1}
    FastStart <- NoFastStart
    Async <- NoneAsync
    None = None
    Rec = Rec
    MaxBlockBacklog = 3
    BatchSize = 1
    ResultCap = 1
    MaxFails = 1
    MaxCrashes = 1
CHECK_DEADLOCK FALSE
INVARIANT BlocksLinked
INVARIANT TargetIsHead
INVARIANT ExactLogs
INVARIANT EventsReplayLogs
INVARIANT ResumePoint
