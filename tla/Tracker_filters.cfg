SPECIFICATION FairSpec
CONSTANTS
    Block <- MCBlock
    Branch <- MCBranch
    HasLog <- MCHasLog
    HeadMoves <- ShortChain
    FirstHead = "a1"
    f1 = f1
    f2 = f2
    Filter = {f1, f2}
    FastStart <- SecondFrom1
    Async <- SecondAsync
    None = None
    Rec = Rec
    MaxBlockBacklog = 3
    BatchSize = 1
    ResultCap = 1
    MaxFails = 1
    MaxCrashes = 0
CHECK_DEADLOCK FALSE
INVARIANT TypeOK
INVARIANT NoBadSequence
INVARIANT NoSlicePanic
PROPERTY CatchUp
