SPECIFICATION Spec
CONSTANTS
    StackLimit = 8
    WordBits = 16
    WordLen = 2
    U64 = 32768
    MemLimit = 362
    RetLimit = 2
    Outside <- MCOutside
    P1 = 19
    P2 = 7
    Q = 7
    Order = 13
    Cap1 = 21
    Cap2 = 10
    Scalar = {0, 1, 2, 7, 9, 13, 15}
    Windows = {1, 2, 3}
    Nil = Nil
    Gone = Gone
    Unset = Unset
    contract = contract
    Addr = {contract}
    Slot = {1}
    Hash = {0, 1}
    Store <- Persistent
    StoreIterates = TRUE
    MaxBalance = 1
    MaxNonce = 1
    MaxCalls = 6
    Caller = {1, 2, 3}
    Chain <- PreflightChains
    MaxStarts = 4
    Syncer = {1, 2}
    Waiter = {1, 2}
    Free = Free
    MaxChanges = 1
    Writer = {1, 2}
    Batch <- StoreBatches
    SliceValue <- Slices
    NilSlice = NilSlice
    MaxRows = 4
INVARIANTS
    WriteSetIsMap
    EntryHolds
    CheckedMatches
    ChannelsSound
    IntegersExact
    
    AbiFaithful
    SchedulesSound
    CodecFaithful
    CryptoExact
    FrameInBounds
PROPERTIES
    ImplementsWorld
    StoreKeepsChain
    StepsFollowTable
CHECK_DEADLOCK FALSE
