SPECIFICATION Spec
CONSTANTS
    origin = origin
    contract = contract
    fresh = fresh
    sha = sha
    Nil = Nil
    Gone = Gone
    Addr <- Accounts
    Slot = {1}
    Hash = {0, 1}
    Store <- Remote
    StoreIterates = FALSE
    Origin = origin
    Precompiles = {sha}
    Overlays <- Committed
    Created = {fresh}
    Values = {0, 1}
    Requests = {4}
    TxGasLimit = 5
    CallCreateDepth = 2
    MaxTx = 1
    MaxNonce = 2
    MaxLogs = 1
    Word = 64
    CallGas = 1
    CallValueTransferGas = 2
    CallNewAccountGas = 3
    CallStipend = 1
    GasDenominator = 4
    CreateGas = 2
    CreateDataGas = 1
    LogGas = 2
    PrecompileGas = 2
    SelfdestructGas = 2
    CreateBySelfdestructGas = 3
    SelfdestructRefundGas = 2
    SstoreSentryGas = 1
    SloadGas = 1
    SstoreSetGas = 3
    SstoreResetGas = 2
    SstoreClearsRefund = 2
INVARIANTS
    
    StaticKeepsState
    RefundCoversClears
    DeployedCodeStays
    SupplyKept
PROPERTIES
    FailureRestores
    GasNeverGrows
CHECK_DEADLOCK FALSE
