SPECIFICATION Spec
CONSTANTS
    alice = alice
    bob = bob
    miner = miner
    Nil = Nil
    Addr <- Accounts
    GasReceiver = miner
    FirstBalance <- Balances
    Prices = {2}
    Gases = {0, 3}
    Values = {0, 1}
    DataGas = {0}
    TxGas = 1
    TxGasContractCreation = 2
    MaxNonce = 1
    Word = 16
INVARIANTS
    SupplyConserved
