----------------------------- MODULE JumpTable -----------------------------
(***************************************************************************)
(* The instruction sets of evm/jump_table.go, fork by fork, over the       *)
(* opcodes of evm/opcodes.go: what each operation costs, how many stack    *)
(* items it needs and may leave, which memory it asks for, and its flags.  *)
(* A dynamicGas or memorySize function is named; Machine gives its         *)
(* meaning.  "none" is the nil function.                                   *)
(***************************************************************************)
EXTENDS Integers, Sequences, TLC

CONSTANT StackLimit   \* params.StackLimit

\* The opcodes that have a name of their own, and the starts of the ranges of PUSH,
\* DUP, SWAP and LOG.
named(base, names) == [n \in {names[i] : i \in 1..Len(names)} |->
                          base + (CHOOSE i \in 1..Len(names) : names[i] = n) - 1]

OpCode ==
    named(0, <<"STOP", "ADD", "MUL", "SUB", "DIV", "SDIV", "MOD", "SMOD", "ADDMOD",
               "MULMOD", "EXP", "SIGNEXTEND">>) @@
    named(16, <<"LT", "GT", "SLT", "SGT", "EQ", "ISZERO", "AND", "OR", "XOR", "NOT",
                "BYTE", "SHL", "SHR", "SAR">>) @@
    named(32, <<"SHA3">>) @@
    named(48, <<"ADDRESS", "BALANCE", "ORIGIN", "CALLER", "CALLVALUE", "CALLDATALOAD",
                "CALLDATASIZE", "CALLDATACOPY", "CODESIZE", "CODECOPY", "GASPRICE",
                "EXTCODESIZE", "EXTCODECOPY", "RETURNDATASIZE", "RETURNDATACOPY",
                "EXTCODEHASH">>) @@
    named(64, <<"BLOCKHASH", "COINBASE", "TIMESTAMP", "NUMBER", "DIFFICULTY", "GASLIMIT",
                "CHAINID", "SELFBALANCE">>) @@
    named(80, <<"POP", "MLOAD", "MSTORE", "MSTORE8", "SLOAD", "SSTORE", "JUMP", "JUMPI",
                "PC", "MSIZE", "GAS", "JUMPDEST", "BEGINSUB", "RETURNSUB", "JUMPSUB">>) @@
    named(240, <<"CREATE", "CALL", "CALLCODE", "RETURN", "DELEGATECALL", "CREATE2">>) @@
    named(250, <<"STATICCALL">>) @@ named(253, <<"REVERT">>) @@ named(255, <<"SELFDESTRUCT">>)

Ops(names) == {OpCode[n] : n \in names}
PUSH1 == 96
DUP1  == 128
SWAP1 == 144
LOG0  == 160
IsPush(b) == b \in PUSH1 .. PUSH1 + 31
IsDup(b)  == b \in DUP1 .. DUP1 + 15
IsSwap(b) == b \in SWAP1 .. SWAP1 + 15
IsLog(b)  == b \in LOG0 .. LOG0 + 4

\* The name of an opcode, one name for all of a range.
Name == [b \in 0..255 |-> CASE IsPush(b) -> "PUSH" [] IsDup(b) -> "DUP" [] IsSwap(b) -> "SWAP"
                            [] IsLog(b) -> "LOG"
                            [] b \in Ops(DOMAIN OpCode) -> CHOOSE n \in DOMAIN OpCode : OpCode[n] = b
                            [] OTHER -> "none"]

-----------------------------------------------------------------------------
GasQuickStep   == 2
GasFastestStep == 3
GasFastStep    == 5
GasMidStep     == 8
GasSlowStep    == 10
GasExtStep     == 20

minStack(pops, push) == pops
maxStack(pop, push)  == StackLimit + pop - push

operation(gas, pops, push) ==
    [constantGas |-> gas, dynamicGas |-> "none", memorySize |-> "none", flags |-> {},
     minStack |-> minStack(pops, push), maxStack |-> maxStack(pops, push)]

\* An operation that touches memory, with a dynamic cost, and flags.
inMemory(o, dynamicGas, memorySize) ==
    [o EXCEPT !.dynamicGas = dynamicGas, !.memorySize = memorySize]
flagged(o, flags) == [o EXCEPT !.flags = flags]

all(names, o) == [b \in Ops(names) |-> o]
one(name, o)  == OpCode[name] :> o

-----------------------------------------------------------------------------
\* newFrontierInstructionSet, by group.
arithmeticOps ==
    one("STOP", flagged(operation(0, 0, 0), {"halts"})) @@
    all({"ADD", "SUB"}, operation(GasFastestStep, 2, 1)) @@
    all({"MUL", "DIV", "SDIV", "MOD", "SMOD", "SIGNEXTEND"}, operation(GasFastStep, 2, 1)) @@
    all({"ADDMOD", "MULMOD"}, operation(GasMidStep, 3, 1)) @@
    one("EXP", inMemory(operation(0, 2, 1), "gasExpFrontier", "none"))

bitOps ==
    all({"LT", "GT", "SLT", "SGT", "EQ", "AND", "OR", "XOR", "BYTE"},
        operation(GasFastestStep, 2, 1)) @@
    all({"ISZERO", "NOT"}, operation(GasFastestStep, 1, 1))

environmentOps ==
    one("SHA3", inMemory(operation(30, 2, 1), "gasSha3", "memorySha3")) @@
    all({"ADDRESS", "ORIGIN", "CALLER", "CALLVALUE", "CALLDATASIZE", "CODESIZE", "GASPRICE"},
        operation(GasQuickStep, 0, 1)) @@
    all({"BALANCE", "EXTCODESIZE"}, operation(20, 1, 1)) @@
    one("CALLDATALOAD", operation(GasFastestStep, 1, 1)) @@
    all({"CALLDATACOPY", "CODECOPY"},
        inMemory(operation(GasFastestStep, 3, 0), "copier2", "memoryCopy")) @@
    one("EXTCODECOPY", inMemory(operation(20, 4, 0), "copier3", "memoryExtCodeCopy"))

blockOps ==
    one("BLOCKHASH", operation(GasExtStep, 1, 1)) @@
    all({"COINBASE", "TIMESTAMP", "NUMBER", "DIFFICULTY", "GASLIMIT"},
        operation(GasQuickStep, 0, 1))

storageOps ==
    one("POP", operation(GasQuickStep, 1, 0)) @@
    one("MLOAD", inMemory(operation(GasFastestStep, 1, 1), "memory", "memoryWord")) @@
    one("MSTORE", inMemory(operation(GasFastestStep, 2, 0), "memory", "memoryWord")) @@
    one("MSTORE8", inMemory(operation(GasFastestStep, 2, 0), "memory", "memoryByte")) @@
    one("SLOAD", operation(50, 1, 1)) @@
    one("SSTORE", flagged(inMemory(operation(0, 2, 0), "state", "none"), {"writes"}))

\* mutant: a jump destination costs nothing.
flowOps_FreeDest ==
    one("JUMP", flagged(operation(GasMidStep, 1, 0), {"jumps"})) @@
    one("JUMPI", flagged(operation(GasSlowStep, 2, 0), {"jumps"})) @@
    all({"PC", "MSIZE", "GAS"}, operation(GasQuickStep, 0, 1)) @@
    one("JUMPDEST", operation(0, 0, 0))

flowOps ==
    one("JUMP", flagged(operation(GasMidStep, 1, 0), {"jumps"})) @@
    one("JUMPI", flagged(operation(GasSlowStep, 2, 0), {"jumps"})) @@
    all({"PC", "MSIZE", "GAS"}, operation(GasQuickStep, 0, 1)) @@
    one("JUMPDEST", operation(1, 0, 0))

pushOps == [b \in {c \in 0..255 : IsPush(c)} |-> operation(GasFastestStep, 0, 1)]

\* minDupStack(n) is minStack(n, n + 1); minSwapStack(n) is minStack(n, n), and the
\* row of SWAPn asks for n + 1.
dupOps ==
    [b \in {c \in 0..255 : IsDup(c)} |->
        LET n == b - DUP1 + 1 IN operation(GasFastestStep, n, n + 1)]

swapOps ==
    [b \in {c \in 0..255 : IsSwap(c)} |->
        LET n == b - SWAP1 + 2 IN operation(GasFastestStep, n, n)]

logOps ==
    [b \in {c \in 0..255 : IsLog(c)} |->
        LET n == b - LOG0
        IN  flagged(inMemory(operation(0, n + 2, 0), "makeGasLog", "memorySpan"), {"writes"})]

closureOps ==
    one("CREATE", flagged(inMemory(operation(32000, 3, 1), "memory", "memoryCreate"),
                          {"writes", "returns"})) @@
    all({"CALL", "CALLCODE"},
        flagged(inMemory(operation(40, 7, 1), "call", "memoryCall"), {"returns"})) @@
    one("RETURN", flagged(inMemory(operation(0, 2, 0), "memory", "memorySpan"), {"halts"})) @@
    one("SELFDESTRUCT",
        flagged(inMemory(operation(0, 1, 0), "state", "none"), {"halts", "writes"}))

newFrontierInstructionSet ==
    arithmeticOps @@ bitOps @@ environmentOps @@ blockOps @@ storageOps @@ flowOps @@
    pushOps @@ dupOps @@ swapOps @@ logOps @@ closureOps

-----------------------------------------------------------------------------
\* The later forks: rows of their own over those of the fork before, and prices.
repriced(t, names, gas) ==
    [b \in DOMAIN t |-> IF b \in Ops(names) THEN [t[b] EXCEPT !.constantGas = gas] ELSE t[b]]

newHomesteadInstructionSet ==
    one("DELEGATECALL",
        flagged(inMemory(operation(40, 6, 1), "call", "memoryDelegateCall"), {"returns"}))
    @@ newFrontierInstructionSet

newTangerineWhistleInstructionSet ==
    LET t == repriced(newHomesteadInstructionSet, {"BALANCE"}, 400)
        u == repriced(t, {"EXTCODESIZE", "EXTCODECOPY", "CALL", "CALLCODE", "DELEGATECALL"}, 700)
    IN  repriced(u, {"SLOAD"}, 200)

newSpuriousDragonInstructionSet ==
    [newTangerineWhistleInstructionSet EXCEPT ![OpCode["EXP"]].dynamicGas = "gasExpEIP158"]

newByzantiumInstructionSet ==
    one("STATICCALL",
        flagged(inMemory(operation(700, 6, 1), "call", "memoryDelegateCall"), {"returns"})) @@
    one("RETURNDATASIZE", operation(GasQuickStep, 0, 1)) @@
    one("RETURNDATACOPY", inMemory(operation(GasFastestStep, 3, 0), "copier2", "memoryCopy")) @@
    one("REVERT", flagged(inMemory(operation(0, 2, 0), "memory", "memorySpan"),
                          {"reverts", "returns"}))
    @@ newSpuriousDragonInstructionSet

newConstantinopleInstructionSet ==
    all({"SHL", "SHR", "SAR"}, operation(GasFastestStep, 2, 1)) @@
    one("EXTCODEHASH", operation(400, 1, 1)) @@
    one("CREATE2", flagged(inMemory(operation(32000, 4, 1), "gasCreate2", "memoryCreate"),
                           {"writes", "returns"}))
    @@ newByzantiumInstructionSet

enable1884(t) ==
    one("SELFBALANCE", operation(GasFastStep, 0, 1)) @@
    repriced(repriced(t, {"SLOAD"}, 800), {"BALANCE", "EXTCODEHASH"}, 700)
enable1344(t) == one("CHAINID", operation(GasQuickStep, 0, 1)) @@ t
enable2200(t) == repriced(t, {"SLOAD"}, 800)   \* SSTORE is charged by the state either way
enable2315(t) ==
    one("BEGINSUB", operation(GasQuickStep, 0, 0)) @@
    one("JUMPSUB", flagged(operation(GasSlowStep, 1, 0), {"jumps"})) @@
    one("RETURNSUB", flagged(operation(GasFastStep, 0, 0), {"jumps"})) @@ t

newIstanbulInstructionSet ==
    enable2200(enable1884(enable1344(newConstantinopleInstructionSet)))
newYoloV2InstructionSet == enable2315(newIstanbulInstructionSet)

\* The set NewEVMInterpreter takes for the rules of the block.
InstructionSet ==
    [frontier |-> newFrontierInstructionSet, homestead |-> newHomesteadInstructionSet,
     tangerineWhistle |-> newTangerineWhistleInstructionSet,
     spuriousDragon |-> newSpuriousDragonInstructionSet,
     byzantium |-> newByzantiumInstructionSet,
     constantinople |-> newConstantinopleInstructionSet,
     istanbul |-> newIstanbulInstructionSet, yoloV2 |-> newYoloV2InstructionSet]
=============================================================================
