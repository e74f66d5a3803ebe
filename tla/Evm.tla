-------------------------------- MODULE Evm --------------------------------
(***************************************************************************)
(* Call frames of the EVM over the state database (evm/evm.go, the loop of *)
(* interpreter.go and the instructions of instructions.go that reach the   *)
(* state or another frame, with their gas in gas_table.go and gas.go).     *)
(*                                                                         *)
(* `frames` is the Go stack of interpreter.Run calls.  The running frame   *)
(* executes any instruction with any small argument: the code of the       *)
(* contracts is arbitrary.  The rules are those of params.GetChainConfig   *)
(* for chain 1234: Istanbul, so EIP150, EIP158, Byzantium and EIP2200.     *)
(***************************************************************************)
EXTENDS StateDB, FiniteSets, Functions

CONSTANTS
    Origin,                \* sender of the transactions
    Precompiles,           \* addresses of precompiled contracts
    Overlays,              \* write sets that earlier transactions may have left
    Created,               \* addresses that CreateAddress and CreateAddress2 yield
    Values,                \* values sent along
    Requests,              \* gas arguments of the call instructions
    TxGasLimit,            \* gas the transaction hands to the EVM
    CallCreateDepth,       \* params.CallCreateDepth
    MaxTx,                 \* bound: transactions
    MaxNonce,              \* bound: creations of one account
    MaxLogs,               \* bound: logs of a transaction
    Word                   \* 2^64 in the code

\* Gas prices, scaled down; the order relations of protocol_params.go are kept.
CONSTANTS
    CallGas, CallValueTransferGas, CallNewAccountGas, CallStipend,
    GasDenominator, CreateGas, CreateDataGas, LogGas, PrecompileGas,
    SelfdestructGas, CreateBySelfdestructGas, SelfdestructRefundGas,
    SstoreSentryGas, SloadGas, SstoreSetGas, SstoreResetGas, SstoreClearsRefund

ASSUME EvmAssumption ==
    /\ {CallGas, CallValueTransferGas, CallNewAccountGas, CallStipend, CreateGas, CreateDataGas,
        LogGas, PrecompileGas, SelfdestructGas, CreateBySelfdestructGas, SelfdestructRefundGas,
        SloadGas, SstoreSetGas, SstoreResetGas, SstoreClearsRefund, TxGasLimit} \subseteq Nat
    /\ GasDenominator \in Nat \ {0} /\ Word \in Nat \ {0}
    /\ Values \subseteq Nat /\ Requests \subseteq Nat
    /\ CallStipend < CallValueTransferGas
    /\ SloadGas < SstoreResetGas /\ SstoreResetGas < SstoreSetGas

\* Accounts of the executor's store come from a node, with a balance and the hash of
\* their code, be it empty; a slot has a value or has been deleted.
RemoteAccount == [nonce : Nat, balance : Nat, code : BOOLEAN, hashed : {TRUE}]
ValuesOf(key) == IF Len(key) = 1 THEN RemoteAccount ELSE {Gone} \cup Hash

\* The store is a RemoteDB, and earlier transactions have written over it.
ASSUME RemoteAssumption ==
    /\ ~StoreIterates
    /\ Nil \notin Nat /\ Gone \notin Hash /\ Gone \notin RemoteAccount
    /\ IsFiniteSet(Addr) /\ IsFiniteSet(Slot)
    /\ Origin \in Addr /\ Created \subseteq Addr
    /\ \A key \in AllKeys : Store[key] \in ValuesOf(key)
    /\ \A c \in Overlays :
          /\ DOMAIN c \subseteq AllKeys /\ c = [key \in DOMAIN c |-> c[key]]
          /\ \A key \in DOMAIN c : c[key] \in ValuesOf(key)

VARIABLES
    frames,    \* the open frames, outermost first
    readOnly,  \* EVMInterpreter.readOnly
    outcome,   \* how the last frame or call ended
    status,    \* "idle", "running", "ended"
    txs        \* transactions executed

vars == <<db, frames, readOnly, outcome, status, txs>>

\* The state as the EVM sees it.
View(d) == [data     |-> [key \in AllKeys |-> get(d, key)],
            suicided |-> d.suicided, logs |-> d.logs, refund |-> d.refund]

top == frames[Len(frames)]
WithGas(g) == [frames EXCEPT ![Len(frames)].gas = g]

\* operation.writes in the jump table; a CALL with value is refused as well.
writes == {"SSTORE", "LOG", "CREATE", "SELFDESTRUCT"}

\* mutant: the value of a CALL is not looked at.
writeProtected_CallsPass(op, value) == readOnly /\ op \in writes

writeProtected(op, value) ==
    readOnly /\ (op \in writes \/ (op = "CALL" /\ value # 0))

-----------------------------------------------------------------------------
\* Leaving a frame.

\* mutant: a frame that is reverted keeps what it wrote.
unwound_Reverted(d, f, how) ==
    IF how = "error" THEN RevertToSnapshot(d, f.snap) ELSE d

\* The tail of Call, CallCode, DelegateCall, StaticCall and create: an error
\* goes back to the snapshot, and all but ErrExecutionReverted take the gas.
unwound(d, f, how) ==
    IF how = "ok" THEN d ELSE RevertToSnapshot(d, f.snap)
gasLeft(g, how) == IF how = "error" THEN 0 ELSE g

\* The running frame returns to its caller, or ends the transaction.
Exit(how, d, g) ==
    LET n == Len(frames) IN
    /\ db' = unwound(d, top, how)
    /\ frames' = IF n = 1 THEN <<>>
                 ELSE [SubSeq(frames, 1, n - 1) EXCEPT ![n - 1].gas = (@ + gasLeft(g, how)) % Word]
    /\ readOnly' = (readOnly /\ ~top.setReadOnly)
    /\ outcome' = how
    /\ status' = IF n = 1 THEN "ended" ELSE status
    /\ UNCHANGED txs

\* An instruction that does not leave the frame.
Continue(d, g) ==
    /\ db' = d
    /\ frames' = WithGas(g)
    /\ UNCHANGED <<readOnly, outcome, status, txs>>

\* An instruction of cost c that changes the state to d, or runs out of gas.
Charged(d, c) ==
    IF c > top.gas THEN Exit("error", d, top.gas) ELSE Continue(d, top.gas - c)

\* create stores what its frame returned, here nothing.
returned(d) == IF top.kind = "CREATE" THEN SetCode(d, top.self, FALSE) ELSE d

\* opStop, opReturn of a frame that was not opened by create
opStop ==
    /\ status = "running" /\ top.kind # "CREATE"
    /\ Exit("ok", db, top.gas)

opRevert ==
    /\ status = "running"
    /\ Exit("revert", db, top.gas)

\* Any error of the loop: an invalid instruction, a stack or jump error, no gas.
fault ==
    /\ status = "running"
    /\ Exit("error", db, top.gas)

\* opReturn in a frame of create: the code is stored if it is not too long and
\* its storage can be paid.  `size` 2 stands for more than MaxCodeSize.
opReturnCode(size) ==
    LET cost == size * CreateDataGas IN
    /\ status = "running" /\ top.kind = "CREATE"
    /\ IF size = 2 \/ cost > top.gas THEN Exit("error", db, top.gas)
       ELSE Exit("ok", SetCode(db, top.self, size > 0), top.gas - cost)

-----------------------------------------------------------------------------
\* Instructions on the state.

\* mutant: the first clearing of a slot earns nothing.
refundSStore_NoFirst(d, original, current, value) ==
    CASE original # 0 /\ current = 0 -> SubRefund(d, SstoreClearsRefund)
      [] original # 0 /\ current \notin {0, original} /\ value = 0 -> AddRefund(d, SstoreClearsRefund)
      [] OTHER -> d

\* The refunds of gasSStoreEIP2200, for value # current.
refundSStore(d, original, current, value) ==
    LET clears ==
            CASE original # 0 /\ current = 0              -> SubRefund(d, SstoreClearsRefund)
              [] original # 0 /\ current # 0 /\ value = 0 -> AddRefund(d, SstoreClearsRefund)
              [] OTHER                                    -> d
    IN  IF original = current \/ original # value THEN clears
        ELSE AddRefund(clears, (IF original = 0 THEN SstoreSetGas ELSE SstoreResetGas) - SloadGas)

gasSStore(original, current, value) ==
    IF current = value \/ original # current THEN SloadGas
    ELSE IF original = 0 THEN SstoreSetGas ELSE SstoreResetGas

opSstore(k, value) ==
    LET current  == GetState(db, top.self, k)
        original == GetCommittedState(db, top.self, k)
        d == IF current = value THEN db ELSE refundSStore(db, original, current, value)
    IN  /\ status = "running"
        /\ IF writeProtected("SSTORE", 0) \/ top.gas <= SstoreSentryGas
           THEN Exit("error", db, top.gas)
           ELSE Charged(SetState(d, top.self, k, value), gasSStore(original, current, value))

makeLog ==
    /\ status = "running" /\ Len(db.logs) < MaxLogs
    /\ IF writeProtected("LOG", 0) THEN Exit("error", db, top.gas)
       ELSE Charged(AddLog(db, top.self), LogGas)

gasSelfdestruct(b) ==
    SelfdestructGas +
    (IF Empty(db, b) /\ GetBalance(db, top.self) # 0 THEN CreateBySelfdestructGas ELSE 0)

\* mutant: the account is not emptied.
destroyed_Kept(d, b) ==
    [AddBalance(d, b, GetBalance(d, top.self)) EXCEPT !.suicided = @ \cup {top.self}]

destroyed(d, b) ==
    Suicide(AddBalance(d, b, GetBalance(d, top.self)), top.self)

opSuicide(b) ==
    LET d == IF HasSuicided(db, top.self) THEN db ELSE AddRefund(db, SelfdestructRefundGas)
    IN  /\ status = "running"
        /\ IF writeProtected("SELFDESTRUCT", 0) \/ gasSelfdestruct(b) > top.gas
           THEN Exit("error", d, top.gas)
           ELSE Exit("ok", returned(destroyed(d, b)), top.gas - gasSelfdestruct(b))

-----------------------------------------------------------------------------
\* Opening a frame.

\* mutant: the index of a snapshot is their number before it is taken.
NewFrame_NextIndex(kind, self, gas, d) ==
    [kind |-> kind, self |-> self, gas |-> gas, snap |-> Len(d.snapshots) + 1,
     setReadOnly |-> kind = "STATICCALL" /\ ~readOnly, entry |-> View(d)]

NewFrame(kind, self, gas, d) ==
    [kind |-> kind, self |-> self, gas |-> gas, snap |-> Len(d.snapshots),
     setReadOnly |-> kind = "STATICCALL" /\ ~readOnly, entry |-> View(d)]

\* interpreter.Run: depth and readOnly are those of the frames.
Enter(fs, frame, d) ==
    /\ db' = d
    /\ frames' = Append(fs, frame)
    /\ readOnly' = (readOnly \/ frame.setReadOnly)
    /\ status' = "running"
    /\ UNCHANGED outcome

\* A call that ends without running code: gas goes back to the caller in fs.
Back(fs, d, how, gas) ==
    /\ db' = d
    /\ frames' = IF fs = <<>> THEN fs
                 ELSE [fs EXCEPT ![Len(fs)].gas = (@ + gas) % Word]
    /\ outcome' = how
    /\ status' = IF fs = <<>> THEN "ended" ELSE "running"
    /\ UNCHANGED readOnly

CanTransfer(d, a, v) == GetBalance(d, a) >= v
Transfer(d, from, to, v) == AddBalance(SubBalance(d, from, v), to, v)

\* RunPrecompiledContract: too little gas, an error of the contract, or success.
RunPrecompiled(fs, d, snap, gas) ==
    \/ /\ gas < PrecompileGas
       /\ Back(fs, RevertToSnapshot(d, snap), "error", 0)
    \/ /\ gas >= PrecompileGas
       /\ \/ Back(fs, d, "ok", gas - PrecompileGas)
          \/ Back(fs, RevertToSnapshot(d, snap), "error", 0)

\* The shared body of the four calls.  `d` is the state after the snapshot and
\* the transfer or touch, `s` the state with the snapshot only.
RunCode(kind, fs, s, d, addr, self, gas) ==
    IF addr \in Precompiles THEN RunPrecompiled(fs, d, Len(s.snapshots), gas)
    ELSE IF GetCodeSize(d, addr) = 0 THEN Back(fs, d, "ok", gas)
    ELSE Enter(fs, NewFrame(kind, self, gas, s), d)

tooDeep(fs) == Len(fs) > CallCreateDepth

\* evm.Call from `caller` with the open frames fs
Call(fs, d0, caller, addr, gas, value) ==
    LET s == Snapshot(d0) IN
    IF tooDeep(fs) \/ (value # 0 /\ ~CanTransfer(d0, caller, value))
    THEN Back(fs, d0, "error", gas)
    ELSE IF ~Exist(s, addr) /\ addr \notin Precompiles /\ value = 0
    THEN Back(fs, s, "ok", gas)
    ELSE RunCode("CALL", fs, s, Transfer(s, caller, addr, value), addr, addr, gas)

CallCode(fs, d0, self, addr, gas, value) ==
    LET s == Snapshot(d0) IN
    IF tooDeep(fs) \/ ~CanTransfer(d0, self, value) THEN Back(fs, d0, "error", gas)
    ELSE RunCode("CALLCODE", fs, s, s, addr, self, gas)

DelegateCall(fs, d0, self, addr, gas) ==
    LET s == Snapshot(d0) IN
    IF tooDeep(fs) THEN Back(fs, d0, "error", gas)
    ELSE RunCode("DELEGATECALL", fs, s, s, addr, self, gas)

\* The AddBalance of zero writes the account back unchanged.
StaticCall(fs, d0, addr, gas) ==
    LET s == Snapshot(d0) IN
    IF tooDeep(fs) THEN Back(fs, d0, "error", gas)
    ELSE RunCode("STATICCALL", fs, s, AddBalance(s, addr, 0), addr, addr, gas)

\* mutant: the address may be taken.
collides_Never(d, address) == FALSE

collides(d, address) ==
    GetNonce(d, address) # 0 \/ GetCodeSize(d, address) > 0

\* evm.create: the nonce of the creator advances before the snapshot.
create(fs, d0, caller, gas, value, address) ==
    LET d1 == SetNonce(d0, caller, GetNonce(d0, caller) + 1)
        s  == Snapshot(d1)
        d2 == Transfer(SetNonce(s, address, 1), caller, address, value)
    IN  IF tooDeep(fs) \/ ~CanTransfer(d0, caller, value) THEN Back(fs, d0, "error", gas)
        ELSE IF collides(d1, address) THEN Back(fs, d1, "error", 0)
        ELSE Enter(fs, NewFrame("CREATE", address, gas, s), d2)

-----------------------------------------------------------------------------
\* The call instructions.

\* callGas: all but one part in 64 of what is left after base, or what was asked.
callGas(available, base, asked) ==
    LET left == (available - base) % Word
        most == left - (left \div GasDenominator)
    IN  IF asked > most THEN most ELSE asked

stipend(value) == IF value # 0 THEN CallStipend ELSE 0

callBase(kind, addr, value) ==
    (IF value # 0 THEN CallValueTransferGas ELSE 0) +
    (IF kind = "CALL" /\ value # 0 /\ Empty(db, addr) THEN CallNewAccountGas ELSE 0)

\* mutant: the caller is not charged for the gas it passes on.
callCost_PassedFree(base, passed) == base

\* SafeAdd: a sum that does not fit is out of gas.
callCost(base, passed) == base + passed

opCall(kind, addr, value, asked) ==
    LET g1     == top.gas - CallGas
        base   == callBase(kind, addr, value)
        passed == callGas(g1, base, asked)
        cost   == callCost(base, passed)
        fs     == WithGas(g1 - cost)
        gas    == (passed + stipend(value)) % Word
    IN  /\ status = "running"
        /\ kind \in {"DELEGATECALL", "STATICCALL"} => value = 0
        /\ IF writeProtected(kind, value) \/ g1 < 0 \/ cost >= Word \/ cost > g1
           THEN Exit("error", db, top.gas)
           ELSE /\ CASE kind = "CALL"         -> Call(fs, db, top.self, addr, gas, value)
                     [] kind = "CALLCODE"     -> CallCode(fs, db, top.self, addr, gas, value)
                     [] kind = "DELEGATECALL" -> DelegateCall(fs, db, top.self, addr, gas)
                     [] kind = "STATICCALL"   -> StaticCall(fs, db, addr, gas)
                /\ UNCHANGED txs

\* opCreate and opCreate2
opCreate(address, value) ==
    LET g1  == top.gas - CreateGas
        gas == g1 - (g1 \div GasDenominator)
    IN  /\ status = "running" /\ GetNonce(db, top.self) < MaxNonce
        /\ IF writeProtected("CREATE", value) \/ g1 < 0 THEN Exit("error", db, top.gas)
           ELSE /\ create(WithGas(g1 - gas), db, top.self, gas, value, address)
                /\ UNCHANGED txs

-----------------------------------------------------------------------------
\* TransitionDb: a message call advances the nonce of the sender first.
txCall(addr, value) ==
    /\ status = "idle" /\ txs < MaxTx
    /\ txs' = txs + 1
    /\ Call(<<>>, SetNonce(db, Origin, GetNonce(db, Origin) + 1), Origin, addr, TxGasLimit, value)

txCreate(address, value) ==
    /\ status = "idle" /\ txs < MaxTx
    /\ txs' = txs + 1
    /\ create(<<>>, db, Origin, TxGasLimit, value, address)

\* applyTransaction: Commit, however the EVM ended; the next transaction
\* starts with a new StateDB over the same CacheDB.
commit ==
    /\ status = "ended" /\ ~db.panic
    /\ LET d == StateCommit(db) IN
         /\ db' = IF d.panic THEN d ELSE NewStateDB(d)
         /\ status' = IF d.panic THEN status ELSE "idle"
    /\ UNCHANGED <<frames, readOnly, outcome, txs>>

Init ==
    /\ \E committed \in Overlays : db = EmptyStateDB(committed)
    /\ frames = <<>> /\ readOnly = FALSE
    /\ outcome = "ok" /\ status = "idle" /\ txs = 0

Kinds == {"CALL", "CALLCODE", "DELEGATECALL", "STATICCALL"}

Next ==
    \/ \E a \in Addr, v \in Values : txCall(a, v)
    \/ \E a \in Created, v \in Values : txCreate(a, v)
    \/ commit
    \/ opStop \/ opRevert \/ fault \/ makeLog
    \/ \E size \in 0..2 : opReturnCode(size)
    \/ \E k \in Slot, v \in Hash : opSstore(k, v)
    \/ \E b \in Addr : opSuicide(b)
    \/ \E kind \in Kinds, a \in Addr, v \in Values, g \in Requests : opCall(kind, a, v, g)
    \/ \E a \in Created, v \in Values : opCreate(a, v)

Spec == Init /\ [][Next]_vars

-----------------------------------------------------------------------------
(* No call of the EVM panics: SubRefund never finds the counter too low,      *)
(* RevertToSnapshot never an index above the stack of snapshots, no balance   *)
(* is nil.  Commit panics exactly when the transaction has destroyed a        *)
(* contract, in RemoteDB.NewIterator.                                         *)
PanicOnlyInCommit ==
    db.panic => status = "ended" /\ db.suicided # {}

(* While a STATICCALL is open the state is what it was when that call was     *)
(* made, whatever is called below it (interpreter.go: write protection).      *)
StaticKeepsState ==
    readOnly => \E i \in DOMAIN frames :
        frames[i].setReadOnly /\ View(db) = frames[i].entry

(* The refund counter holds at least the refunds of the slots that are clear  *)
(* now and were not when the transaction started, and of the contracts        *)
(* destroyed: what SubRefund takes back is always there.                      *)
RefundCoversClears ==
    db.refund >= SelfdestructRefundGas * Cardinality(db.suicided)
               + SstoreClearsRefund * Cardinality({key \in Addr \X Slot :
                     /\ GetCommittedState(db, key[1], key[2]) # 0
                     /\ GetState(db, key[1], key[2]) = 0})

(* A contract deployed by an earlier transaction keeps its code: create never *)
(* builds on an address that is taken.                                        *)
DeployedCodeStays ==
    \A a \in Addr : OverlayGet(db, accountKey(a)).code => GetEthAccount(db, a).code

(* A frame that fails leaves the state as it found it: storage, balances,     *)
(* logs, refund and destroyed contracts, for all the frames it has opened.    *)
FailureRestores ==
    [][Len(frames') < Len(frames) /\ outcome' # "ok" => View(db)' = top.entry]_vars

supply(d) == SumFunctionOnSet([a \in Addr |-> GetBalance(d, a)], Addr)

\* The balances of a write set that earlier transactions may have left.
FirstSupplies == {supply(EmptyStateDB(c)) : c \in Overlays}

(* No transfer, creation, failure or destruction mints value, and none of     *)
(* them loses any unless a contract destroys itself; no account spends more   *)
(* than it has.  Transactions that are committed leave what there was first.  *)
SupplyKept ==
    /\ \A a \in Addr : GetBalance(db, a) >= 0
    /\ \E before \in FirstSupplies :
          /\ supply(EmptyStateDB(db.overlay)) = before
          /\ supply(db) <= before
          /\ db.suicided = {} => supply(db) = before

heldGas(fs) == SumFunctionOnSet([i \in DOMAIN fs |-> fs[i].gas], DOMAIN fs)

(* Calls do not create gas: the gas of the open frames together never grows,  *)
(* the stipend of a call with value included.                                 *)
GasNeverGrows ==
    [][status = "running" => heldGas(frames') <= heldGas(frames)]_vars
=============================================================================
