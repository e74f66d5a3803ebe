------------------------------ MODULE StateDB ------------------------------
(***************************************************************************)
(* The state database of the EVM (evm/storage/statedb.go, cachedb.go,      *)
(* overlaydb/overlaydb.go) over the store of the executor                  *)
(* (executor/remotedb/remotedb.go).                                        *)
(*                                                                         *)
(* A StateDB is a record d: the write set of the CacheDB, that of the      *)
(* OverlayDB below it, what the transaction has destroyed, logged and      *)
(* earned in refunds, and the snapshots.  Every method is a function from  *)
(* records to records, so that the EVM's steps can apply several of them.  *)
(* A Go panic sets d.panic.                                                *)
(***************************************************************************)
EXTENDS Integers, Sequences

CONSTANTS
    Addr,          \* addresses
    Slot,          \* storage keys of a contract
    Hash,          \* values of a slot, 0 among them
    Store,         \* the persistent store: a value for every key
    StoreIterates, \* FALSE for RemoteDB, whose NewIterator panics
    Nil,           \* a nil pointer
    Gone           \* the empty value, which stands for a deleted key

VARIABLE db        \* the StateDB of the executor's current transaction

\* GenAccountStateKey and the prefixes of data_prefix.go
accountKey(a) == <<a>>
stateKey(a, k) == <<a, k>>
StateKeys(a) == {stateKey(a, k) : k \in Slot}
AllKeys == {accountKey(a) : a \in Addr} \cup UNION {StateKeys(a) : a \in Addr}
KeysOfAddr(a) == {accountKey(a)} \cup StateKeys(a)

-----------------------------------------------------------------------------
\* OverlayDB.Get and CacheDB.get: the first layer that knows the key answers.
OverlayGet(d, key) ==
    IF key \in DOMAIN d.overlay THEN d.overlay[key] ELSE Store[key]

get(d, key) ==
    IF key \in DOMAIN d.memdb THEN d.memdb[key] ELSE OverlayGet(d, key)

\* A write set laid over another; MemDB.Put is the case of a single key.
over(f, g) == [key \in DOMAIN f \cup DOMAIN g |-> IF key \in DOMAIN f THEN f[key] ELSE g[key]]
put(d, key, v) == [d EXCEPT !.memdb = over([x \in {key} |-> v], @)]

Panic(d) == [d EXCEPT !.panic = TRUE]

\* EthAccount: `code` is len(Code) > 0, `hashed` is CodeHash # 0.
Account == [nonce : Nat, balance : Nat, code : BOOLEAN, hashed : BOOLEAN]
ZeroAccount == [nonce |-> 0, balance |-> Nil, code |-> FALSE, hashed |-> FALSE]
IsEmpty(acct) == acct.nonce = 0 /\ ~acct.hashed

GetEthAccount(d, a) ==
    LET raw == get(d, accountKey(a)) IN IF raw = Gone THEN ZeroAccount ELSE raw

\* An empty account is stored as a deleted key; serialising a nil balance panics.
PutEthAccount(d, a, acct) ==
    IF IsEmpty(acct) THEN put(d, accountKey(a), Gone)
    ELSE IF acct.balance = Nil THEN Panic(d)
    ELSE put(d, accountKey(a), acct)

-----------------------------------------------------------------------------
\* balanceHandle: Sub and Add dereference the balance of the account.
AddBalance(d, a, v) ==
    LET acct == GetEthAccount(d, a)
    IN  IF acct.balance = Nil THEN Panic(d)
        ELSE PutEthAccount(d, a, [acct EXCEPT !.balance = @ + v])

SubBalance(d, a, v) ==
    LET acct == GetEthAccount(d, a)
    IN  IF acct.balance = Nil THEN Panic(d)
        ELSE PutEthAccount(d, a, [acct EXCEPT !.balance = @ - v])

SetBalance(d, a, v) ==
    PutEthAccount(d, a, [GetEthAccount(d, a) EXCEPT !.balance = v])

GetBalance(d, a) == GetEthAccount(d, a).balance
GetNonce(d, a) == GetEthAccount(d, a).nonce
GetCodeSize(d, a) == IF GetEthAccount(d, a).code THEN 1 ELSE 0

SetNonce(d, a, n) ==
    PutEthAccount(d, a, [GetEthAccount(d, a) EXCEPT !.nonce = n])

SetCode(d, a, code) ==
    PutEthAccount(d, a, [GetEthAccount(d, a) EXCEPT !.code = code, !.hashed = TRUE])

\* BytesToHash of no bytes is the zero hash.
asHash(raw) == IF raw = Gone THEN 0 ELSE raw

GetState(d, a, k) == asHash(get(d, stateKey(a, k)))
SetState(d, a, k, v) == put(d, stateKey(a, k), v)
GetCommittedState(d, a, k) == asHash(OverlayGet(d, stateKey(a, k)))

AddLog(d, a) == [d EXCEPT !.logs = Append(@, a)]

AddRefund(d, gas) == [d EXCEPT !.refund = @ + gas]
SubRefund(d, gas) ==
    IF gas > d.refund THEN Panic(d) ELSE [d EXCEPT !.refund = @ - gas]

HasSuicided(d, a) == a \in d.suicided

Suicide(d, a) ==
    IF IsEmpty(GetEthAccount(d, a)) THEN d
    ELSE SetBalance([d EXCEPT !.suicided = @ \cup {a}], a, 0)

\* Both read the balance, and panic on the nil balance of a deleted account: no
\* action of the modules below asks about one.
Exist(d, a) ==
    HasSuicided(d, a) \/ ~IsEmpty(GetEthAccount(d, a)) \/ GetBalance(d, a) > 0
Empty(d, a) == IsEmpty(GetEthAccount(d, a)) /\ GetBalance(d, a) = 0

-----------------------------------------------------------------------------
\* mutant: the logs are not part of the snapshot.
RevertToSnapshot_KeepLogs(d, idx) ==
    IF idx > Len(d.snapshots) THEN Panic(d)
    ELSE LET sn == d.snapshots[idx]
         IN  [d EXCEPT !.snapshots = SubSeq(@, 1, idx - 1), !.memdb = sn.changes,
                       !.suicided = sn.suicided, !.refund = sn.refund]

\* Snapshot indices start at 1 here.  The logs are cut back to their old length.
Snapshot(d) ==
    [d EXCEPT !.snapshots = Append(@, [changes  |-> d.memdb,
                                       suicided |-> d.suicided,
                                       logsSize |-> Len(d.logs),
                                       refund   |-> d.refund])]

RevertToSnapshot(d, idx) ==
    IF idx > Len(d.snapshots) THEN Panic(d)
    ELSE LET sn == d.snapshots[idx]
         IN  [d EXCEPT !.snapshots = SubSeq(@, 1, idx - 1),
                       !.memdb     = sn.changes,
                       !.suicided  = sn.suicided,
                       !.refund    = sn.refund,
                       !.logs      = SubSeq(@, 1, sn.logsSize)]

\* DelEthAccount, and CleanContractStorageData: every storage key that the joined
\* iterator yields, which is every one that has a value.
erased(d, a) ==
    {accountKey(a)} \cup {key \in StateKeys(a) : get(d, key) # Gone}

CommitToCacheDB(d) ==
    IF d.suicided # {} /\ ~StoreIterates THEN Panic(d)
    ELSE [d EXCEPT !.memdb = over([key \in UNION {erased(d, a) : a \in d.suicided} |-> Gone], @),
                   !.suicided = {}, !.snapshots = <<>>]

\* CacheDB.Commit: the write set moves down, deletions as deletions.
CacheCommit(d) == [d EXCEPT !.overlay = over(d.memdb, @), !.memdb = <<>>]

EmptyStateDB(overlay) ==
    [memdb |-> <<>>, overlay |-> overlay, suicided |-> {}, logs |-> <<>>,
     refund |-> 0, snapshots |-> <<>>, panic |-> FALSE]

NewStateDB(d) ==
    [d EXCEPT !.suicided = {}, !.logs = <<>>, !.refund = 0, !.snapshots = <<>>]

StateCommit(d) ==
    LET c == CommitToCacheDB(d) IN IF c.panic THEN c ELSE CacheCommit(c)
=============================================================================
