------------------------------ MODULE Storage ------------------------------
(***************************************************************************)
(* A client of one StateDB after another: every method, one at a time, in  *)
(* any order.  It is shown to implement World, a single map with saved     *)
(* copies, although the code keeps three layers of write sets, deletion    *)
(* marks and snapshots of the topmost layer only.                          *)
(***************************************************************************)
EXTENDS StateDB

CONSTANTS
    MaxBalance, MaxNonce, \* bounds of an account's fields
    MaxCalls              \* bound: calls

VARIABLE calls            \* calls made

\* The account operations of the EVM are made on accounts that have not been
\* deleted by an earlier transaction: the others panic (StateDB!AddBalance).
Alive(a) == GetBalance(db, a) # Nil

addBalance(a) == Alive(a) /\ GetBalance(db, a) < MaxBalance /\ db' = AddBalance(db, a, 1)
subBalance(a) == Alive(a) /\ GetBalance(db, a) > 0 /\ db' = SubBalance(db, a, 1)
setNonce(a) == Alive(a) /\ GetNonce(db, a) < MaxNonce /\ db' = SetNonce(db, a, GetNonce(db, a) + 1)
setCode(a, code) == Alive(a) /\ db' = SetCode(db, a, code)
setState(a, k, v) == db' = SetState(db, a, k, v)
addLog(a) == db' = AddLog(db, a)
addRefund == db' = AddRefund(db, 1)
subRefund == db.refund > 0 /\ db' = SubRefund(db, 1)
suicide(a) == Alive(a) /\ db' = Suicide(db, a)
snapshot == db' = Snapshot(db)
revertToSnapshot(i) == db' = RevertToSnapshot(db, i)
commitState == db' = NewStateDB(StateCommit(db))

StorageInit == db = EmptyStateDB(<<>>) /\ calls = 0

Method ==
    \/ \E a \in Addr :
         \/ addBalance(a) \/ subBalance(a) \/ setNonce(a) \/ addLog(a) \/ suicide(a)
         \/ \E code \in BOOLEAN : setCode(a, code)
         \/ \E k \in Slot, v \in Hash : setState(a, k, v)
    \/ addRefund \/ subRefund \/ snapshot \/ commitState
    \/ \E i \in DOMAIN db.snapshots : revertToSnapshot(i)

StorageNext ==
    /\ calls < MaxCalls /\ calls' = calls + 1
    /\ Method

storageVars == <<db, calls>>

StorageSpec == StorageInit /\ [][StorageNext]_storageVars

-----------------------------------------------------------------------------
\* The state a write set c of the topmost layer shows over the layers below.
Seen(d, c) == [key \in AllKeys |-> IF key \in DOMAIN c THEN c[key] ELSE OverlayGet(d, key)]

State(data, suicided, logs, refund) ==
    [data |-> data, dead |-> suicided, logs |-> logs, refund |-> refund]

StoredAccount ==
    [nonce : 0..MaxNonce, balance : 0..MaxBalance, code : BOOLEAN, hashed : BOOLEAN]

ValuesOf(key) ==
    {Gone} \cup
    IF Len(key) = 2 THEN Hash ELSE StoredAccount

\* What a theorem assumes: a store of such values that can be iterated.
ASSUME Configured ==
    /\ MaxBalance \in Nat /\ MaxNonce \in Nat /\ Nil \notin Nat
    /\ StoreIterates
    /\ \A key \in AllKeys : Store[key] \in ValuesOf(key)

Now == State(Seen(db, db.memdb), db.suicided, db.logs, db.refund)
Saved ==
    [i \in DOMAIN db.snapshots |->
       LET sn == db.snapshots[i]
       IN  State(Seen(db, sn.changes), sn.suicided, SubSeq(db.logs, 1, sn.logsSize), sn.refund)]
Base == [key \in AllKeys |-> OverlayGet(db, key)]

Promise == INSTANCE World WITH
        Key      <- AllKeys,
        KeyValue <- ValuesOf,
        KeysOf   <- KeysOfAddr,
        Contract <- Addr,
        now      <- Now,
        saved    <- Saved,
        base     <- Base

(* The state database implements World: reads see the last write, a saved     *)
(* state does not change while later calls write, RevertToSnapshot restores   *)
(* it with its logs, refund and destroyed contracts, GetCommittedState reads  *)
(* what the last Commit left, and Commit leaves nothing of a destroyed        *)
(* contract (statedb.go, cachedb.go, overlaydb.go).                           *)
ImplementsWorld == Promise!Spec
=============================================================================
