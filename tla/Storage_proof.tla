--------------------------- MODULE Storage_proof ---------------------------
(***************************************************************************)
(* What is stored, in three layers with an invariant each.  The state      *)
(* database implements World for any addresses, slots, hashes and number   *)
(* of calls, over a store that can be iterated (Configured).  The check    *)
(* before a Sync of the tracker (Preflight) keeps a store to one chain,    *)
(* for any callers, chains and number of starts.  The logs that a Sync     *)
(* stores (Stores) are there whole, for the three stores, any writers and  *)
(* any batches of logs.                                                    *)
(***************************************************************************)
EXTENDS Storage, Stores, Preflight, FiniteSetTheorems, SequenceTheorems, TLAPS

-----------------------------------------------------------------------------
\* Write sets: finite maps from keys to values of their keys.
AnyValue == UNION {ValuesOf(key) : key \in AllKeys}
WriteSets ==
    {c \in UNION {[K -> AnyValue] : K \in SUBSET AllKeys} :
        \A key \in DOMAIN c : c[key] \in ValuesOf(key)}

LEMMA WriteSetDef ==
    ASSUME NEW K \in SUBSET AllKeys, NEW c,
           c = [key \in K |-> c[key]], \A key \in K : c[key] \in ValuesOf(key)
    PROVE  c \in WriteSets
<1>1. c \in [K -> AnyValue]
  BY DEF AnyValue
<1>2. DOMAIN c = K
  BY <1>1
<1> QED
  BY <1>1, <1>2 DEF WriteSets

LEMMA WriteSetUse ==
    ASSUME NEW c \in WriteSets
    PROVE  /\ DOMAIN c \subseteq AllKeys
           /\ c = [key \in DOMAIN c |-> c[key]]
           /\ \A key \in DOMAIN c : c[key] \in ValuesOf(key)
BY DEF WriteSets

LEMMA NoWrites == <<>> \in WriteSets /\ DOMAIN <<>> = {}
<1>1. DOMAIN <<>> = {}
  OBVIOUS
<1>2. <<>> = [key \in {} |-> <<>>[key]]
  BY <1>1
<1> QED
  BY <1>1, <1>2, WriteSetDef, Zenon

LEMMA OneWrite ==
    ASSUME NEW key \in AllKeys, NEW v \in ValuesOf(key)
    PROVE  [x \in {key} |-> v] \in WriteSets
BY WriteSetDef, {key} \in SUBSET AllKeys

LEMMA OverIsWriteSet ==
    ASSUME NEW f \in WriteSets, NEW g \in WriteSets
    PROVE  over(f, g) \in WriteSets
<1> DEFINE K == DOMAIN f \cup DOMAIN g
<1>1. K \in SUBSET AllKeys /\ DOMAIN over(f, g) = K
  BY WriteSetUse DEF over
<1>2. over(f, g) = [key \in K |-> over(f, g)[key]]
  BY DEF over
<1>3. \A key \in K : over(f, g)[key] \in ValuesOf(key)
  BY WriteSetUse DEF over
<1> QED
  BY <1>1, <1>2, <1>3, WriteSetDef

LEMMA KeyValues ==
    ASSUME NEW a \in Addr
    PROVE  /\ accountKey(a) \in AllKeys
           /\ ValuesOf(accountKey(a)) = {Gone} \cup StoredAccount
           /\ \A k \in Slot : /\ stateKey(a, k) \in AllKeys
                              /\ ValuesOf(stateKey(a, k)) = {Gone} \cup Hash
<1>1. Len(<<a>>) = 1 /\ \A k \in Slot : Len(<<a, k>>) = 2
  OBVIOUS
<1> QED
  BY <1>1 DEF accountKey, stateKey, StateKeys, AllKeys, ValuesOf

-----------------------------------------------------------------------------
SnapshotRecord == [changes : WriteSets, suicided : SUBSET Addr, logsSize : Nat, refund : Nat]

DbRecord ==
    [memdb : WriteSets, overlay : WriteSets, suicided : SUBSET Addr, logs : Seq(Addr),
     refund : Nat, snapshots : Seq(SnapshotRecord), panic : {FALSE}]

\* The logs that a snapshot refers to by their number are still there, and a later
\* snapshot refers to no fewer of them.
LogsKept(d) ==
    /\ \A i \in DOMAIN d.snapshots : d.snapshots[i].logsSize <= Len(d.logs)
    /\ \A i, j \in DOMAIN d.snapshots :
          i <= j => d.snapshots[i].logsSize <= d.snapshots[j].logsSize

IInv == db \in DbRecord /\ LogsKept(db)

LEMMA Reads ==
    ASSUME NEW d \in DbRecord, NEW key \in AllKeys
    PROVE  /\ OverlayGet(d, key) \in ValuesOf(key)
           /\ get(d, key) \in ValuesOf(key)
BY WriteSetUse, d.memdb \in WriteSets, d.overlay \in WriteSets, Configured
   DEF OverlayGet, get, DbRecord

\* What a write to the topmost layer leaves alone.
SameBelow(e, d) ==
    /\ e.overlay = d.overlay /\ e.snapshots = d.snapshots
    /\ e.logs = d.logs /\ e.refund = d.refund

LEMMA Puts ==
    ASSUME NEW d \in DbRecord, NEW key \in AllKeys, NEW v \in ValuesOf(key)
    PROVE  /\ put(d, key, v) \in DbRecord
           /\ put(d, key, v).memdb = over([x \in {key} |-> v], d.memdb)
           /\ SameBelow(put(d, key, v), d) /\ put(d, key, v).suicided = d.suicided
<1> DEFINE c == over([x \in {key} |-> v], d.memdb)
<1>1. c \in WriteSets
  BY OneWrite, OverIsWriteSet, Zenon DEF DbRecord
<1>2. put(d, key, v) = [d EXCEPT !.memdb = c]
  BY DEF put
<1> HIDE DEF c
<1>3. [d EXCEPT !.memdb = c] \in DbRecord
  BY <1>1, Zenon DEF DbRecord
<1>4. /\ [d EXCEPT !.memdb = c].memdb = c /\ [d EXCEPT !.memdb = c].suicided = d.suicided
      /\ SameBelow([d EXCEPT !.memdb = c], d)
  BY DEF DbRecord, SameBelow
<1> QED
  BY <1>2, <1>3, <1>4 DEF c

\* Under the guard Alive, an account operation writes one key or, for an account that
\* is empty, deletes it.
LEMMA LiveAccount ==
    ASSUME db \in DbRecord, NEW a \in Addr, Alive(a)
    PROVE  GetEthAccount(db, a) \in StoredAccount
<1>1. get(db, accountKey(a)) \in {Gone} \cup StoredAccount
  BY KeyValues, Reads
<1>2. get(db, accountKey(a)) # Gone
  BY DEF Alive, GetBalance, GetEthAccount, ZeroAccount
<1> QED
  BY <1>1, <1>2 DEF GetEthAccount

LEMMA AccountPut ==
    ASSUME NEW d, NEW a \in Addr, NEW acct \in StoredAccount
    PROVE  \E v \in ValuesOf(accountKey(a)) :
              /\ PutEthAccount(d, a, acct) = put(d, accountKey(a), v)
<1>1. acct.balance # Nil
  BY Configured DEF StoredAccount
<1>2. Gone \in ValuesOf(accountKey(a)) /\ acct \in ValuesOf(accountKey(a))
  BY KeyValues
<1> QED
  BY <1>1, <1>2 DEF PutEthAccount

OneKeyWritten == \E key \in AllKeys : \E v \in ValuesOf(key) : db' = put(db, key, v)

LEMMA Updates ==
    ASSUME db \in DbRecord, NEW a \in Addr, Alive(a)
    PROVE  /\ addBalance(a) => OneKeyWritten
           /\ subBalance(a) => OneKeyWritten
           /\ setNonce(a) => OneKeyWritten
           /\ \A code \in BOOLEAN : setCode(a, code) => OneKeyWritten
<1> DEFINE acct == GetEthAccount(db, a)
<1>1. acct \in StoredAccount
  BY LiveAccount
<1>2. acct.balance # Nil
  BY DEF Alive, GetBalance
<1>3. ASSUME NEW new \in StoredAccount, db' = PutEthAccount(db, a, new)
      PROVE  OneKeyWritten
  BY <1>3, AccountPut, KeyValues DEF OneKeyWritten
<1>4. addBalance(a) => OneKeyWritten
  <2> SUFFICES ASSUME addBalance(a)
               PROVE  OneKeyWritten
    OBVIOUS
  <2> DEFINE new == [acct EXCEPT !.balance = @ + 1]
  <2>1. acct.balance < MaxBalance /\ db' = PutEthAccount(db, a, new)
    BY <1>2 DEF addBalance, AddBalance, GetBalance
  <2>2. new \in StoredAccount
    BY <1>1, <2>1, Configured DEF StoredAccount
  <2> QED
    BY <2>1, <2>2, <1>3
<1>5. subBalance(a) => OneKeyWritten
  <2> SUFFICES ASSUME subBalance(a)
               PROVE  OneKeyWritten
    OBVIOUS
  <2> DEFINE new == [acct EXCEPT !.balance = @ - 1]
  <2>1. acct.balance > 0 /\ db' = PutEthAccount(db, a, new)
    BY <1>2 DEF subBalance, SubBalance, GetBalance
  <2>2. new \in StoredAccount
    BY <1>1, <2>1, Configured DEF StoredAccount
  <2> QED
    BY <2>1, <2>2, <1>3
<1>6. setNonce(a) => OneKeyWritten
  <2> SUFFICES ASSUME setNonce(a)
               PROVE  OneKeyWritten
    OBVIOUS
  <2> DEFINE new == [acct EXCEPT !.nonce = acct.nonce + 1]
  <2>1. acct.nonce < MaxNonce /\ db' = PutEthAccount(db, a, new)
    BY DEF setNonce, SetNonce, GetNonce
  <2>2. new \in StoredAccount
    BY <1>1, <2>1, Configured DEF StoredAccount
  <2> QED
    BY <2>1, <2>2, <1>3
<1>7. ASSUME NEW code \in BOOLEAN, setCode(a, code)
      PROVE  OneKeyWritten
  <2> DEFINE new == [acct EXCEPT !.code = code, !.hashed = TRUE]
  <2>1. db' = PutEthAccount(db, a, new)
    BY <1>7 DEF setCode, SetCode
  <2>2. new \in StoredAccount
    BY <1>1, <1>7, Zenon DEF StoredAccount
  <2> QED
    BY <2>1, <2>2, <1>3
<1> QED
  BY <1>4, <1>5, <1>6, <1>7
-----------------------------------------------------------------------------
LEMMA Fields ==
    ASSUME NEW d \in DbRecord
    PROVE  /\ d.memdb \in WriteSets /\ d.overlay \in WriteSets /\ d.suicided \in SUBSET Addr
           /\ d.logs \in Seq(Addr) /\ d.refund \in Nat /\ d.panic = FALSE
           /\ d.snapshots \in Seq(SnapshotRecord)
BY Zenon DEF DbRecord

LEMMA Elements ==
    ASSUME NEW S, NEW s \in Seq(S), NEW i \in DOMAIN s
    PROVE  i \in 1..Len(s) /\ i \in Nat /\ s[i] \in S
OBVIOUS

LEMMA SnapshotFields ==
    ASSUME NEW d \in DbRecord, NEW i \in DOMAIN d.snapshots
    PROVE  /\ i \in 1..Len(d.snapshots) /\ i \in Nat
           /\ d.snapshots[i] \in SnapshotRecord
           /\ d.snapshots[i].changes \in WriteSets /\ d.snapshots[i].suicided \in SUBSET Addr
           /\ d.snapshots[i].logsSize \in Nat /\ d.snapshots[i].refund \in Nat
<1>1. d.snapshots \in Seq(SnapshotRecord)
  BY Fields, Zenon
<1>2. i \in 1..Len(d.snapshots) /\ i \in Nat /\ d.snapshots[i] \in SnapshotRecord
  BY <1>1, Elements
<1> QED
  BY <1>2 DEF SnapshotRecord

LEMMA SubSeqOfAppend ==
    ASSUME NEW S, NEW s \in Seq(S), NEW e \in S, NEW n \in Nat, n <= Len(s)
    PROVE  SubSeq(Append(s, e), 1, n) = SubSeq(s, 1, n)
<1>1. \A i \in 1..n : Append(s, e)[i] = s[i]
  OBVIOUS
<1>2. SubSeq(s, 1, n) = [i \in 1..n |-> s[i]]
  OBVIOUS
<1>3. SubSeq(Append(s, e), 1, n) = [i \in 1..n |-> Append(s, e)[i]]
  OBVIOUS
<1> QED
  BY <1>1, <1>2, <1>3

\* A step that writes above the overlay and at most appends a log leaves every saved
\* state as it was.
LEMMA SavedStay ==
    ASSUME IInv, db' \in DbRecord, db'.overlay = db.overlay, db'.snapshots = db.snapshots,
           db'.logs = db.logs \/ \E a \in Addr : db'.logs = Append(db.logs, a)
    PROVE  Saved' = Saved /\ Base' = Base /\ LogsKept(db')
<1>1. Base' = Base /\ \A c : Seen(db', c) = Seen(db, c)
  BY DEF Base, Seen, OverlayGet
<1>2. \A i \in DOMAIN db.snapshots :
         /\ db.snapshots[i].logsSize \in Nat
         /\ db.snapshots[i].logsSize <= Len(db.logs)
  BY SnapshotFields DEF IInv, LogsKept
<1>3. \A i \in DOMAIN db.snapshots :
         SubSeq(db'.logs, 1, db.snapshots[i].logsSize) = SubSeq(db.logs, 1, db.snapshots[i].logsSize)
  <2> TAKE i \in DOMAIN db.snapshots
  <2>1. db.logs \in Seq(Addr)
    BY Fields, Zenon DEF IInv
  <2>2. db.snapshots[i].logsSize \in Nat /\ db.snapshots[i].logsSize <= Len(db.logs)
    BY <1>2
  <2>3. ASSUME NEW a \in Addr
        PROVE  SubSeq(Append(db.logs, a), 1, db.snapshots[i].logsSize)
                 = SubSeq(db.logs, 1, db.snapshots[i].logsSize)
    BY <2>1, <2>2, SubSeqOfAppend
  <2>4. CASE db'.logs = db.logs
    BY <2>4
  <2>5. CASE \E a \in Addr : db'.logs = Append(db.logs, a)
    <3>1. PICK a \in Addr : db'.logs = Append(db.logs, a)
      BY <2>5
    <3>2. SubSeq(Append(db.logs, a), 1, db.snapshots[i].logsSize)
            = SubSeq(db.logs, 1, db.snapshots[i].logsSize)
      BY <2>3, Zenon
    <3> QED
      BY <3>1, <3>2, Zenon
  <2> QED
    BY <2>4, <2>5, Zenon
<1>4. Len(db.logs) <= Len(db'.logs)
  BY Fields DEF IInv
<1>5. LogsKept(db')
  <2>1. ASSUME NEW i \in DOMAIN db'.snapshots
        PROVE  db'.snapshots[i].logsSize <= Len(db'.logs)
    BY <1>2, <1>4, Fields DEF IInv
  <2> QED
    BY <2>1 DEF LogsKept, IInv
<1>6. Saved' = Saved
  BY <1>1, <1>3, Zenon DEF Saved
<1> QED
  BY <1>1, <1>5, <1>6

LEMMA SeenAfterPut ==
    ASSUME NEW d \in DbRecord, NEW key \in AllKeys, NEW v \in ValuesOf(key)
    PROVE  LET e == put(d, key, v) IN Seen(e, e.memdb) = [Seen(d, d.memdb) EXCEPT ![key] = v]
<1> DEFINE e == put(d, key, v)
<1>1. e.memdb = over([x \in {key} |-> v], d.memdb) /\ e.overlay = d.overlay
  BY Puts, Zenon DEF SameBelow
<1>2. \A x \in AllKeys : OverlayGet(e, x) = OverlayGet(d, x)
  BY <1>1 DEF OverlayGet
<1>3. \A x \in AllKeys : Seen(e, e.memdb)[x] = IF x = key THEN v ELSE Seen(d, d.memdb)[x]
  BY <1>1, <1>2 DEF Seen, over
<1> HIDE DEF e
<1> QED
  BY <1>3, Zenon DEF Seen, e

LEMMA WriteStep ==
    ASSUME IInv, NEW key \in AllKeys, NEW v \in ValuesOf(key), db' = put(db, key, v)
    PROVE  IInv' /\ Promise!Write(key)
<1>1. /\ db' \in DbRecord /\ db'.overlay = db.overlay /\ db'.snapshots = db.snapshots
      /\ db'.logs = db.logs /\ db'.suicided = db.suicided /\ db'.refund = db.refund
  BY Puts, Zenon DEF IInv, SameBelow
<1>2. Saved' = Saved /\ Base' = Base /\ LogsKept(db')
  BY <1>1, SavedStay
<1>3. Seen(db', db'.memdb) = [Seen(db, db.memdb) EXCEPT ![key] = v]
  BY SeenAfterPut DEF IInv
<1>4. Now' = [Now EXCEPT !.data[key] = v]
  BY <1>1, <1>3 DEF Now, State
<1> QED
  BY <1>1, <1>2, <1>4 DEF IInv, Promise!Write
LEMMA Appended ==
    ASSUME NEW S, NEW s \in Seq(S), NEW e \in S
    PROVE  Append(s, e) \in Seq(S)
OBVIOUS

LEMMA LogStep ==
    ASSUME IInv, NEW a \in Addr, addLog(a)
    PROVE  IInv' /\ Promise!Log
<1>1. db' = [db EXCEPT !.logs = Append(db.logs, a)]
  BY DEF addLog, AddLog
<1>2. Append(db.logs, a) \in Seq(Addr)
  BY Fields, Appended, Zenon DEF IInv
<1>3. /\ db' \in DbRecord /\ db'.logs = Append(db.logs, a)
      /\ db'.overlay = db.overlay /\ db'.snapshots = db.snapshots
      /\ db'.memdb = db.memdb /\ db'.suicided = db.suicided /\ db'.refund = db.refund
  BY <1>1, <1>2, Zenon DEF IInv, DbRecord
<1>4. Saved' = Saved /\ Base' = Base /\ LogsKept(db')
  BY <1>3, SavedStay
<1>5. Seen(db', db'.memdb) = Seen(db, db.memdb)
  BY <1>3 DEF Seen, OverlayGet
<1>6. Now' = [Now EXCEPT !.logs = Append(@, a)]
  <2>1. ASSUME NEW l, db'.logs = l
        PROVE  Now' = [Now EXCEPT !.logs = l]
    BY <1>3, <1>5, <2>1 DEF Now, State
  <2>2. Now.logs = db.logs
    BY DEF Now, State
  <2>3. Now' = [Now EXCEPT !.logs = Append(db.logs, a)]
    BY <1>3, <2>1
  <2> QED
    BY <2>2, <2>3
<1> QED
  BY <1>3, <1>4, <1>6, Zenon DEF IInv, Promise!Log

LEMMA RefundStep ==
    ASSUME IInv, addRefund \/ subRefund
    PROVE  IInv' /\ Promise!Refund
<1>1. PICK r \in Nat : db' = [db EXCEPT !.refund = r]
  <2>1. db.refund \in Nat
    BY Fields, Zenon DEF IInv
  <2>2. CASE addRefund
    BY <2>1, <2>2, db.refund + 1 \in Nat DEF addRefund, AddRefund
  <2>3. CASE subRefund
    BY <2>1, <2>3, db.refund > 0 => db.refund - 1 \in Nat /\ ~(1 > db.refund)
       DEF subRefund, SubRefund
  <2> QED
    BY <2>2, <2>3
<1>2. /\ db' \in DbRecord /\ db'.refund = r /\ db'.logs = db.logs
      /\ db'.overlay = db.overlay /\ db'.snapshots = db.snapshots
      /\ db'.memdb = db.memdb /\ db'.suicided = db.suicided
  BY <1>1, Zenon DEF IInv, DbRecord
<1>3. Saved' = Saved /\ Base' = Base /\ LogsKept(db')
  BY <1>2, SavedStay
<1>4. Seen(db', db'.memdb) = Seen(db, db.memdb)
  BY <1>2 DEF Seen, OverlayGet
<1>5. Now' = [Now EXCEPT !.refund = r] /\ Now'.refund = r
  BY <1>2, <1>4 DEF Now, State
<1>6. r >= 0
  OBVIOUS
<1> QED
  BY <1>2, <1>3, <1>5, <1>6 DEF IInv, Promise!Refund

LEMMA DestroyStep ==
    ASSUME IInv, NEW a \in Addr, suicide(a), db' # db
    PROVE  IInv' /\ Promise!Destroy(a)
<1> DEFINE e == [db EXCEPT !.suicided = db.suicided \cup {a}]
<1>1. Alive(a) /\ db' = SetBalance(e, a, 0)
  BY DEF suicide, Suicide
<1>2. /\ e \in DbRecord /\ e.memdb = db.memdb /\ e.suicided = db.suicided \cup {a}
      /\ e.overlay = db.overlay /\ SameBelow(e, db)
  BY Zenon DEF IInv, DbRecord, SameBelow
<1> HIDE DEF e
<1>3. GetEthAccount(e, a) = GetEthAccount(db, a)
  BY <1>2 DEF GetEthAccount, get, OverlayGet
<1>4. [GetEthAccount(db, a) EXCEPT !.balance = 0] \in StoredAccount
  BY <1>1, LiveAccount, Configured DEF IInv, StoredAccount
<1>5. PICK v \in ValuesOf(accountKey(a)) : db' = put(e, accountKey(a), v)
  BY <1>1, <1>3, <1>4, AccountPut DEF SetBalance
<1>6. accountKey(a) \in AllKeys /\ accountKey(a) \in KeysOfAddr(a)
  BY KeyValues DEF KeysOfAddr
<1>7. /\ db' \in DbRecord /\ db'.overlay = db.overlay /\ db'.snapshots = db.snapshots
      /\ db'.logs = db.logs /\ db'.suicided = db.suicided \cup {a} /\ db'.refund = db.refund
  BY <1>2, <1>5, <1>6, Puts, Zenon DEF SameBelow
<1>8. Saved' = Saved /\ Base' = Base /\ LogsKept(db')
  BY <1>7, SavedStay
<1>9. Seen(db', db'.memdb) = [Seen(db, db.memdb) EXCEPT ![accountKey(a)] = v]
  <2>1. Seen(e, e.memdb) = Seen(db, db.memdb)
    BY <1>2 DEF Seen, OverlayGet
  <2> QED
    BY <1>2, <1>5, <1>6, <2>1, SeenAfterPut
<1>10. Now' = [Now EXCEPT !.data[accountKey(a)] = v, !.dead = @ \cup {a}]
  <2>1. ASSUME NEW data, NEW dead, Seen(db', db'.memdb) = data, db'.suicided = dead
        PROVE  Now' = [Now EXCEPT !.data = data, !.dead = dead]
    <3>1. [Now EXCEPT !.data = data] = State(data, db.suicided, db.logs, db.refund)
      BY DEF Now, State
    <3>2. [State(data, db.suicided, db.logs, db.refund) EXCEPT !.dead = dead]
            = State(data, dead, db.logs, db.refund)
      BY DEF State
    <3>3. [Now EXCEPT !.data = data, !.dead = dead] = State(data, dead, db.logs, db.refund)
      BY <3>1, <3>2, Zenon
    <3> QED
      BY <1>7, <2>1, <3>3, Zenon DEF Now
  <2>2. Now.data = Seen(db, db.memdb) /\ Now.dead = db.suicided
    BY DEF Now, State
  <2>3. Now' = [Now EXCEPT !.data = [Now.data EXCEPT ![accountKey(a)] = v], !.dead = Now.dead \cup {a}]
    BY <1>7, <1>9, <2>1, <2>2, Zenon
  <2> QED
    BY <2>3
<1> QED
  BY <1>6, <1>7, <1>8, <1>10, Zenon DEF IInv, Promise!Destroy
-----------------------------------------------------------------------------
LEMMA FunctionIsSeq ==
    ASSUME NEW n \in Nat, NEW f, f = [i \in 1..n |-> f[i]]
    PROVE  f \in Seq({f[i] : i \in 1..n}) /\ Len(f) = n /\ DOMAIN f = 1..n
<1>1. f \in [1..n -> {f[i] : i \in 1..n}] /\ DOMAIN f = 1..n
  OBVIOUS
<1>2. f \in Seq({f[i] : i \in 1..n})
  BY <1>1, SeqDef
<1> QED
  BY <1>1, <1>2, LenProperties

SavedOf(d, i) ==
    State(Seen(d, d.snapshots[i].changes), d.snapshots[i].suicided,
          SubSeq(d.logs, 1, d.snapshots[i].logsSize), d.snapshots[i].refund)

LEMMA SavedIsSeq ==
    ASSUME IInv
    PROVE  /\ Len(db.snapshots) \in Nat /\ DOMAIN db.snapshots = 1..Len(db.snapshots)
           /\ Saved = [i \in 1..Len(db.snapshots) |-> SavedOf(db, i)]
           /\ DOMAIN Saved = 1..Len(db.snapshots)
           /\ Len(Saved) = Len(db.snapshots)
           /\ Saved \in Seq({Saved[i] : i \in 1..Len(db.snapshots)})
<1> DEFINE n == Len(db.snapshots)
<1>1. n \in Nat /\ DOMAIN db.snapshots = 1..n
  BY Fields, LenProperties DEF IInv
<1>2. Saved = [i \in 1..n |-> SavedOf(db, i)]
  BY <1>1, Zenon DEF Saved, SavedOf
<1>3. DOMAIN Saved = 1..n /\ Saved = [i \in 1..n |-> Saved[i]]
  <2> HIDE DEF n
  <2> QED
    BY <1>2
<1> QED
  BY <1>1, <1>2, <1>3, FunctionIsSeq

LEMMA AppendIsFunction ==
    ASSUME NEW S, NEW s \in Seq(S), NEW e
    PROVE  Append(s, e) = [i \in 1..(Len(s) + 1) |-> IF i = Len(s) + 1 THEN e ELSE s[i]]
<1> DEFINE T == S \cup {e}
           r == Append(s, e)
<1>1. s \in Seq(T) /\ e \in T
  BY SeqMonotonic
<1> HIDE DEF T
<1>2. /\ r \in Seq(T) /\ Len(r) = Len(s) + 1 /\ Len(s) \in Nat
      /\ \A i \in 1..Len(s) : r[i] = s[i]
      /\ r[Len(s) + 1] = e
  BY <1>1, AppendProperties, LenProperties
<1>3. r \in [1..Len(r) -> T]
  BY <1>2, LenProperties, Zenon
<1> HIDE DEF r
<1>4. r = [i \in 1..(Len(s) + 1) |-> r[i]]
  BY <1>2, <1>3
<1>5. \A i \in 1..(Len(s) + 1) : r[i] = IF i = Len(s) + 1 THEN e ELSE s[i]
  BY <1>2
<1>6. r = [i \in 1..(Len(s) + 1) |-> IF i = Len(s) + 1 THEN e ELSE s[i]]
  BY <1>4, <1>5, Zenon
<1> QED
  BY <1>6 DEF r

LEMMA WholeSubSeq ==
    ASSUME NEW S, NEW s \in Seq(S)
    PROVE  SubSeq(s, 1, Len(s)) = s
<1>1. s \in [1..Len(s) -> S] /\ Len(s) \in Nat
  BY LenProperties
<1>2. SubSeq(s, 1, Len(s)) = [i \in 1..Len(s) |-> s[i]]
  OBVIOUS
<1> QED
  BY <1>1, <1>2

LEMMA SaveStep ==
    ASSUME IInv, snapshot
    PROVE  IInv' /\ Promise!Save
<1> DEFINE n == Len(db.snapshots)
           sn == [changes |-> db.memdb, suicided |-> db.suicided,
                  logsSize |-> Len(db.logs), refund |-> db.refund]
           sns == Append(db.snapshots, sn)
<1>1. sn \in SnapshotRecord
  BY Fields, LenProperties, Zenon DEF IInv, SnapshotRecord
<1>2. /\ sns \in Seq(SnapshotRecord) /\ n \in Nat /\ DOMAIN db.snapshots = 1..n
      /\ sns = [i \in 1..(n + 1) |-> IF i = n + 1 THEN sn ELSE db.snapshots[i]]
  <2> HIDE DEF sn
  <2> QED
    BY <1>1, Fields, Appended, AppendIsFunction, LenProperties, ZenonT(60) DEF IInv
<1>3. db' = [db EXCEPT !.snapshots = sns]
  BY DEF snapshot, Snapshot
<1>4. sn.changes = db.memdb /\ sn.suicided = db.suicided /\ sn.logsSize = Len(db.logs) /\ sn.refund = db.refund
  OBVIOUS
<1> HIDE DEF sn, sns, n
<1>5. /\ db' \in DbRecord /\ db'.snapshots = sns /\ db'.logs = db.logs /\ db'.memdb = db.memdb
      /\ db'.overlay = db.overlay /\ db'.suicided = db.suicided /\ db'.refund = db.refund
  BY <1>2, <1>3, Zenon DEF IInv, DbRecord
<1>6. Len(sns) = n + 1 /\ DOMAIN sns = 1..(n + 1)
  BY <1>2, LenProperties
<1>7. \A i \in 1..(n + 1) : sns[i] = IF i = n + 1 THEN sn ELSE db.snapshots[i]
  BY <1>2
<1>8. \A i \in 1..n : db.snapshots[i].logsSize \in Nat /\ db.snapshots[i].logsSize <= Len(db.logs)
  BY <1>2, SnapshotFields DEF IInv, LogsKept
<1>9. Len(db.logs) \in Nat
  BY Fields, LenProperties DEF IInv
<1>10. LogsKept(db')
  <2>1. ASSUME NEW i \in 1..(n + 1)
        PROVE  sns[i].logsSize <= Len(db.logs)
    BY <1>2, <1>4, <1>7, <1>8, <1>9
  <2>2. ASSUME NEW i \in 1..(n + 1), NEW j \in 1..(n + 1), i <= j
        PROVE  sns[i].logsSize <= sns[j].logsSize
    <3>1. CASE j = n + 1
      BY <1>2, <1>4, <1>7, <2>1, <3>1
    <3>2. CASE j # n + 1
      <4>1. i \in 1..n /\ j \in 1..n /\ i # n + 1
        BY <1>2, <2>2, <3>2
      <4> QED
        BY <1>2, <1>7, <2>2, <3>2, <4>1 DEF IInv, LogsKept
    <3> QED
      BY <3>1, <3>2
  <2> QED
    BY <1>5, <1>6, <2>1, <2>2 DEF LogsKept
<1>11. Base' = Base /\ \A c : Seen(db', c) = Seen(db, c)
  BY <1>5 DEF Base, Seen, OverlayGet
<1>12. Now' = Now
  BY <1>5, <1>11 DEF Now
<1>13. \A i \in 1..n : SavedOf(db', i) = Saved[i]
  <2> TAKE i \in 1..n
  <2>1. db'.snapshots[i] = db.snapshots[i]
    BY <1>2, <1>5, <1>7
  <2> QED
    BY <1>5, <1>11, <2>1, SavedIsSeq DEF SavedOf, n
<1>14. SavedOf(db', n + 1) = Now
  <2>1. db'.snapshots[n + 1] = sn
    BY <1>2, <1>5, <1>7
  <2>2. SubSeq(db.logs, 1, Len(db.logs)) = db.logs
    BY Fields, WholeSubSeq, Zenon DEF IInv
  <2> QED
    BY <1>4, <1>5, <1>11, <2>1, <2>2, Zenon DEF SavedOf, Now
<1>15. IInv'
  BY <1>5, <1>10 DEF IInv
<1>16. Saved' = [i \in 1..(n + 1) |-> SavedOf(db', i)]
  <2>1. DOMAIN db'.snapshots = 1..(n + 1)
    BY <1>5, <1>6
  <2> QED
    BY <2>1, Zenon DEF Saved, SavedOf
<1>17. Append(Saved, Now) = [i \in 1..(n + 1) |-> IF i = n + 1 THEN Now ELSE Saved[i]]
  BY SavedIsSeq, AppendIsFunction DEF n
<1>18. \A i \in 1..(n + 1) : SavedOf(db', i) = IF i = n + 1 THEN Now ELSE Saved[i]
  BY <1>2, <1>13, <1>14
<1>19. Saved' = Append(Saved, Now)
  BY <1>16, <1>17, <1>18
<1> QED
  BY <1>11, <1>12, <1>15, <1>19 DEF Promise!Save
LEMMA Prefix ==
    ASSUME NEW S, NEW s \in Seq(S), NEW m \in Nat, m <= Len(s)
    PROVE  /\ SubSeq(s, 1, m) = [j \in 1..m |-> s[j]]
           /\ SubSeq(s, 1, m) \in Seq(S) /\ Len(SubSeq(s, 1, m)) = m
           /\ \A k \in Nat : k <= m => SubSeq(SubSeq(s, 1, m), 1, k) = SubSeq(s, 1, k)
<1> DEFINE p == SubSeq(s, 1, m)
<1>1. p = [j \in 1..m |-> s[j]]
  OBVIOUS
<1>2. p \in Seq(S) /\ Len(p) = m
  OBVIOUS
<1>3. ASSUME NEW k \in Nat, k <= m
      PROVE  SubSeq(p, 1, k) = SubSeq(s, 1, k)
  <2> HIDE DEF p
  <2>1. SubSeq(p, 1, k) = [j \in 1..k |-> p[j]]
    BY <1>2, <1>3
  <2>2. SubSeq(s, 1, k) = [j \in 1..k |-> s[j]]
    BY <1>3
  <2>3. \A j \in 1..k : p[j] = s[j]
    BY <1>1, <1>3
  <2> QED
    BY <2>1, <2>2, <2>3, Zenon
<1> QED
  BY <1>1, <1>2, <1>3

LEMMA RestoreStep ==
    ASSUME IInv, NEW i \in DOMAIN db.snapshots, revertToSnapshot(i)
    PROVE  IInv' /\ Promise!Restore(i)
<1> DEFINE n == Len(db.snapshots)
           sn == db.snapshots[i]
           sns == SubSeq(db.snapshots, 1, i - 1)
           logs == SubSeq(db.logs, 1, sn.logsSize)
<1>1. /\ n \in Nat /\ DOMAIN db.snapshots = 1..n /\ i \in 1..n /\ i - 1 \in Nat /\ i - 1 <= n
      /\ sn.changes \in WriteSets /\ sn.suicided \in SUBSET Addr
      /\ sn.logsSize \in Nat /\ sn.refund \in Nat
  BY SavedIsSeq, SnapshotFields DEF IInv
<1>2. sn.logsSize <= Len(db.logs)
  BY DEF IInv, LogsKept
<1>3. /\ sns = [j \in 1..(i - 1) |-> db.snapshots[j]]
      /\ sns \in Seq(SnapshotRecord) /\ Len(sns) = i - 1 /\ DOMAIN sns = 1..(i - 1)
  <2>1. db.snapshots \in Seq(SnapshotRecord)
    BY Fields, Zenon DEF IInv
  <2>2. /\ sns = [j \in 1..(i - 1) |-> db.snapshots[j]]
        /\ sns \in Seq(SnapshotRecord) /\ Len(sns) = i - 1
    BY <1>1, <2>1, Prefix, ZenonT(60)
  <2> QED
    BY <2>2, Zenon
<1>4. logs \in Seq(Addr) /\ Len(logs) = sn.logsSize
  <2>1. db.logs \in Seq(Addr)
    BY Fields, Zenon DEF IInv
  <2> QED
    BY <1>1, <1>2, <2>1, Prefix, Zenon
<1>5. db' = [db EXCEPT !.snapshots = sns, !.memdb = sn.changes, !.suicided = sn.suicided,
                       !.refund = sn.refund, !.logs = logs]
  <2>1. ~(i > n)
    BY <1>1
  <2> QED
    BY <2>1 DEF revertToSnapshot, RevertToSnapshot
<1> HIDE DEF sns, logs, sn, n
<1>6. /\ db' \in DbRecord /\ db'.snapshots = sns /\ db'.logs = logs /\ db'.memdb = sn.changes
      /\ db'.overlay = db.overlay /\ db'.suicided = sn.suicided /\ db'.refund = sn.refund
  BY <1>1, <1>3, <1>4, <1>5, Zenon DEF IInv, DbRecord
<1>7. \A j \in 1..(i - 1) :
         /\ sns[j] = db.snapshots[j] /\ j \in DOMAIN db.snapshots
         /\ db.snapshots[j].logsSize \in Nat /\ db.snapshots[j].logsSize <= sn.logsSize
  <2> TAKE j \in 1..(i - 1)
  <2>1. j \in 1..n /\ j <= i
    BY <1>1
  <2>2. db.snapshots[j].logsSize <= sn.logsSize
    BY <1>1, <2>1 DEF IInv, LogsKept, sn
  <2> QED
    BY <1>1, <1>3, <2>1, <2>2, SnapshotFields DEF IInv
<1>8. LogsKept(db')
  <2>1. \A j \in DOMAIN db'.snapshots : db'.snapshots[j].logsSize <= Len(db'.logs)
    BY <1>3, <1>4, <1>6, <1>7
  <2>2. \A j, k \in DOMAIN db'.snapshots :
           j <= k => db'.snapshots[j].logsSize <= db'.snapshots[k].logsSize
    BY <1>3, <1>6, <1>7 DEF IInv, LogsKept
  <2> QED
    BY <2>1, <2>2 DEF LogsKept
<1>9. Base' = Base /\ \A c : Seen(db', c) = Seen(db, c)
  BY <1>6 DEF Base, Seen, OverlayGet
<1>10. Now' = Saved[i]
  <2>1. Saved[i] = SavedOf(db, i)
    BY <1>1, SavedIsSeq DEF n
  <2> QED
    BY <1>6, <1>9, <2>1, Zenon DEF Now, SavedOf, sn, logs
<1>11. \A j \in 1..(i - 1) : SavedOf(db', j) = Saved[j]
  <2> TAKE j \in 1..(i - 1)
  <2>1. db'.snapshots[j] = db.snapshots[j]
    BY <1>6, <1>7
  <2>2. SubSeq(db'.logs, 1, db.snapshots[j].logsSize) = SubSeq(db.logs, 1, db.snapshots[j].logsSize)
    BY <1>1, <1>2, <1>6, <1>7, Fields, Prefix, SMTT(60) DEF IInv, logs
  <2>3. Saved[j] = SavedOf(db, j)
    BY <1>1, SavedIsSeq DEF n
  <2> QED
    BY <1>9, <2>1, <2>2, <2>3, Zenon DEF SavedOf
<1>12. Saved' = [j \in 1..(i - 1) |-> SavedOf(db', j)]
  <2>1. DOMAIN db'.snapshots = 1..(i - 1)
    BY <1>3, <1>6
  <2> QED
    BY <2>1, Zenon DEF Saved, SavedOf
<1>13. SubSeq(Saved, 1, i - 1) = [j \in 1..(i - 1) |-> Saved[j]]
  BY <1>1, SavedIsSeq, Prefix DEF n
<1>14. Saved' = SubSeq(Saved, 1, i - 1)
  BY <1>11, <1>12, <1>13, Zenon
<1> QED
  BY <1>6, <1>8, <1>9, <1>10, <1>14 DEF IInv, Promise!Restore
-----------------------------------------------------------------------------
\* What Commit deletes, and what the layers below then show.
Deleted == UNION {erased(db, a) : a \in db.suicided}
Committed == over(over([key \in Deleted |-> Gone], db.memdb), db.overlay)

IsFresh(d, o) ==
    /\ d \in DbRecord /\ d.memdb = <<>> /\ d.overlay = o /\ d.suicided = {}
    /\ d.logs = <<>> /\ d.refund = 0 /\ d.snapshots = <<>>

LEMMA CommitIsFresh ==
    ASSUME IInv, commitState
    PROVE  IsFresh(db', Committed)
<1> DEFINE m == over([key \in Deleted |-> Gone], db.memdb)
<1>1. Deleted \subseteq AllKeys
  BY Fields, Zenon DEF Deleted, erased, AllKeys, IInv
<1>2. [key \in Deleted |-> Gone] \in WriteSets
  BY <1>1, WriteSetDef DEF ValuesOf
<1>3. m \in WriteSets /\ Committed \in WriteSets
  BY <1>2, OverIsWriteSet, Fields, Zenon DEF IInv, Committed
<1>4. db' = NewStateDB(StateCommit(db))
  BY DEF commitState
<1>5. CommitToCacheDB(db) = [db EXCEPT !.memdb = m, !.suicided = {}, !.snapshots = <<>>]
  BY Configured DEF CommitToCacheDB, Deleted
<1>6. Committed = over(m, db.overlay)
  BY DEF Committed
<1> HIDE DEF m
<1> DEFINE c == CommitToCacheDB(db)
<1>7. /\ c \in DbRecord /\ c.memdb = m /\ c.overlay = db.overlay
      /\ c.suicided = {} /\ c.snapshots = <<>>
  BY <1>3, <1>5, EmptySeq, Zenon DEF IInv, DbRecord
<1>8. ~c.panic
  BY <1>7, Fields, Zenon
<1> HIDE DEF c
<1> DEFINE e == [c EXCEPT !.overlay = Committed, !.memdb = <<>>]
<1>9. StateCommit(db) = e
  BY <1>6, <1>7, <1>8 DEF StateCommit, CacheCommit, c
<1>10. e \in DbRecord /\ e.memdb = <<>> /\ e.overlay = Committed
  BY <1>3, <1>7, NoWrites, Zenon DEF DbRecord
<1> HIDE DEF e
<1>11. db' = [e EXCEPT !.suicided = {}, !.logs = <<>>, !.refund = 0, !.snapshots = <<>>]
  BY <1>4, <1>9 DEF NewStateDB
<1>12. <<>> \in Seq(Addr) /\ <<>> \in Seq(SnapshotRecord) /\ 0 \in Nat
  BY EmptySeq
<1> QED
  BY <1>10, <1>11, <1>12, Zenon DEF DbRecord, IsFresh

LEMMA FreshState ==
    ASSUME NEW o, NEW d, IsFresh(d, o)
    PROVE  /\ d \in DbRecord /\ LogsKept(d)
           /\ State(Seen(d, d.memdb), d.suicided, d.logs, d.refund)
                = Promise!Fresh([key \in AllKeys |-> OverlayGet(d, key)])
           /\ DOMAIN d.snapshots = {} /\ d.overlay = o
<1>1. /\ d.memdb = <<>> /\ d.overlay = o /\ d.suicided = {} /\ d.logs = <<>>
      /\ d.refund = 0 /\ d.snapshots = <<>>
  BY DEF IsFresh
<1>2. d \in DbRecord
  BY DEF IsFresh
<1>3. DOMAIN <<>> = {}
  OBVIOUS
<1>4. Seen(d, d.memdb) = [key \in AllKeys |-> OverlayGet(d, key)]
  BY <1>1, <1>3 DEF Seen
<1>5. LogsKept(d)
  BY <1>1, <1>3 DEF LogsKept
<1> QED
  BY <1>1, <1>2, <1>3, <1>4, <1>5, Zenon DEF State, Promise!Fresh

LEMMA CommittedReads ==
    ASSUME IInv, NEW key \in AllKeys, NEW d, d.overlay = Committed
    PROVE  OverlayGet(d, key) = IF \E a \in db.suicided : key \in KeysOfAddr(a)
                                THEN Gone ELSE Seen(db, db.memdb)[key]
<1>1. Seen(db, db.memdb)[key] = get(db, key)
  BY DEF Seen, get
<1>2. OverlayGet(d, key) = IF key \in Deleted THEN Gone ELSE get(db, key)
  BY DEF OverlayGet, get, Committed, over
<1>3. key \in Deleted => \E a \in db.suicided : key \in KeysOfAddr(a)
  BY DEF Deleted, erased, KeysOfAddr
<1>4. ASSUME NEW a \in db.suicided, key \in KeysOfAddr(a), key \notin Deleted
      PROVE  get(db, key) = Gone
  BY <1>4 DEF Deleted, erased, KeysOfAddr
<1> QED
  BY <1>1, <1>2, <1>3, <1>4

LEMMA CommitStep ==
    ASSUME IInv, commitState
    PROVE  IInv' /\ Promise!Commit
<1>1. IsFresh(db', Committed)
  BY CommitIsFresh
<1>2. /\ db' \in DbRecord /\ LogsKept(db') /\ DOMAIN db'.snapshots = {}
      /\ db'.overlay = Committed /\ Now' = Promise!Fresh(Base')
  BY <1>1, FreshState, Zenon DEF Now, Base
<1>3. Now.dead = db.suicided /\ Now.data = Seen(db, db.memdb)
  BY DEF Now, State
<1>4. Base' = [k \in AllKeys |-> IF \E a \in Now.dead : k \in KeysOfAddr(a)
                                 THEN Gone ELSE Now.data[k]]
  <2>1. \A k \in AllKeys : OverlayGet(db', k) = IF \E a \in Now.dead : k \in KeysOfAddr(a)
                                                THEN Gone ELSE Now.data[k]
    BY <1>2, <1>3, CommittedReads
  <2> QED
    BY <2>1, Zenon DEF Base
<1>5. Saved' = <<>>
  BY <1>2 DEF Saved
<1> QED
  BY <1>2, <1>4, <1>5 DEF IInv, Promise!Commit

LEMMA InitStep ==
    ASSUME StorageInit
    PROVE  IInv /\ Promise!Init
<1>1. IsFresh(db, <<>>)
  BY NoWrites, EmptySeq DEF StorageInit, EmptyStateDB, DbRecord, IsFresh
<1>2. /\ db \in DbRecord /\ LogsKept(db) /\ DOMAIN db.snapshots = {}
      /\ Now = Promise!Fresh(Base)
  BY <1>1, FreshState, Zenon DEF Now, Base
<1>3. DOMAIN Base = AllKeys /\ \A k \in AllKeys : Base[k] \in ValuesOf(k)
  BY <1>2, Reads DEF Base
<1>4. Saved = <<>>
  BY <1>2 DEF Saved
<1> QED
  BY <1>2, <1>3, <1>4 DEF IInv, Promise!Init

LEMMA NextStep ==
    ASSUME IInv, [StorageNext]_storageVars
    PROVE  IInv' /\ [Promise!Next]_(Promise!vars)
<1>1. ASSUME OneKeyWritten
      PROVE  IInv' /\ [Promise!Next]_(Promise!vars)
  BY <1>1, WriteStep DEF OneKeyWritten, Promise!Next
<1>2. ASSUME db' = db
      PROVE  IInv' /\ [Promise!Next]_(Promise!vars)
  BY <1>2 DEF IInv, Promise!vars, Now, Saved, Base
<1>3. ASSUME NEW a \in Addr, addBalance(a) \/ subBalance(a) \/ setNonce(a)
      PROVE  OneKeyWritten
  BY <1>3, Updates DEF addBalance, subBalance, setNonce, IInv
<1>4. ASSUME NEW a \in Addr, NEW code \in BOOLEAN, setCode(a, code)
      PROVE  OneKeyWritten
  BY <1>4, Updates DEF setCode, IInv
<1>5. ASSUME NEW a \in Addr, NEW k \in Slot, NEW v \in Hash, setState(a, k, v)
      PROVE  OneKeyWritten
  BY <1>5, KeyValues DEF setState, SetState, OneKeyWritten
<1>6. ASSUME NEW a \in Addr, addLog(a)
      PROVE  IInv' /\ [Promise!Next]_(Promise!vars)
  BY <1>6, LogStep DEF Promise!Next
<1>7. ASSUME NEW a \in Addr, suicide(a)
      PROVE  IInv' /\ [Promise!Next]_(Promise!vars)
  BY <1>2, <1>7, DestroyStep DEF Promise!Next
<1>8. ASSUME addRefund \/ subRefund
      PROVE  IInv' /\ [Promise!Next]_(Promise!vars)
  BY <1>8, RefundStep DEF Promise!Next
<1>9. ASSUME snapshot
      PROVE  IInv' /\ [Promise!Next]_(Promise!vars)
  BY <1>9, SaveStep DEF Promise!Next
<1>10. ASSUME commitState
       PROVE  IInv' /\ [Promise!Next]_(Promise!vars)
  BY <1>10, CommitStep DEF Promise!Next
<1>11. ASSUME NEW i \in DOMAIN db.snapshots, revertToSnapshot(i)
       PROVE  IInv' /\ [Promise!Next]_(Promise!vars)
  <2>1. i \in DOMAIN Saved
    BY <1>11, SavedIsSeq
  <2> QED
    BY <1>11, <2>1, RestoreStep DEF Promise!Next
<1>12. Method \/ db' = db
  BY DEF StorageNext, storageVars
<1> QED
  BY <1>1, <1>2, <1>3, <1>4, <1>5, <1>6, <1>7, <1>8, <1>9, <1>10, <1>11, <1>12 DEF Method

\* Every behaviour of the state database is one of World, under any addresses, slots,
\* hashes and number of calls: three layers of write sets with deletion marks and
\* snapshots of the topmost layer alone behave as one map with saved copies
\* (statedb.go, cachedb.go, overlaydb.go).
THEOREM StorageImplementsWorld == StorageSpec => ImplementsWorld
<1>1. StorageInit => IInv /\ Promise!Init
  BY InitStep
<1>2. IInv /\ [StorageNext]_storageVars => IInv' /\ [Promise!Next]_(Promise!vars)
  BY NextStep
<1> QED
  BY <1>1, <1>2, PTL DEF StorageSpec, ImplementsWorld, Promise!Spec

-----------------------------------------------------------------------------
\* Preflight: the chain that a store belongs to, checked before a Sync.
Inside == {"request", "getGenesis", "getID", "setGenesis", "setID"}

\* The entries that a store can be left with: none, a genesis alone, or a chain.
Entries(k) ==
    /\ k = [genesis |-> k.genesis, id |-> k.id]
    /\ \/ k.genesis = Unset /\ k.id = Unset
       \/ \E chain \in Chain : k.genesis = chain.genesis /\ (k.id = Unset \/ k.id = chain.id)

\* Only the caller that runs the check is inside, and what it has read still holds:
\* between the test of an empty store and the two writes nobody else writes.
CheckInv ==
    /\ provider \in Chain
    /\ once \in {"new", "running", "done"}
    /\ pc \in [Caller -> Inside \cup {"idle", "waiting", "nil", "error"}]
    /\ ran \in Caller
    /\ seen = [genesis |-> seen.genesis, id |-> seen.id]
    /\ Entries(kv)
    /\ kv.id # Unset => kv \in Chain
    /\ once = "new" => \A c \in Caller : pc[c] = "idle"
    /\ \A c \in Caller : pc[c] \in Inside => c = ran /\ once = "running"
    /\ once = "running" => pc[ran] \in Inside
    /\ once = "done" => pc[ran] \in {"nil", "error"}
    /\ at(ran, "getID") => seen.genesis = kv.genesis
    /\ at(ran, "setGenesis") => kv.genesis = Unset
    /\ at(ran, "setID") => kv.genesis = provider.genesis /\ kv.id = Unset
    /\ once = "done" /\ at(ran, "nil") => kv = provider

USE DEF at, goto, finish, Inside

LEMMA CheckInit == PreflightInit => CheckInv
BY ChainsNamed DEF PreflightInit, CheckInv, Entries

LEMMA CheckStep ==
    ASSUME CheckInv, [PreflightNext]_preflightVars
    PROVE  CheckInv'
<1> USE DEF CheckInv
<1>1. ASSUME NEW c \in Caller, preSyncCheck(c)
      PROVE  CheckInv'
  BY <1>1 DEF preSyncCheck, Entries
<1>2. ASSUME NEW c \in Caller, wake(c)
      PROVE  CheckInv'
  BY <1>2 DEF wake, Entries
<1>3. ASSUME NEW c \in Caller, fail(c)
      PROVE  CheckInv'
  BY <1>3 DEF fail, Entries
<1>4. ASSUME NEW c \in Caller, request(c)
      PROVE  CheckInv'
  BY <1>4 DEF request, Entries
<1>5. ASSUME NEW c \in Caller, getGenesis(c)
      PROVE  CheckInv'
  BY <1>5 DEF getGenesis, Entries
<1>6. ASSUME NEW c \in Caller, getID(c)
      PROVE  CheckInv'
  BY <1>6, ChainsNamed DEF getID, compare, Entries
<1>7. ASSUME NEW c \in Caller, setGenesis(c)
      PROVE  CheckInv'
  BY <1>7, ChainsNamed DEF setGenesis, Entries
<1>8. ASSUME NEW c \in Caller, setID(c)
      PROVE  CheckInv'
  BY <1>8, ChainsNamed DEF setID, Entries
<1>9. CASE restart
  BY <1>9 DEF restart, Entries
<1>10. CASE UNCHANGED preflightVars
  BY <1>10 DEF preflightVars, Entries
<1> QED
  BY <1>1, <1>2, <1>3, <1>4, <1>5, <1>6, <1>7, <1>8, <1>9, <1>10 DEF PreflightNext

LEMMA StepKeepsChain ==
    ASSUME CheckInv, [PreflightNext]_preflightVars
    PROVE  [KeepsChain]_preflightVars
<1> USE DEF CheckInv, KeepsChain
<1>1. ASSUME NEW c \in Caller, setGenesis(c)
      PROVE  KeepsChain
  BY <1>1, ChainsNamed DEF setGenesis, Entries
<1>2. ASSUME NEW c \in Caller, setID(c)
      PROVE  KeepsChain
  BY <1>2, ChainsNamed DEF setID, Entries
<1>3. ASSUME kv' = kv
      PROVE  KeepsChain
  BY <1>3
<1> QED
  BY <1>1, <1>2, <1>3 DEF PreflightNext, preSyncCheck, wake, fail, request, getGenesis, getID, restart

LEMMA CheckInvariant == PreflightSpec => []CheckInv
<1>1. PreflightInit => CheckInv
  BY CheckInit
<1>2. CheckInv /\ [PreflightNext]_preflightVars => CheckInv'
  BY CheckStep
<1> QED
  BY <1>1, <1>2, PTL DEF PreflightSpec

\* A caller whose check returned nil works on the chain that the store names, for any
\* callers, chains, failures and restarts between the two writes (preSyncCheckImpl).
THEOREM CheckIsSound == PreflightSpec => []CheckedMatches
<1>1. CheckInv => CheckedMatches
  BY DEF CheckInv, CheckedMatches
<1> QED
  BY <1>1, CheckInvariant, PTL

\* The entries of a store are written once, and the chain id only next to the genesis
\* of its chain (preSyncCheckImpl).
THEOREM StoreOfOneChain == PreflightSpec => StoreKeepsChain
<1>1. CheckInv /\ [PreflightNext]_preflightVars => [KeepsChain]_preflightVars
  BY StepKeepsChain
<1> QED
  BY <1>1, CheckInvariant, PTL DEF PreflightSpec, StoreKeepsChain

HIDE DEF at, goto, finish, Inside

-----------------------------------------------------------------------------
\* The rows of the first n logs of s, from an index on.
Rows(base, s, n) == {<<base + j - 1, column(s[j])>> : j \in 1..n}

Call == [pc : {"idle", "index", "begin", "put"}, batch : Seq(Log), indx : Nat,
         rows : SUBSET (Nat \X Log)]

\* The committed rows are those of the logs reported as stored; one call at a time is
\* in a transaction, at the index after them, with the rows of a part of its batch.
EntryInv ==
    /\ kind \in StoreKinds
    /\ told \in Seq(Log)
    /\ rows = Rows(0, told, Len(told))
    /\ txn \in [Writer -> Call]
    /\ \A v, w \in Writer : txn[v] # NoCall /\ txn[w] # NoCall => v = w
    /\ \A w \in Writer :
         /\ txn[w].pc = "idle" <=> txn[w] = NoCall
         /\ txn[w] # NoCall => kind # "inmem"
         /\ txn[w].pc \in {"index", "begin"} => txn[w].rows = {}
         /\ txn[w].pc \in {"begin", "put"} => txn[w].indx = Len(told)
         /\ txn[w].pc = "put" =>
              \E n \in 0..Len(txn[w].batch) : txn[w].rows = Rows(txn[w].indx, txn[w].batch, n)

\* The columns hold a log.
LEMMA ColumnType == ASSUME kind \in StoreKinds, NEW l \in Log PROVE column(l) \in Log
<1>1. StoresAssumption!2
  BY StoresAssumption
<1>2. CASE kind = "inmem"
  BY <1>2 DEF column
<1>3. CASE kind = "bolt"
  BY <1>1, <1>3, Zenon DEF column, Log
<1>4. CASE kind = "postgres"
  BY <1>1, <1>4 DEF column, Log
<1> QED
  BY <1>2, <1>3, <1>4 DEF StoreKinds

LEMMA ColumnSame == ASSUME UNCHANGED kind, NEW l PROVE column(l)' = column(l)
BY DEF column

\* Rows depend on the kind of store only.
LEMMA RowsSame ==
    ASSUME UNCHANGED kind, NEW CONSTANT b, NEW CONSTANT s, NEW CONSTANT n
    PROVE  Rows(b, s, n)' = Rows(b, s, n)
BY ColumnSame DEF Rows

\* There are as many rows as logs.
LEMMA RowsCount ==
    ASSUME NEW b \in Nat, NEW s, NEW n \in Nat
    PROVE  IsFiniteSet(Rows(b, s, n)) /\ Cardinality(Rows(b, s, n)) = n
<1> DEFINE f == [j \in 1..n |-> <<b + j - 1, column(s[j])>>]
<1>1. f \in [1..n -> Rows(b, s, n)]
  BY DEF Rows
<1>2. \A r \in Rows(b, s, n) : \E j \in 1..n : f[j] = r
  BY DEF Rows
<1>3. ASSUME NEW i \in 1..n, NEW j \in 1..n, f[i] = f[j]
      PROVE  i = j
  BY <1>3
<1>4. ExistsBijection(1..n, Rows(b, s, n))
  <2> HIDE DEF f
  <2>1. f \in Bijection(1..n, Rows(b, s, n))
    BY <1>1, <1>2, <1>3 DEF Bijection, Injection, IsInjective, Surjection
  <2> QED
    BY <2>1 DEF ExistsBijection
<1> QED
  BY <1>4, FS_CountingElements, FS_NatBijection

\* One row more.
LEMMA RowsNext ==
    ASSUME NEW i \in Nat, NEW b, NEW n \in Nat
    PROVE  Rows(i, b, n) \cup {<<i + n, column(b[n + 1])>>} = Rows(i, b, n + 1)
<1>1. 1..(n + 1) = 1..n \cup {n + 1} /\ i + (n + 1) - 1 = i + n
  OBVIOUS
<1> QED
  BY <1>1 DEF Rows

\* The rows of a list that grows by a batch.
LEMMA RowsJoin ==
    ASSUME NEW s \in Seq(Log), NEW t \in Seq(Log)
    PROVE  Rows(0, s \o t, Len(s \o t)) = Rows(0, s, Len(s)) \cup Rows(Len(s), t, Len(t))
<1> DEFINE u == s \o t
           row(j) == <<0 + j - 1, column(u[j])>>
<1>1. /\ Len(u) = Len(s) + Len(t) /\ Len(s) \in Nat /\ Len(t) \in Nat
      /\ \A j \in 1..Len(s) : u[j] = s[j]
      /\ \A j \in 1..Len(t) : u[Len(s) + j] = t[j]
  OBVIOUS
<1> HIDE DEF u
<1>2. ASSUME NEW j \in 1..Len(u)
      PROVE  row(j) \in Rows(0, s, Len(s)) \cup Rows(Len(s), t, Len(t))
  <2>1. CASE j \in 1..Len(s)
    BY <1>1, <2>1 DEF Rows
  <2>2. CASE j \notin 1..Len(s)
    <3> DEFINE k == j - Len(s)
    <3>1. k \in 1..Len(t) /\ j = Len(s) + k
      BY <1>1, <2>2
    <3> HIDE DEF k
    <3>2. row(j) = <<Len(s) + k - 1, column(t[k])>>
      BY <1>1, <3>1
    <3> QED
      BY <3>1, <3>2 DEF Rows
  <2> QED
    BY <2>1, <2>2
<1>3. ASSUME NEW j \in 1..Len(s)
      PROVE  <<0 + j - 1, column(s[j])>> \in Rows(0, u, Len(u))
  <2>1. j \in 1..Len(u) /\ u[j] = s[j]
    BY <1>1
  <2> QED
    BY <2>1 DEF Rows
<1>4. ASSUME NEW j \in 1..Len(t)
      PROVE  <<Len(s) + j - 1, column(t[j])>> \in Rows(0, u, Len(u))
  <2> DEFINE k == Len(s) + j
  <2>1. k \in 1..Len(u) /\ u[k] = t[j] /\ 0 + k - 1 = Len(s) + j - 1
    BY <1>1
  <2> HIDE DEF k
  <2> QED
    BY <2>1 DEF Rows
<1> QED
  BY <1>2, <1>3, <1>4, Zenon DEF Rows, u

\* The rows below an index are those of the logs kept.
LEMMA RowsCut ==
    ASSUME NEW s \in Seq(Log), NEW i \in 0..Len(s)
    PROVE  /\ SubSeq(s, 1, i) \in Seq(Log)
           /\ {r \in Rows(0, s, Len(s)) : r[1] < i}
                  = Rows(0, SubSeq(s, 1, i), Len(SubSeq(s, 1, i)))
<1> DEFINE t == SubSeq(s, 1, i)
<1>1. /\ t \in Seq(Log) /\ Len(t) = i /\ Len(s) \in Nat /\ i \in Nat /\ i <= Len(s)
      /\ \A j \in 1..i : t[j] = s[j]
  OBVIOUS
<1> HIDE DEF t
<1>2. ASSUME NEW r \in Rows(0, s, Len(s)), r[1] < i
      PROVE  r \in Rows(0, t, Len(t))
  <2>1. PICK j \in 1..Len(s) : r = <<0 + j - 1, column(s[j])>>
    BY DEF Rows
  <2>2. j \in 1..i
    BY <1>1, <1>2, <2>1
  <2> QED
    BY <1>1, <2>1, <2>2 DEF Rows
<1>3. ASSUME NEW r \in Rows(0, t, Len(t))
      PROVE  r \in Rows(0, s, Len(s)) /\ r[1] < i
  <2>1. PICK j \in 1..i : r = <<0 + j - 1, column(t[j])>>
    BY <1>1 DEF Rows
  <2>2. j \in 1..Len(s) /\ t[j] = s[j]
    BY <1>1
  <2> QED
    BY <1>1, <2>1, <2>2 DEF Rows
<1> QED
  BY <1>1, <1>2, <1>3 DEF t

\* LastIndex is the number of logs.
LEMMA LastIndexIs ==
    ASSUME NEW s \in Seq(Log), rows = Rows(0, s, Len(s))
    PROVE  LastIndex = Len(s)
<1>1. Len(s) \in Nat
  OBVIOUS
<1>2. CASE Len(s) = 0
  BY <1>2 DEF LastIndex, Rows
<1>3. CASE Len(s) # 0
  <2> DEFINE I == {r[1] : r \in rows}
             top(i) == i \in I /\ \A r \in rows : r[1] <= i
  <2>1. \A r \in rows : r[1] \in 0..(Len(s) - 1)
    BY <1>1 DEF Rows
  <2>2. /\ <<0 + Len(s) - 1, column(s[Len(s)])>> \in rows
    BY <1>1, <1>3 DEF Rows
  <2>3. top(Len(s) - 1) /\ rows # {}
    BY <1>1, <1>3, <2>1, <2>2
  <2>4. \A i : top(i) => i = Len(s) - 1
    BY <1>1, <2>1, <2>3
  <2>5. (CHOOSE i \in I : \A r \in rows : r[1] <= i) = Len(s) - 1
    BY <2>3, <2>4
  <2>6. LastIndex = 1 + (Len(s) - 1)
    BY <2>3, <2>5, Zenon DEF LastIndex
  <2> QED
    BY <1>1, <2>6
<1> QED
  BY <1>2, <1>3

\* GetLog gives back the log of an index, but for a nil slice that comes back empty or
\* an empty one that comes back nil.
LEMMA GetLogIs ==
    ASSUME kind \in StoreKinds, NEW s \in Seq(Log), rows = Rows(0, s, Len(s)), NEW i \in 1..Len(s)
    PROVE  LET read == GetLog(i - 1)
           IN  /\ read.block = s[i].block
               /\ kind # "postgres" => read.index = s[i].index
               /\ Same(read.data, s[i].data) /\ Same(read.topics, s[i].topics)
<1> DEFINE row == CHOOSE r \in rows : r[1] = i - 1
           log == row[2]
<1>1. s[i] \in Log /\ column(s[i]) \in Log
  BY ColumnType
<1>2. log = column(s[i])
  <2>1. <<0 + i - 1, column(s[i])>> \in rows
    BY DEF Rows
  <2>2. \A r \in rows : r[1] = i - 1 => r = <<0 + i - 1, column(s[i])>>
    BY DEF Rows
  <2>3. 0 + i - 1 = i - 1
    OBVIOUS
  <2>4. row = <<0 + i - 1, column(s[i])>>
    BY <2>1, <2>2, <2>3
  <2> HIDE DEF row
  <2> QED
    BY <2>4
<1>3. GetLog(i - 1) = IF kind = "postgres"
                      THEN [log EXCEPT !.topics = IF @ = <<>> THEN NilSlice ELSE @]
                      ELSE log
  BY Zenon DEF GetLog
<1> HIDE DEF log
<1>4. CASE kind = "inmem"
  BY <1>1, <1>2, <1>3, <1>4 DEF column, Same, Log
<1>5. CASE kind = "bolt"
  BY <1>1, <1>2, <1>3, <1>5, Zenon DEF column, Same, Log
<1>6. CASE kind = "postgres"
  BY <1>1, <1>2, <1>3, <1>6, Zenon DEF column, Same, Log
<1> QED
  BY <1>4, <1>5, <1>6 DEF StoreKinds

LEMMA EntryInvHolds == ASSUME EntryInv, ~overlap PROVE EntryHolds
<1>1. kind \in StoreKinds /\ told \in Seq(Log) /\ rows = Rows(0, told, Len(told))
  BY DEF EntryInv
<1>2. LastIndex = Len(told)
  BY <1>1, LastIndexIs
<1>3. Cardinality(rows) = Len(told)
  BY <1>1, RowsCount
<1> QED
  BY <1>1, <1>2, <1>3, GetLogIs DEF EntryHolds

LEMMA EntryInit == StoresInit => EntryInv
<1> SUFFICES ASSUME StoresInit PROVE EntryInv
  OBVIOUS
<1>1. NoCall \in Call
  BY DEF NoCall, Call
<1>2. Rows(0, told, Len(told)) = {} /\ told \in Seq(Log)
  BY DEF Rows, StoresInit
<1> QED
  BY <1>1, <1>2 DEF StoresInit, EntryInv, NoCall

\* A call that opens, goes on or ends while the entry is left alone.
LEMMA CallStep ==
    ASSUME EntryInv, NEW w \in Writer, NEW c \in Call, UNCHANGED <<kind, rows, told>>,
           txn' = [txn EXCEPT ![w] = c],
           c.pc = "idle" <=> c = NoCall,
           c # NoCall => /\ kind # "inmem"
                         /\ \A v \in Writer \ {w} : txn[v] = NoCall,
           c.pc \in {"index", "begin"} => c.rows = {},
           c.pc \in {"begin", "put"} => c.indx = Len(told),
           c.pc = "put" => \E n \in 0..Len(c.batch) : c.rows = Rows(c.indx, c.batch, n)
    PROVE  EntryInv'
<1>1. \A b, s, n : Rows(b, s, n)' = Rows(b, s, n)
  BY RowsSame
<1>2. /\ txn \in [Writer -> Call] /\ txn'[w] = c
      /\ \A v \in Writer \ {w} : txn'[v] = txn[v]
  BY DEF EntryInv
<1>3. rows' = Rows(0, told, Len(told))'
  BY <1>1 DEF EntryInv
<1>4. txn' \in [Writer -> Call]
  BY <1>2
<1>5. \A v, u \in Writer : txn'[v] # NoCall /\ txn'[u] # NoCall => v = u
  BY <1>2, Zenon DEF EntryInv
<1>6. ASSUME NEW v \in Writer
      PROVE  /\ txn'[v].pc = "idle" <=> txn'[v] = NoCall
             /\ txn'[v] # NoCall => kind' # "inmem"
             /\ txn'[v].pc \in {"index", "begin"} => txn'[v].rows = {}
             /\ txn'[v].pc \in {"begin", "put"} => txn'[v].indx = Len(told')
             /\ txn'[v].pc = "put" =>
                  \E n \in 0..Len(txn'[v].batch) :
                      txn'[v].rows = Rows(txn[v].indx, txn[v].batch, n)'
  <2>1. CASE v = w
    BY <1>1, <1>2, <2>1, Zenon
  <2>2. CASE v # w
    BY <1>1, <1>2, <2>2, Zenon DEF EntryInv
  <2> QED
    BY <2>1, <2>2
<1> QED
  BY <1>3, <1>4, <1>5, <1>6 DEF EntryInv

\* What a call in a transaction is.
LEMMA OpenCall ==
    ASSUME EntryInv, NEW w \in Writer, txn[w] # NoCall
    PROVE  /\ kind # "inmem" /\ \A v \in Writer \ {w} : txn[v] = NoCall
           /\ txn[w] \in Call
           /\ txn[w] = [pc |-> txn[w].pc, batch |-> txn[w].batch, indx |-> txn[w].indx,
                        rows |-> txn[w].rows]
BY DEF EntryInv, Call

\* The fields of a call that are set one by one.
LEMMA CallFields ==
    ASSUME NEW t \in Call, NEW i, NEW r
    PROVE  /\ [t EXCEPT !.pc = "put"]
                  = [pc |-> "put", batch |-> t.batch, indx |-> t.indx, rows |-> t.rows]
           /\ [[t EXCEPT !.pc = "put"] EXCEPT !.indx = i]
                  = [pc |-> "put", batch |-> t.batch, indx |-> i, rows |-> t.rows]
           /\ t.pc = "put" => [t EXCEPT !.rows = r]
                  = [pc |-> "put", batch |-> t.batch, indx |-> t.indx, rows |-> r]
<1>1. PICK p, b, n, q : t = [pc |-> p, batch |-> b, indx |-> n, rows |-> q]
  BY DEF Call
<1>2. t.pc = p /\ t.batch = b /\ t.indx = n /\ t.rows = q
  BY <1>1
<1>3. [t EXCEPT !.pc = "put"]
          = [pc |-> "put", batch |-> b, indx |-> n, rows |-> q]
  BY <1>1
<1>4. [[t EXCEPT !.pc = "put"] EXCEPT !.indx = i]
          = [pc |-> "put", batch |-> b, indx |-> i, rows |-> q]
  <2>1. [[pc |-> "put", batch |-> b, indx |-> n, rows |-> q] EXCEPT !.indx = i]
            = [pc |-> "put", batch |-> b, indx |-> i, rows |-> q]
    OBVIOUS
  <2> QED
    BY <1>3, <2>1, Zenon
<1>5. [t EXCEPT !.rows = r]
          = [pc |-> p, batch |-> b, indx |-> n, rows |-> r]
  BY <1>1
<1> QED
  BY <1>2, <1>3, <1>4, <1>5, Zenon

\* A call that writes its rows.
LEMMA PutCall ==
    ASSUME NEW b \in Seq(Log), NEW i \in Nat, NEW r \in SUBSET (Nat \X Log)
    PROVE  LET c == [pc |-> "put", batch |-> b, indx |-> i, rows |-> r]
           IN  /\ c \in Call /\ c # NoCall
               /\ c.pc = "put" /\ c.batch = b /\ c.indx = i /\ c.rows = r
BY DEF Call, NoCall

\* The entry changes as a whole, with every call over.
LEMMA EntryChange ==
    ASSUME EntryInv, UNCHANGED kind, told' \in Seq(Log), rows' = Rows(0, told', Len(told')),
           txn' = [v \in Writer |-> NoCall]
    PROVE  EntryInv'
<1>1. \A b, s, n : Rows(b, s, n)' = Rows(b, s, n)
  BY RowsSame
<1>2. NoCall \in Call /\ NoCall.pc = "idle"
  BY DEF NoCall, Call
<1>3. rows' = Rows(0, told, Len(told))'
  BY <1>1
<1> QED
  BY <1>2, <1>3 DEF EntryInv

\* No call is in a transaction: between calls, and in memory always.
LEMMA AllIdle ==
    ASSUME EntryInv, \A v \in Writer : txn[v] = NoCall
    PROVE  txn = [v \in Writer |-> NoCall]
BY DEF EntryInv

LEMMA ToldIs ==
    ASSUME EntryInv
    PROVE  /\ told \in Seq(Log) /\ rows = Rows(0, told, Len(told))
           /\ Len(told) \in Nat /\ LastIndex = Len(told)
<1>1. told \in Seq(Log) /\ rows = Rows(0, told, Len(told))
  BY Zenon DEF EntryInv
<1>2. Len(told) \in Nat
  BY <1>1
<1> QED
  BY <1>1, <1>2, LastIndexIs, Zenon

LEMMA storeInmemStep ==
    ASSUME EntryInv, NEW w \in Writer, NEW batch \in Batch, storeInmem(w, batch)
    PROVE  EntryInv'
<1>1. /\ told \in Seq(Log) /\ batch \in Seq(Log) /\ rows = Rows(0, told, Len(told))
      /\ LastIndex = Len(told) /\ kind = "inmem"
  BY StoresAssumption, ToldIs, Zenon DEF storeInmem
<1>2. rows' = rows \cup Rows(Len(told), batch, Len(batch))
  <2>1. DOMAIN batch = 1..Len(batch)
    BY <1>1
  <2> QED
    BY <1>1, <2>1, Zenon DEF storeInmem, Rows
<1>3. told' = told \o batch /\ UNCHANGED <<kind, txn>>
  BY DEF storeInmem
<1>4. rows' = Rows(0, told', Len(told')) /\ told' \in Seq(Log)
  <2>1. told \o batch \in Seq(Log)
    BY <1>1
  <2> QED
    BY <1>1, <1>2, <1>3, <2>1, RowsJoin, Zenon
<1>5. txn = [v \in Writer |-> NoCall]
  BY <1>1, AllIdle DEF EntryInv
<1> QED
  BY <1>3, <1>4, <1>5, EntryChange, Zenon

LEMMA beginStep ==
    ASSUME EntryInv, NEW w \in Writer, NEW batch \in Batch,
           beginBolt(w, batch) \/ indexPostgres(w, batch), ~others(w)
    PROVE  EntryInv'
<1> DEFINE c == [NoCall EXCEPT !.pc = "index", !.batch = batch]
           d == [pc |-> "begin", batch |-> batch, indx |-> LastIndex, rows |-> {}]
<1>1. /\ told \in Seq(Log) /\ batch \in Seq(Log) /\ LastIndex = Len(told) /\ Len(told) \in Nat
  BY StoresAssumption, ToldIs, Zenon
<1>2. c \in Call /\ c.pc = "index" /\ c.rows = {} /\ c # NoCall
  BY <1>1, Zenon DEF NoCall, Call
<1>3. d \in Call /\ d.pc = "begin" /\ d.rows = {} /\ d.indx = Len(told) /\ d # NoCall
  BY <1>1 DEF NoCall, Call
<1>4. CASE beginBolt(w, batch)
  <2>1. /\ kind # "inmem" /\ \A v \in Writer : txn[v] = NoCall
        /\ txn' = [txn EXCEPT ![w] = c] /\ UNCHANGED <<kind, rows, told>>
    BY <1>4 DEF beginBolt, others
  <2> HIDE DEF c
  <2> QED
    BY <1>2, <2>1, CallStep, Zenon
<1>5. CASE indexPostgres(w, batch)
  <2>1. /\ kind # "inmem" /\ \A v \in Writer : txn[v] = NoCall
        /\ txn' = [txn EXCEPT ![w] = d] /\ UNCHANGED <<kind, rows, told>>
    BY <1>5 DEF indexPostgres, others
  <2> HIDE DEF d
  <2> QED
    BY <1>3, <2>1, CallStep, Zenon
<1> QED
  BY <1>4, <1>5

LEMMA indexStep ==
    ASSUME EntryInv, NEW w \in Writer, indexBolt(w) \/ beginPostgres(w)
    PROVE  EntryInv'
<1> DEFINE t == txn[w]
           c == [pc |-> "put", batch |-> t.batch, indx |-> Len(told), rows |-> {}]
<1>1. /\ told \in Seq(Log) /\ LastIndex = Len(told) /\ Len(told) \in Nat
      /\ txn \in [Writer -> Call]
  BY ToldIs, Zenon DEF EntryInv
<1>2. t # NoCall /\ t.pc \in {"index", "begin"}
  BY DEF indexBolt, beginPostgres, NoCall
<1>3. /\ t \in Call /\ t.rows = {} /\ kind # "inmem"
      /\ \A v \in Writer \ {w} : txn[v] = NoCall
      /\ t = [pc |-> t.pc, batch |-> t.batch, indx |-> t.indx, rows |-> t.rows]
  BY <1>2, OpenCall DEF EntryInv
<1>4. txn' = [txn EXCEPT ![w] = c] /\ UNCHANGED <<kind, rows, told>>
  <2>1. CASE indexBolt(w)
    <3> DEFINE opened == [t EXCEPT !.pc = "put"]
    <3>1. [opened EXCEPT !.indx = LastIndex] = c
      BY <1>1, <1>3, CallFields, Zenon
    <3> HIDE DEF opened
    <3>2. [txn EXCEPT ![w] = opened][w] = opened
      BY <1>1
    <3>3. [[txn EXCEPT ![w] = opened] EXCEPT ![w] = c] = [txn EXCEPT ![w] = c]
      BY <1>1, Zenon
    <3> QED
      BY <2>1, <3>1, <3>2, <3>3, Zenon DEF indexBolt, opened
  <2>2. CASE beginPostgres(w)
    <3>1. t.indx = Len(told)
      BY <1>1, <2>2 DEF EntryInv, beginPostgres
    <3>2. [t EXCEPT !.pc = "put"] = c
      BY <1>3, <3>1, CallFields, Zenon
    <3> QED
      BY <2>2, <3>2, Zenon DEF beginPostgres
  <2> QED
    BY <2>1, <2>2
<1>5. /\ c \in Call /\ c.pc = "put" /\ c # NoCall /\ c.rows = {} /\ c.indx = Len(told)
      /\ c.batch \in Seq(Log) /\ Len(c.batch) \in Nat
  <2>1. t.batch \in Seq(Log) /\ Len(t.batch) \in Nat /\ Len(told) \in Nat
    BY <1>1, <1>3 DEF Call
  <2>2. t.rows = {} /\ {} \in SUBSET (Nat \X Log)
    BY <1>3, Zenon
  <2> QED
    <3>1. c \in Call /\ c # NoCall
      BY <2>1, <2>2, PutCall, ZenonT(60)
    <3> QED
      BY <2>1, <3>1, Zenon
<1> HIDE DEF c
<1>6. c.rows = Rows(c.indx, c.batch, 0) /\ 0 \in 0..Len(c.batch)
  BY <1>5 DEF Rows
<1> QED
  BY <1>3, <1>4, <1>5, <1>6, CallStep, Zenon

LEMMA putRowStep ==
    ASSUME EntryInv, NEW w \in Writer, putRow(w)
    PROVE  EntryInv'
<1> DEFINE t == txn[w]
           m == Cardinality(t.rows)
           row == <<t.indx + m, column(t.batch[m + 1])>>
           c == [pc |-> "put", batch |-> t.batch, indx |-> t.indx, rows |-> t.rows \cup {row}]
<1>1. t # NoCall /\ t.pc = "put" /\ m < Len(t.batch)
  BY DEF putRow, NoCall
<1>2. /\ t \in Call /\ kind # "inmem" /\ kind \in StoreKinds /\ txn \in [Writer -> Call]
      /\ \A v \in Writer \ {w} : txn[v] = NoCall
      /\ t = [pc |-> t.pc, batch |-> t.batch, indx |-> t.indx, rows |-> t.rows]
      /\ t.indx = Len(told)
  BY <1>1, OpenCall DEF EntryInv
<1>3. PICK n \in 0..Len(t.batch) : t.rows = Rows(t.indx, t.batch, n)
  BY <1>1 DEF EntryInv
<1>4. t.batch \in Seq(Log) /\ Len(t.batch) \in Nat /\ t.indx \in Nat /\ n \in Nat
  BY <1>2, <1>3 DEF Call
<1>5. m = n
  BY <1>3, <1>4, RowsCount
<1>6. n + 1 \in 1..Len(t.batch) /\ t.batch[n + 1] \in Log /\ t.indx + n \in Nat
  BY <1>1, <1>4, <1>5
<1>7. row \in Nat \X Log
  BY <1>2, <1>5, <1>6, ColumnType
<1>8. txn' = [txn EXCEPT ![w] = c] /\ UNCHANGED <<kind, rows, told>>
  <2>1. [t EXCEPT !.rows = t.rows \cup {row}] = c
    BY <1>1, <1>2, CallFields, Zenon
  <2> QED
    BY <2>1, Zenon DEF putRow
<1>9. t.rows \cup {row} = Rows(t.indx, t.batch, n + 1)
  <2>1. row = <<t.indx + n, column(t.batch[n + 1])>>
    BY <1>5, Zenon
  <2>2. Rows(t.indx, t.batch, n) \cup {<<t.indx + n, column(t.batch[n + 1])>>}
            = Rows(t.indx, t.batch, n + 1)
    BY <1>4, RowsNext, Zenon
  <2> HIDE DEF row
  <2> QED
    BY <1>3, <2>1, <2>2, Zenon
<1>10. /\ c \in Call /\ c.pc = "put" /\ c # NoCall /\ c.indx = Len(told)
       /\ c.batch = t.batch /\ c.indx = t.indx /\ c.rows = t.rows \cup {row}
  <2>1. t.batch \in Seq(Log) /\ t.indx \in Nat /\ t.rows \cup {row} \in SUBSET (Nat \X Log)
    BY <1>2, <1>4, <1>7, Zenon DEF Call
  <2> DEFINE r == t.rows \cup {row}
             b == t.batch
             i == t.indx
  <2> HIDE DEF row, r, b, i
  <2>2. b \in Seq(Log) /\ i \in Nat /\ r \in SUBSET (Nat \X Log) /\ i = Len(told)
    BY <1>2, <2>1, Zenon DEF r, b, i
  <2>3. LET p == [pc |-> "put", batch |-> b, indx |-> i, rows |-> r]
        IN  /\ p \in Call /\ p # NoCall
            /\ p.pc = "put" /\ p.batch = b /\ p.indx = i /\ p.rows = r
    BY <2>2, PutCall, Zenon
  <2> QED
    BY <2>2, <2>3, Zenon DEF r, b, i
<1> HIDE DEF c, row
<1>11. n + 1 \in 0..Len(c.batch) /\ c.rows = Rows(c.indx, c.batch, n + 1)
  BY <1>4, <1>6, <1>9, <1>10
<1> QED
  BY <1>2, <1>8, <1>10, <1>11, CallStep, Zenon

LEMMA commitTxStep ==
    ASSUME EntryInv, NEW w \in Writer, commitTx(w)
    PROVE  EntryInv'
<1> DEFINE t == txn[w]
<1>1. /\ t # NoCall /\ t.pc = "put" /\ Cardinality(t.rows) = Len(t.batch)
      /\ rows' = rows \cup t.rows /\ told' = told \o t.batch /\ UNCHANGED kind
      /\ txn' = [txn EXCEPT ![w] = NoCall]
  <2>1. /\ t.pc = "put" /\ Cardinality(t.rows) = Len(t.batch)
        /\ rows' = rows \cup t.rows /\ told' = told \o t.batch /\ kind' = kind
        /\ txn' = [txn EXCEPT ![w] = NoCall]
    BY Zenon DEF commitTx, endCall
  <2> HIDE DEF t
  <2>2. NoCall.pc = "idle"
    BY Zenon DEF NoCall
  <2>3. t # NoCall
    BY <2>1, <2>2
  <2> QED
    BY <2>1, <2>3, Zenon
<1>2. /\ t \in Call /\ txn \in [Writer -> Call] /\ \A v \in Writer \ {w} : txn[v] = NoCall
      /\ t.indx = Len(told) /\ told \in Seq(Log) /\ rows = Rows(0, told, Len(told))
  BY <1>1, OpenCall, Zenon DEF EntryInv
<1>3. PICK n \in 0..Len(t.batch) : t.rows = Rows(t.indx, t.batch, n)
  BY <1>1 DEF EntryInv
<1>4. t.batch \in Seq(Log) /\ Len(t.batch) \in Nat /\ t.indx \in Nat /\ n \in Nat
  <2>1. t.batch \in Seq(Log) /\ t.indx \in Nat
    BY <1>2, Zenon DEF Call
  <2> HIDE DEF t
  <2> QED
    BY <1>3, <2>1
<1>5. n = Len(t.batch)
  <2>1. Cardinality(Rows(t.indx, t.batch, n)) = n
    BY <1>4, RowsCount, Zenon
  <2> HIDE DEF t
  <2> QED
    BY <1>1, <1>3, <2>1, Zenon
<1>6. told' \in Seq(Log) /\ rows' = Rows(0, told', Len(told'))
  <2> DEFINE b == t.batch
  <2>1. b \in Seq(Log) /\ rows' = rows \cup Rows(Len(told), b, Len(b)) /\ told' = told \o b
    BY <1>1, <1>2, <1>3, <1>4, <1>5, Zenon
  <2> HIDE DEF b
  <2>2. told \o b \in Seq(Log)
    BY <1>2, <2>1
  <2> QED
    BY <1>2, <2>1, <2>2, RowsJoin, Zenon
<1>7. txn' = [v \in Writer |-> NoCall]
  BY <1>1, <1>2, Zenon
<1> QED
  BY <1>1, <1>6, <1>7, EntryChange, Zenon

LEMMA failTxStep ==
    ASSUME EntryInv, NEW w \in Writer, failTx(w)
    PROVE  EntryInv'
<1>1. NoCall \in Call /\ NoCall.pc = "idle"
  BY DEF NoCall, Call
<1> QED
  BY <1>1, CallStep, Zenon DEF failTx, endCall

LEMMA RemoveLogsStep ==
    ASSUME EntryInv, NEW w \in Writer, NEW i \in 0..MaxRows, RemoveLogs(w, i), ~others(w)
    PROVE  EntryInv'
<1>1. /\ told \in Seq(Log) /\ rows = Rows(0, told, Len(told)) /\ LastIndex = Len(told)
      /\ Len(told) \in Nat
  BY ToldIs, Zenon
<1>2. i \in 0..Len(told)
  BY <1>1, StoresAssumption DEF RemoveLogs
<1>3. told' = SubSeq(told, 1, i)
  <2>1. CASE i < Len(told)
    BY <2>1 DEF RemoveLogs
  <2>2. CASE ~(i < Len(told))
    <3>1. i = Len(told) /\ told' = told
      BY <1>1, <1>2, <2>2 DEF RemoveLogs
    <3> QED
      BY <1>1, <3>1, WholeSubSeq
  <2> QED
    BY <2>1, <2>2
<1>4. told' \in Seq(Log) /\ rows' = Rows(0, told', Len(told')) /\ UNCHANGED <<kind, txn>>
  BY <1>1, <1>2, <1>3, RowsCut DEF RemoveLogs
<1>5. txn = [v \in Writer |-> NoCall]
  BY AllIdle DEF EntryInv, RemoveLogs, others
<1> QED
  BY <1>4, <1>5, EntryChange

LEMMA stopStep ==
    ASSUME EntryInv, stop
    PROVE  EntryInv'
<1>1. told' \in Seq(Log) /\ rows' = Rows(0, told', Len(told'))
  <2>1. CASE kind = "inmem"
    BY <2>1 DEF stop, Rows
  <2>2. CASE kind # "inmem"
    BY <2>2 DEF stop, EntryInv
  <2> QED
    BY <2>1, <2>2
<1> QED
  BY <1>1, EntryChange DEF stop

\* The invariant of the stores: the entry is sound as long as no two calls on a
\* PostgreSQL entry have overlapped.
StoresInv ==
    /\ overlap \in BOOLEAN
    /\ overlap => kind = "postgres"
    /\ ~overlap => EntryInv

\* Calls overlap on a PostgreSQL entry only: in memory none is seen half done, and
\* bolt's wait for each other.
LEMMA OverlapStep ==
    ASSUME StoresInv, [StoresNext]_storesVars
    PROVE  /\ overlap' \in BOOLEAN
           /\ overlap => overlap'
           /\ overlap' => kind' = "postgres"
<1>1. kind' = kind
  BY DEF StoresNext, storesVars, storeInmem, beginBolt, indexBolt, indexPostgres, beginPostgres,
         putRow, commitTx, failTx, RemoveLogs, stop
<1>2. \/ overlap' = overlap
      \/ \E w \in Writer :
           /\ overlap' = (overlap \/ others(w)) /\ ~overlap
           /\ (kind = "postgres" \/ \E i \in 0..MaxRows : RemoveLogs(w, i))
  BY DEF StoresNext, storesVars, storeInmem, beginBolt, indexBolt, indexPostgres, beginPostgres,
         putRow, commitTx, failTx, RemoveLogs, stop
<1>3. ASSUME NEW w \in Writer, NEW i \in 0..MaxRows, RemoveLogs(w, i), ~overlap, others(w)
      PROVE  kind = "postgres"
  BY <1>3 DEF RemoveLogs, others, StoresInv, EntryInv, StoreKinds
<1>4. CASE overlap' = overlap
  BY <1>1, <1>4, Zenon DEF StoresInv
<1>5. ASSUME NEW w \in Writer, overlap' = (overlap \/ others(w)), ~overlap,
             kind = "postgres" \/ \E i \in 0..MaxRows : RemoveLogs(w, i)
      PROVE  overlap' \in BOOLEAN /\ (overlap' => kind = "postgres")
  <2>1. CASE others(w)
    <3>1. overlap' = TRUE
      BY <1>5, <2>1, Zenon
    <3> QED
      BY <1>3, <1>5, <2>1, <3>1, Zenon
  <2>2. CASE ~others(w)
    BY <1>5, <2>2, Zenon
  <2> QED
    BY <2>1, <2>2, Zenon
<1> QED
  BY <1>1, <1>2, <1>4, <1>5, Zenon

LEMMA EntryStep ==
    ASSUME EntryInv, [StoresNext]_storesVars, ~overlap, overlap' = FALSE
    PROVE  EntryInv'
<1>1. CASE UNCHANGED storesVars
  <2>1. kind' = kind /\ rows' = rows /\ told' = told /\ txn' = txn
    BY <1>1, Zenon DEF storesVars
  <2>2. \A b, s, n : Rows(b, s, n)' = Rows(b, s, n)
    BY <2>1, RowsSame
  <2> QED
    BY <2>1, <2>2, Zenon DEF EntryInv
<1>2. ASSUME NEW w \in Writer, NEW batch \in Batch, beginBolt(w, batch) \/ indexPostgres(w, batch)
      PROVE  ~others(w)
  BY <1>2, Zenon DEF beginBolt, indexPostgres
<1>3. ASSUME NEW w \in Writer, NEW i \in 0..MaxRows, RemoveLogs(w, i)
      PROVE  ~others(w)
  BY <1>3, Zenon DEF RemoveLogs
<1>4. CASE StoresNext
  BY <1>2, <1>3, <1>4, storeInmemStep, beginStep, indexStep, putRowStep, commitTxStep, failTxStep,
     RemoveLogsStep, stopStep DEF StoresNext
<1> QED
  BY <1>1, <1>4, Zenon

LEMMA StoresStep ==
    ASSUME StoresInv, [StoresNext]_storesVars
    PROVE  StoresInv'
<1>1. ~overlap' => overlap' = FALSE /\ ~overlap
  BY OverlapStep, Zenon DEF StoresInv
<1>2. ~overlap' => EntryInv'
  BY <1>1, EntryStep, Zenon DEF StoresInv
<1> QED
  BY <1>2, OverlapStep, Zenon DEF StoresInv

\* For any writers and batches, and failures and stops between any two statements, an
\* entry of each of the three stores holds exactly the logs of the StoreLogs calls that
\* returned nil, less those removed since: calls may run at the same time, except that
\* for PostgreSQL it holds until two of them have overlapped.
THEOREM EntryExact == StoresSpec => []EntryHolds
<1>1. StoresInit => StoresInv
  BY EntryInit, Zenon DEF StoresInit, StoresInv
<1>2. StoresInv => EntryHolds
  BY EntryInvHolds, Zenon DEF StoresInv, EntryHolds
<1> QED
  BY <1>1, <1>2, StoresStep, PTL DEF StoresSpec
=============================================================================
