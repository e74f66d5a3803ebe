---------------------------- MODULE Evm_lemmas -----------------------------
(***************************************************************************)
(* What the state database of Evm does, for the proofs of Evm_proof: the   *)
(* types, what the invariants say of one state, and for every method of    *)
(* StateDB what it leaves of them.                                         *)
(***************************************************************************)
EXTENDS Evm, Sums_lemmas

-----------------------------------------------------------------------------
\* Types.  A write set gives some keys values that their kind allows.
AnyValue == RemoteAccount \cup {Gone} \cup Hash
WriteSets ==
    {c \in UNION {[K -> AnyValue] : K \in SUBSET AllKeys} :
        \A key \in DOMAIN c : c[key] \in ValuesOf(key)}
SnapshotRecord == [changes : WriteSets, suicided : SUBSET Addr, logsSize : Nat, refund : Nat]
DbRecord ==
    [memdb : WriteSets, overlay : WriteSets, suicided : SUBSET Addr, logs : Seq(Addr),
     refund : Nat, snapshots : Seq(SnapshotRecord), panic : BOOLEAN]
ViewRecord ==
    [data : [AllKeys -> AnyValue], suicided : SUBSET Addr, logs : Seq(Addr), refund : Nat]
FrameRecord ==
    [kind : Kinds \cup {"CREATE"}, self : Addr, gas : Nat, snap : Nat, setReadOnly : BOOLEAN,
     entry : ViewRecord]

\* The logs that a snapshot counts are still there, and a later one counts no fewer.
LogsKept(d) ==
    \A j \in 1..Len(d.snapshots) :
       /\ d.snapshots[j].logsSize <= Len(d.logs)
       /\ \A i \in 1..j : d.snapshots[i].logsSize <= d.snapshots[j].logsSize

\* What RevertToSnapshot(d, j) would show.
SavedView(d, j) ==
    LET sn == d.snapshots[j]
    IN  [data |-> [key \in AllKeys |->
                     IF key \in DOMAIN sn.changes THEN sn.changes[key] ELSE OverlayGet(d, key)],
         suicided |-> sn.suicided, logs |-> SubSeq(d.logs, 1, sn.logsSize), refund |-> sn.refund]

\* RefundCoversClears and DeployedCodeStays of a state v over the write set below d.
Cleared(v, d) ==
    {key \in Addr \X Slot : /\ GetCommittedState(d, key[1], key[2]) # 0
                            /\ asHash(v.data[stateKey(key[1], key[2])]) = 0}
Covered(v, d) ==
    v.refund >= SelfdestructRefundGas * Cardinality(v.suicided)
              + SstoreClearsRefund * Cardinality(Cleared(v, d))
CodeKept(v, d) ==
    \A a \in Addr : OverlayGet(d, accountKey(a)).code => v.data[accountKey(a)].code

\* What the accounts hold in a state v, and in the write set below d.
held(v) == SumFunctionOnSet([a \in Addr |-> v.data[accountKey(a)].balance], Addr)
below(d) == SumFunctionOnSet([a \in Addr |-> OverlayGet(d, accountKey(a)).balance], Addr)
Funded(v, d) ==
    /\ below(d) \in FirstSupplies /\ held(v) <= below(d)
    /\ v.suicided = {} => held(v) = below(d)

Good(v, d) == Covered(v, d) /\ CodeKept(v, d) /\ Funded(v, d)

Sound(d) == d \in DbRecord /\ LogsKept(d) /\ Good(View(d), d)
-----------------------------------------------------------------------------
\* The gas of the open frames.
LEMMA FrameGas ==
    ASSUME NEW fs \in Seq(FrameRecord)
    PROVE  /\ DOMAIN fs = 1..Len(fs) /\ Len(fs) \in Nat /\ IsFiniteSet(1..Len(fs))
           /\ \A i \in 1..Len(fs) : fs[i].gas \in Nat
           /\ [i \in DOMAIN fs |-> fs[i].gas] \in [1..Len(fs) -> Int]
           /\ heldGas(fs) \in Int
<1>1. DOMAIN fs = 1..Len(fs) /\ Len(fs) \in Nat
  OBVIOUS
<1>2. IsFiniteSet(1..Len(fs))
  BY <1>1, FS_Interval
<1>3. \A i \in 1..Len(fs) : fs[i] \in FrameRecord
  OBVIOUS
<1>4. \A i \in 1..Len(fs) : fs[i].gas \in Nat
  BY <1>3 DEF FrameRecord
<1>5. [i \in DOMAIN fs |-> fs[i].gas] \in [1..Len(fs) -> Int]
  BY <1>1, <1>4
<1>6. heldGas(fs) \in Int
  BY <1>1, <1>2, <1>5, SumType, Zenon DEF heldGas
<1> QED
  BY <1>1, <1>2, <1>4, <1>5, <1>6

LEMMA NoFramesNoGas == heldGas(<<>>) = 0
<1>1. DOMAIN <<>> = {} /\ IsFiniteSet({}) /\ [i \in {} |-> <<>>[i].gas] \in [{} -> Int]
  BY FS_EmptySet
<1>2. PartialSums([i \in {} |-> <<>>[i].gas], {})[{}] = 0
  BY <1>1, SumsAre, Zenon
<1> QED
  BY <1>1, <1>2, SumIs, Zenon DEF heldGas

LEMMA GasOfInner ==
    ASSUME NEW fs \in Seq(FrameRecord), NEW gs \in Seq(FrameRecord), Len(fs) = Len(gs) + 1,
           \A i \in 1..Len(gs) : gs[i].gas = fs[i].gas
    PROVE  heldGas(fs) = fs[Len(fs)].gas + heldGas(gs)
<1> DEFINE f == [i \in DOMAIN fs |-> fs[i].gas]
           g == [i \in DOMAIN gs |-> gs[i].gas]
           n == Len(fs)
           S == 1..n
<1>1. /\ DOMAIN fs = 1..Len(fs) /\ DOMAIN gs = 1..Len(gs) /\ Len(gs) \in Nat
      /\ IsFiniteSet(S) /\ f \in [S -> Int] /\ g \in [1..Len(gs) -> Int]
  BY FrameGas, Zenon
<1>2. n \in S /\ 1..Len(gs) = S \ {n}
  BY <1>1
<1>3. \A i \in S \ {n} : f[i] = g[i]
  BY <1>1, <1>2
<1>4. f[n] = fs[n].gas
  BY <1>1, <1>2
<1> HIDE DEF f, g, S, n
<1>5. SumFunctionOnSet(f, S) = f[n] + SumFunctionOnSet(g, S \ {n})
  <2>1. IsFiniteSet(S) /\ f \in [S -> Int] /\ g \in [S \ {n} -> Int] /\ n \in S
    BY <1>1, <1>2, Zenon
  <2> QED
    BY <1>3, <2>1, SumDrop, ZenonT(60)
<1> QED
  BY <1>1, <1>2, <1>4, <1>5, Zenon DEF heldGas, f, g, S, n

LEMMA GasSet ==
    ASSUME NEW fs \in Seq(FrameRecord), NEW n \in 1..Len(fs), NEW x \in Nat
    PROVE  LET gs == [fs EXCEPT ![n].gas = x]
           IN  gs \in Seq(FrameRecord) /\ heldGas(gs) = heldGas(fs) - fs[n].gas + x
<1> DEFINE f == [fs[n] EXCEPT !.gas = x]
           gs == [fs EXCEPT ![n] = f]
           F == [i \in DOMAIN fs |-> fs[i].gas]
           G == [i \in DOMAIN gs |-> gs[i].gas]
<1>1. fs[n] \in FrameRecord
  OBVIOUS
<1>2. f \in FrameRecord /\ f.gas = x
  BY <1>1, Zenon DEF FrameRecord
<1>3. [fs EXCEPT ![n].gas = x] = gs
  OBVIOUS
<1> HIDE DEF f
<1>4. /\ gs \in Seq(FrameRecord) /\ Len(gs) = Len(fs) /\ gs[n] = f
      /\ \A i \in 1..Len(fs) : i # n => gs[i] = fs[i]
  BY <1>2
<1> HIDE DEF gs
<1>5. /\ DOMAIN fs = 1..Len(fs) /\ DOMAIN gs = 1..Len(fs) /\ IsFiniteSet(1..Len(fs))
      /\ F \in [1..Len(fs) -> Int] /\ G \in [1..Len(fs) -> Int]
  BY <1>4, FrameGas, Zenon
<1>6. F[n] = fs[n].gas /\ G[n] = x /\ \A i \in (1..Len(fs)) \ {n} : F[i] = G[i]
  BY <1>2, <1>4, <1>5
<1> HIDE DEF F, G
<1>7. SumFunctionOnSet(G, 1..Len(fs)) = SumFunctionOnSet(F, 1..Len(fs)) - F[n] + G[n]
  <2> DEFINE S == 1..Len(fs)
  <2>1. IsFiniteSet(S) /\ F \in [S -> Int] /\ G \in [S -> Int] /\ n \in S
    BY <1>5, Zenon
  <2>2. \A i \in S \ {n} : F[i] = G[i]
    BY <1>6, Zenon
  <2> HIDE DEF S
  <2>3. SumFunctionOnSet(G, S) = SumFunctionOnSet(F, S) - F[n] + G[n]
    BY <2>1, <2>2, SumExcept, ZenonT(60)
  <2> QED
    BY <2>3, Zenon DEF S
<1>8. heldGas(gs) = heldGas(fs) - fs[n].gas + x
  BY <1>5, <1>6, <1>7, Zenon DEF heldGas, F, G
<1> QED
  BY <1>3, <1>4, <1>8, Zenon

LEMMA ModLess ==
    ASSUME NEW x \in Nat
    PROVE  x % Word \in Nat /\ x % Word <= x
<1>1. Word \in Nat \ {0}
  BY EvmAssumption
<1> DEFINE w == Word
           q == x \div w
           r == x % w
<1>2. q \in Int /\ r \in 0..(w - 1) /\ x = w * q + r
  BY <1>1
<1> HIDE DEF q, r, w
<1>3. q >= 0
  <2>1. SUFFICES ASSUME q <= -1 PROVE FALSE
    BY <1>2
  <2>2. w * q <= -w
    BY <1>1, <1>2, <2>1 DEF w
  <2> QED
    BY <1>1, <1>2, <2>2 DEF w
<1>4. w * q >= 0 /\ w * q \in Int
  BY <1>1, <1>2, <1>3 DEF w
<1>5. r \in Nat /\ r <= x
  BY <1>1, <1>2, <1>4 DEF w
<1> QED
  BY <1>5 DEF r, w

\* The frames together hold no more gas than before.
GasFalls == heldGas(frames') <= heldGas(frames)

LEMMA TopGas ==
    ASSUME frames \in Seq(FrameRecord), frames # <<>>
    PROVE  Len(frames) \in Nat /\ Len(frames) \in 1..Len(frames) /\ top.gas \in Nat
<1>1. Len(frames) \in Nat /\ Len(frames) \in 1..Len(frames)
  OBVIOUS
<1> QED
  BY <1>1, FrameGas, Zenon DEF top

LEMMA ExitGas ==
    ASSUME frames \in Seq(FrameRecord), frames # <<>>, NEW d, NEW how, NEW g \in Nat,
           g <= top.gas, Exit(how, d, g)
    PROVE  GasFalls
<1> DEFINE n == Len(frames)
           t == SubSeq(frames, 1, n - 1)
<1>1. n \in Nat /\ n \in 1..n /\ top.gas \in Nat /\ heldGas(frames) \in Int
  BY TopGas, FrameGas, Zenon
<1>2. n - 1 \in Nat /\ n - 1 <= Len(frames)
  BY <1>1
<1>3. t \in Seq(FrameRecord) /\ Len(t) = n - 1 /\ \A i \in 1..(n - 1) : t[i] = frames[i]
  <2> DEFINE m == n - 1
  <2>1. m \in Nat /\ m <= Len(frames)
    BY <1>2
  <2> HIDE DEF m
  <2>2. SubSeq(frames, 1, m) = [i \in 1..m |-> frames[i]] /\ Len(SubSeq(frames, 1, m)) = m
    BY <2>1
  <2>3. SubSeq(frames, 1, m) \in Seq(FrameRecord)
    BY <2>1
  <2> QED
    BY <2>2, <2>3 DEF m
<1>4. heldGas(frames) = top.gas + heldGas(t) /\ heldGas(t) \in Int
  <2>1. n = Len(t) + 1 /\ \A i \in 1..Len(t) : t[i].gas = frames[i].gas
    BY <1>1, <1>3
  <2> HIDE DEF t
  <2> QED
    BY <1>3, <2>1, GasOfInner, FrameGas, Zenon DEF top
<1> HIDE DEF t
<1>5. CASE n = 1
  <2>1. t = <<>> /\ frames' = <<>>
    BY <1>3, <1>5 DEF Exit
  <2> QED
    BY <1>1, <1>4, <2>1, NoFramesNoGas DEF GasFalls
<1>6. CASE n # 1
  <2> DEFINE was == t[n - 1].gas
             x == (was + gasLeft(g, how)) % Word
  <2>1. n - 1 \in 1..Len(t)
    BY <1>1, <1>3, <1>6
  <2>2. frames' = [t EXCEPT ![n - 1].gas = x]
    BY <1>6, Zenon DEF Exit, t
  <2>3. was \in Nat /\ gasLeft(g, how) \in Nat /\ gasLeft(g, how) <= g
    BY <1>3, <2>1, FrameGas DEF gasLeft
  <2> HIDE DEF was
  <2>4. was + gasLeft(g, how) \in Nat
    BY <2>3
  <2>5. x \in Nat /\ x <= was + gasLeft(g, how)
    BY <2>4, ModLess
  <2> HIDE DEF x
  <2>6. heldGas(frames') = heldGas(t) - was + x
    BY <1>3, <2>1, <2>2, <2>5, GasSet, Zenon DEF was
  <2> QED
    BY <1>1, <1>4, <2>3, <2>5, <2>6 DEF GasFalls
<1> QED
  BY <1>5, <1>6

LEMMA ChargedGas ==
    ASSUME frames \in Seq(FrameRecord), frames # <<>>, NEW d, NEW c \in Nat, Charged(d, c)
    PROVE  GasFalls
<1>1. Len(frames) \in 1..Len(frames) /\ top.gas \in Nat /\ heldGas(frames) \in Int
  BY TopGas, FrameGas, Zenon
<1>2. CASE c > top.gas
  BY <1>1, <1>2, ExitGas DEF Charged
<1>3. CASE ~(c > top.gas)
  <2> DEFINE x == top.gas - c
  <2>1. x \in Nat /\ x <= top.gas
    BY <1>1, <1>3
  <2>2. frames' = [frames EXCEPT ![Len(frames)].gas = x]
    BY <1>3, Zenon DEF Charged, Continue, WithGas
  <2> HIDE DEF x
  <2>3. heldGas(frames') = heldGas(frames) - top.gas + x
    BY <1>1, <2>1, <2>2, GasSet, Zenon DEF top
  <2> QED
    BY <1>1, <2>1, <2>3 DEF GasFalls
<1> QED
  BY <1>2, <1>3

\* A call hands its gas to a new frame or back to the caller in fs.
Hands(fs, gas) == heldGas(frames') <= heldGas(fs) + gas

LEMMA BackGas ==
    ASSUME NEW fs \in Seq(FrameRecord), fs # <<>>, NEW d, NEW how, NEW gas \in Nat, NEW most \in Nat,
           gas <= most, Back(fs, d, how, gas)
    PROVE  Hands(fs, most)
<1> DEFINE was == fs[Len(fs)].gas
           x == (was + gas) % Word
<1>1. Len(fs) \in 1..Len(fs)
  OBVIOUS
<1>2. was \in Nat /\ heldGas(fs) \in Int
  BY <1>1, FrameGas, Zenon
<1>3. frames' = [fs EXCEPT ![Len(fs)].gas = x]
  BY Zenon DEF Back
<1> HIDE DEF was
<1>4. was + gas \in Nat
  BY <1>2
<1>5. x \in Nat /\ x <= was + gas
  BY <1>4, ModLess
<1> HIDE DEF x
<1>6. heldGas(frames') = heldGas(fs) - was + x
  BY <1>1, <1>3, <1>5, GasSet, Zenon DEF was
<1> QED
  BY <1>2, <1>5, <1>6 DEF Hands

LEMMA EnterGas ==
    ASSUME NEW fs \in Seq(FrameRecord), frames' \in Seq(FrameRecord), NEW d, NEW f,
           f.gas \in Nat, Enter(fs, f, d)
    PROVE  Hands(fs, f.gas)
<1> DEFINE gs == Append(fs, f)
<1>1. frames' = gs
  BY DEF Enter
<1>2. Len(gs) = Len(fs) + 1 /\ gs[Len(gs)] = f /\ \A i \in 1..Len(fs) : fs[i] = gs[i]
  OBVIOUS
<1> HIDE DEF gs
<1>3. heldGas(frames') = f.gas + heldGas(fs)
  BY <1>1, <1>2, GasOfInner, Zenon
<1>4. heldGas(fs) \in Int
  BY FrameGas
<1> QED
  BY <1>3, <1>4 DEF Hands

LEMMA RunCodeGas ==
    ASSUME NEW fs \in Seq(FrameRecord), fs # <<>>, frames' \in Seq(FrameRecord), NEW kind, NEW s,
           NEW d, NEW addr, NEW self, NEW gas \in Nat, RunCode(kind, fs, s, d, addr, self, gas)
    PROVE  Hands(fs, gas)
<1>1. gas <= gas /\ 0 <= gas /\ 0 \in Nat
  OBVIOUS
<1>2. ASSUME NEW e, NEW how, Back(fs, e, how, 0) PROVE Hands(fs, gas)
  BY <1>1, <1>2, BackGas, Zenon
<1>3. ASSUME NEW e, NEW how, Back(fs, e, how, gas) PROVE Hands(fs, gas)
  BY <1>1, <1>3, BackGas, Zenon
<1>4. CASE gas >= PrecompileGas /\ Back(fs, d, "ok", gas - PrecompileGas)
  <2>1. PrecompileGas \in Nat
    BY EvmAssumption, Zenon
  <2>2. gas - PrecompileGas \in Nat /\ gas - PrecompileGas <= gas
    BY <1>4, <2>1
  <2> QED
    BY <1>4, <2>2, BackGas, Zenon
<1>5. CASE Enter(fs, NewFrame(kind, self, gas, s), d)
  <2> DEFINE f == NewFrame(kind, self, gas, s)
  <2>1. f.gas = gas
    BY DEF NewFrame
  <2> HIDE DEF f
  <2> QED
    BY <1>5, <2>1, EnterGas, Zenon DEF f
<1> QED
  BY <1>2, <1>3, <1>4, <1>5, Zenon DEF RunCode, RunPrecompiled

\* The calls and create.
LEMMA CallsGas ==
    ASSUME NEW fs \in Seq(FrameRecord), fs # <<>>, frames' \in Seq(FrameRecord), NEW d,
           NEW self, NEW addr, NEW gas \in Nat, NEW value,
           \/ Call(fs, d, self, addr, gas, value) \/ CallCode(fs, d, self, addr, gas, value)
           \/ DelegateCall(fs, d, self, addr, gas) \/ StaticCall(fs, d, addr, gas)
           \/ create(fs, d, self, gas, value, addr)
    PROVE  Hands(fs, gas)
<1>1. gas <= gas /\ 0 <= gas /\ 0 \in Nat
  OBVIOUS
<1>2. ASSUME NEW e, NEW how, Back(fs, e, how, 0) \/ Back(fs, e, how, gas) PROVE Hands(fs, gas)
  BY <1>1, <1>2, BackGas, Zenon
<1>3. ASSUME NEW kind, NEW s, NEW e, NEW a, NEW b, RunCode(kind, fs, s, e, a, b, gas)
      PROVE  Hands(fs, gas)
  BY <1>3, RunCodeGas, Zenon
<1>4. ASSUME NEW s, NEW e, Enter(fs, NewFrame("CREATE", addr, gas, s), e) PROVE Hands(fs, gas)
  <2> DEFINE f == NewFrame("CREATE", addr, gas, s)
  <2>1. f.gas = gas
    BY DEF NewFrame
  <2> HIDE DEF f
  <2> QED
    BY <1>4, <2>1, EnterGas, Zenon DEF f
<1> QED
  BY <1>2, <1>3, <1>4, Zenon DEF Call, CallCode, DelegateCall, StaticCall, create

LEMMA CallSums ==
    ASSUME NEW kind, NEW addr, NEW value \in Values, NEW asked \in Requests, NEW g \in Nat
    PROVE  /\ callBase(kind, addr, value) \in Nat
           /\ callGas(g, callBase(kind, addr, value), asked) \in Nat
           /\ stipend(value) \in Nat /\ stipend(value) <= callBase(kind, addr, value)
<1> DEFINE base == callBase(kind, addr, value)
           left == (g - base) % Word
<1>1. /\ {CallValueTransferGas, CallNewAccountGas, CallStipend} \subseteq Nat
      /\ CallStipend < CallValueTransferGas /\ GasDenominator \in Nat \ {0} /\ Word \in Nat \ {0}
      /\ asked \in Nat
  BY EvmAssumption, Zenon
<1>2. base \in Nat /\ stipend(value) \in Nat /\ stipend(value) <= base
  BY <1>1 DEF callBase, stipend
<1> HIDE DEF base
<1>3. left \in Nat
  BY <1>1, <1>2
<1> HIDE DEF left
<1>4. left - (left \div GasDenominator) \in Nat
  BY <1>1, <1>3
<1>5. callGas(g, base, asked) \in Nat
  BY <1>1, <1>4, Zenon DEF callGas, left
<1> QED
  BY <1>2, <1>5, Zenon DEF base

\* A call or a create that is handed part of the gas that the caller gives up.
LEMMA HandedGas ==
    ASSUME frames \in Seq(FrameRecord), frames # <<>>, NEW x \in Nat, NEW gas \in Nat,
           x + gas <= top.gas
    PROVE  /\ WithGas(x) \in Seq(FrameRecord) /\ WithGas(x) # <<>>
           /\ Hands(WithGas(x), gas) /\ frames' \in Seq(FrameRecord) => GasFalls
<1>1. Len(frames) \in 1..Len(frames) /\ top.gas \in Nat /\ heldGas(frames) \in Int
  BY TopGas, FrameGas, Zenon
<1> DEFINE fs == [frames EXCEPT ![Len(frames)].gas = x]
<1>2. fs \in Seq(FrameRecord) /\ heldGas(fs) = heldGas(frames) - top.gas + x
  BY <1>1, GasSet, Zenon DEF top
<1>3. fs # <<>>
  BY <1>1
<1>4. WithGas(x) = fs
  BY DEF WithGas
<1> HIDE DEF fs
<1>5. frames' \in Seq(FrameRecord) => heldGas(frames') \in Int
  BY FrameGas
<1>6. ASSUME Hands(fs, gas), frames' \in Seq(FrameRecord) PROVE GasFalls
  BY <1>1, <1>2, <1>5, <1>6 DEF Hands, GasFalls
<1> QED
  BY <1>2, <1>3, <1>4, <1>6, Zenon

LEMMA OpCallGas ==
    ASSUME frames \in Seq(FrameRecord), frames # <<>>, frames' \in Seq(FrameRecord),
           NEW kind \in Kinds, NEW addr, NEW value \in Values, NEW asked \in Requests,
           opCall(kind, addr, value, asked)
    PROVE  GasFalls
<1> DEFINE g1 == top.gas - CallGas
           base == callBase(kind, addr, value)
           passed == callGas(g1, base, asked)
           cost == callCost(base, passed)
           fs == WithGas(g1 - cost)
           sum == passed + stipend(value)
           gas == sum % Word
           Failed == writeProtected(kind, value) \/ g1 < 0 \/ cost >= Word \/ cost > g1
<1>1. top.gas \in Nat /\ CallGas \in Nat
  BY TopGas, EvmAssumption, Zenon
<1>2. CASE Failed
  <2>1. Exit("error", db, top.gas)
    BY <1>2, Zenon DEF opCall
  <2>2. top.gas <= top.gas
    BY <1>1
  <2> QED
    BY <1>1, <2>1, <2>2, ExitGas, Zenon
<1>3. CASE ~Failed
  <2>1. /\ CASE kind = "CALL"         -> Call(fs, db, top.self, addr, gas, value)
             [] kind = "CALLCODE"     -> CallCode(fs, db, top.self, addr, gas, value)
             [] kind = "DELEGATECALL" -> DelegateCall(fs, db, top.self, addr, gas)
             [] kind = "STATICCALL"   -> StaticCall(fs, db, addr, gas)
    BY <1>3, Zenon DEF opCall
  <2>2. \/ Call(fs, db, top.self, addr, gas, value) \/ CallCode(fs, db, top.self, addr, gas, value)
        \/ DelegateCall(fs, db, top.self, addr, gas) \/ StaticCall(fs, db, addr, gas)
    <3> HIDE DEF fs, gas
    <3> QED
      BY <2>1, Zenon DEF Kinds
  <2>3. g1 \in Nat /\ g1 <= top.gas
    BY <1>1, <1>3
  <2>4. g1 - cost \in Int /\ ~(cost > g1)
    <3>1. base \in Nat /\ passed \in Nat
      BY <2>3, CallSums, Zenon
    <3> HIDE DEF base, passed, g1
    <3> QED
      BY <1>3, <2>3, <3>1 DEF callCost
  <2>5. base \in Nat /\ passed \in Nat /\ stipend(value) \in Nat /\ stipend(value) <= base
    BY <2>3, CallSums, Zenon
  <2>6. cost = base + passed
    BY Zenon DEF callCost
  <2> HIDE DEF g1, base, passed, cost
  <2>7. sum \in Nat /\ sum <= cost
    BY <2>5, <2>6
  <2> HIDE DEF sum
  <2>8. gas \in Nat /\ gas <= cost
    <3>1. gas \in Nat /\ gas <= sum
      BY <2>7, ModLess, Zenon
    <3> HIDE DEF gas
    <3> QED
      BY <2>5, <2>6, <2>7, <3>1
  <2> HIDE DEF gas
  <2> DEFINE x == g1 - cost
  <2>9. x \in Nat /\ x + gas <= top.gas
    BY <1>1, <2>3, <2>4, <2>5, <2>6, <2>8
  <2>10. fs = WithGas(x)
    OBVIOUS
  <2> HIDE DEF x, fs
  <2>11. fs \in Seq(FrameRecord) /\ fs # <<>> /\ (Hands(fs, gas) => GasFalls)
    BY <2>8, <2>9, <2>10, HandedGas, Zenon
  <2> QED
    BY <2>2, <2>8, <2>11, CallsGas, Zenon
<1> QED
  BY <1>2, <1>3, Zenon

LEMMA OpCreateGas ==
    ASSUME frames \in Seq(FrameRecord), frames # <<>>, frames' \in Seq(FrameRecord),
           NEW address, NEW value, opCreate(address, value)
    PROVE  GasFalls
<1> DEFINE g1 == top.gas - CreateGas
           gas == g1 - (g1 \div GasDenominator)
           x == g1 - gas
<1>1. top.gas \in Nat /\ CreateGas \in Nat /\ GasDenominator \in Nat \ {0}
  BY TopGas, EvmAssumption, Zenon
<1>2. CASE writeProtected("CREATE", value) \/ g1 < 0
  <2>1. Exit("error", db, top.gas)
    BY <1>2, Zenon DEF opCreate
  <2>2. top.gas <= top.gas
    BY <1>1
  <2> QED
    BY <1>1, <2>1, <2>2, ExitGas, Zenon
<1>3. CASE ~(writeProtected("CREATE", value) \/ g1 < 0)
  <2>1. create(WithGas(x), db, top.self, gas, value, address)
    BY <1>3, Zenon DEF opCreate
  <2>2. g1 \in Nat /\ g1 <= top.gas
    BY <1>1, <1>3
  <2> HIDE DEF g1
  <2>3. gas \in Nat /\ gas <= g1
    BY <1>1, <2>2
  <2> HIDE DEF gas
  <2>4. x \in Nat /\ x + gas <= top.gas
    BY <1>1, <2>2, <2>3
  <2> HIDE DEF x
  <2>5. /\ WithGas(x) \in Seq(FrameRecord) /\ WithGas(x) # <<>>
        /\ Hands(WithGas(x), gas) => GasFalls
    BY <2>3, <2>4, HandedGas, Zenon
  <2> QED
    BY <2>1, <2>3, <2>5, CallsGas, Zenon
<1> QED
  BY <1>2, <1>3, Zenon

LEMMA StepGas ==
    ASSUME frames \in Seq(FrameRecord), frames' \in Seq(FrameRecord),
           status = "running" => frames # <<>>, Next, status = "running"
    PROVE  GasFalls
<1>1. frames # <<>> /\ top.gas \in Nat
  BY TopGas, Zenon
<1>2. top.gas <= top.gas
  BY <1>1
<1>3. ASSUME NEW how, NEW d, Exit(how, d, top.gas) PROVE GasFalls
  BY <1>1, <1>2, <1>3, ExitGas, Zenon
<1>4. ASSUME NEW how, NEW d, NEW c \in Nat, ~(c > top.gas), Exit(how, d, top.gas - c) PROVE GasFalls
  <2>1. top.gas - c \in Nat /\ top.gas - c <= top.gas
    BY <1>1, <1>4
  <2> QED
    BY <1>1, <1>4, <2>1, ExitGas, Zenon
<1>5. CASE opStop \/ opRevert \/ fault
  BY <1>3, <1>5, Zenon DEF opStop, opRevert, fault
<1>6. CASE makeLog
  <2>1. LogGas \in Nat
    BY EvmAssumption, Zenon
  <2> QED
    BY <1>1, <1>3, <1>6, <2>1, ChargedGas, Zenon DEF makeLog
<1>7. ASSUME NEW size \in 0..2, opReturnCode(size) PROVE GasFalls
  <2>1. CreateDataGas \in Nat
    BY EvmAssumption, Zenon
  <2>2. size * CreateDataGas \in Nat
    BY <2>1
  <2> QED
    BY <1>3, <1>4, <1>7, <2>2, Zenon DEF opReturnCode
<1>8. ASSUME NEW k \in Slot, NEW v \in Hash, opSstore(k, v) PROVE GasFalls
  <2>1. {SloadGas, SstoreSetGas, SstoreResetGas} \subseteq Nat
    BY EvmAssumption, Zenon
  <2>2. ASSUME NEW o, NEW c PROVE gasSStore(o, c, v) \in Nat
    BY <2>1, Zenon DEF gasSStore
  <2> QED
    BY <1>1, <1>3, <1>8, <2>2, ChargedGas, Zenon DEF opSstore
<1>9. ASSUME NEW b \in Addr, opSuicide(b) PROVE GasFalls
  <2>1. SelfdestructGas \in Nat /\ CreateBySelfdestructGas \in Nat
    BY EvmAssumption, Zenon
  <2>2. gasSelfdestruct(b) \in Nat
    BY <2>1 DEF gasSelfdestruct
  <2> QED
    BY <1>3, <1>4, <1>9, <2>2, Zenon DEF opSuicide
<1>10. ASSUME NEW kind \in Kinds, NEW a \in Addr, NEW v \in Values, NEW g \in Requests,
              opCall(kind, a, v, g) PROVE GasFalls
  BY <1>1, <1>10, OpCallGas, Zenon
<1>11. ASSUME NEW a \in Created, NEW v \in Values, opCreate(a, v) PROVE GasFalls
  BY <1>1, <1>11, OpCreateGas, Zenon
<1>12. /\ ~commit /\ \A a \in Addr, v \in Values : ~txCall(a, v)
       /\ \A a \in Created, v \in Values : ~txCreate(a, v)
  BY DEF commit, txCall, txCreate
<1> QED
  BY <1>5, <1>6, <1>7, <1>8, <1>9, <1>10, <1>11, <1>12, Zenon DEF Next
-----------------------------------------------------------------------------
\* Write sets and reads.
LEMMA WriteSetDef ==
    ASSUME NEW K \in SUBSET AllKeys, NEW c,
           c = [key \in K |-> c[key]], \A key \in K : c[key] \in ValuesOf(key)
    PROVE  c \in WriteSets /\ DOMAIN c = K
<1>1. \A key \in K : c[key] \in AnyValue
  BY DEF AnyValue, ValuesOf
<1>2. c \in [K -> AnyValue]
  BY <1>1
<1>3. DOMAIN c = K
  BY <1>2
<1> QED
  BY <1>2, <1>3 DEF WriteSets

LEMMA WriteSetUse ==
    ASSUME NEW c \in WriteSets
    PROVE  /\ DOMAIN c \subseteq AllKeys
           /\ \A key \in DOMAIN c : c[key] \in ValuesOf(key)
BY DEF WriteSets

LEMMA NoWrites == <<>> \in WriteSets /\ DOMAIN <<>> = {}
<1>1. DOMAIN <<>> = {}
  OBVIOUS
<1>2. <<>> = [key \in {} |-> <<>>[key]]
  BY <1>1
<1> QED
  BY <1>1, <1>2, WriteSetDef, Zenon

LEMMA OverIsWriteSet ==
    ASSUME NEW f \in WriteSets, NEW g \in WriteSets
    PROVE  over(f, g) \in WriteSets /\ DOMAIN over(f, g) = DOMAIN f \cup DOMAIN g
<1> DEFINE K == DOMAIN f \cup DOMAIN g
<1>1. K \in SUBSET AllKeys
  BY WriteSetUse
<1>2. over(f, g) = [key \in K |-> over(f, g)[key]]
  BY DEF over
<1>3. \A key \in K : over(f, g)[key] \in ValuesOf(key)
  BY WriteSetUse DEF over
<1> QED
  BY <1>1, <1>2, <1>3, WriteSetDef

LEMMA KeyValues ==
    ASSUME NEW a \in Addr
    PROVE  /\ accountKey(a) \in AllKeys /\ ValuesOf(accountKey(a)) = RemoteAccount
           /\ \A k \in Slot : /\ stateKey(a, k) \in AllKeys
                              /\ ValuesOf(stateKey(a, k)) = {Gone} \cup Hash
<1>1. Len(<<a>>) = 1 /\ \A k \in Slot : Len(<<a, k>>) = 2
  OBVIOUS
<1> QED
  BY <1>1 DEF accountKey, stateKey, StateKeys, AllKeys, ValuesOf

LEMMA KeysDiffer ==
    ASSUME NEW a \in Addr, NEW b \in Addr, NEW k \in Slot, NEW l \in Slot
    PROVE  /\ accountKey(a) # stateKey(b, k)
           /\ accountKey(a) = accountKey(b) => a = b
           /\ stateKey(a, k) = stateKey(b, l) => a = b /\ k = l
BY DEF accountKey, stateKey

LEMMA DbFields ==
    ASSUME NEW d \in DbRecord
    PROVE  /\ d.memdb \in WriteSets /\ d.overlay \in WriteSets /\ d.suicided \in SUBSET Addr
           /\ d.logs \in Seq(Addr) /\ Len(d.logs) \in Nat /\ d.refund \in Nat
           /\ d.snapshots \in Seq(SnapshotRecord) /\ Len(d.snapshots) \in Nat
           /\ d.panic \in BOOLEAN
BY DEF DbRecord

LEMMA Reads ==
    ASSUME NEW d \in DbRecord, NEW key \in AllKeys
    PROVE  OverlayGet(d, key) \in ValuesOf(key) /\ get(d, key) \in ValuesOf(key)
BY WriteSetUse, DbFields, RemoteAssumption DEF OverlayGet, get

LEMMA ViewOf ==
    ASSUME NEW d
    PROVE  /\ \A key \in AllKeys : View(d).data[key] = get(d, key)
           /\ View(d).suicided = d.suicided /\ View(d).logs = d.logs /\ View(d).refund = d.refund
BY DEF View

LEMMA ViewsEqual ==
    ASSUME NEW d, NEW e, \A key \in AllKeys : get(e, key) = get(d, key),
           e.suicided = d.suicided, e.logs = d.logs, e.refund = d.refund
    PROVE  View(e) = View(d)
BY DEF View

LEMMA ViewType ==
    ASSUME NEW d \in DbRecord
    PROVE  View(d) \in ViewRecord
<1>1. \A key \in AllKeys : get(d, key) \in AnyValue
  BY Reads DEF ValuesOf, AnyValue
<1> QED
  BY <1>1, DbFields DEF View, ViewRecord

-----------------------------------------------------------------------------
\* The methods of StateDB that write accounts.
SameBelow(e, d) ==
    e.overlay = d.overlay /\ e.snapshots = d.snapshots /\ e.panic = d.panic

LEMMA Puts ==
    ASSUME NEW d \in DbRecord, NEW key \in AllKeys, NEW v \in ValuesOf(key)
    PROVE  LET e == put(d, key, v)
           IN  /\ e \in DbRecord /\ SameBelow(e, d)
               /\ e.suicided = d.suicided /\ e.logs = d.logs /\ e.refund = d.refund
               /\ \A x \in AllKeys : get(e, x) = IF x = key THEN v ELSE get(d, x)
<1> DEFINE one == [x \in {key} |-> v]
           c == over(one, d.memdb)
           e == [d EXCEPT !.memdb = c]
<1>1. one \in WriteSets /\ DOMAIN one = {key}
  <2>1. {key} \in SUBSET AllKeys /\ one = [x \in {key} |-> one[x]]
        /\ \A x \in {key} : one[x] \in ValuesOf(x)
    OBVIOUS
  <2> HIDE DEF one
  <2> QED
    BY <2>1, WriteSetDef
<1>2. c \in WriteSets /\ DOMAIN c = {key} \cup DOMAIN d.memdb
  <2> HIDE DEF one
  <2> QED
    BY <1>1, OverIsWriteSet, DbFields, Zenon
<1>3. \A x \in DOMAIN c : c[x] = IF x = key THEN v ELSE d.memdb[x]
  BY <1>2 DEF over
<1>4. put(d, key, v) = e
  BY DEF put
<1> HIDE DEF c
<1>5. e \in DbRecord /\ e.memdb = c /\ SameBelow(e, d)
      /\ e.suicided = d.suicided /\ e.logs = d.logs /\ e.refund = d.refund
  BY <1>2, Zenon DEF DbRecord, SameBelow
<1> HIDE DEF e
<1>6. \A x \in AllKeys : get(e, x) = IF x = key THEN v ELSE get(d, x)
  BY <1>2, <1>3, <1>5 DEF get, OverlayGet, SameBelow
<1> QED
  BY <1>4, <1>5, <1>6

LEMMA AccountRead ==
    ASSUME NEW d \in DbRecord, NEW a \in Addr
    PROVE  /\ GetEthAccount(d, a) = get(d, accountKey(a))
           /\ GetEthAccount(d, a) \in RemoteAccount
           /\ GetBalance(d, a) \in Nat /\ GetNonce(d, a) \in Nat
           /\ GetEthAccount(d, a).balance # Nil
<1>1. get(d, accountKey(a)) \in RemoteAccount
  BY KeyValues, Reads
<1>2. GetEthAccount(d, a) = get(d, accountKey(a))
  BY <1>1, RemoteAssumption DEF GetEthAccount
<1> QED
  BY <1>1, <1>2, RemoteAssumption, Zenon DEF GetBalance, GetNonce, RemoteAccount

\* What the accounts hold together.
LEMMA HeldType ==
    ASSUME NEW d \in DbRecord
    PROVE  held(View(d)) \in Int /\ held(View(d)) = supply(d)
<1> DEFINE f == [a \in Addr |-> View(d).data[accountKey(a)].balance]
           g == [a \in Addr |-> GetBalance(d, a)]
<1>1. \A a \in Addr : View(d).data[accountKey(a)].balance = GetBalance(d, a) /\ GetBalance(d, a) \in Nat
  BY ViewOf, KeyValues, AccountRead, Zenon DEF GetBalance
<1>2. f = g
  BY <1>1
<1>3. f \in [Addr -> Int]
  BY <1>1
<1> HIDE DEF f, g
<1>4. SumFunctionOnSet(f, Addr) \in Int
  BY <1>3, SumType, RemoteAssumption, Zenon
<1> QED
  BY <1>2, <1>4, Zenon DEF held, supply, f, g

LEMMA BelowType ==
    ASSUME NEW d \in DbRecord
    PROVE  /\ below(d) \in Int
           /\ (\A a \in Addr : get(d, accountKey(a)) = OverlayGet(d, accountKey(a)))
                => held(View(d)) = below(d)
<1> DEFINE f == [a \in Addr |-> OverlayGet(d, accountKey(a)).balance]
<1>1. \A a \in Addr : OverlayGet(d, accountKey(a)).balance \in Nat
  <2>1. \A a \in Addr : OverlayGet(d, accountKey(a)) \in RemoteAccount
    BY KeyValues, Reads
  <2>2. \A x \in RemoteAccount : x.balance \in Nat
    BY Zenon DEF RemoteAccount
  <2> QED
    BY <2>1, <2>2, Zenon
<1>2. f \in [Addr -> Int]
  BY <1>1
<1>3. ASSUME \A a \in Addr : get(d, accountKey(a)) = OverlayGet(d, accountKey(a))
      PROVE  [a \in Addr |-> View(d).data[accountKey(a)].balance] = f
  <2>1. \A a \in Addr : View(d).data[accountKey(a)] = OverlayGet(d, accountKey(a))
    BY <1>3, ViewOf, KeyValues, Zenon
  <2> QED
    BY <2>1
<1> HIDE DEF f
<1>4. SumFunctionOnSet(f, Addr) \in Int
  BY <1>2, SumType, RemoteAssumption, Zenon
<1> QED
  BY <1>3, <1>4, Zenon DEF below, held, f

LEMMA HeldAlike ==
    ASSUME NEW d, NEW e,
           \A a \in Addr : get(e, accountKey(a)).balance = get(d, accountKey(a)).balance
    PROVE  held(View(e)) = held(View(d))
<1>1. \A a \in Addr : View(e).data[accountKey(a)].balance = View(d).data[accountKey(a)].balance
  BY ViewOf, KeyValues, Zenon
<1>2. [a \in Addr |-> View(e).data[accountKey(a)].balance]
        = [a \in Addr |-> View(d).data[accountKey(a)].balance]
  BY <1>1
<1> QED
  BY <1>2, Zenon DEF held

LEMMA HeldChanged ==
    ASSUME NEW d \in DbRecord, NEW e \in DbRecord, NEW a \in Addr,
           \A x \in Addr : x # a => get(e, accountKey(x)) = get(d, accountKey(x))
    PROVE  held(View(e)) = held(View(d)) - GetBalance(d, a) + GetBalance(e, a)
<1> DEFINE f == [x \in Addr |-> View(d).data[accountKey(x)].balance]
           g == [x \in Addr |-> View(e).data[accountKey(x)].balance]
<1>1. \A x \in Addr : /\ View(d).data[accountKey(x)].balance = GetBalance(d, x) /\ GetBalance(d, x) \in Nat
                       /\ View(e).data[accountKey(x)].balance = GetBalance(e, x) /\ GetBalance(e, x) \in Nat
  BY ViewOf, KeyValues, AccountRead, Zenon DEF GetBalance
<1>2. \A x \in Addr : x # a => View(e).data[accountKey(x)] = View(d).data[accountKey(x)]
  BY ViewOf, KeyValues, Zenon
<1>3. /\ f \in [Addr -> Int] /\ g \in [Addr -> Int]
      /\ f[a] = GetBalance(d, a) /\ g[a] = GetBalance(e, a)
  BY <1>1
<1>4. \A x \in Addr \ {a} : f[x] = g[x]
  BY <1>2
<1> HIDE DEF f, g
<1>5. SumFunctionOnSet(g, Addr) = SumFunctionOnSet(f, Addr) - f[a] + g[a]
  <2>1. IsFiniteSet(Addr)
    BY RemoteAssumption
  <2> QED
    BY <1>3, <1>4, <2>1, SumExcept, Zenon
<1> QED
  BY <1>3, <1>5, Zenon DEF held, f, g

\* Accounts are written, their code and everything else is as before.
Paid(e, d) ==
    /\ e \in DbRecord /\ SameBelow(e, d)
    /\ e.suicided = d.suicided /\ e.logs = d.logs /\ e.refund = d.refund
    /\ \A a \in Addr : /\ get(e, accountKey(a)).code = get(d, accountKey(a)).code
                       /\ \A k \in Slot : get(e, stateKey(a, k)) = get(d, stateKey(a, k))

\* What is paid by one account is paid to another.
Touched(e, d) == Paid(e, d) /\ held(View(e)) = held(View(d))

LEMMA AccountWritten ==
    ASSUME NEW d \in DbRecord, NEW a \in Addr, NEW acct \in RemoteAccount
    PROVE  LET e == PutEthAccount(d, a, acct)
           IN  /\ e \in DbRecord /\ SameBelow(e, d)
               /\ e.suicided = d.suicided /\ e.logs = d.logs /\ e.refund = d.refund
               /\ \A x \in AllKeys : get(e, x) = IF x = accountKey(a) THEN acct ELSE get(d, x)
               /\ held(View(e)) = held(View(d)) - GetEthAccount(d, a).balance + acct.balance
               /\ acct.code = GetEthAccount(d, a).code => Paid(e, d)
               /\ acct = GetEthAccount(d, a) => View(e) = View(d)
<1> DEFINE e == PutEthAccount(d, a, acct)
<1>1. e = put(d, accountKey(a), acct)
  BY RemoteAssumption, Zenon DEF PutEthAccount, RemoteAccount, IsEmpty
<1>2. /\ e \in DbRecord /\ SameBelow(e, d)
      /\ e.suicided = d.suicided /\ e.logs = d.logs /\ e.refund = d.refund
      /\ \A x \in AllKeys : get(e, x) = IF x = accountKey(a) THEN acct ELSE get(d, x)
  BY <1>1, Puts, KeyValues
<1> HIDE DEF e
<1>3. ASSUME acct.code = GetEthAccount(d, a).code
      PROVE  Paid(e, d)
  <2>1. ASSUME NEW b \in Addr
        PROVE  get(e, accountKey(b)).code = get(d, accountKey(b)).code
    BY <1>2, <1>3, KeyValues, AccountRead
  <2>2. ASSUME NEW b \in Addr, NEW k \in Slot
        PROVE  get(e, stateKey(b, k)) = get(d, stateKey(b, k))
    BY <1>2, KeyValues, KeysDiffer
  <2> QED
    BY <1>2, <2>1, <2>2 DEF Paid
<1>4. ASSUME acct = GetEthAccount(d, a)
      PROVE  View(e) = View(d)
  BY <1>2, <1>4, AccountRead, ViewsEqual
<1>5. held(View(e)) = held(View(d)) - GetEthAccount(d, a).balance + acct.balance
  <2>1. \A x \in Addr : x # a => get(e, accountKey(x)) = get(d, accountKey(x))
    BY <1>2, KeyValues, KeysDiffer DEF accountKey
  <2>2. GetBalance(e, a) = acct.balance /\ GetBalance(d, a) = GetEthAccount(d, a).balance
    BY <1>2, KeyValues, AccountRead, Zenon DEF GetBalance
  <2> QED
    BY <1>2, <2>1, <2>2, HeldChanged, Zenon
<1> QED
  BY <1>2, <1>3, <1>4, <1>5 DEF e

LEMMA BalanceAdded ==
    ASSUME NEW d \in DbRecord, NEW a \in Addr, NEW v \in Nat
    PROVE  LET e == AddBalance(d, a, v)
           IN  /\ Paid(e, d) /\ held(View(e)) = held(View(d)) + v
               /\ \A x \in Addr : GetBalance(e, x) >= GetBalance(d, x)
               /\ v = 0 => View(e) = View(d) /\ Touched(e, d)
<1> DEFINE acct == GetEthAccount(d, a)
           sum == acct.balance + v
           new == [acct EXCEPT !.balance = sum]
<1>1. acct \in RemoteAccount /\ acct.balance # Nil
  BY AccountRead
<1>2. AddBalance(d, a, v) = PutEthAccount(d, a, new)
  BY <1>1 DEF AddBalance
<1> HIDE DEF acct
<1>3. sum \in Nat /\ (v = 0 => sum = acct.balance) /\ acct.balance \in Nat /\ sum = acct.balance + v
  BY <1>1 DEF RemoteAccount
<1> HIDE DEF sum
<1>4. /\ new \in RemoteAccount /\ new.code = acct.code /\ (sum = acct.balance => new = acct)
      /\ new.balance = sum
  BY <1>1, <1>3, Zenon DEF RemoteAccount
<1> HIDE DEF new
<1> DEFINE e == AddBalance(d, a, v)
<1>5. /\ Paid(e, d) /\ e \in DbRecord /\ (v = 0 => View(e) = View(d))
      /\ \A x \in AllKeys : get(e, x) = IF x = accountKey(a) THEN new ELSE get(d, x)
      /\ held(View(e)) = held(View(d)) - acct.balance + new.balance
  BY <1>2, <1>3, <1>4, AccountWritten DEF acct
<1> HIDE DEF e
<1>6. held(View(e)) = held(View(d)) + v
  <2>1. held(View(d)) \in Int
    BY HeldType, Zenon
  <2> QED
    BY <1>3, <1>4, <1>5, <2>1
<1>7. ASSUME NEW x \in Addr PROVE GetBalance(e, x) >= GetBalance(d, x)
  <2>1. GetBalance(d, x) \in Nat /\ GetBalance(d, x) = get(d, accountKey(x)).balance
        /\ GetBalance(e, x) = get(e, accountKey(x)).balance
    BY <1>5, AccountRead, Zenon DEF GetBalance
  <2>2. CASE x = a
    <3>1. GetBalance(e, x) = sum /\ GetBalance(d, x) = acct.balance
      BY <1>4, <1>5, <2>1, <2>2, KeyValues, Zenon DEF GetBalance, acct
    <3> QED
      BY <1>3, <3>1
  <2>3. CASE x # a
    <3>1. accountKey(x) # accountKey(a)
      BY <2>3 DEF accountKey
    <3>2. GetBalance(e, x) = GetBalance(d, x)
      BY <1>5, <2>1, <3>1, KeyValues, Zenon
    <3> QED
      BY <2>1, <3>2
  <2> QED
    BY <2>2, <2>3
<1> QED
  BY <1>5, <1>6, <1>7, Zenon DEF e, Touched

LEMMA BalanceSubtracted ==
    ASSUME NEW d \in DbRecord, NEW a \in Addr, NEW v \in Nat, v <= GetBalance(d, a)
    PROVE  LET e == SubBalance(d, a, v)
           IN  Paid(e, d) /\ held(View(e)) = held(View(d)) - v /\ (v = 0 => View(e) = View(d))
<1> DEFINE acct == GetEthAccount(d, a)
           sum == acct.balance - v
           new == [acct EXCEPT !.balance = sum]
<1>1. acct \in RemoteAccount /\ acct.balance # Nil /\ v <= acct.balance
  BY AccountRead DEF GetBalance
<1>2. SubBalance(d, a, v) = PutEthAccount(d, a, new)
  BY <1>1 DEF SubBalance
<1> HIDE DEF acct
<1>3. sum \in Nat /\ (v = 0 => sum = acct.balance) /\ acct.balance \in Nat /\ sum = acct.balance - v
  BY <1>1 DEF RemoteAccount
<1> HIDE DEF sum
<1>4. /\ new \in RemoteAccount /\ new.code = acct.code /\ (sum = acct.balance => new = acct)
      /\ new.balance = sum
  BY <1>1, <1>3, Zenon DEF RemoteAccount
<1> HIDE DEF new
<1> DEFINE e == SubBalance(d, a, v)
<1>5. /\ Paid(e, d) /\ (v = 0 => View(e) = View(d))
      /\ held(View(e)) = held(View(d)) - acct.balance + new.balance
  BY <1>2, <1>3, <1>4, AccountWritten DEF acct
<1> HIDE DEF e
<1>6. held(View(d)) \in Int
  BY HeldType, Zenon
<1>7. held(View(e)) = held(View(d)) - v
  BY <1>3, <1>4, <1>5, <1>6
<1> QED
  BY <1>5, <1>7, Zenon DEF e

LEMMA NonceSet ==
    ASSUME NEW d \in DbRecord, NEW a \in Addr, NEW n \in Nat
    PROVE  LET e == SetNonce(d, a, n)
           IN  Touched(e, d) /\ \A b \in Addr : GetBalance(e, b) = GetBalance(d, b)
<1> DEFINE acct == GetEthAccount(d, a)
           new == [acct EXCEPT !.nonce = n]
           e == SetNonce(d, a, n)
<1>1. acct \in RemoteAccount
  BY AccountRead
<1>2. e = PutEthAccount(d, a, new)
  BY <1>1 DEF SetNonce
<1> HIDE DEF acct
<1>3. new \in RemoteAccount /\ new.code = acct.code /\ new.balance = acct.balance
  BY <1>1, Zenon DEF RemoteAccount
<1> HIDE DEF new
<1>4. /\ Paid(e, d) /\ e \in DbRecord
      /\ \A x \in AllKeys : get(e, x) = IF x = accountKey(a) THEN new ELSE get(d, x)
  BY <1>2, <1>3, AccountWritten DEF acct
<1> HIDE DEF e
<1>5. ASSUME NEW b \in Addr
      PROVE  GetBalance(e, b) = GetBalance(d, b)
  BY <1>3, <1>4, KeyValues, KeysDiffer, AccountRead DEF GetBalance, acct
<1>6. held(View(e)) = held(View(d))
  <2>1. ASSUME NEW b \in Addr
        PROVE  get(e, accountKey(b)).balance = get(d, accountKey(b)).balance
    <3>1. /\ GetEthAccount(e, b) = get(e, accountKey(b))
          /\ GetEthAccount(d, b) = get(d, accountKey(b))
      BY <1>4, AccountRead, Zenon
    <3>2. GetBalance(e, b) = GetBalance(d, b)
      BY <1>5, Zenon
    <3> QED
      BY <3>1, <3>2, Zenon DEF GetBalance
  <2> QED
    BY <2>1, HeldAlike, Zenon
<1> QED
  BY <1>4, <1>5, <1>6, Zenon DEF e, Touched

LEMMA PaidTwice ==
    ASSUME NEW d, NEW e, NEW f, Paid(e, d), Paid(f, e)
    PROVE  Paid(f, d)
BY DEF Paid, SameBelow

LEMMA TouchedTwice ==
    ASSUME NEW d, NEW e, NEW f, Touched(e, d), Touched(f, e)
    PROVE  Touched(f, d)
BY PaidTwice DEF Touched

LEMMA Transferred ==
    ASSUME NEW d \in DbRecord, NEW from \in Addr, NEW to \in Addr, NEW v \in Nat,
           v = 0 \/ CanTransfer(d, from, v)
    PROVE  LET e == Transfer(d, from, to, v)
           IN  Touched(e, d) /\ (v = 0 => View(e) = View(d))
<1>1. v <= GetBalance(d, from)
  BY AccountRead DEF CanTransfer
<1> DEFINE m == SubBalance(d, from, v)
<1>2. Paid(m, d) /\ held(View(m)) = held(View(d)) - v /\ (v = 0 => View(m) = View(d))
  BY <1>1, BalanceSubtracted
<1> HIDE DEF m
<1>3. m \in DbRecord
  BY <1>2 DEF Paid
<1> DEFINE e == AddBalance(m, to, v)
<1>4. Paid(e, m) /\ held(View(e)) = held(View(m)) + v /\ (v = 0 => View(e) = View(m))
  BY <1>3, BalanceAdded
<1> HIDE DEF e
<1>5. Paid(e, d) /\ (v = 0 => View(e) = View(d))
  BY <1>2, <1>4, PaidTwice, Zenon
<1>6. held(View(e)) = held(View(d))
  BY <1>2, <1>4, HeldType
<1> QED
  BY <1>5, <1>6 DEF Transfer, Touched, m, e

-----------------------------------------------------------------------------
\* Good depends on the state seen and on the write set below.
LEMMA GoodBelow ==
    ASSUME NEW d, NEW e, e.overlay = d.overlay, NEW v
    PROVE  Cleared(v, e) = Cleared(v, d) /\ below(e) = below(d) /\ (Good(v, e) <=> Good(v, d))
<1>1. \A key : OverlayGet(e, key) = OverlayGet(d, key)
  BY DEF OverlayGet
<1>2. Cleared(v, e) = Cleared(v, d) /\ (CodeKept(v, e) <=> CodeKept(v, d))
  BY <1>1 DEF CodeKept, Cleared, GetCommittedState
<1>3. below(e) = below(d)
  <2>1. [a \in Addr |-> OverlayGet(e, accountKey(a)).balance]
          = [a \in Addr |-> OverlayGet(d, accountKey(a)).balance]
    BY <1>1
  <2> QED
    BY <2>1, Zenon DEF below
<1> QED
  BY <1>2, <1>3, Zenon DEF Good, Covered, Funded

LEMMA HeldFunded ==
    ASSUME NEW v, NEW w, NEW d, Funded(v, d), held(w) = held(v), w.suicided = v.suicided
    PROVE  Funded(w, d)
BY Zenon DEF Funded

LEMMA SlotsCleared ==
    ASSUME NEW v, NEW d
    PROVE  /\ IsFiniteSet(Cleared(v, d)) /\ Cardinality(Cleared(v, d)) \in Nat
           /\ \A S \in SUBSET Addr : IsFiniteSet(S) /\ Cardinality(S) \in Nat
<1>1. IsFiniteSet(Addr \X Slot)
  BY RemoteAssumption, FS_Product
<1>2. Cleared(v, d) \in SUBSET (Addr \X Slot)
  BY DEF Cleared
<1>3. IsFiniteSet(Cleared(v, d)) /\ \A S \in SUBSET Addr : IsFiniteSet(S)
  BY <1>1, <1>2, FS_Subset, RemoteAssumption
<1> QED
  BY <1>3, FS_CardinalityType

LEMMA TouchedGood ==
    ASSUME NEW d, NEW e, Touched(e, d), Good(View(d), d), d \in DbRecord
    PROVE  Good(View(e), e)
<1>1. /\ e \in DbRecord /\ e.overlay = d.overlay
      /\ View(e).suicided = View(d).suicided /\ View(e).refund = View(d).refund
  BY ViewOf, SMTT(60) DEF Touched, Paid, SameBelow
<1>2. \A a \in Addr, k \in Slot : View(e).data[stateKey(a, k)] = View(d).data[stateKey(a, k)]
  BY ViewOf, KeyValues DEF Touched, Paid
<1>3. Cleared(View(e), d) = Cleared(View(d), d)
  BY <1>2, Zenon DEF Cleared
<1>4. \A a \in Addr : View(e).data[accountKey(a)].code = View(d).data[accountKey(a)].code
  BY ViewOf, KeyValues, Zenon DEF Touched, Paid
<1>5. Covered(View(e), d) /\ CodeKept(View(e), d)
  BY <1>1, <1>3, <1>4 DEF Good, Covered, CodeKept
<1>6. Funded(View(e), d)
  BY <1>1, HeldFunded, Zenon DEF Good, Touched
<1>7. Good(View(e), d)
  BY <1>5, <1>6, Zenon DEF Good
<1> QED
  BY <1>1, <1>7, GoodBelow, Zenon

\* The code of an account that has none below may change.
LEMMA CodeSet ==
    ASSUME NEW d \in DbRecord, NEW a \in Addr, NEW code \in BOOLEAN, Good(View(d), d),
           ~OverlayGet(d, accountKey(a)).code
    PROVE  LET e == SetCode(d, a, code)
           IN  e \in DbRecord /\ SameBelow(e, d) /\ e.logs = d.logs /\ Good(View(e), e)
<1> DEFINE acct == GetEthAccount(d, a)
           new == [acct EXCEPT !.code = code, !.hashed = TRUE]
           e == SetCode(d, a, code)
<1>1. acct \in RemoteAccount
  BY AccountRead
<1>2. e = PutEthAccount(d, a, new)
  BY DEF SetCode
<1> HIDE DEF acct
<1>3. new \in RemoteAccount /\ new.balance = acct.balance
  BY <1>1, Zenon DEF RemoteAccount
<1> HIDE DEF new
<1>4. /\ e \in DbRecord /\ SameBelow(e, d)
      /\ e.suicided = d.suicided /\ e.logs = d.logs /\ e.refund = d.refund
      /\ \A x \in AllKeys : get(e, x) = IF x = accountKey(a) THEN new ELSE get(d, x)
  BY <1>2, <1>3, AccountWritten, SMTT(60)
<1> HIDE DEF e
<1>5. \A b \in Addr, k \in Slot : View(e).data[stateKey(b, k)] = View(d).data[stateKey(b, k)]
  BY <1>4, ViewOf, KeyValues, KeysDiffer
<1>6. Cleared(View(e), d) = Cleared(View(d), d)
  BY <1>5, SMTT(60) DEF Cleared
<1>7. Covered(View(e), d)
  BY <1>4, <1>6, ViewOf DEF Good, Covered
<1>8. CodeKept(View(e), d)
  <2> SUFFICES ASSUME NEW b \in Addr, OverlayGet(d, accountKey(b)).code
               PROVE  View(e).data[accountKey(b)].code
    BY DEF CodeKept
  <2>1. b # a
    BY SMTT(60)
  <2>2. View(e).data[accountKey(b)] = View(d).data[accountKey(b)]
    BY <1>4, <2>1, ViewOf, KeyValues, KeysDiffer, SMTT(60)
  <2> QED
    BY <2>2 DEF Good, CodeKept
<1>9. Funded(View(e), d)
  <2>1. \A x \in Addr : get(e, accountKey(x)).balance = get(d, accountKey(x)).balance
    BY <1>3, <1>4, KeyValues, AccountRead, Zenon DEF acct
  <2> QED
    BY <1>4, <2>1, HeldAlike, HeldFunded, ViewOf, Zenon DEF Good
<1>10. Good(View(e), e)
  BY <1>4, <1>7, <1>8, <1>9, GoodBelow, Zenon DEF Good, SameBelow
<1> QED
  BY <1>4, <1>10 DEF e

LEMMA Times ==
    ASSUME NEW c \in Nat, NEW m \in Nat
    PROVE  c * m \in Nat /\ c * (m + 1) = c * m + c
OBVIOUS

\* Only the refund counter may differ.
Refunded(e, d) ==
    /\ e \in DbRecord /\ SameBelow(e, d) /\ e.suicided = d.suicided /\ e.logs = d.logs
    /\ \A key \in AllKeys : get(e, key) = get(d, key)

LEMMA RefundSet ==
    ASSUME NEW d \in DbRecord, NEW r \in Nat
    PROVE  LET e == [d EXCEPT !.refund = r] IN Refunded(e, d) /\ e.refund = r
<1> DEFINE e == [d EXCEPT !.refund = r]
<1>1. /\ e \in DbRecord /\ SameBelow(e, d) /\ e.refund = r /\ e.memdb = d.memdb
      /\ e.suicided = d.suicided /\ e.logs = d.logs
  BY Zenon DEF DbRecord, SameBelow
<1> HIDE DEF e
<1>2. \A key \in AllKeys : get(e, key) = get(d, key)
  BY <1>1 DEF get, OverlayGet, SameBelow
<1> QED
  BY <1>1, <1>2 DEF e, Refunded

LEMMA RefundChanged ==
    ASSUME NEW d \in DbRecord, NEW g \in Nat
    PROVE  /\ Refunded(AddRefund(d, g), d) /\ AddRefund(d, g).refund = d.refund + g
           /\ g <= d.refund => /\ Refunded(SubRefund(d, g), d)
                               /\ SubRefund(d, g).refund = d.refund - g
<1>1. d.refund \in Nat /\ d.refund + g \in Nat /\ (g <= d.refund => d.refund - g \in Nat)
  BY DbFields
<1>2. AddRefund(d, g) = [d EXCEPT !.refund = d.refund + g]
  BY DEF AddRefund
<1>3. g <= d.refund => SubRefund(d, g) = [d EXCEPT !.refund = d.refund - g]
  BY <1>1 DEF SubRefund
<1> QED
  BY <1>1, <1>2, <1>3, RefundSet, Zenon

\* The refunds of a store to a slot: what clearing it earns is earned when it is
\* cleared and taken back when it is set again.
earned(original, value) == IF original # 0 /\ value = 0 THEN SstoreClearsRefund ELSE 0

LEMMA StoreRefunds ==
    ASSUME NEW d \in DbRecord, NEW original, NEW current, NEW value, current # value,
           earned(original, current) <= d.refund
    PROVE  LET e == refundSStore(d, original, current, value)
           IN  /\ Refunded(e, d)
               /\ e.refund + earned(original, current) >= d.refund + earned(original, value)
<1> DEFINE clears ==
             CASE original # 0 /\ current = 0              -> SubRefund(d, SstoreClearsRefund)
               [] original # 0 /\ current # 0 /\ value = 0 -> AddRefund(d, SstoreClearsRefund)
               [] OTHER                                    -> d
           more == (IF original = 0 THEN SstoreSetGas ELSE SstoreResetGas) - SloadGas
<1>1. SstoreClearsRefund \in Nat /\ more \in Nat
  BY EvmAssumption, SMTT(60)
<1>2. Refunded(d, d) /\ d.refund \in Nat
  BY DbFields DEF Refunded, SameBelow
<1>3. /\ Refunded(clears, d)
      /\ clears.refund + earned(original, current) = d.refund + earned(original, value)
  <2>1. CASE original = 0
    <3>1. clears = d
      BY <2>1
    <3> HIDE DEF clears
    <3> QED
      BY <1>2, <2>1, <3>1 DEF earned
  <2>2. CASE original # 0 /\ current = 0
    <3>1. clears = SubRefund(d, SstoreClearsRefund) /\ SstoreClearsRefund <= d.refund
      BY <2>2 DEF earned
    <3> HIDE DEF clears
    <3>2. Refunded(clears, d) /\ clears.refund = d.refund - SstoreClearsRefund
      BY <3>1, <1>1, RefundChanged
    <3> QED
      BY <1>1, <1>2, <3>2, <2>2 DEF earned
  <2>3. CASE original # 0 /\ current # 0 /\ value = 0
    <3>1. clears = AddRefund(d, SstoreClearsRefund)
      BY <2>3
    <3> HIDE DEF clears
    <3>2. Refunded(clears, d) /\ clears.refund = d.refund + SstoreClearsRefund
      BY <3>1, <1>1, RefundChanged
    <3> QED
      BY <1>1, <1>2, <3>2, <2>3 DEF earned
  <2>4. CASE original # 0 /\ current # 0 /\ value # 0
    <3>1. clears = d
      BY <2>4
    <3> HIDE DEF clears
    <3> QED
      BY <1>2, <2>4, <3>1 DEF earned
  <2> QED
    BY <2>1, <2>2, <2>3, <2>4
<1> HIDE DEF clears
<1>4. clears \in DbRecord /\ clears.refund \in Nat
  BY <1>3, DbFields DEF Refunded
<1>5. /\ Refunded(AddRefund(clears, more), clears)
      /\ AddRefund(clears, more).refund = clears.refund + more
  BY <1>1, <1>4, RefundChanged, SMTT(60)
<1>6. Refunded(AddRefund(clears, more), d)
  BY <1>3, <1>5 DEF Refunded, SameBelow
<1>7. refundSStore(d, original, current, value) \in {clears, AddRefund(clears, more)}
  BY DEF refundSStore, clears
<1>8. earned(original, current) \in Nat /\ earned(original, value) \in Nat
  BY <1>1 DEF earned
<1>9. AddRefund(clears, more).refund + earned(original, current)
        >= d.refund + earned(original, value)
  BY <1>1, <1>2, <1>3, <1>4, <1>5, <1>8, SMTT(60)
<1> QED
  BY <1>2, <1>3, <1>4, <1>6, <1>7, <1>8, <1>9, SMTT(60)

LEMMA ClearedEarned ==
    ASSUME NEW d \in DbRecord, NEW a \in Addr, NEW k \in Slot, Good(View(d), d)
    PROVE  /\ earned(GetCommittedState(d, a, k), GetState(d, a, k)) <= d.refund
           /\ <<a, k>> \in Cleared(View(d), d) <=>
                GetCommittedState(d, a, k) # 0 /\ GetState(d, a, k) = 0
<1> DEFINE C == Cleared(View(d), d)
           n == Cardinality(C)
           m == Cardinality(d.suicided)
<1>1. <<a, k>> \in C <=> GetCommittedState(d, a, k) # 0 /\ GetState(d, a, k) = 0
  BY ViewOf, KeyValues, Zenon DEF Cleared, GetState
<1>2. IsFiniteSet(C) /\ n \in Nat /\ m \in Nat /\ d.refund \in Nat
  BY SlotsCleared, DbFields, SMTT(60)
<1>3. /\ SstoreClearsRefund \in Nat /\ SelfdestructRefundGas \in Nat
      /\ d.refund >= SelfdestructRefundGas * m + SstoreClearsRefund * n
  BY ViewOf, EvmAssumption DEF Good, Covered
<1> HIDE DEF C, n, m
<1>4. SelfdestructRefundGas * m \in Nat /\ SstoreClearsRefund * n \in Nat
  BY <1>2, <1>3, Times
<1>5. ASSUME <<a, k>> \in C
      PROVE  SstoreClearsRefund <= d.refund
  <2>1. n # 0
    BY <1>2, <1>5, FS_EmptySet DEF n
  <2>2. n - 1 \in Nat /\ n = (n - 1) + 1
    BY <1>2, <2>1
  <2>3. SstoreClearsRefund * n = SstoreClearsRefund * (n - 1) + SstoreClearsRefund
        /\ SstoreClearsRefund * (n - 1) \in Nat
    BY <1>3, <2>2, Times, Zenon
  <2> QED
    BY <1>2, <1>3, <1>4, <2>3, SMTT(60)
<1> QED
  BY <1>1, <1>2, <1>5, SMTT(60) DEF earned, C

LEMMA SlotStored ==
    ASSUME NEW d \in DbRecord, NEW a \in Addr, NEW k \in Slot, NEW value \in Hash,
           Good(View(d), d), NEW r, Refunded(r, d),
           r.refund + earned(GetCommittedState(d, a, k), GetState(d, a, k))
             >= d.refund + earned(GetCommittedState(d, a, k), value)
    PROVE  LET e == SetState(r, a, k, value)
           IN  e \in DbRecord /\ SameBelow(e, d) /\ e.logs = d.logs /\ Good(View(e), e)
<1> DEFINE e == SetState(r, a, k, value)
           original == GetCommittedState(d, a, k)
           C == Cleared(View(d), d)
           D == Cleared(View(e), d)
<1>1. /\ e \in DbRecord /\ SameBelow(e, d) /\ e.logs = d.logs /\ e.suicided = d.suicided
      /\ e.refund = r.refund
      /\ \A x \in AllKeys : get(e, x) = IF x = stateKey(a, k) THEN value ELSE get(d, x)
  BY Puts, KeyValues, SMTT(60) DEF SetState, Refunded, SameBelow
<1> HIDE DEF e
<1>2. \A b \in Addr, l \in Slot :
        View(e).data[stateKey(b, l)]
          = IF b = a /\ l = k THEN value ELSE View(d).data[stateKey(b, l)]
  <2> TAKE b \in Addr, l \in Slot
  <2>1. stateKey(b, l) \in AllKeys
    BY KeyValues, Zenon
  <2>2. /\ View(e).data[stateKey(b, l)] = get(e, stateKey(b, l))
        /\ View(d).data[stateKey(b, l)] = get(d, stateKey(b, l))
    BY <2>1, ViewOf, Zenon
  <2>3. stateKey(b, l) = stateKey(a, k) <=> b = a /\ l = k
    BY DEF stateKey
  <2> QED
    BY <1>1, <2>1, <2>2, <2>3, Zenon
<1>3. asHash(value) = value
  BY RemoteAssumption DEF asHash
<1>4. D = IF original # 0 /\ value = 0 THEN C \cup {<<a, k>>} ELSE C \ {<<a, k>>}
  <2>1. ASSUME NEW key \in Addr \X Slot, key # <<a, k>>
        PROVE  key \in D <=> key \in C
    BY <1>2, <2>1 DEF Cleared
  <2>2. <<a, k>> \in D <=> original # 0 /\ value = 0
    BY <1>2, <1>3, Zenon DEF Cleared
  <2>3. C \subseteq Addr \X Slot /\ D \subseteq Addr \X Slot /\ <<a, k>> \in Addr \X Slot
    BY DEF Cleared
  <2> HIDE DEF C, D, original
  <2> QED
    BY <2>1, <2>2, <2>3, Zenon
<1>5. <<a, k>> \in C <=> original # 0 /\ GetState(d, a, k) = 0
  BY ClearedEarned, Zenon
<1> DEFINE n == Cardinality(C)
           m == Cardinality(D)
           s == SelfdestructRefundGas * Cardinality(d.suicided)
<1>6. /\ IsFiniteSet(C) /\ n \in Nat /\ m \in Nat /\ Cardinality(d.suicided) \in Nat
      /\ d.refund \in Nat /\ e.refund \in Nat
  BY <1>1, SlotsCleared, DbFields, Zenon
<1>7. /\ SstoreClearsRefund \in Nat /\ s \in Nat
      /\ d.refund >= s + SstoreClearsRefund * n
  BY <1>6, ViewOf, EvmAssumption, Times, Zenon DEF Good, Covered
<1>8. /\ original # 0 /\ value = 0 =>
           m = IF original # 0 /\ GetState(d, a, k) = 0 THEN n ELSE n + 1
      /\ ~(original # 0 /\ value = 0) =>
           IF original # 0 /\ GetState(d, a, k) = 0 THEN n = m + 1 ELSE m = n
  <2> HIDE DEF C, D, original
  <2>1. /\ Cardinality(C \cup {<<a, k>>}) = IF <<a, k>> \in C THEN n ELSE n + 1
        /\ Cardinality(C \ {<<a, k>>}) = IF <<a, k>> \in C THEN n - 1 ELSE n
    BY <1>6, FS_AddElement, FS_RemoveElement, Zenon
  <2> QED
    BY <1>4, <1>5, <1>6, <2>1, SMTT(60)
<1>9. SstoreClearsRefund * (n + 1) = SstoreClearsRefund * n + SstoreClearsRefund
      /\ SstoreClearsRefund * (m + 1) = SstoreClearsRefund * m + SstoreClearsRefund
      /\ SstoreClearsRefund * n \in Nat /\ SstoreClearsRefund * m \in Nat
  BY <1>6, <1>7, Times, SMTT(60)
<1>10. e.refund >= s + SstoreClearsRefund * m
  <2> DEFINE cn == SstoreClearsRefund * n
             cm == SstoreClearsRefund * m
  <2>1. m = n => cm = cn
    OBVIOUS
  <2>2. m = n + 1 => cm = cn + SstoreClearsRefund
    BY <1>9
  <2>3. n = m + 1 => cn = cm + SstoreClearsRefund
    BY <1>9, Zenon
  <2>4. cn \in Nat /\ cm \in Nat /\ d.refund >= s + cn
    BY <1>7, <1>9, Zenon
  <2> HIDE DEF cn, cm, n, m, s, original
  <2>5. e.refund + earned(original, GetState(d, a, k)) >= d.refund + earned(original, value)
    BY <1>1, Zenon DEF original
  <2> QED
    BY <1>6, <1>7, <1>8, <2>1, <2>2, <2>3, <2>4, <2>5, SMTT(60) DEF earned, cm
<1>11. Covered(View(e), d)
  BY <1>1, <1>10, ViewOf, Zenon DEF Covered
<1>12. \A x \in Addr : get(e, accountKey(x)) = get(d, accountKey(x))
  BY <1>1, KeyValues, KeysDiffer, Zenon
<1>13. CodeKept(View(e), d)
  BY <1>12, ViewOf, KeyValues, Zenon DEF Good, CodeKept
<1>14. Funded(View(e), d)
  <2>1. held(View(e)) = held(View(d))
    BY <1>12, HeldAlike, Zenon
  <2> QED
    BY <1>1, <2>1, HeldFunded, ViewOf, Zenon DEF Good
<1>15. Good(View(e), e)
  BY <1>1, <1>11, <1>13, <1>14, GoodBelow, Zenon DEF Good, SameBelow
<1> QED
  BY <1>1, <1>15, Zenon DEF e

\* SELFDESTRUCT: the refund is earned once for an account.
earnedBySuicide(d, a) == IF HasSuicided(d, a) THEN d ELSE AddRefund(d, SelfdestructRefundGas)

LEMMA SuicideRefunds ==
    ASSUME NEW d \in DbRecord, NEW a \in Addr, Good(View(d), d)
    PROVE  LET r == earnedBySuicide(d, a)
           IN  /\ Refunded(r, d)
               /\ r.refund >= SelfdestructRefundGas * Cardinality(d.suicided \cup {a})
                            + SstoreClearsRefund * Cardinality(Cleared(View(d), d))
<1> DEFINE n == Cardinality(d.suicided)
           m == Cardinality(d.suicided \cup {a})
           c == SstoreClearsRefund * Cardinality(Cleared(View(d), d))
<1>1. SelfdestructRefundGas \in Nat /\ SstoreClearsRefund \in Nat
  BY EvmAssumption, Zenon
<1>2. n \in Nat /\ IsFiniteSet(d.suicided) /\ c \in Nat /\ d.refund \in Nat
  BY <1>1, SlotsCleared, DbFields, Times, Zenon
<1>3. d.refund >= SelfdestructRefundGas * n + c
  BY ViewOf, Zenon DEF Good, Covered
<1>4. m = IF HasSuicided(d, a) THEN n ELSE n + 1
  BY <1>2, FS_AddElement, Zenon DEF HasSuicided
<1>5. SelfdestructRefundGas * (n + 1) = SelfdestructRefundGas * n + SelfdestructRefundGas
      /\ SelfdestructRefundGas * n \in Nat
  BY <1>1, <1>2, Times, Zenon
<1>6. CASE HasSuicided(d, a)
  <2>1. earnedBySuicide(d, a) = d /\ m = n
    BY <1>4, <1>6, Zenon DEF earnedBySuicide
  <2>2. Refunded(d, d)
    BY Zenon DEF Refunded, SameBelow
  <2> QED
    BY <1>3, <2>1, <2>2, Zenon
<1>7. CASE ~HasSuicided(d, a)
  <2>1. /\ Refunded(earnedBySuicide(d, a), d)
        /\ earnedBySuicide(d, a).refund = d.refund + SelfdestructRefundGas
    BY <1>1, <1>7, RefundChanged, Zenon DEF earnedBySuicide
  <2>2. SelfdestructRefundGas * m = SelfdestructRefundGas * n + SelfdestructRefundGas
    BY <1>4, <1>5, <1>7, Zenon
  <2> HIDE DEF n, m, c
  <2>3. d.refund + SelfdestructRefundGas >= SelfdestructRefundGas * m + c
    BY <1>1, <1>2, <1>3, <1>5, <2>2, SMTT(60)
  <2> QED
    BY <2>1, <2>3 DEF m, c
<1> QED
  BY <1>6, <1>7, Zenon

LEMMA Marked ==
    ASSUME NEW d \in DbRecord, NEW a \in Addr
    PROVE  LET e == [d EXCEPT !.suicided = @ \cup {a}]
           IN  /\ e \in DbRecord /\ SameBelow(e, d) /\ e.suicided = d.suicided \cup {a}
               /\ e.logs = d.logs /\ e.refund = d.refund
               /\ \A key \in AllKeys : get(e, key) = get(d, key)
<1> DEFINE s == d.suicided \cup {a}
           e == [d EXCEPT !.suicided = s]
<1>1. s \in SUBSET Addr
  BY DbFields
<1> HIDE DEF s
<1>2. /\ e \in DbRecord /\ SameBelow(e, d) /\ e.suicided = s /\ e.memdb = d.memdb
      /\ e.logs = d.logs /\ e.refund = d.refund
  BY <1>1, Zenon DEF DbRecord, SameBelow
<1> HIDE DEF e
<1>3. \A key \in AllKeys : get(e, key) = get(d, key)
  BY <1>2 DEF get, OverlayGet, SameBelow
<1> QED
  BY <1>2, <1>3 DEF e, s

LEMMA SuicideIs ==
    ASSUME NEW d \in DbRecord, NEW a \in Addr
    PROVE  LET m == [d EXCEPT !.suicided = @ \cup {a}]
               e == Suicide(d, a)
           IN  Paid(e, m) /\ held(View(e)) = held(View(m)) - GetBalance(m, a)
<1> DEFINE m == [d EXCEPT !.suicided = @ \cup {a}]
           acct == GetEthAccount(m, a)
           new == [acct EXCEPT !.balance = 0]
<1>1. ~IsEmpty(GetEthAccount(d, a))
  BY AccountRead, Zenon DEF IsEmpty, RemoteAccount
<1>2. m \in DbRecord
  BY Marked
<1>3. Suicide(d, a) = PutEthAccount(m, a, new)
  BY <1>1 DEF Suicide, SetBalance
<1> HIDE DEF m
<1>4. acct \in RemoteAccount
  BY <1>2, AccountRead
<1> HIDE DEF acct
<1>5. new \in RemoteAccount /\ new.code = acct.code /\ new.balance = 0 /\ acct.balance \in Nat
  BY <1>4, Zenon DEF RemoteAccount
<1> HIDE DEF new
<1> DEFINE e == PutEthAccount(m, a, new)
<1>6. Paid(e, m) /\ held(View(e)) = held(View(m)) - acct.balance + new.balance
  BY <1>2, <1>5, AccountWritten DEF acct
<1> HIDE DEF e
<1>7. acct.balance = GetBalance(m, a)
  BY DEF acct, GetBalance
<1>8. held(View(m)) \in Int
  BY <1>2, HeldType, Zenon
<1>9. held(View(e)) = held(View(m)) - GetBalance(m, a)
  BY <1>5, <1>6, <1>7, <1>8
<1> QED
  BY <1>3, <1>6, <1>9, Zenon DEF m, e

LEMMA Destroyed ==
    ASSUME NEW d \in DbRecord, NEW a \in Addr, NEW b \in Addr, Good(View(d), d)
    PROVE  LET r == earnedBySuicide(d, a)
               e == Suicide(AddBalance(r, b, GetBalance(r, a)), a)
           IN  e \in DbRecord /\ SameBelow(e, d) /\ e.logs = d.logs /\ Good(View(e), e)
<1> DEFINE r == earnedBySuicide(d, a)
           t == AddBalance(r, b, GetBalance(r, a))
           m == [t EXCEPT !.suicided = @ \cup {a}]
           e == Suicide(t, a)
<1>1. /\ Refunded(r, d) /\ r \in DbRecord
      /\ r.refund >= SelfdestructRefundGas * Cardinality(d.suicided \cup {a})
                   + SstoreClearsRefund * Cardinality(Cleared(View(d), d))
  BY SuicideRefunds, Zenon DEF Refunded
<1> HIDE DEF r
<1>2. /\ Paid(t, r) /\ t \in DbRecord /\ GetBalance(r, a) \in Nat
      /\ held(View(t)) = held(View(r)) + GetBalance(r, a) /\ GetBalance(t, a) >= GetBalance(r, a)
  <2>1. GetBalance(r, a) \in Nat
    BY <1>1, AccountRead, Zenon
  <2>2. Paid(t, r) /\ held(View(t)) = held(View(r)) + GetBalance(r, a)
        /\ GetBalance(t, a) >= GetBalance(r, a)
    BY <1>1, <2>1, BalanceAdded, Zenon
  <2> QED
    BY <2>1, <2>2, Zenon DEF Paid
<1> HIDE DEF t
<1>3. /\ m \in DbRecord /\ SameBelow(m, t) /\ m.suicided = t.suicided \cup {a}
      /\ m.logs = t.logs /\ m.refund = t.refund
      /\ \A key \in AllKeys : get(m, key) = get(t, key)
  BY <1>2, Marked
<1>4. Paid(e, m) /\ held(View(e)) = held(View(m)) - GetBalance(m, a)
  BY <1>2, SuicideIs, Zenon
<1> HIDE DEF m, e
<1>5. /\ e \in DbRecord /\ SameBelow(e, d) /\ e.logs = d.logs
      /\ e.suicided = d.suicided \cup {a} /\ e.refund = r.refund
  BY <1>1, <1>2, <1>3, <1>4, Zenon DEF Paid, Refunded, SameBelow
<1>6. \A x \in Addr : /\ get(e, accountKey(x)).code = get(d, accountKey(x)).code
                      /\ \A k \in Slot : get(e, stateKey(x, k)) = get(d, stateKey(x, k))
  <2> SUFFICES ASSUME NEW x \in Addr
               PROVE  /\ get(e, accountKey(x)).code = get(d, accountKey(x)).code
                      /\ \A k \in Slot : get(e, stateKey(x, k)) = get(d, stateKey(x, k))
    OBVIOUS
  <2>1. get(r, accountKey(x)) = get(d, accountKey(x)) /\ get(m, accountKey(x)) = get(t, accountKey(x))
    BY <1>1, <1>3, KeyValues, Zenon DEF Refunded
  <2>2. /\ get(t, accountKey(x)).code = get(r, accountKey(x)).code
        /\ get(e, accountKey(x)).code = get(m, accountKey(x)).code
    BY <1>2, <1>4, Zenon DEF Paid
  <2>3. ASSUME NEW k \in Slot
        PROVE  get(e, stateKey(x, k)) = get(d, stateKey(x, k))
    <3>1. get(r, stateKey(x, k)) = get(d, stateKey(x, k)) /\ get(m, stateKey(x, k)) = get(t, stateKey(x, k))
      BY <1>1, <1>3, KeyValues, Zenon DEF Refunded
    <3>2. /\ get(t, stateKey(x, k)) = get(r, stateKey(x, k))
          /\ get(e, stateKey(x, k)) = get(m, stateKey(x, k))
      BY <1>2, <1>4, Zenon DEF Paid
    <3> QED
      BY <3>1, <3>2, Zenon
  <2> QED
    BY <2>1, <2>2, <2>3, Zenon
<1>7. Cleared(View(e), d) = Cleared(View(d), d)
  BY <1>6, ViewOf, KeyValues DEF Cleared
<1>8. Covered(View(e), d)
  BY <1>1, <1>5, <1>7, ViewOf, Zenon DEF Covered
<1>9. CodeKept(View(e), d)
  BY <1>6, ViewOf, KeyValues, Zenon DEF Good, CodeKept
<1>10. Funded(View(e), d)
  <2>1. held(View(r)) = held(View(d)) /\ held(View(m)) = held(View(t))
    BY <1>1, <1>3, KeyValues, HeldAlike, Zenon DEF Refunded
  <2>2. GetBalance(m, a) = GetBalance(t, a)
    BY <1>3, KeyValues, Zenon DEF GetBalance, GetEthAccount
  <2>3. held(View(d)) \in Int /\ held(View(e)) \in Int /\ GetBalance(t, a) \in Nat
    BY <1>2, <1>5, HeldType, AccountRead, Zenon
  <2>4. held(View(e)) <= held(View(d))
    BY <1>2, <1>4, <2>1, <2>2, <2>3
  <2>5. below(d) \in FirstSupplies /\ held(View(d)) <= below(d) /\ below(d) \in Int
    BY BelowType, Zenon DEF Good, Funded
  <2>6. held(View(e)) <= below(d)
    BY <2>3, <2>4, <2>5
  <2>7. View(e).suicided # {}
    BY <1>5, ViewOf
  <2> QED
    BY <2>5, <2>6, <2>7, Zenon DEF Funded
<1>11. Good(View(e), e)
  BY <1>5, <1>8, <1>9, <1>10, GoodBelow, Zenon DEF Good, SameBelow
<1> QED
  BY <1>5, <1>11, Zenon DEF e, t, r

-----------------------------------------------------------------------------
\* Snapshots.  e has d's first n snapshots, over the same write set below.
Keeps(e, d, n) ==
    /\ e \in DbRecord /\ LogsKept(e) /\ e.overlay = d.overlay /\ e.panic = d.panic
    /\ n <= Len(e.snapshots) /\ \A j \in 1..n : SavedView(e, j) = SavedView(d, j)

LEMMA KeepsOn ==
    ASSUME NEW d, NEW e, NEW f, NEW n \in Nat, NEW m \in Nat, n <= m,
           Keeps(e, d, n), Keeps(f, e, m)
    PROVE  Keeps(f, d, n)
<1>1. Len(f.snapshots) \in Nat
  BY DbFields DEF Keeps
<1> QED
  BY <1>1 DEF Keeps

LEMMA KeepsFewer ==
    ASSUME NEW d, NEW e, NEW n \in Nat, NEW m \in Nat, n <= m, Keeps(e, d, m)
    PROVE  Keeps(e, d, n)
<1>1. Len(e.snapshots) \in Nat
  BY DbFields, Zenon DEF Keeps
<1> QED
  BY <1>1 DEF Keeps

LEMMA SnapshotFields ==
    ASSUME NEW d \in DbRecord, NEW j \in 1..Len(d.snapshots)
    PROVE  /\ d.snapshots[j] \in SnapshotRecord
           /\ d.snapshots[j].changes \in WriteSets /\ d.snapshots[j].suicided \in SUBSET Addr
           /\ d.snapshots[j].logsSize \in Nat /\ d.snapshots[j].refund \in Nat
<1>1. d.snapshots[j] \in SnapshotRecord
  BY DbFields
<1> QED
  BY <1>1 DEF SnapshotRecord

LEMMA Prefixes ==
    ASSUME NEW S, NEW s \in Seq(S), NEW n \in Nat, n <= Len(s)
    PROVE  /\ SubSeq(s, 1, n) \in Seq(S) /\ Len(SubSeq(s, 1, n)) = n
           /\ \A i \in 1..n : SubSeq(s, 1, n)[i] = s[i]
           /\ \A m \in 0..n : SubSeq(SubSeq(s, 1, n), 1, m) = SubSeq(s, 1, m)
           /\ \A e \in S : SubSeq(Append(s, e), 1, n) = SubSeq(s, 1, n)
           /\ SubSeq(s, 1, Len(s)) = s
<1>1. /\ SubSeq(s, 1, n) \in Seq(S) /\ Len(SubSeq(s, 1, n)) = n
      /\ \A i \in 1..n : SubSeq(s, 1, n)[i] = s[i]
  OBVIOUS
<1>2. ASSUME NEW m \in 0..n
      PROVE  SubSeq(SubSeq(s, 1, n), 1, m) = SubSeq(s, 1, m)
  <2> DEFINE t == SubSeq(s, 1, n)
  <2>1. t \in Seq(S) /\ Len(t) = n /\ \A i \in 1..n : t[i] = s[i]
    BY <1>1
  <2> HIDE DEF t
  <2>2. SubSeq(t, 1, m) = [i \in 1..m |-> t[i]] /\ SubSeq(s, 1, m) = [i \in 1..m |-> s[i]]
    BY <2>1
  <2> QED
    BY <2>1, <2>2 DEF t
<1>3. ASSUME NEW e \in S
      PROVE  SubSeq(Append(s, e), 1, n) = SubSeq(s, 1, n)
  <2>1. \A i \in 1..n : Append(s, e)[i] = s[i]
    OBVIOUS
  <2>2. SubSeq(s, 1, n) = [i \in 1..n |-> s[i]]
    OBVIOUS
  <2>3. SubSeq(Append(s, e), 1, n) = [i \in 1..n |-> Append(s, e)[i]]
    OBVIOUS
  <2> QED
    BY <2>1, <2>2, <2>3
<1>4. SubSeq(s, 1, Len(s)) = s
  BY SMTT(60)
<1> QED
  BY <1>1, <1>2, <1>3, <1>4, SMTT(60)

\* Two states whose saved states agree, snapshot by snapshot and log by log.
LEMMA SavedAlike ==
    ASSUME NEW d, NEW e, NEW j, e.overlay = d.overlay, e.snapshots[j] = d.snapshots[j],
           SubSeq(e.logs, 1, d.snapshots[j].logsSize) = SubSeq(d.logs, 1, d.snapshots[j].logsSize)
    PROVE  SavedView(e, j) = SavedView(d, j)
BY Zenon DEF SavedView, OverlayGet

LEMMA SavedStays ==
    ASSUME NEW d \in DbRecord, LogsKept(d), NEW e \in DbRecord, SameBelow(e, d),
           e.logs = d.logs \/ \E a \in Addr : e.logs = Append(d.logs, a)
    PROVE  Keeps(e, d, Len(d.snapshots))
<1>1. /\ d.logs \in Seq(Addr) /\ e.logs \in Seq(Addr) /\ Len(d.logs) \in Nat
      /\ Len(d.snapshots) \in Nat /\ Len(e.logs) \in Nat
  BY DbFields
<1>2. Len(d.logs) <= Len(e.logs)
  BY <1>1, SMTT(60)
<1>3. ASSUME NEW j \in 1..Len(d.snapshots)
      PROVE  /\ d.snapshots[j].logsSize \in Nat /\ d.snapshots[j].logsSize <= Len(e.logs)
             /\ SavedView(e, j) = SavedView(d, j)
  <2>1. d.snapshots[j].logsSize \in Nat /\ d.snapshots[j].logsSize <= Len(d.logs)
    BY SnapshotFields, Zenon DEF LogsKept
  <2>2. \A l \in Seq(Addr), k \in Nat, a \in Addr :
          k <= Len(l) => SubSeq(Append(l, a), 1, k) = SubSeq(l, 1, k)
    BY Prefixes
  <2> DEFINE k == d.snapshots[j].logsSize
  <2>3. SubSeq(e.logs, 1, k) = SubSeq(d.logs, 1, k)
    <3> HIDE DEF k
    <3>1. k \in Nat /\ k <= Len(d.logs)
      BY <2>1 DEF k
    <3>2. CASE \E a \in Addr : e.logs = Append(d.logs, a)
      <4>1. PICK a \in Addr : e.logs = Append(d.logs, a)
        BY <3>2
      <4>2. SubSeq(Append(d.logs, a), 1, k) = SubSeq(d.logs, 1, k)
        BY <1>1, <2>2, <3>1
      <4> QED
        BY <4>1, <4>2, Zenon
    <3> QED
      BY <3>2, Zenon
  <2>4. e.overlay = d.overlay /\ e.snapshots[j] = d.snapshots[j]
    BY Zenon DEF SameBelow
  <2>5. SavedView(e, j) = SavedView(d, j)
    BY <2>3, <2>4, SavedAlike, Zenon
  <2> QED
    BY <1>1, <1>2, <2>1, <2>5, SMTT(60)
<1>4. LogsKept(e)
  BY <1>3, SMTT(60) DEF LogsKept, SameBelow
<1> QED
  BY <1>1, <1>3, <1>4, SMTT(60) DEF Keeps, SameBelow

LEMMA SnapshotTaken ==
    ASSUME NEW d \in DbRecord, LogsKept(d)
    PROVE  LET s == Snapshot(d)
               n == Len(d.snapshots)
           IN  /\ Keeps(s, d, n) /\ Len(s.snapshots) = n + 1
               /\ SavedView(s, n + 1) = View(d) /\ View(s) = View(d)
               /\ \A key \in AllKeys : get(s, key) = get(d, key)
<1> DEFINE n == Len(d.snapshots)
           sn == [changes |-> d.memdb, suicided |-> d.suicided, logsSize |-> Len(d.logs),
                  refund |-> d.refund]
           t == Append(d.snapshots, sn)
           s == [d EXCEPT !.snapshots = t]
<1>1. Snapshot(d) = s
  BY Zenon DEF Snapshot
<1>2. sn \in SnapshotRecord
  BY DbFields, Zenon DEF SnapshotRecord
<1>3. /\ d.snapshots \in Seq(SnapshotRecord) /\ n \in Nat
      /\ d.logs \in Seq(Addr) /\ Len(d.logs) \in Nat
  BY DbFields, Zenon
<1>4. sn.changes = d.memdb /\ sn.suicided = d.suicided /\ sn.logsSize = Len(d.logs)
      /\ sn.refund = d.refund
  OBVIOUS
<1> HIDE DEF sn
<1>5. /\ t \in Seq(SnapshotRecord) /\ Len(t) = n + 1 /\ t[n + 1] = sn
      /\ \A j \in 1..n : t[j] = d.snapshots[j]
  BY <1>2, <1>3
<1> HIDE DEF t
<1>6. /\ s \in DbRecord /\ s.snapshots = t /\ s.memdb = d.memdb /\ s.overlay = d.overlay
      /\ s.suicided = d.suicided /\ s.logs = d.logs /\ s.refund = d.refund /\ s.panic = d.panic
  BY <1>5, Zenon DEF DbRecord
<1> HIDE DEF s
<1>7. \A key \in AllKeys : get(s, key) = get(d, key)
  BY <1>6 DEF get, OverlayGet
<1>8. View(s) = View(d)
  BY <1>6, <1>7, ViewsEqual
<1>9. SavedView(s, n + 1) = View(d)
  <2>1. SubSeq(d.logs, 1, Len(d.logs)) = d.logs
    BY <1>3, Prefixes
  <2> QED
    BY <1>4, <1>5, <1>6, <2>1, Zenon DEF SavedView, View, get, OverlayGet
<1>10. \A j \in 1..n : SavedView(s, j) = SavedView(d, j)
  BY <1>5, <1>6, SavedAlike, Zenon
<1>11. LogsKept(s)
  <2>1. \A j \in 1..n : /\ t[j].logsSize \in Nat /\ t[j].logsSize <= Len(d.logs)
                        /\ \A i \in 1..j : t[i].logsSize <= t[j].logsSize
    <3>1. ASSUME NEW j \in 1..n
          PROVE  /\ t[j].logsSize \in Nat /\ t[j].logsSize <= Len(d.logs)
                 /\ \A i \in 1..j : t[i].logsSize <= t[j].logsSize
      <4>1. \A i \in 1..j : i \in 1..n
        BY <1>3, SMTT(60)
      <4>2. d.snapshots[j].logsSize \in Nat
        BY SnapshotFields, SMTT(60)
      <4> QED
        BY <1>5, <4>1, <4>2, Zenon DEF LogsKept
    <3> QED
      BY <3>1
  <2>2. t[n + 1].logsSize = Len(d.logs)
    BY <1>4, <1>5, SMTT(60)
  <2>3. ASSUME NEW j \in 1..n + 1
        PROVE  t[j].logsSize <= Len(d.logs) /\ \A i \in 1..j : t[i].logsSize <= t[j].logsSize
    <3>1. CASE j \in 1..n
      BY <2>1, <3>1, Zenon
    <3>2. CASE j = n + 1
      <4>1. ASSUME NEW i \in 1..j
            PROVE  t[i].logsSize <= t[j].logsSize
        <5>1. i \in 1..n \/ i = n + 1
          BY <1>3, <3>2, SMTT(60)
        <5> QED
          BY <1>3, <2>1, <2>2, <3>2, <5>1, SMTT(60)
      <4> QED
        BY <1>3, <2>2, <3>2, <4>1, Zenon
    <3> QED
      BY <1>3, <3>1, <3>2, SMTT(60)
  <2> QED
    BY <1>5, <1>6, <2>3, SMTT(60) DEF LogsKept
<1> QED
  BY <1>1, <1>3, <1>5, <1>6, <1>7, <1>8, <1>9, <1>10, <1>11, SMTT(60) DEF Keeps

LEMMA Reverted ==
    ASSUME NEW d \in DbRecord, LogsKept(d), NEW n \in 1..Len(d.snapshots)
    PROVE  LET e == RevertToSnapshot(d, n)
           IN  Keeps(e, d, n - 1) /\ Len(e.snapshots) = n - 1 /\ View(e) = SavedView(d, n)
<1> DEFINE sn == d.snapshots[n]
           t == SubSeq(d.snapshots, 1, n - 1)
           l == SubSeq(d.logs, 1, sn.logsSize)
           e == [d EXCEPT !.snapshots = t, !.memdb = sn.changes, !.suicided = sn.suicided,
                          !.refund = sn.refund, !.logs = l]
<1>1. d.snapshots \in Seq(SnapshotRecord) /\ Len(d.snapshots) \in Nat /\ d.logs \in Seq(Addr)
      /\ Len(d.logs) \in Nat /\ n \in Nat /\ n - 1 \in Nat /\ n <= Len(d.snapshots)
      /\ n - 1 <= Len(d.snapshots)
  BY DbFields
<1>2. RevertToSnapshot(d, n) = e
  BY <1>1, SMTT(60) DEF RevertToSnapshot
<1>3. /\ sn.changes \in WriteSets /\ sn.suicided \in SUBSET Addr /\ sn.logsSize \in Nat
      /\ sn.refund \in Nat /\ sn.logsSize <= Len(d.logs)
  BY SnapshotFields, Zenon DEF LogsKept
<1> HIDE DEF sn
<1>4. /\ t \in Seq(SnapshotRecord) /\ Len(t) = n - 1
      /\ \A j \in 1..n - 1 : t[j] = d.snapshots[j]
  BY <1>1, Prefixes, SMTT(60)
<1>5. /\ l \in Seq(Addr) /\ Len(l) = sn.logsSize
      /\ \A m \in 0..sn.logsSize : SubSeq(l, 1, m) = SubSeq(d.logs, 1, m)
  BY <1>1, <1>3, Prefixes
<1> HIDE DEF t, l
<1>6. /\ e \in DbRecord /\ e.snapshots = t /\ e.memdb = sn.changes /\ e.suicided = sn.suicided
      /\ e.refund = sn.refund /\ e.logs = l /\ e.overlay = d.overlay /\ e.panic = d.panic
  BY <1>3, <1>4, <1>5, Zenon DEF DbRecord
<1> HIDE DEF e
<1>7. View(e) = SavedView(d, n)
  BY <1>6 DEF View, SavedView, get, OverlayGet, sn, l
<1>8. ASSUME NEW j \in 1..n - 1
      PROVE  /\ t[j].logsSize \in Nat /\ t[j].logsSize <= Len(l)
             /\ \A i \in 1..j : t[i].logsSize <= t[j].logsSize
             /\ SavedView(e, j) = SavedView(d, j)
  <2>1. j \in 1..Len(d.snapshots) /\ j \in 1..n
    BY <1>1, SMTT(60)
  <2>2. d.snapshots[j].logsSize \in Nat /\ d.snapshots[j].logsSize <= sn.logsSize
    BY <2>1, SnapshotFields, SMTT(60) DEF LogsKept, sn
  <2>3. \A i \in 1..j : i \in 1..n - 1 /\ d.snapshots[i].logsSize <= d.snapshots[j].logsSize
    BY <1>1, <2>1, SMTT(60) DEF LogsKept
  <2>4. SubSeq(l, 1, d.snapshots[j].logsSize) = SubSeq(d.logs, 1, d.snapshots[j].logsSize)
    <3>1. d.snapshots[j].logsSize \in 0..sn.logsSize
      BY <1>3, <2>2
    <3> QED
      BY <1>5, <3>1, Zenon
  <2>5. SavedView(e, j) = SavedView(d, j)
    BY <1>4, <1>6, <2>4, SavedAlike, Zenon
  <2> QED
    BY <1>4, <1>5, <2>2, <2>3, <2>5, Zenon
<1>9. LogsKept(e)
  BY <1>4, <1>6, <1>8 DEF LogsKept
<1> QED
  BY <1>1, <1>2, <1>4, <1>6, <1>7, <1>8, <1>9, SMTT(60) DEF Keeps
=============================================================================
