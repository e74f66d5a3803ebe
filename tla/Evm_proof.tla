----------------------------- MODULE Evm_proof -----------------------------
(***************************************************************************)
(* The call frames of Evm keep the state right for any accounts, slots,    *)
(* values, gas and depth, over a store that answers as RemoteDB does       *)
(* (EvmAssumption, RemoteAssumption).                                      *)
(***************************************************************************)
EXTENDS Evm_lemmas

-----------------------------------------------------------------------------
\* A frame's snapshot is on the stack and holds the state the frame was entered with.
FrameSound(f, d) ==
    /\ f.snap \in 1..Len(d.snapshots) /\ SavedView(d, f.snap) = f.entry
    /\ Good(f.entry, d)
    /\ f.kind = "CREATE" => ~OverlayGet(d, accountKey(f.self)).code

FramesSound(fs, d) ==
    /\ fs \in Seq(FrameRecord)
    /\ \A i \in 1..Len(fs) : FrameSound(fs[i], d)
    /\ \A i, j \in 1..Len(fs) : i < j => fs[i].snap < fs[j].snap

\* One open frame at most has made the interpreter read-only; the state v is the one
\* that it and every frame above it was entered with, and none of them creates.
StaticSound(ro, fs, v) ==
    /\ ro <=> \E i \in 1..Len(fs) : fs[i].setReadOnly
    /\ \A i, j \in 1..Len(fs) :
         fs[i].setReadOnly =>
            /\ fs[j].setReadOnly => i = j
            /\ i <= j => fs[j].entry = v /\ fs[j].kind # "CREATE"

\* The state d, the open frames fs and the flag ro are right together.
Held(d, fs, ro) ==
    /\ Sound(d) /\ ~d.panic
    /\ FramesSound(fs, d)
    /\ StaticSound(ro, fs, View(d)) /\ ro \in BOOLEAN

(* Inductive invariant: the state and the frames are right together, unless   *)
(* the transaction has ended in the panic of commit.                          *)
IInv ==
    /\ Sound(db)
    /\ FramesSound(frames, db)
    /\ StaticSound(readOnly, frames, View(db)) /\ readOnly \in BOOLEAN
    /\ status \in {"idle", "running", "ended"}
    /\ status = "running" <=> frames # <<>>
    /\ PanicOnlyInCommit

\* f and g are one frame, but for the gas.
SameFrame(f, g) ==
    /\ f.kind = g.kind /\ f.self = g.self /\ f.snap = g.snap
    /\ f.setReadOnly = g.setReadOnly /\ f.entry = g.entry
SameFrames(fs, gs, n) ==
    fs \in Seq(FrameRecord) /\ Len(fs) = n /\ \A i \in 1..n : SameFrame(fs[i], gs[i])

LEMMA FrameFields ==
    ASSUME NEW fs \in Seq(FrameRecord), NEW i \in 1..Len(fs)
    PROVE  /\ fs[i] \in FrameRecord /\ fs[i].kind \in Kinds \cup {"CREATE"} /\ fs[i].self \in Addr
           /\ fs[i].gas \in Nat /\ fs[i].snap \in Nat /\ fs[i].setReadOnly \in BOOLEAN
           /\ fs[i].entry \in ViewRecord
<1>1. fs[i] \in FrameRecord
  OBVIOUS
<1> QED
  BY <1>1 DEF FrameRecord

LEMMA GasChanged ==
    ASSUME NEW fs \in Seq(FrameRecord), NEW n \in 1..Len(fs), NEW g \in Nat
    PROVE  SameFrames([fs EXCEPT ![n].gas = g], fs, Len(fs))
<1> DEFINE f == [fs[n] EXCEPT !.gas = g]
<1>1. f \in FrameRecord /\ SameFrame(f, fs[n])
  BY FrameFields, Zenon DEF FrameRecord, SameFrame
<1>2. [fs EXCEPT ![n].gas = g] = [fs EXCEPT ![n] = f]
  OBVIOUS
<1> HIDE DEF f
<1>3. [fs EXCEPT ![n] = f] \in Seq(FrameRecord) /\ Len([fs EXCEPT ![n] = f]) = Len(fs)
  BY <1>1
<1>4. \A i \in 1..Len(fs) : [fs EXCEPT ![n] = f][i] = IF i = n THEN f ELSE fs[i]
  OBVIOUS
<1> QED
  BY <1>1, <1>2, <1>3, <1>4 DEF SameFrames, SameFrame

\* A frame stays right while its snapshot is kept.
LEMMA FrameKept ==
    ASSUME NEW d, NEW e, NEW f, NEW g, FrameSound(f, d), SameFrame(g, f),
           NEW n \in Nat, f.snap <= n, Keeps(e, d, n)
    PROVE  FrameSound(g, e)
<1>1. Len(e.snapshots) \in Nat
  BY DbFields DEF Keeps
<1>2. g.snap \in 1..n /\ g.snap \in 1..Len(e.snapshots)
  BY <1>1 DEF FrameSound, SameFrame, Keeps
<1>3. SavedView(e, g.snap) = g.entry
  BY <1>2 DEF FrameSound, SameFrame, Keeps
<1>4. Good(g.entry, e)
  BY GoodBelow DEF FrameSound, SameFrame, Keeps
<1>5. g.kind = "CREATE" => ~OverlayGet(e, accountKey(g.self)).code
  BY DEF FrameSound, SameFrame, Keeps, OverlayGet
<1> QED
  BY <1>2, <1>3, <1>4, <1>5 DEF FrameSound

\* The m outermost frames stay right while their snapshots are kept.
LEMMA FramesKept ==
    ASSUME NEW d, NEW e, NEW fs, NEW gs, FramesSound(fs, d), NEW m \in 0..Len(fs),
           SameFrames(gs, fs, m), NEW n \in Nat, \A i \in 1..m : fs[i].snap <= n,
           Keeps(e, d, n)
    PROVE  FramesSound(gs, e)
<1>1. Len(fs) \in Nat /\ \A i \in 1..m : i \in 1..Len(fs)
  BY DEF FramesSound
<1>2. \A i \in 1..m : FrameSound(gs[i], e)
  <2> SUFFICES ASSUME NEW i \in 1..m PROVE FrameSound(gs[i], e)
    OBVIOUS
  <2>1. FrameSound(fs[i], d) /\ SameFrame(gs[i], fs[i]) /\ fs[i].snap <= n
    BY <1>1 DEF FramesSound, SameFrames
  <2> QED
    BY <2>1, FrameKept
<1>3. \A i, j \in 1..m : i < j => gs[i].snap < gs[j].snap
  BY <1>1 DEF FramesSound, SameFrames, SameFrame
<1> QED
  BY <1>2, <1>3 DEF FramesSound, SameFrames

\* An instruction or a call that leaves the frames open.
LEMMA StaysHeld ==
    ASSUME NEW d, NEW e, NEW fs, NEW gs, NEW ro, Held(d, fs, ro), SameFrames(gs, fs, Len(fs)),
           Keeps(e, d, Len(d.snapshots)), Good(View(e), e), ro => View(e) = View(d)
    PROVE  Held(e, gs, ro)
<1>1. /\ Len(d.snapshots) \in Nat /\ Len(fs) \in Nat
      /\ \A i \in 1..Len(fs) : fs[i].snap <= Len(d.snapshots)
  BY DbFields DEF Held, Sound, FramesSound, FrameSound
<1>2. FramesSound(gs, e)
  BY <1>1, FramesKept DEF Held
<1>3. StaticSound(ro, gs, View(e))
  BY SMTT(60) DEF Held, StaticSound, SameFrames, SameFrame
<1> QED
  BY <1>2, <1>3 DEF Held, Sound, Keeps

\* The innermost frame is left for the state e.
LEMMA LeavesHeld ==
    ASSUME NEW d, NEW e, NEW fs, NEW gs, NEW ro, Held(d, fs, ro), Len(fs) # 0,
           SameFrames(gs, fs, Len(fs) - 1),
           Keeps(e, d, fs[Len(fs)].snap - 1), Good(View(e), e),
           ro /\ ~fs[Len(fs)].setReadOnly => View(e) = View(d)
    PROVE  Held(e, gs, ro /\ ~fs[Len(fs)].setReadOnly)
<1> DEFINE n == Len(fs)
<1>1. n \in Nat /\ n - 1 \in 0..Len(fs) /\ n \in 1..Len(fs) /\ fs \in Seq(FrameRecord)
  BY DEF Held, FramesSound
<1>2. fs[n].snap - 1 \in Nat /\ \A i \in 1..n - 1 : fs[i].snap <= fs[n].snap - 1
  <2>1. fs[n].snap \in Nat /\ fs[n].snap >= 1
    BY <1>1 DEF Held, FramesSound, FrameSound
  <2>2. ASSUME NEW i \in 1..n - 1
        PROVE  fs[i].snap <= fs[n].snap - 1
    <3>1. i \in 1..Len(fs) /\ i < n
      BY <1>1
    <3>2. fs[i].snap \in Nat /\ fs[i].snap < fs[n].snap
      BY <1>1, <3>1, FrameFields, Zenon DEF Held, FramesSound
    <3> QED
      BY <2>1, <3>2
  <2> QED
    BY <2>1, <2>2, SMTT(60)
<1>3. FramesSound(gs, e)
  BY <1>1, <1>2, FramesKept, SMTT(60) DEF Held
<1>4. \A i \in 1..n - 1 : i \in 1..n /\ gs[i].setReadOnly = fs[i].setReadOnly
        /\ gs[i].entry = fs[i].entry /\ gs[i].kind = fs[i].kind
  BY <1>1, SMTT(60) DEF SameFrames, SameFrame
<1>5. \A i \in 1..n : i \in 1..n - 1 \/ i = n
  BY <1>1
<1>6. (ro /\ ~fs[n].setReadOnly) <=> \E i \in 1..n - 1 : gs[i].setReadOnly
  <2>1. ro <=> \E i \in 1..n : fs[i].setReadOnly
    BY DEF Held, StaticSound
  <2>2. \A i \in 1..n - 1 : fs[i].setReadOnly => ~fs[n].setReadOnly
    BY <1>1 DEF Held, StaticSound
  <2> QED
    BY <1>4, <1>5, <2>1, <2>2, Zenon
<1>7. StaticSound(ro /\ ~fs[n].setReadOnly, gs, View(e))
  <2>1. Len(gs) = n - 1
    BY DEF SameFrames
  <2>2. ASSUME NEW i \in 1..n - 1, NEW j \in 1..n - 1, gs[i].setReadOnly
        PROVE  /\ gs[j].setReadOnly => i = j
               /\ i <= j => gs[j].entry = View(e) /\ gs[j].kind # "CREATE"
    <3>1. View(e) = View(d)
      BY <1>6, <2>2
    <3> QED
      BY <1>4, <2>2, <3>1, Zenon DEF Held, StaticSound
  <2> QED
    BY <1>6, <2>1, <2>2 DEF StaticSound
<1>8. (ro /\ ~fs[n].setReadOnly) \in BOOLEAN
  OBVIOUS
<1> QED
  BY <1>3, <1>7, <1>8 DEF Held, Sound, Keeps

\* A frame f is opened in the state e.
LEMMA EntersHeld ==
    ASSUME NEW d, NEW e, NEW fs, NEW ro, NEW f \in FrameRecord, Held(d, fs, ro),
           Keeps(e, d, Len(d.snapshots)), Good(View(e), e), ro => View(e) = View(d),
           f.snap \in 1..Len(e.snapshots), Len(d.snapshots) < f.snap,
           SavedView(e, f.snap) = f.entry, Good(f.entry, d),
           f.kind = "CREATE" => ~OverlayGet(d, accountKey(f.self)).code /\ ~ro,
           f.setReadOnly <=> f.kind = "STATICCALL" /\ ~ro,
           ro \/ f.setReadOnly => f.entry = View(e)
    PROVE  Held(e, Append(fs, f), ro \/ f.setReadOnly)
<1> DEFINE n == Len(fs)
           gs == Append(fs, f)
<1>1. fs \in Seq(FrameRecord) /\ n \in Nat /\ Len(d.snapshots) \in Nat
  BY DbFields DEF Held, Sound, FramesSound
<1>2. /\ gs \in Seq(FrameRecord) /\ Len(gs) = n + 1 /\ gs[n + 1] = f
      /\ \A i \in 1..n : gs[i] = fs[i]
  BY <1>1
<1>3. \A i \in 1..n + 1 : i \in 1..n \/ i = n + 1
  BY <1>1, SMTT(60)
<1> HIDE DEF gs
<1>4. \A i \in 1..n : fs[i].snap \in Nat /\ fs[i].snap <= Len(d.snapshots)
  BY <1>1, FrameFields, SMTT(60) DEF Held, FramesSound, FrameSound
<1>5. FramesSound(fs, e)
  <2>1. SameFrames(fs, fs, n)
    BY <1>1 DEF SameFrames, SameFrame
  <2> QED
    BY <1>1, <1>4, <2>1, FramesKept, SMTT(60) DEF Held
<1>6. FrameSound(f, e)
  <2>1. Good(f.entry, e)
    BY GoodBelow, Zenon DEF Keeps
  <2>2. OverlayGet(e, accountKey(f.self)) = OverlayGet(d, accountKey(f.self))
    BY Zenon DEF Keeps, OverlayGet
  <2> QED
    BY <2>1, <2>2 DEF FrameSound
<1>7. FramesSound(gs, e)
  <2>1. \A i \in 1..n + 1 : FrameSound(gs[i], e)
    BY <1>2, <1>3, <1>5, <1>6, Zenon DEF FramesSound
  <2>2. ASSUME NEW i \in 1..n + 1, NEW j \in 1..n + 1, i < j
        PROVE  gs[i].snap < gs[j].snap
    <3>1. i \in 1..n
      BY <1>1, <2>2
    <3>2. CASE j \in 1..n
      BY <1>2, <1>5, <2>2, <3>1, <3>2, Zenon DEF FramesSound
    <3>3. CASE j = n + 1
      <4>1. f.snap \in Nat
        BY DEF FrameRecord
      <4> QED
        BY <1>1, <1>2, <1>4, <3>1, <3>3, <4>1, SMTT(60)
    <3> QED
      BY <1>3, <3>2, <3>3, Zenon
  <2> QED
    BY <1>2, <2>1, <2>2, Zenon DEF FramesSound
<1>8. ro \in BOOLEAN /\ f.setReadOnly \in BOOLEAN
  BY Zenon DEF Held, FrameRecord
<1>9. ro <=> \E i \in 1..n : gs[i].setReadOnly
  BY <1>2, Zenon DEF Held, StaticSound
<1>10. StaticSound(ro \/ f.setReadOnly, gs, View(e))
  <2>1. (ro \/ f.setReadOnly) <=> \E i \in 1..n + 1 : gs[i].setReadOnly
    <3>1. \A i \in 1..n : i \in 1..n + 1
      BY <1>1
    <3>2. n + 1 \in 1..n + 1
      BY <1>1
    <3> QED
      BY <1>2, <1>3, <1>9, <3>1, <3>2, SMTT(60)
  <2>2. ASSUME NEW i \in 1..n + 1, NEW j \in 1..n + 1, gs[i].setReadOnly
        PROVE  /\ gs[j].setReadOnly => i = j
               /\ i <= j => gs[j].entry = View(e) /\ gs[j].kind # "CREATE"
    <3>1. CASE ro
      <4>1. i \in 1..n
        BY <1>2, <1>3, <2>2, <3>1, Zenon
      <4>2. CASE j \in 1..n
        BY <1>2, <2>2, <3>1, <4>1, <4>2, SMTT(60) DEF Held, StaticSound
      <4>3. CASE j = n + 1
        BY <1>2, <3>1, <4>3, Zenon
      <4> QED
        BY <1>3, <4>2, <4>3, Zenon
    <3>2. CASE ~ro
      <4>1. i = n + 1
        BY <1>3, <1>9, <2>2, <3>2, Zenon
      <4>2. f.setReadOnly /\ f.kind # "CREATE" /\ f.entry = View(e)
        BY <1>2, <2>2, <4>1, Zenon
      <4>3. gs[j].setReadOnly => j = n + 1
        BY <1>3, <1>9, <3>2, Zenon
      <4>4. i <= j => j = n + 1
        BY <1>1, <4>1, SMTT(60)
      <4> QED
        BY <1>2, <4>1, <4>2, <4>3, <4>4, Zenon
    <3> QED
      BY <3>1, <3>2, Zenon
  <2> QED
    BY <1>2, <2>1, <2>2, Zenon DEF StaticSound
<1>11. (ro \/ f.setReadOnly) \in BOOLEAN
  BY <1>8
<1> QED
  BY <1>7, <1>10, <1>11, SMTT(60) DEF Held, Sound, Keeps, gs

-----------------------------------------------------------------------------
\* Steps.  What every step of a transaction establishes.
Result ==
    /\ Held(db', frames', readOnly')
    /\ status' \in {"running", "ended"} /\ (status' = "running" <=> frames' # <<>>)
    /\ Len(frames') < Len(frames) /\ outcome' # "ok" => View(db') = top.entry

\* d comes from d0 by calls that a revert undoes, and from none while read-only.
Follows(d, d0) ==
    /\ Keeps(d, d0, Len(d0.snapshots)) /\ Good(View(d), d)
    /\ readOnly => View(d) = View(d0)

\* A call is made in the state d0 with the open frames fs.
Opens(fs, d0) ==
    Held(d0, fs, readOnly) /\ frames \in Seq(FrameRecord) /\ Len(frames) <= Len(fs)

LEMMA GasFits ==
    /\ \A x \in Int : x % Word \in Nat
    /\ \A x, y \in Nat : (x + y) % Word \in Nat
    /\ \A x \in Nat : x \div GasDenominator \in Nat /\ x \div GasDenominator <= x
BY EvmAssumption

LEMMA Running ==
    ASSUME IInv, status = "running"
    PROVE  /\ Held(db, frames, readOnly) /\ Sound(db) /\ db \in DbRecord /\ Good(View(db), db)
           /\ frames \in Seq(FrameRecord) /\ Len(frames) \in Nat /\ Len(frames) \in 1..Len(frames)
           /\ top \in FrameRecord /\ top.self \in Addr /\ top.gas \in Nat
           /\ FrameSound(top, db) /\ Keeps(db, db, Len(db.snapshots)) /\ readOnly \in BOOLEAN
<1>1. Held(db, frames, readOnly) /\ Sound(db) /\ readOnly \in BOOLEAN
  BY DEF IInv, Held, PanicOnlyInCommit
<1>2. db \in DbRecord /\ Good(View(db), db) /\ LogsKept(db) /\ Len(db.snapshots) \in Nat
  BY <1>1, DbFields, SMTT(60) DEF Sound
<1>3. frames \in Seq(FrameRecord) /\ frames # <<>>
  BY Zenon DEF IInv, FramesSound
<1>4. Len(frames) \in Nat /\ Len(frames) \in 1..Len(frames)
  BY <1>3
<1>5. top \in FrameRecord /\ top.self \in Addr /\ top.gas \in Nat
  BY <1>3, <1>4, FrameFields, SMTT(60) DEF top
<1>6. FrameSound(top, db)
  BY <1>4 DEF top, IInv, FramesSound
<1>7. Keeps(db, db, Len(db.snapshots))
  BY <1>2 DEF Keeps
<1> QED
  BY <1>1, <1>2, <1>3, <1>4, <1>5, <1>6, <1>7, Zenon

LEMMA FramesLeft ==
    ASSUME IInv, status = "running", NEW d, NEW how, NEW g \in Nat, Exit(how, d, g)
    PROVE  SameFrames(frames', frames, Len(frames) - 1)
<1> DEFINE n == Len(frames)
           t == SubSeq(frames, 1, n - 1)
<1>1. frames \in Seq(FrameRecord) /\ n \in Nat /\ n \in 1..n
  BY Running
<1>2. CASE n = 1
  <2>1. frames' = <<>> /\ n - 1 = 0
    BY <1>2 DEF Exit
  <2>2. SameFrames(<<>>, frames, 0)
    BY DEF SameFrames
  <2> QED
    BY <2>1, <2>2, Zenon
<1>3. CASE n # 1
  <2>1. n - 1 \in Nat /\ n - 1 \in 1..n - 1 /\ n - 1 <= n
    <3> HIDE DEF n
    <3> QED
      BY <1>1, <1>3, SMTT(60)
  <2>2. t \in Seq(FrameRecord) /\ Len(t) = n - 1 /\ \A i \in 1..n - 1 : t[i] = frames[i]
    BY <1>1, <2>1, Prefixes
  <2> HIDE DEF t
  <2> DEFINE x == (t[n - 1].gas + gasLeft(g, how)) % Word
  <2>3. frames' = [t EXCEPT ![n - 1].gas = x]
    BY <1>3, Zenon DEF Exit, t
  <2>4. x \in Nat
    <3>1. t[n - 1].gas \in Nat
      BY <2>1, <2>2, FrameFields, SMTT(60)
    <3>2. gasLeft(g, how) \in Nat
      BY DEF gasLeft
    <3> QED
      BY <3>1, <3>2, GasFits, Zenon
  <2> HIDE DEF x
  <2>5. SameFrames(frames', t, n - 1)
    BY <2>1, <2>2, <2>3, <2>4, GasChanged, Zenon
  <2> QED
    BY <2>2, <2>5 DEF SameFrames
<1> QED
  BY <1>2, <1>3

\* Leaving the running frame; a failure goes back to the state it was entered with.
LEMMA Exits ==
    ASSUME IInv, status = "running", NEW d, NEW how, NEW g \in Nat,
           Keeps(d, db, Len(db.snapshots)), how = "ok" => Follows(d, db), Exit(how, d, g)
    PROVE  Result
<1> DEFINE n == Len(frames)
           e == unwound(d, top, how)
<1>1. db' = e /\ readOnly' = (readOnly /\ ~top.setReadOnly) /\ outcome' = how
  BY DEF Exit
<1>2. SameFrames(frames', frames, n - 1)
  BY FramesLeft, SMTT(60)
<1>3. /\ top.snap \in 1..Len(db.snapshots) /\ SavedView(db, top.snap) = top.entry
      /\ Good(top.entry, db) /\ Len(db.snapshots) \in Nat
  BY Running, DbFields, SMTT(60) DEF FrameSound
<1>4. top.snap - 1 \in Nat /\ top.snap \in 1..Len(d.snapshots) /\ d \in DbRecord /\ LogsKept(d)
  <2>1. Len(d.snapshots) \in Nat
    BY DbFields, Zenon DEF Keeps
  <2> QED
    BY <1>3, <2>1 DEF Keeps
<1>5. /\ Keeps(e, db, top.snap - 1) /\ Good(View(e), e)
      /\ readOnly /\ ~top.setReadOnly => View(e) = View(db)
      /\ how # "ok" => View(e) = top.entry
  <2>1. CASE how = "ok"
    <3>1. e = d
      BY <2>1, Zenon DEF unwound
    <3>2. Keeps(d, db, top.snap - 1)
      BY <1>3, <1>4, KeepsFewer, SMTT(60)
    <3> QED
      BY <2>1, <3>1, <3>2, Zenon DEF Follows
  <2>2. CASE how # "ok"
    <3>1. e = RevertToSnapshot(d, top.snap)
      BY <2>2, Zenon DEF unwound
    <3>2. Keeps(e, d, top.snap - 1) /\ View(e) = SavedView(d, top.snap)
      BY <1>4, <3>1, Reverted, Zenon
    <3>3. View(e) = top.entry
      BY <1>3, <3>2, Zenon DEF Keeps
    <3>4. Keeps(e, db, top.snap - 1)
      <4>1. Keeps(d, db, top.snap - 1)
        BY <1>3, <1>4, KeepsFewer
      <4> QED
        BY <1>4, <3>2, <4>1, KeepsOn, SMTT(60)
    <3>5. Good(View(e), e)
      BY <1>3, <3>3, <3>4, GoodBelow, Zenon DEF Keeps
    <3>6. readOnly /\ ~top.setReadOnly => top.entry = View(db)
      BY Running, SMTT(60) DEF Held, StaticSound, top
    <3> QED
      BY <2>2, <3>3, <3>4, <3>5, <3>6, SMTT(60)
  <2> QED
    BY <2>1, <2>2, Zenon
<1> HIDE DEF e
<1>6. Held(e, frames', readOnly /\ ~top.setReadOnly)
  BY <1>2, <1>5, Running, LeavesHeld, SMTT(60) DEF top
<1>7. status' \in {"running", "ended"} /\ (status' = "running" <=> frames' # <<>>)
  <2>1. n \in Nat /\ n \in 1..n /\ frames' \in Seq(FrameRecord) /\ Len(frames') = n - 1
    BY <1>2, Running, Zenon DEF SameFrames
  <2>2. status' = IF n = 1 THEN "ended" ELSE "running"
    BY DEF Exit
  <2> QED
    BY <2>1, <2>2
<1> QED
  BY <1>1, <1>5, <1>6, <1>7, SMTT(60) DEF Result

\* An instruction that stays in the running frame.
LEMMA Continues ==
    ASSUME IInv, status = "running", NEW d, NEW g \in Nat, Follows(d, db), Continue(d, g)
    PROVE  Result
<1>1. SameFrames(frames', frames, Len(frames))
  BY Running, GasChanged, Zenon DEF Continue, WithGas
<1>2. Held(d, frames', readOnly)
  BY <1>1, Running, StaysHeld, SMTT(60) DEF Follows
<1>3. Len(frames') = Len(frames) /\ frames' # <<>>
  BY <1>1, Running DEF SameFrames
<1> QED
  BY <1>2, <1>3, Running, SMTT(60) DEF Continue, Result

LEMMA Charges ==
    ASSUME IInv, status = "running", NEW d, NEW c \in Nat, Follows(d, db), Charged(d, c)
    PROVE  Result
<1>1. top.gas \in Nat
  BY Running
<1>2. CASE c > top.gas
  BY <1>1, <1>2, Exits, SMTT(60) DEF Charged, Follows
<1>3. CASE ~(c > top.gas)
  <2>1. top.gas - c \in Nat
    BY <1>1, <1>3, SMTT(60)
  <2> QED
    BY <1>3, <2>1, Continues, SMTT(60) DEF Charged
<1> QED
  BY <1>2, <1>3

\* A call that ends without running code.
LEMMA Backs ==
    ASSUME NEW fs, NEW d0, Opens(fs, d0), NEW d, NEW how, NEW gas \in Nat, Follows(d, d0),
           Back(fs, d, how, gas)
    PROVE  Result
<1>1. fs \in Seq(FrameRecord) /\ Len(fs) \in Nat /\ Len(frames) \in Nat /\ Len(frames) <= Len(fs)
  BY DEF Opens, Held, FramesSound
<1>2. SameFrames(frames', fs, Len(fs))
  <2>1. CASE fs = <<>>
    BY <2>1 DEF Back, SameFrames
  <2>2. CASE fs # <<>>
    <3> DEFINE x == (fs[Len(fs)].gas + gas) % Word
    <3>1. frames' = [fs EXCEPT ![Len(fs)].gas = x]
      BY <2>2 DEF Back
    <3>2. Len(fs) \in 1..Len(fs)
      BY <1>1, <2>2, SMTT(60)
    <3>3. fs[Len(fs)].gas \in Nat
      BY <1>1, <3>2, FrameFields, SMTT(60)
    <3>4. x \in Nat
      BY <3>3, GasFits, Zenon
    <3> HIDE DEF x
    <3> QED
      BY <1>1, <3>1, <3>2, <3>4, GasChanged, Zenon
  <2> QED
    BY <2>1, <2>2
<1>3. Held(d, frames', readOnly)
  BY <1>2, StaysHeld, SMTT(60) DEF Opens, Follows
<1>4. Len(frames') = Len(fs) /\ (frames' = <<>> <=> fs = <<>>)
  BY <1>1, <1>2, SMTT(60) DEF SameFrames
<1> QED
  BY <1>1, <1>3, <1>4, SMTT(60) DEF Back, Result

\* A state that writes only.
LEMMA WritesFollow ==
    ASSUME NEW d0, Sound(d0), NEW d \in DbRecord, SameBelow(d, d0), Good(View(d), d),
           d.logs = d0.logs \/ \E a \in Addr : d.logs = Append(d0.logs, a),
           readOnly => View(d) = View(d0)
    PROVE  Follows(d, d0)
BY SavedStays DEF Follows, Sound

LEMMA TouchFollows ==
    ASSUME NEW d0, Sound(d0), NEW d, Touched(d, d0), readOnly => View(d) = View(d0)
    PROVE  Follows(d, d0) /\ Sound(d)
<1>1. Follows(d, d0)
  BY TouchedGood, WritesFollow DEF Touched, Paid, Sound
<1> QED
  BY <1>1, SMTT(60) DEF Follows, Sound, Keeps

\* The state below which a frame runs: a snapshot, then calls that touch accounts.
LEMMA AfterSnapshot ==
    ASSUME NEW d0, Sound(d0), NEW d, Touched(d, Snapshot(d0)), readOnly => View(d) = View(d0)
    PROVE  LET n == Len(d0.snapshots) + 1
               r == RevertToSnapshot(d, n)
           IN  /\ Follows(d, d0) /\ d \in DbRecord /\ Len(d.snapshots) = n
               /\ SavedView(d, n) = View(d0)
               /\ Follows(r, d0) /\ View(r) = View(d0)
<1> DEFINE s == Snapshot(d0)
           n == Len(d0.snapshots) + 1
           r == RevertToSnapshot(d, n)
<1>1. d0 \in DbRecord /\ LogsKept(d0) /\ Good(View(d0), d0) /\ Len(d0.snapshots) \in Nat
  BY DbFields, Zenon DEF Sound
<1>2. /\ Keeps(s, d0, Len(d0.snapshots)) /\ Len(s.snapshots) = n
      /\ SavedView(s, n) = View(d0) /\ View(s) = View(d0)
  BY <1>1, SnapshotTaken, Zenon
<1>3. s \in DbRecord /\ LogsKept(s) /\ Good(View(s), s)
  BY <1>1, <1>2, GoodBelow, SMTT(60) DEF Keeps
<1>4. Touched(d, s)
  BY SMTT(60)
<1> HIDE DEF s
<1>5. Keeps(d, s, n) /\ Good(View(d), d) /\ Len(d.snapshots) = n /\ d \in DbRecord
  BY <1>2, <1>3, <1>4, SavedStays, TouchedGood, SMTT(60) DEF Touched, Paid, SameBelow
<1>6. Keeps(d, d0, Len(d0.snapshots))
  BY <1>1, <1>2, <1>5, KeepsOn, SMTT(60)
<1>7. n \in 1..n /\ n - 1 = Len(d0.snapshots)
  BY <1>1
<1>8. SavedView(d, n) = View(d0)
  BY <1>2, <1>5, <1>7, Zenon DEF Keeps
<1>9. Keeps(r, d, Len(d0.snapshots)) /\ View(r) = View(d0)
  <2>1. LogsKept(d) /\ n \in 1..Len(d.snapshots)
    BY <1>5, <1>7, Zenon DEF Keeps
  <2>2. Keeps(r, d, n - 1) /\ View(r) = SavedView(d, n)
    BY <1>5, <2>1, Reverted, Zenon
  <2> QED
    BY <1>7, <1>8, <2>2, Zenon
<1> HIDE DEF r
<1>10. Keeps(r, d0, Len(d0.snapshots))
  BY <1>1, <1>6, <1>9, KeepsOn
<1>11. Good(View(r), r)
  BY <1>1, <1>9, <1>10, GoodBelow DEF Keeps
<1> QED
  BY <1>5, <1>6, <1>8, <1>9, <1>10, <1>11, Zenon DEF Follows, r

\* The frame that interpreter.Run opens.
LEMMA Enters ==
    ASSUME NEW fs, NEW d0, Opens(fs, d0), NEW kind \in Kinds \cup {"CREATE"}, NEW self \in Addr,
           NEW gas \in Nat, NEW d, Touched(d, Snapshot(d0)),
           readOnly \/ kind = "STATICCALL" => View(d) = View(d0),
           kind = "CREATE" => ~readOnly /\ ~OverlayGet(d0, accountKey(self)).code,
           Enter(fs, NewFrame(kind, self, gas, Snapshot(d0)), d)
    PROVE  Result
<1> DEFINE n == Len(d0.snapshots) + 1
           f == NewFrame(kind, self, gas, Snapshot(d0))
<1>1. Sound(d0) /\ d0 \in DbRecord /\ LogsKept(d0) /\ Good(View(d0), d0)
      /\ Len(d0.snapshots) \in Nat /\ readOnly \in BOOLEAN
  BY DbFields, Zenon DEF Opens, Held, Sound
<1>2. Follows(d, d0) /\ Len(d.snapshots) = n /\ SavedView(d, n) = View(d0)
  BY <1>1, AfterSnapshot, Zenon
<1>3. /\ f.kind = kind /\ f.self = self /\ f.gas = gas /\ f.snap = n /\ f.entry = View(d0)
      /\ f.setReadOnly = (kind = "STATICCALL" /\ ~readOnly)
      /\ f \in [kind : {kind}, self : {self}, gas : {gas}, snap : {n}, entry : {View(d0)},
                setReadOnly : {kind = "STATICCALL" /\ ~readOnly}]
  <2>1. Len(Snapshot(d0).snapshots) = n /\ View(Snapshot(d0)) = View(d0)
    BY <1>1, SnapshotTaken, Zenon
  <2> QED
    BY <2>1, Zenon DEF NewFrame
<1>4. View(d0) \in ViewRecord /\ n \in Nat
  BY <1>1, ViewType, SMTT(60)
<1>5. f \in FrameRecord
  BY <1>3, <1>4, Zenon DEF FrameRecord
<1> HIDE DEF f
<1>6. /\ f.snap \in 1..Len(d.snapshots) /\ Len(d0.snapshots) < f.snap
      /\ SavedView(d, f.snap) = f.entry /\ Good(f.entry, d0)
      /\ f.kind = "CREATE" => ~OverlayGet(d0, accountKey(f.self)).code /\ ~readOnly
  BY <1>1, <1>2, <1>3, SMTT(60)
<1>7. f.setReadOnly <=> f.kind = "STATICCALL" /\ ~readOnly
  BY <1>3, Zenon
<1>8. readOnly \/ f.setReadOnly => f.entry = View(d)
  BY <1>3, <1>7, Zenon
<1>9. Held(d, Append(fs, f), readOnly \/ f.setReadOnly)
  BY <1>2, <1>5, <1>6, <1>7, <1>8, EntersHeld, Zenon DEF Opens, Follows
<1>10. db' = d /\ frames' = Append(fs, f) /\ readOnly' = (readOnly \/ f.setReadOnly)
      /\ status' = "running"
  BY Zenon DEF Enter, f
<1>11. Append(fs, f) # <<>> /\ ~(Len(Append(fs, f)) < Len(frames))
  BY <1>5 DEF Opens, Held, FramesSound
<1> QED
  BY <1>9, <1>10, <1>11, Zenon DEF Result

\* The shared body of the four calls.
LEMMA RunsCode ==
    ASSUME NEW fs, NEW d0, Opens(fs, d0), NEW kind \in Kinds, NEW addr, NEW self \in Addr,
           NEW gas \in Nat, NEW d, Touched(d, Snapshot(d0)),
           readOnly \/ kind = "STATICCALL" => View(d) = View(d0),
           RunCode(kind, fs, Snapshot(d0), d, addr, self, gas)
    PROVE  Result
<1> DEFINE n == Len(d0.snapshots) + 1
           r == RevertToSnapshot(d, n)
<1>1. Sound(d0) /\ d0 \in DbRecord /\ LogsKept(d0)
  BY Zenon DEF Opens, Held, Sound
<1>2. Follows(d, d0) /\ Follows(r, d0)
  BY <1>1, AfterSnapshot, Zenon
<1>3. Len(Snapshot(d0).snapshots) = n
  BY <1>1, SnapshotTaken, Zenon
<1> HIDE DEF n, r
<1>4. CASE RunPrecompiled(fs, d, n, gas)
  <2>1. CASE Back(fs, r, "error", 0)
    BY <1>2, <2>1, Backs, Zenon
  <2>2. CASE gas >= PrecompileGas /\ Back(fs, d, "ok", gas - PrecompileGas)
    <3>1. gas - PrecompileGas \in Nat
      BY <2>2, EvmAssumption
    <3> QED
      BY <1>2, <2>2, <3>1, Backs, Zenon
  <2> QED
    BY <1>4, <2>1, <2>2, Zenon DEF RunPrecompiled, r
<1>5. CASE Back(fs, d, "ok", gas)
  BY <1>2, <1>5, Backs, Zenon
<1>6. CASE Enter(fs, NewFrame(kind, self, gas, Snapshot(d0)), d)
  <2>1. kind # "CREATE" /\ kind \in Kinds \cup {"CREATE"}
    BY Zenon DEF Kinds
  <2> QED
    BY <1>6, <2>1, Enters, Zenon
<1> QED
  BY <1>3, <1>4, <1>5, <1>6, Zenon DEF RunCode

-----------------------------------------------------------------------------
\* The calls of evm.go.
LEMMA SnapshotReads ==
    ASSUME NEW d0, Sound(d0)
    PROVE  LET s == Snapshot(d0)
           IN  /\ s \in DbRecord /\ Touched(s, s) /\ View(s) = View(d0)
               /\ Follows(s, d0) /\ Follows(d0, d0)
               /\ \A a \in Addr : GetBalance(s, a) = GetBalance(d0, a)
<1> DEFINE s == Snapshot(d0)
<1>1. d0 \in DbRecord /\ LogsKept(d0) /\ Good(View(d0), d0) /\ Len(d0.snapshots) \in Nat
  BY DbFields, Zenon DEF Sound
<1>2. s \in DbRecord /\ View(s) = View(d0) /\ \A key \in AllKeys : get(s, key) = get(d0, key)
  BY <1>1, SnapshotTaken, Zenon DEF Keeps
<1> HIDE DEF s
<1>3. Touched(s, s)
  BY <1>2, Zenon DEF Touched, Paid, SameBelow
<1>4. Follows(s, d0)
  BY <1>2, <1>3, AfterSnapshot, Zenon DEF s
<1>5. Follows(d0, d0)
  BY <1>1 DEF Follows, Keeps
<1>6. ASSUME NEW a \in Addr
      PROVE  GetBalance(s, a) = GetBalance(d0, a)
  <2>1. get(s, accountKey(a)) = get(d0, accountKey(a))
    BY <1>2, KeyValues, Zenon
  <2> QED
    BY <2>1, Zenon DEF GetBalance, GetEthAccount
<1> QED
  BY <1>2, <1>3, <1>4, <1>5, <1>6, Zenon DEF s

LEMMA Calls ==
    ASSUME NEW fs, NEW d0, Opens(fs, d0), NEW caller \in Addr, NEW addr \in Addr, NEW gas \in Nat,
           NEW value \in Nat, readOnly => value = 0, Call(fs, d0, caller, addr, gas, value)
    PROVE  Result
<1> DEFINE s == Snapshot(d0)
           d == Transfer(s, caller, addr, value)
<1>1. Sound(d0)
  BY Zenon DEF Opens, Held
<1>2. /\ s \in DbRecord /\ View(s) = View(d0) /\ Follows(s, d0) /\ Follows(d0, d0)
      /\ GetBalance(s, caller) = GetBalance(d0, caller)
  BY <1>1, SnapshotReads, Zenon
<1> HIDE DEF s
<1>3. CASE Back(fs, d0, "error", gas)
  BY <1>2, <1>3, Backs, Zenon
<1>4. CASE Back(fs, s, "ok", gas)
  BY <1>2, <1>4, Backs, Zenon
<1>5. CASE /\ value = 0 \/ CanTransfer(d0, caller, value)
           /\ RunCode("CALL", fs, s, d, addr, addr, gas)
  <2>1. value = 0 \/ CanTransfer(s, caller, value)
    BY <1>2, <1>5, Zenon DEF CanTransfer
  <2>2. Touched(d, s) /\ (value = 0 => View(d) = View(s))
    BY <1>2, <2>1, Transferred, Zenon
  <2>3. "CALL" \in Kinds /\ (readOnly => View(d) = View(d0))
    BY <1>2, <2>2, Zenon DEF Kinds
  <2> QED
    BY <1>5, <2>2, <2>3, RunsCode, Zenon DEF s
<1> QED
  BY <1>3, <1>4, <1>5, Zenon DEF Call, s

LEMMA CallCodes ==
    ASSUME NEW fs, NEW d0, Opens(fs, d0), NEW self \in Addr, NEW addr \in Addr, NEW gas \in Nat,
           NEW value, CallCode(fs, d0, self, addr, gas, value)
    PROVE  Result
<1> DEFINE s == Snapshot(d0)
<1>1. Touched(s, s) /\ View(s) = View(d0) /\ Follows(d0, d0)
  BY SnapshotReads, Zenon DEF Opens, Held
<1>2. CASE Back(fs, d0, "error", gas)
  BY <1>1, <1>2, Backs, Zenon
<1>3. CASE RunCode("CALLCODE", fs, s, s, addr, self, gas)
  <2>1. "CALLCODE" \in Kinds
    BY Zenon DEF Kinds
  <2> QED
    BY <1>1, <1>3, <2>1, RunsCode, Zenon
<1> QED
  BY <1>2, <1>3, Zenon DEF CallCode

LEMMA DelegateCalls ==
    ASSUME NEW fs, NEW d0, Opens(fs, d0), NEW self \in Addr, NEW addr \in Addr, NEW gas \in Nat,
           DelegateCall(fs, d0, self, addr, gas)
    PROVE  Result
<1> DEFINE s == Snapshot(d0)
<1>1. Touched(s, s) /\ View(s) = View(d0) /\ Follows(d0, d0)
  BY SnapshotReads, Zenon DEF Opens, Held
<1>2. CASE Back(fs, d0, "error", gas)
  BY <1>1, <1>2, Backs, Zenon
<1>3. CASE RunCode("DELEGATECALL", fs, s, s, addr, self, gas)
  <2>1. "DELEGATECALL" \in Kinds
    BY Zenon DEF Kinds
  <2> QED
    BY <1>1, <1>3, <2>1, RunsCode, SMTT(60)
<1> QED
  BY <1>2, <1>3, Zenon DEF DelegateCall

LEMMA StaticCalls ==
    ASSUME NEW fs, NEW d0, Opens(fs, d0), NEW addr \in Addr, NEW gas \in Nat,
           StaticCall(fs, d0, addr, gas)
    PROVE  Result
<1> DEFINE s == Snapshot(d0)
           d == AddBalance(s, addr, 0)
<1>1. s \in DbRecord /\ View(s) = View(d0) /\ Follows(d0, d0)
  BY SnapshotReads, Zenon DEF Opens, Held
<1>2. CASE Back(fs, d0, "error", gas)
  BY <1>1, <1>2, Backs, Zenon
<1>3. CASE RunCode("STATICCALL", fs, s, d, addr, addr, gas)
  <2> HIDE DEF s
  <2>1. Touched(d, s) /\ View(d) = View(d0)
    BY <1>1, BalanceAdded, Zenon
  <2> HIDE DEF d
  <2>2. "STATICCALL" \in Kinds
    BY Zenon DEF Kinds
  <2> QED
    BY <1>3, <2>1, <2>2, RunsCode, Zenon DEF s
<1> QED
  BY <1>2, <1>3, Zenon DEF StaticCall

LEMMA Creates ==
    ASSUME NEW fs, NEW d0, Opens(fs, d0), ~readOnly, NEW caller \in Addr, NEW gas \in Nat,
           NEW value \in Nat, NEW address \in Addr, create(fs, d0, caller, gas, value, address)
    PROVE  Result
<1> DEFINE d1 == SetNonce(d0, caller, GetNonce(d0, caller) + 1)
           s == Snapshot(d1)
           named == SetNonce(s, address, 1)
           d2 == Transfer(named, caller, address, value)
<1>1. Sound(d0) /\ d0 \in DbRecord /\ Follows(d0, d0)
  BY SnapshotReads, Zenon DEF Opens, Held, Sound
<1>2. Touched(d1, d0) /\ \A b \in Addr : GetBalance(d1, b) = GetBalance(d0, b)
  <2>1. GetNonce(d0, caller) + 1 \in Nat
    BY <1>1, AccountRead, SMTT(60)
  <2> QED
    BY <1>1, <2>1, NonceSet, Zenon
<1> HIDE DEF d1
<1>3. Follows(d1, d0) /\ Sound(d1) /\ d1 \in DbRecord
  BY <1>1, <1>2, TouchFollows, Zenon DEF Sound
<1>4. Opens(fs, d1)
  <2>1. SameFrames(fs, fs, Len(fs))
    BY Zenon DEF Opens, Held, FramesSound, SameFrames, SameFrame
  <2> QED
    BY <1>3, <2>1, StaysHeld, Zenon DEF Opens, Follows
<1>5. CASE Back(fs, d0, "error", gas)
  BY <1>1, <1>5, Backs, Zenon
<1>6. CASE Back(fs, d1, "error", 0)
  <2>1. Follows(d1, d1)
    BY <1>3, SnapshotReads, Zenon
  <2> QED
    BY <1>4, <1>6, <2>1, Backs, Zenon
<1>7. CASE /\ CanTransfer(d0, caller, value) /\ ~collides(d1, address)
           /\ Enter(fs, NewFrame("CREATE", address, gas, s), d2)
  <2>1. s \in DbRecord /\ GetBalance(s, caller) = GetBalance(d1, caller)
    BY <1>3, SnapshotReads, Zenon
  <2> HIDE DEF s
  <2>2. Touched(named, s) /\ GetBalance(named, caller) = GetBalance(s, caller)
    BY <2>1, NonceSet, SMTT(60)
  <2> HIDE DEF named
  <2>3. Touched(d2, named)
    <3>1. CanTransfer(named, caller, value)
      BY <1>2, <1>7, <2>1, <2>2, Zenon DEF CanTransfer
    <3> QED
      BY <2>2, <3>1, Transferred, SMTT(60) DEF Touched, Paid
  <2> HIDE DEF d2
  <2>4. Touched(d2, s)
    BY <2>2, <2>3, TouchedTwice, Zenon
  <2>5. ~OverlayGet(d1, accountKey(address)).code
    <3>1. ~GetEthAccount(d1, address).code
      BY <1>7, SMTT(60) DEF collides, GetCodeSize
    <3>2. ~View(d1).data[accountKey(address)].code
      BY <1>3, <3>1, AccountRead, ViewOf, KeyValues, Zenon
    <3> QED
      BY <1>3, <3>2, Zenon DEF Sound, Good, CodeKept
  <2>6. "CREATE" # "STATICCALL" /\ "CREATE" \in Kinds \cup {"CREATE"}
    BY SMTT(60)
  <2> QED
    BY <1>4, <1>7, <2>4, <2>5, <2>6, Enters, Zenon DEF s
<1> QED
  BY <1>5, <1>6, <1>7, Zenon DEF create, d1

-----------------------------------------------------------------------------
\* The instructions.
LEMMA ReadOnlyNeverCreates ==
    ASSUME IInv, status = "running", top.kind = "CREATE"
    PROVE  ~readOnly
BY Running DEF Held, StaticSound, top

LEMMA StopStep ==
    ASSUME IInv, opStop \/ opRevert \/ fault
    PROVE  Result
<1>1. status = "running"
  BY Zenon DEF opStop, opRevert, fault
<1>2. Follows(db, db) /\ Keeps(db, db, Len(db.snapshots)) /\ top.gas \in Nat
  BY <1>1, Running, SnapshotReads, Zenon
<1>3. CASE opStop
  BY <1>1, <1>2, <1>3, Exits, Zenon DEF opStop
<1>4. CASE opRevert
  BY <1>1, <1>2, <1>4, Exits, Zenon DEF opRevert
<1>5. CASE fault
  BY <1>1, <1>2, <1>5, Exits, Zenon DEF fault
<1> QED
  BY <1>3, <1>4, <1>5, Zenon

LEMMA ReturnCodeStep ==
    ASSUME IInv, NEW size \in 0..2, opReturnCode(size)
    PROVE  Result
<1> DEFINE cost == size * CreateDataGas
           code == size > 0
           d == SetCode(db, top.self, code)
<1>1. status = "running" /\ top.kind = "CREATE"
  BY Zenon DEF opReturnCode
<1>2. /\ top.gas \in Nat /\ top.self \in Addr /\ db \in DbRecord /\ Sound(db) /\ Good(View(db), db)
      /\ Keeps(db, db, Len(db.snapshots)) /\ ~OverlayGet(db, accountKey(top.self)).code /\ ~readOnly
  BY <1>1, Running, ReadOnlyNeverCreates, Zenon DEF FrameSound
<1>3. cost \in Nat
  BY EvmAssumption, Times, SMTT(60)
<1> HIDE DEF cost
<1>4. CASE Exit("error", db, top.gas)
  BY <1>1, <1>2, <1>4, Exits, Zenon
<1>5. CASE ~(cost > top.gas) /\ Exit("ok", d, top.gas - cost)
  <2>1. top.gas - cost \in Nat
    BY <1>2, <1>3, <1>5, SMTT(60)
  <2>2. d \in DbRecord /\ SameBelow(d, db) /\ d.logs = db.logs /\ Good(View(d), d)
    <3>1. code \in BOOLEAN
      BY SMTT(60)
    <3> HIDE DEF code
    <3> QED
      BY <1>2, <3>1, CodeSet, Zenon
  <2> HIDE DEF d
  <2>3. Follows(d, db)
    BY <1>2, <2>2, WritesFollow, Zenon
  <2> QED
    BY <1>1, <1>5, <2>1, <2>3, Exits, Zenon DEF Follows
<1> QED
  BY <1>4, <1>5, Zenon DEF opReturnCode, cost

LEMMA SstoreStep ==
    ASSUME IInv, NEW k \in Slot, NEW value \in Hash, opSstore(k, value)
    PROVE  Result
<1> DEFINE current == GetState(db, top.self, k)
           original == GetCommittedState(db, top.self, k)
           r == IF current = value THEN db ELSE refundSStore(db, original, current, value)
           d == SetState(r, top.self, k, value)
<1>1. status = "running"
  BY Zenon DEF opSstore
<1>2. /\ top.gas \in Nat /\ top.self \in Addr /\ db \in DbRecord /\ Sound(db) /\ Good(View(db), db)
      /\ Keeps(db, db, Len(db.snapshots))
  BY <1>1, Running, Zenon
<1>3. earned(original, current) <= db.refund /\ db.refund \in Nat
  BY <1>2, ClearedEarned, DbFields, Zenon
<1>4. /\ Refunded(r, db)
      /\ r.refund + earned(original, current) >= db.refund + earned(original, value)
  <2> HIDE DEF current, original
  <2>1. CASE current = value
    <3>1. r = db /\ Refunded(db, db)
      BY <1>2, <2>1, Zenon DEF Refunded, SameBelow
    <3>2. earned(original, value) \in Int
      BY EvmAssumption, SMTT(60) DEF earned
    <3> QED
      BY <1>3, <2>1, <3>1, <3>2, SMTT(60)
  <2>2. CASE current # value
    BY <1>2, <1>3, <2>2, StoreRefunds, Zenon
  <2> QED
    BY <2>1, <2>2, Zenon
<1> HIDE DEF r
<1>5. d \in DbRecord /\ SameBelow(d, db) /\ d.logs = db.logs /\ Good(View(d), d)
  BY <1>2, <1>4, SlotStored, Zenon
<1> HIDE DEF d
<1>6. gasSStore(original, current, value) \in Nat
  BY EvmAssumption, Zenon DEF gasSStore
<1> HIDE DEF original, current
<1>7. CASE Exit("error", db, top.gas)
  BY <1>1, <1>2, <1>7, Exits, Zenon
<1>8. CASE ~writeProtected("SSTORE", 0) /\ Charged(d, gasSStore(original, current, value))
  <2>1. ~readOnly
    BY <1>8, Zenon DEF writeProtected, writes
  <2>2. Follows(d, db)
    BY <1>2, <1>5, <2>1, WritesFollow, Zenon
  <2> QED
    BY <1>1, <1>6, <1>8, <2>2, Charges, Zenon
<1> QED
  BY <1>7, <1>8, Zenon DEF opSstore, current, original, r, d

LEMMA LogStep ==
    ASSUME IInv, makeLog
    PROVE  Result
<1> DEFINE l == Append(db.logs, top.self)
           d == [db EXCEPT !.logs = l]
<1>1. status = "running"
  BY Zenon DEF makeLog
<1>2. /\ top.gas \in Nat /\ top.self \in Addr /\ db \in DbRecord /\ Sound(db) /\ Good(View(db), db)
      /\ Keeps(db, db, Len(db.snapshots))
  BY <1>1, Running, Zenon
<1>3. CASE Exit("error", db, top.gas)
  BY <1>1, <1>2, <1>3, Exits, Zenon
<1>4. CASE ~writeProtected("LOG", 0) /\ Charged(d, LogGas)
  <2>1. ~readOnly
    BY <1>4, Zenon DEF writeProtected, writes
  <2>2. l \in Seq(Addr)
    BY <1>2, DbFields
  <2> HIDE DEF l
  <2>3. /\ d \in DbRecord /\ SameBelow(d, db) /\ d.logs = l /\ d.suicided = db.suicided
        /\ d.refund = db.refund /\ d.memdb = db.memdb /\ d.overlay = db.overlay
    BY <1>2, <2>2, Zenon DEF DbRecord, SameBelow
  <2> HIDE DEF d
  <2>4. View(d).data = View(db).data /\ View(d).refund = View(db).refund
        /\ View(d).suicided = View(db).suicided
    BY <2>3, Zenon DEF View, get, OverlayGet
  <2>5. Good(View(d), db)
    BY <1>2, <2>4, Zenon DEF Good, Covered, Cleared, CodeKept, Funded, held
  <2>6. Good(View(d), d)
    BY <2>3, <2>5, GoodBelow, Zenon
  <2>7. Follows(d, db)
    BY <1>2, <2>1, <2>3, <2>6, WritesFollow, Zenon DEF l
  <2> QED
    BY <1>1, <1>4, <2>7, Charges, EvmAssumption, Zenon
<1> QED
  BY <1>3, <1>4, Zenon DEF makeLog, AddLog

LEMMA SuicideStep ==
    ASSUME IInv, NEW b \in Addr, opSuicide(b)
    PROVE  Result
<1> DEFINE r == earnedBySuicide(db, top.self)
           d == destroyed(r, b)
           e == returned(d)
           cost == gasSelfdestruct(b)
<1>1. status = "running"
  BY Zenon DEF opSuicide
<1>2. /\ top.gas \in Nat /\ top.self \in Addr /\ db \in DbRecord /\ Sound(db) /\ Good(View(db), db)
      /\ FrameSound(top, db)
  BY <1>1, Running, Zenon
<1>3. r \in DbRecord /\ SameBelow(r, db) /\ r.logs = db.logs
  BY <1>2, SuicideRefunds, Zenon DEF Refunded
<1>4. d \in DbRecord /\ SameBelow(d, db) /\ d.logs = db.logs /\ Good(View(d), d)
  BY <1>2, Destroyed, Zenon DEF destroyed
<1> HIDE DEF r, d
<1>5. e \in DbRecord /\ SameBelow(e, db) /\ e.logs = db.logs /\ Good(View(e), e)
  <2>1. CASE top.kind = "CREATE"
    <3>1. ~OverlayGet(d, accountKey(top.self)).code
      BY <1>2, <1>4, <2>1, Zenon DEF FrameSound, SameBelow, OverlayGet
    <3>2. e = SetCode(d, top.self, FALSE)
      BY <2>1, Zenon DEF returned
    <3>3. e \in DbRecord /\ SameBelow(e, d) /\ e.logs = d.logs /\ Good(View(e), e)
      BY <1>2, <1>4, <3>1, <3>2, CodeSet, Zenon
    <3> QED
      BY <1>4, <3>3, Zenon DEF SameBelow
  <2>2. CASE top.kind # "CREATE"
    BY <1>4, <2>2, Zenon DEF returned
  <2> QED
    BY <2>1, <2>2, Zenon
<1> HIDE DEF e
<1>6. cost \in Nat
  BY EvmAssumption DEF gasSelfdestruct
<1> HIDE DEF cost
<1>7. CASE Exit("error", r, top.gas)
  <2>1. Keeps(r, db, Len(db.snapshots))
    BY <1>2, <1>3, SavedStays, SMTT(60) DEF Sound
  <2> QED
    BY <1>1, <1>2, <1>7, <2>1, Exits, SMTT(60)
<1>8. CASE /\ ~writeProtected("SELFDESTRUCT", 0) /\ ~(cost > top.gas)
           /\ Exit("ok", e, top.gas - cost)
  <2>1. ~readOnly
    BY <1>8, SMTT(60) DEF writeProtected, writes
  <2>2. Follows(e, db)
    BY <1>2, <1>5, <2>1, WritesFollow, SMTT(60)
  <2>3. top.gas - cost \in Nat
    BY <1>2, <1>6, <1>8, SMTT(60)
  <2> QED
    BY <1>1, <1>8, <2>2, <2>3, Exits, SMTT(60) DEF Follows
<1> QED
  BY <1>7, <1>8, Zenon DEF opSuicide, r, d, e, cost, earnedBySuicide

\* The gas that a call passes on and the gas that is left to the caller.
LEMMA CallGasFits ==
    ASSUME NEW g1 \in Nat, NEW base \in Nat, NEW asked \in Nat
    PROVE  callGas(g1, base, asked) \in Nat
<1> DEFINE left == (g1 - base) % Word
           part == left \div GasDenominator
<1>1. left \in Nat
  BY GasFits
<1> HIDE DEF left
<1>2. part \in Nat /\ part <= left
  BY <1>1, GasFits
<1> HIDE DEF part
<1>3. left - part \in Nat
  BY <1>1, <1>2, SMTT(60)
<1> QED
  BY <1>3 DEF callGas, left, part

LEMMA OpensHere ==
    ASSUME IInv, status = "running", NEW g \in Nat
    PROVE  Opens(WithGas(g), db)
<1>1. SameFrames(WithGas(g), frames, Len(frames))
  BY Running, GasChanged, Zenon DEF WithGas
<1>2. Held(db, WithGas(g), readOnly)
  BY <1>1, Running, StaysHeld, Zenon
<1> QED
  BY <1>1, <1>2, Running, SMTT(60) DEF Opens, SameFrames

LEMMA CallStep ==
    ASSUME IInv, NEW kind \in Kinds, NEW addr \in Addr, NEW value \in Values,
           NEW asked \in Requests, opCall(kind, addr, value, asked)
    PROVE  Result
<1> DEFINE g1 == top.gas - CallGas
           base == callBase(kind, addr, value)
           passed == callGas(g1, base, asked)
           cost == callCost(base, passed)
           fs == WithGas(g1 - cost)
           gas == (passed + stipend(value)) % Word
           body == CASE kind = "CALL"         -> Call(fs, db, top.self, addr, gas, value)
                     [] kind = "CALLCODE"     -> CallCode(fs, db, top.self, addr, gas, value)
                     [] kind = "DELEGATECALL" -> DelegateCall(fs, db, top.self, addr, gas)
                     [] kind = "STATICCALL"   -> StaticCall(fs, db, addr, gas)
<1>1. status = "running"
  BY DEF opCall
<1>2. top.gas \in Nat /\ top.self \in Addr /\ Keeps(db, db, Len(db.snapshots))
  BY <1>1, Running, SMTT(60)
<1>3. value \in Nat /\ asked \in Nat /\ CallGas \in Nat /\ stipend(value) \in Nat
  BY EvmAssumption DEF stipend
<1>4. CASE Exit("error", db, top.gas)
  BY <1>1, <1>2, <1>4, Exits, Zenon
<1>5. CASE ~writeProtected(kind, value) /\ ~(g1 < 0) /\ ~(cost > g1) /\ body
  <2>1. g1 \in Nat
    BY <1>2, <1>3, <1>5, SMTT(60)
  <2>2. base \in Nat
    BY EvmAssumption, SMTT(60) DEF callBase
  <2> HIDE DEF g1, base
  <2>3. passed \in Nat
    BY <1>3, <2>1, <2>2, CallGasFits, Zenon
  <2> HIDE DEF passed
  <2>4. cost \in Nat
    BY <2>2, <2>3, SMTT(60) DEF callCost
  <2> HIDE DEF cost
  <2>5. g1 - cost \in Nat
    BY <1>5, <2>1, <2>4, SMTT(60)
  <2>6. Opens(fs, db)
    BY <1>1, <2>5, OpensHere, SMTT(60)
  <2>7. gas \in Nat
    BY <1>3, <2>3, GasFits, Zenon
  <2> HIDE DEF fs, gas
  <2>8. CASE kind = "CALL"
    <3>1. Call(fs, db, top.self, addr, gas, value)
      BY <1>5, <2>8, SMTT(60)
    <3>2. readOnly => value = 0
      BY <1>5, <2>8, Zenon DEF writeProtected
    <3> QED
      BY <1>2, <1>3, <2>6, <2>7, <3>1, <3>2, Calls, SMTT(60)
  <2>9. CASE kind = "CALLCODE"
    <3>1. CallCode(fs, db, top.self, addr, gas, value)
      BY <1>5, <2>9, Zenon
    <3> QED
      BY <1>2, <2>6, <2>7, <3>1, CallCodes, SMTT(60)
  <2>10. CASE kind = "DELEGATECALL"
    <3>1. DelegateCall(fs, db, top.self, addr, gas)
      BY <1>5, <2>10, Zenon
    <3> QED
      BY <1>2, <2>6, <2>7, <3>1, DelegateCalls, SMTT(60)
  <2>11. CASE kind = "STATICCALL"
    <3>1. StaticCall(fs, db, addr, gas)
      BY <1>5, <2>11, Zenon
    <3> QED
      BY <2>6, <2>7, <3>1, StaticCalls, Zenon
  <2> QED
    BY <2>8, <2>9, <2>10, <2>11, SMTT(60) DEF Kinds
<1> QED
  BY <1>4, <1>5, Zenon DEF opCall

LEMMA CreateStep ==
    ASSUME IInv, NEW address \in Created, NEW value \in Values, opCreate(address, value)
    PROVE  Result
<1> DEFINE g1 == top.gas - CreateGas
           part == g1 \div GasDenominator
           gas == g1 - part
<1>1. status = "running"
  BY Zenon DEF opCreate
<1>2. top.gas \in Nat /\ top.self \in Addr /\ Keeps(db, db, Len(db.snapshots))
  BY <1>1, Running, Zenon
<1>3. value \in Nat /\ address \in Addr /\ CreateGas \in Nat
  BY EvmAssumption, RemoteAssumption, Zenon
<1>4. CASE Exit("error", db, top.gas)
  BY <1>1, <1>2, <1>4, Exits, Zenon
<1>5. CASE /\ ~writeProtected("CREATE", value) /\ ~(g1 < 0)
           /\ create(WithGas(g1 - gas), db, top.self, gas, value, address)
  <2>1. g1 \in Nat
    BY <1>2, <1>3, <1>5, SMTT(60)
  <2> HIDE DEF g1
  <2>2. part \in Nat /\ part <= g1
    BY <2>1, GasFits, Zenon
  <2> HIDE DEF part
  <2>3. gas \in Nat /\ g1 - gas \in Nat
    BY <2>1, <2>2, SMTT(60)
  <2> HIDE DEF gas
  <2>4. Opens(WithGas(g1 - gas), db)
    BY <1>1, <2>3, OpensHere, Zenon
  <2>5. ~readOnly
    BY <1>5, Zenon DEF writeProtected, writes
  <2> QED
    BY <1>2, <1>3, <1>5, <2>3, <2>4, <2>5, Creates, SMTT(60)
<1> QED
  BY <1>4, <1>5, Zenon DEF opCreate

-----------------------------------------------------------------------------
\* The transactions.
LEMMA Idle ==
    ASSUME IInv, status = "idle"
    PROVE  /\ Sound(db) /\ db \in DbRecord /\ frames = <<>> /\ ~readOnly /\ Opens(<<>>, db)
<1>1. frames = <<>> /\ Sound(db) /\ db \in DbRecord /\ ~db.panic
  BY Zenon DEF IInv, PanicOnlyInCommit, Sound
<1>2. ~readOnly
  BY <1>1 DEF IInv, StaticSound
<1>3. Held(db, <<>>, readOnly)
  BY <1>1, Zenon DEF IInv, Held
<1> QED
  BY <1>1, <1>2, <1>3, SMTT(60) DEF Opens

LEMMA TxCallStep ==
    ASSUME IInv, NEW addr \in Addr, NEW value \in Values, txCall(addr, value)
    PROVE  Result
<1> DEFINE d == SetNonce(db, Origin, GetNonce(db, Origin) + 1)
<1>1. Sound(db) /\ db \in DbRecord /\ ~readOnly /\ Opens(<<>>, db)
  BY Idle, Zenon DEF txCall
<1>2. Origin \in Addr /\ value \in Nat /\ TxGasLimit \in Nat
  BY EvmAssumption, RemoteAssumption, Zenon
<1>3. GetNonce(db, Origin) + 1 \in Nat
  BY <1>1, <1>2, AccountRead, SMTT(60)
<1>4. Follows(d, db)
  BY <1>1, <1>2, <1>3, NonceSet, TouchFollows, SMTT(60)
<1>5. Call(<<>>, d, Origin, addr, TxGasLimit, value)
  BY Zenon DEF txCall
<1> HIDE DEF d
<1>6. Opens(<<>>, d)
  <2>1. SameFrames(<<>>, <<>>, Len(<<>>))
    BY DEF SameFrames
  <2> QED
    BY <1>1, <1>4, <2>1, StaysHeld, SMTT(60) DEF Opens, Follows
<1> QED
  BY <1>1, <1>2, <1>5, <1>6, Calls, Zenon

LEMMA TxCreateStep ==
    ASSUME IInv, NEW address \in Created, NEW value \in Values, txCreate(address, value)
    PROVE  Result
<1>1. ~readOnly /\ Opens(<<>>, db)
  BY Idle, Zenon DEF txCreate
<1>2. Origin \in Addr /\ address \in Addr /\ value \in Nat /\ TxGasLimit \in Nat
  BY EvmAssumption, RemoteAssumption, SMTT(60)
<1>3. create(<<>>, db, Origin, TxGasLimit, value, address)
  BY Zenon DEF txCreate
<1> QED
  BY <1>1, <1>2, <1>3, Creates, Zenon

LEMMA FreshSound ==
    ASSUME NEW d \in DbRecord, d.memdb = <<>>, d.suicided = {}, d.snapshots = <<>>,
           below(d) \in FirstSupplies
    PROVE  Sound(d)
<1>1. \A key \in AllKeys : get(d, key) = OverlayGet(d, key)
  BY NoWrites, Zenon DEF get
<1>2. Cleared(View(d), d) = {}
  BY <1>1, KeyValues, ViewOf, SMTT(60) DEF Cleared, GetCommittedState
<1>3. Covered(View(d), d)
  <2>1. Cardinality({}) = 0
    BY FS_EmptySet, Zenon
  <2>2. View(d).refund \in Nat /\ View(d).suicided = {}
    BY ViewOf, DbFields, Zenon
  <2>3. SelfdestructRefundGas * 0 = 0 /\ SstoreClearsRefund * 0 = 0
    BY EvmAssumption, SMTT(60)
  <2> QED
    BY <1>2, <2>1, <2>2, <2>3, SMTT(60) DEF Covered
<1>4. CodeKept(View(d), d)
  BY <1>1, KeyValues, ViewOf, Zenon DEF CodeKept
<1>5. LogsKept(d)
  BY SMTT(60) DEF LogsKept
<1>6. Funded(View(d), d)
  <2>1. held(View(d)) = below(d) /\ below(d) \in Int
    BY <1>1, KeyValues, BelowType, Zenon
  <2>2. held(View(d)) <= below(d)
    BY <2>1
  <2> QED
    BY <2>1, <2>2, Zenon DEF Funded
<1> QED
  BY <1>3, <1>4, <1>5, <1>6, Zenon DEF Sound, Good

\* The write set of a transaction on top of the one below holds what was seen.
LEMMA MovedDown ==
    ASSUME NEW d, NEW s, NEW none, NEW m, DOMAIN none = {}, m = over(none, d.memdb),
           s.overlay = over(m, d.overlay)
    PROVE  below(s) = held(View(d))
<1>1. DOMAIN m = DOMAIN d.memdb /\ \A key \in DOMAIN m : m[key] = d.memdb[key]
  BY DEF over
<1>2. /\ DOMAIN s.overlay = DOMAIN m \cup DOMAIN d.overlay
      /\ \A key \in DOMAIN s.overlay :
            s.overlay[key] = IF key \in DOMAIN m THEN m[key] ELSE d.overlay[key]
  BY DEF over
<1>3. \A key : OverlayGet(s, key) = get(d, key)
  BY <1>1, <1>2 DEF OverlayGet, get
<1>4. \A a \in Addr : View(d).data[accountKey(a)] = OverlayGet(s, accountKey(a))
  BY <1>3, ViewOf, KeyValues, Zenon
<1>5. [a \in Addr |-> OverlayGet(s, accountKey(a)).balance]
        = [a \in Addr |-> View(d).data[accountKey(a)].balance]
  BY <1>4
<1> QED
  BY <1>5, Zenon DEF below, held

\* The next transaction's state, when nothing was destroyed.
LEMMA Committed ==
    ASSUME NEW d \in DbRecord, d.suicided = {}, ~d.panic, Good(View(d), d)
    PROVE  LET e == StateCommit(d)
           IN  ~e.panic /\ Sound(NewStateDB(e)) /\ ~NewStateDB(e).panic
<1> DEFINE none == [key \in UNION {erased(d, a) : a \in d.suicided} |-> Gone]
           m == over(none, d.memdb)
           c == [d EXCEPT !.memdb = m, !.suicided = {}, !.snapshots = <<>>]
           o == over(m, d.overlay)
           e == [c EXCEPT !.overlay = o, !.memdb = <<>>]
           s == NewStateDB(e)
<1>1. none \in WriteSets /\ DOMAIN none = {}
  <2>1. UNION {erased(d, a) : a \in d.suicided} = {}
    BY SMTT(60)
  <2>2. none = [key \in {} |-> none[key]]
    BY <2>1
  <2> QED
    BY <2>2, WriteSetDef, Zenon
<1>2. CommitToCacheDB(d) = c
  BY Zenon DEF CommitToCacheDB
<1> HIDE DEF none
<1>3. m \in WriteSets
  BY <1>1, OverIsWriteSet, DbFields, Zenon
<1> HIDE DEF m
<1>4. o \in WriteSets
  BY <1>3, OverIsWriteSet, DbFields, Zenon
<1> DEFINE noneTaken == <<>>
<1>5. noneTaken \in Seq(SnapshotRecord) /\ noneTaken \in Seq(Addr) /\ {} \in SUBSET Addr
  OBVIOUS
<1>6. c \in DbRecord /\ c.overlay = d.overlay /\ c.memdb = m /\ ~c.panic
  <2> HIDE DEF noneTaken
  <2>1. c = [d EXCEPT !.memdb = m, !.suicided = {}, !.snapshots = noneTaken]
    BY DEF noneTaken
  <2> QED
    BY <1>5, <1>3, <2>1, Zenon DEF DbRecord
<1>7. StateCommit(d) = e
  BY <1>2, <1>6, SMTT(60) DEF StateCommit, CacheCommit
<1> HIDE DEF o, c
<1>8. e \in DbRecord /\ ~e.panic /\ e.memdb = <<>> /\ e.overlay = o
  BY <1>4, <1>6, NoWrites, Zenon DEF DbRecord
<1> HIDE DEF e
<1>9. /\ s \in DbRecord /\ s.memdb = <<>> /\ s.suicided = {} /\ s.snapshots = <<>> /\ ~s.panic
      /\ s.overlay = o
  <2> HIDE DEF noneTaken
  <2>1. s = [e EXCEPT !.suicided = {}, !.logs = noneTaken, !.refund = 0, !.snapshots = noneTaken]
    BY DEF noneTaken, NewStateDB
  <2> HIDE DEF s
  <2>2. s \in DbRecord /\ s.memdb = e.memdb /\ s.suicided = {} /\ s.snapshots = noneTaken
        /\ s.panic = e.panic /\ s.overlay = e.overlay
    BY <1>5, <1>8, <2>1, Zenon DEF DbRecord
  <2> QED
    BY <1>8, <2>2 DEF noneTaken, s
<1> HIDE DEF s
<1>10. below(s) \in FirstSupplies
  <2>1. below(s) = held(View(d))
    BY <1>1, <1>9, MovedDown, Zenon DEF m, o
  <2>2. View(d).suicided = {}
    BY ViewOf, Zenon
  <2> QED
    BY <2>1, <2>2, Zenon DEF Good, Funded
<1>11. Sound(s)
  BY <1>9, <1>10, FreshSound, Zenon
<1> QED
  BY <1>7, <1>8, <1>9, <1>11, Zenon DEF s

LEMMA NoFrames ==
    ASSUME NEW d, NEW ro, NEW v, ro = FALSE
    PROVE  FramesSound(<<>>, d) /\ StaticSound(ro, <<>>, v)
BY DEF FramesSound, StaticSound

LEMMA CommitStep ==
    ASSUME IInv, commit
    PROVE  IInv' /\ frames' = frames
<1>1. /\ status = "ended" /\ ~db.panic /\ frames' = frames /\ readOnly' = readOnly
      /\ frames = <<>> /\ Sound(db) /\ db \in DbRecord
  BY Zenon DEF commit, IInv, Sound
<1>2. readOnly = FALSE
  BY <1>1, SMTT(60) DEF IInv, StaticSound
<1>3. CASE db.suicided = {}
  <2>1. Sound(db') /\ ~db'.panic /\ status' = "idle"
    BY <1>1, <1>3, Committed, SMTT(60) DEF commit, Sound
  <2> QED
    BY <1>1, <1>2, <2>1, NoFrames, Zenon DEF IInv, PanicOnlyInCommit
<1>4. CASE db.suicided # {}
  <2> DEFINE p == [db EXCEPT !.panic = TRUE]
  <2>1. CommitToCacheDB(db) = p
    BY <1>4, RemoteAssumption, SMTT(60) DEF CommitToCacheDB, Panic
  <2>2. /\ p \in DbRecord /\ p.panic /\ p.overlay = db.overlay /\ p.memdb = db.memdb
        /\ p.suicided = db.suicided /\ p.logs = db.logs /\ p.refund = db.refund
        /\ p.snapshots = db.snapshots
    BY <1>1, Zenon DEF DbRecord
  <2> HIDE DEF p
  <2>3. db' = p /\ status' = "ended"
    BY <1>1, <2>1, <2>2, SMTT(60) DEF commit, StateCommit
  <2>4. View(p) = View(db)
    BY <2>2, ViewsEqual, SMTT(60) DEF get, OverlayGet
  <2>5. Sound(p)
    <3>1. Good(View(p), p)
      BY <1>1, <2>2, <2>4, GoodBelow, Zenon DEF Sound
    <3>2. LogsKept(p)
      BY <1>1, <2>2, Zenon DEF LogsKept, Sound
    <3> QED
      BY <2>2, <3>1, <3>2, Zenon DEF Sound
  <2>6. Sound(db)' /\ FramesSound(frames, db)' /\ StaticSound(readOnly, frames, View(db))'
    BY <1>1, <1>2, <2>3, <2>5, NoFrames, Zenon
  <2>7. PanicOnlyInCommit'
    BY <1>4, <2>2, <2>3, SMTT(60) DEF PanicOnlyInCommit
  <2> QED
    BY <1>1, <1>2, <2>3, <2>6, <2>7, Zenon DEF IInv
<1> QED
  BY <1>1, <1>3, <1>4, SMTT(60)

-----------------------------------------------------------------------------
\* What is below a state is what a transaction that has done nothing would see.
LEMMA StartsBelow ==
    ASSUME NEW d \in DbRecord
    PROVE  supply(EmptyStateDB(d.overlay)) = below(d)
<1> DEFINE noLogs == <<>>
           e == EmptyStateDB(d.overlay)
<1>1. noLogs \in WriteSets /\ noLogs \in Seq(Addr) /\ noLogs \in Seq(SnapshotRecord)
  BY NoWrites
<1>2. e \in DbRecord /\ e.overlay = d.overlay /\ e.memdb = <<>>
  <2> HIDE DEF noLogs
  <2>1. e = [memdb |-> noLogs, overlay |-> d.overlay, suicided |-> {}, logs |-> noLogs,
             refund |-> 0, snapshots |-> noLogs, panic |-> FALSE]
    BY DEF EmptyStateDB, noLogs
  <2> HIDE DEF e
  <2>2. e \in DbRecord /\ e.overlay = d.overlay /\ e.memdb = noLogs
    BY <1>1, <2>1, DbFields, Zenon DEF DbRecord
  <2> QED
    BY <2>2, Zenon DEF noLogs
<1> HIDE DEF e
<1>3. \A a \in Addr : get(e, accountKey(a)) = OverlayGet(e, accountKey(a))
  BY <1>2, NoWrites, Zenon DEF get
<1> QED
  BY <1>2, <1>3, BelowType, HeldType, GoodBelow, Zenon DEF e

(* The invariant holds at first: an overlay that earlier transactions may     *)
(* have left, and a StateDB that has done nothing.                            *)
LEMMA InitIInv == Init => IInv
<1> SUFFICES ASSUME Init PROVE IInv
  OBVIOUS
<1>1. PICK committed \in Overlays : db = EmptyStateDB(committed)
  BY DEF Init
<1>2. committed \in WriteSets
  BY RemoteAssumption, WriteSetDef, SMTT(60)
<1>3. /\ db \in DbRecord /\ db.memdb = <<>> /\ db.suicided = {} /\ db.snapshots = <<>> /\ ~db.panic
  <2>1. <<>> \in WriteSets /\ <<>> \in Seq(Addr) /\ <<>> \in Seq(SnapshotRecord)
    BY NoWrites, SMTT(60)
  <2> QED
    BY <1>1, <1>2, <2>1, Zenon DEF EmptyStateDB, DbRecord
<1>4. Sound(db)
  <2>1. db.overlay = committed /\ EmptyStateDB(db.overlay) = db
    BY <1>1, Zenon DEF EmptyStateDB
  <2>2. below(db) = supply(db)
    BY <1>3, <2>1, StartsBelow, Zenon
  <2>3. supply(db) \in FirstSupplies
    BY <1>1, Zenon DEF FirstSupplies
  <2> QED
    BY <1>3, <2>2, <2>3, FreshSound, Zenon
<1>5. frames = <<>> /\ readOnly = FALSE /\ status = "idle"
  BY Zenon DEF Init
<1> QED
  BY <1>3, <1>4, <1>5, NoFrames, Zenon DEF IInv, PanicOnlyInCommit

LEMMA ResultIInv ==
    ASSUME Result
    PROVE  IInv'
BY Zenon DEF Result, Held, IInv, PanicOnlyInCommit

LEMMA FramesCounted ==
    ASSUME IInv
    PROVE  Len(frames) \in Nat
<1>1. frames \in Seq(FrameRecord)
  BY Zenon DEF IInv, FramesSound
<1> QED
  BY <1>1

(* Every step keeps the invariant, and a step that closes a frame with a      *)
(* failure shows the state that the frame was entered with.                   *)
LEMMA StepIInv ==
    ASSUME IInv, [Next]_vars
    PROVE  IInv' /\ (Len(frames') < Len(frames) /\ outcome' # "ok" => View(db)' = top.entry)
<1>1. CASE UNCHANGED vars
  <2>1. IInv'
    BY <1>1, Zenon DEF vars, IInv, Sound, PanicOnlyInCommit
  <2>2. Len(frames) \in Nat
    BY FramesCounted, Zenon
  <2> QED
    BY <1>1, <2>1, <2>2, SMTT(60) DEF vars
<1>2. CASE commit
  <2>1. Len(frames) \in Nat
    BY FramesCounted, Zenon
  <2> QED
    BY <1>2, <2>1, CommitStep, SMTT(60)
<1>3. CASE Result
  BY <1>3, ResultIInv, SMTT(60) DEF Result
<1>4. ASSUME NEW a \in Addr, NEW v \in Values, txCall(a, v) PROVE Result
  BY <1>4, TxCallStep, SMTT(60)
<1>5. ASSUME NEW a \in Created, NEW v \in Values, txCreate(a, v) PROVE Result
  BY <1>5, TxCreateStep, SMTT(60)
<1>6. CASE opStop \/ opRevert \/ fault
  BY <1>3, <1>6, StopStep, SMTT(60)
<1>7. CASE makeLog
  BY <1>3, <1>7, LogStep, SMTT(60)
<1>8. ASSUME NEW size \in 0..2, opReturnCode(size) PROVE Result
  BY <1>8, ReturnCodeStep, SMTT(60)
<1>9. ASSUME NEW k \in Slot, NEW v \in Hash, opSstore(k, v) PROVE Result
  BY <1>9, SstoreStep
<1>10. ASSUME NEW b \in Addr, opSuicide(b) PROVE Result
  BY <1>10, SuicideStep, SMTT(60)
<1>11. ASSUME NEW kind \in Kinds, NEW a \in Addr, NEW v \in Values, NEW g \in Requests,
              opCall(kind, a, v, g)
       PROVE  Result
  BY <1>11, CallStep, SMTT(60)
<1>12. ASSUME NEW a \in Created, NEW v \in Values, opCreate(a, v) PROVE Result
  BY <1>12, CreateStep
<1> QED
  BY <1>1, <1>2, <1>3, <1>4, <1>5, <1>6, <1>7, <1>8, <1>9, <1>10, <1>11, <1>12, SMTT(60) DEF Next

(* The state and the frames of the EVM are right together in every reachable  *)
(* state: types, snapshots, refunds, code, write protection.                  *)
THEOREM Inductive == Spec => []IInv
BY InitIInv, StepIInv, PTL DEF Spec

(* No call of the EVM panics: SubRefund never finds the counter too low,      *)
(* RevertToSnapshot never an index above the stack, and no balance is nil;    *)
(* only Commit panics, after a contract was destroyed over a RemoteDB.        *)
THEOREM NoPanicBeforeCommit == Spec => []PanicOnlyInCommit
<1>1. IInv => PanicOnlyInCommit
  BY SMTT(60) DEF IInv
<1> QED
  BY <1>1, Inductive, PTL

(* Write protection of interpreter.Run: while a STATICCALL is open, no code   *)
(* below it has changed storage, balances, logs, refunds or accounts.         *)
THEOREM StaticCallsKeepState == Spec => []StaticKeepsState
<1>1. IInv => StaticKeepsState
  <2> SUFFICES ASSUME IInv, readOnly PROVE StaticKeepsState
    BY Zenon DEF StaticKeepsState
  <2>1. frames \in Seq(FrameRecord) /\ Len(frames) \in Nat
    BY SMTT(60) DEF IInv, FramesSound
  <2>2. PICK i \in 1..Len(frames) : frames[i].setReadOnly
    BY Zenon DEF IInv, StaticSound
  <2>3. View(db) = frames[i].entry
    BY <2>1, <2>2, SMTT(60) DEF IInv, StaticSound
  <2> QED
    BY <2>1, <2>2, <2>3, SMTT(60) DEF StaticKeepsState
<1> QED
  BY <1>1, Inductive, PTL

(* gasSStoreEIP2200 and opSuicide: the counter always covers what the slots   *)
(* cleared and the contracts destroyed so far have earned, also after a frame *)
(* was undone, so that no SubRefund finds too little.                         *)
THEOREM RefundsCovered == Spec => []RefundCoversClears
<1>1. IInv => RefundCoversClears
  <2> SUFFICES ASSUME IInv PROVE RefundCoversClears
    OBVIOUS
  <2>1. Covered(View(db), db)
    BY Zenon DEF IInv, Sound, Good
  <2>2. Cleared(View(db), db) = {key \in Addr \X Slot :
           GetCommittedState(db, key[1], key[2]) # 0 /\ GetState(db, key[1], key[2]) = 0}
    <3>1. \A key \in Addr \X Slot :
            asHash(View(db).data[stateKey(key[1], key[2])]) = GetState(db, key[1], key[2])
      BY KeyValues, ViewOf, Zenon DEF GetState
    <3> QED
      BY <3>1, Zenon DEF Cleared
  <2> QED
    BY <2>1, <2>2, ViewOf, SMTT(60) DEF Covered, RefundCoversClears
<1> QED
  BY <1>1, Inductive, PTL

(* evm.create: whatever the transaction calls or creates, an account that had *)
(* code when the transaction began still has code.                            *)
THEOREM CodeOfContractsStays == Spec => []DeployedCodeStays
<1>1. IInv => DeployedCodeStays
  <2> SUFFICES ASSUME IInv, NEW a \in Addr, OverlayGet(db, accountKey(a)).code
               PROVE  GetEthAccount(db, a).code
    BY Zenon DEF DeployedCodeStays
  <2>1. View(db).data[accountKey(a)].code
    BY DEF IInv, Sound, Good, CodeKept
  <2> QED
    BY <2>1, AccountRead, ViewOf, KeyValues, Zenon DEF IInv, Sound
<1> QED
  BY <1>1, Inductive, PTL

(* The tail of Call, CallCode, DelegateCall, StaticCall and create: a frame   *)
(* that fails leaves storage, balances, logs, refund and destroyed contracts  *)
(* as it found them, whatever the frames it opened did.                       *)
THEOREM FailedFramesRestore == Spec => FailureRestores
<1>1. IInv /\ [Next]_vars
        => [Len(frames') < Len(frames) /\ outcome' # "ok" => View(db)' = top.entry]_vars
  BY StepIInv
<1> QED
  BY <1>1, Inductive, PTL DEF Spec, FailureRestores

(* opCall, opCreate and the tails of the calls: no instruction makes gas, not *)
(* the stipend of a CALL with value, not the rounding of callGas, not what a  *)
(* frame hands back.  The gas of the open frames together never grows.        *)
THEOREM GasIsSpent == Spec => GasNeverGrows
<1>1. ASSUME IInv, [Next]_vars
      PROVE  [status = "running" => heldGas(frames') <= heldGas(frames)]_vars
  <2> SUFFICES ASSUME Next, status = "running" PROVE heldGas(frames') <= heldGas(frames)
    BY <1>1
  <2>1. IInv'
    BY <1>1, StepIInv, Zenon
  <2>2. frames \in Seq(FrameRecord) /\ frames' \in Seq(FrameRecord) /\ frames # <<>>
    BY <1>1, <2>1, Zenon DEF IInv, FramesSound
  <2> QED
    BY <2>2, StepGas, Zenon DEF GasFalls
<1> QED
  BY <1>1, Inductive, PTL DEF Spec, GasNeverGrows

(* Transfer, create, the reverts and opSuicide: whatever a transaction calls, *)
(* no value is made; none is lost unless a contract destroys itself, and no   *)
(* account spends what it has not.  Over any number of transactions that are  *)
(* committed the accounts hold what they held first.                          *)
THEOREM NothingMinted == Spec => []SupplyKept
<1>1. ASSUME IInv PROVE SupplyKept
  <2>1. db \in DbRecord /\ Funded(View(db), db)
    BY <1>1, Zenon DEF IInv, Sound, Good
  <2>2. ASSUME NEW a \in Addr PROVE GetBalance(db, a) >= 0
    <3>1. GetBalance(db, a) \in Nat
      BY <2>1, AccountRead, Zenon
    <3> QED
      BY <3>1
  <2>3. supply(EmptyStateDB(db.overlay)) = below(db) /\ held(View(db)) = supply(db)
    BY <2>1, StartsBelow, HeldType, Zenon
  <2>4. View(db).suicided = db.suicided
    BY ViewOf, Zenon
  <2> QED
    BY <2>1, <2>2, <2>3, <2>4, Zenon DEF SupplyKept, Funded
<1> QED
  BY <1>1, Inductive, PTL
=============================================================================
