--------------------------- MODULE Tracker_proof ---------------------------
(***************************************************************************)
(* For every tree of blocks, every set of filters, every backlog and batch *)
(* size, and any number of failing calls and crashes: the list of blocks   *)
(* of the tracker stays one branch, reconciling never meets a bad number   *)
(* sequence, and the target of a Sync that holds the lock is the head of   *)
(* the list.  If moreover the head of the node never loses height, the     *)
(* list is deep enough for the slice that a Sync takes of it.              *)
(***************************************************************************)
EXTENDS Tracker_lemmas

-----------------------------------------------------------------------------
(* The inductive invariant is preserved: Sync. *)

\* An answer of GetLogs is a sequence of blocks.
LEMMA LogsInRangeType ==
    ASSUME TypeOK, NEW lo \in Nat, NEW hi \in Nat
    PROVE  LogsInRange(lo, hi) \subseteq Seq(Block)
<1> DEFINE top == MinOf(hi, Number[head]) + 1
           S == Blocks(SubSeq(Branch[head], lo + 1, top))
<1>1. Branch[head] \in Seq(Block) /\ head \in Block
  BY TreeAssumption DEF TypeOK
<1>2. top \in Int /\ top <= Len(Branch[head])
  BY <1>1, NumberParentType DEF MinOf, Number
<1> HIDE DEF top
<1>3. \A i \in (lo + 1)..top : Branch[head][i] \in Block
  BY <1>1, <1>2, ElementOfBlocks
<1>4. SubSeq(Branch[head], lo + 1, top) \in Seq(Block)
  BY <1>2, <1>3, SubSeqProperties
<1>5. S \subseteq Block
  BY <1>4, BlocksType, Zenon
<1>6. LogsInRange(lo, hi) \subseteq UNION {[1..n -> S] : n \in 0..(hi + 1 - lo)}
  BY DEF LogsInRange, top
<1> HIDE DEF S
<1>7. ASSUME NEW l \in LogsInRange(lo, hi)
      PROVE  l \in Seq(Block)
  <2>1. PICK n \in 0..(hi + 1 - lo) : l \in [1..n -> S]
    BY <1>6
  <2>2. n \in Nat /\ l \in [1..n -> Block]
    BY <1>5, <2>1
  <2> QED
    BY <2>2, SeqDef, Zenon
<1> QED
  BY <1>7

\* GetBlockByNumber answers a block or null.
LEMMA BlockByNumberType ==
    ASSUME TypeOK, NEW n \in Nat
    PROVE  BlockByNumber(n) \in Block \cup {None}
<1>1. Branch[head] \in Seq(Block) /\ head \in Block /\ Len(Branch[head]) \in Nat
  BY TreeAssumption DEF TypeOK
<1>2. n <= Number[head] => n + 1 \in 1..Len(Branch[head])
  BY <1>1 DEF Number
<1>3. n <= Number[head] => Branch[head][n + 1] \in Block
  BY <1>1, <1>2, ElementOfBlocks
<1>4. Number[head] \in Nat
  BY <1>1, NumberParentType
<1> QED
  BY <1>3, <1>4 DEF BlockByNumber

\* An error of syncImpl leaves the invariant.
LEMMA SyncErrorStep ==
    ASSUME IInv, NEW f \in Filter, spc[f] \notin {"none", "ready"}, syncError(f),
           UNCHANGED <<blocks, rpc, added, queue>>,
           \A g \in Filter \ {f} : target'[g] = target[g] /\ last'[g] = last[g]
    PROVE  /\ BlocksLinked' /\ EventOK' /\ LockOK' /\ SyncOK'
           /\ blocksLock' \in Proc \cup {None} /\ todo' \in [Proc -> Seq(Block)]
           /\ evnt' \in [Proc -> [Added : Seq(Block), Removed : Seq(Block)]]
           /\ spc' \in [Filter -> SyncPc]
<1> USE DEF IInv
<1>1. NoEvent \in [Added : Seq(Block), Removed : Seq(Block)]
  BY LinkedEmpty DEF NoEvent
<1>2. /\ blocksLock' \in Proc \cup {None} /\ todo' \in [Proc -> Seq(Block)]
      /\ evnt' \in [Proc -> [Added : Seq(Block), Removed : Seq(Block)]]
      /\ spc' \in [Filter -> SyncPc]
  BY <1>1, LinkedEmpty, Zenon DEF syncError, TypeOK, Goto, SyncPc
<1>3. todo'[Rec] = todo[Rec]
  BY ConfigAssumption DEF syncError, TypeOK, Proc
<1>4. BlocksLinked' /\ EventOK'
  BY <1>3, EventFrame
<1>5. \/ blocksLock' = blocksLock /\ spc[f] \notin Holding
      \/ blocksLock = f /\ blocksLock' = None
  BY DEF syncError, LockOK
<1>6. LockOK' /\ SyncOK'
  BY <1>5, SyncFrame DEF syncError, SyncPc, Holding
<1> QED
  BY <1>2, <1>4, <1>6

\* syncImpl preserves the invariant.
LEMMA syncImplStep ==
    ASSUME IInv, NEW f \in Filter, syncImpl(f)
    PROVE  IInv'
<1> USE DEF IInv, chainVars, recVars
<1> DEFINE l == IF last[f] = None THEN fastTrack(f) ELSE last[f]
<1>1. /\ spc[f] = "ready" /\ rpc \notin {"stopped", "populate"} /\ blocksLock = None
      /\ UNCHANGED <<chainVars, blocks, recVars, limit, cursor, batch, logs, view,
                     filters, todo, evnt, synced, raced>>
  BY DEF syncImpl
<1>2. BlocksLinked' /\ EventOK'
  BY <1>1, EventFrame
<1>3. CASE Goto(f, "done") /\ UNCHANGED <<blocksLock, origin, target, last>>
  <2>1. TypeOK'
    BY <1>1, <1>3, Zenon DEF TypeOK, Goto, SyncPc
  <2>2. LockOK' /\ SyncOK'
    BY <1>1, <1>3, SyncFrame, Zenon DEF SyncPc, Holding
  <2> QED
    BY <1>2, <2>1, <2>2
<1>4. CASE /\ blocks # <<>> /\ blocksLock' = f
           /\ target' = [target EXCEPT ![f] = Number[Last(blocks)]]
           /\ origin' = [origin EXCEPT ![f] = 0]
           /\ last' = [last EXCEPT ![f] = l]
           /\ Goto(f, IF l = None THEN "plan" ELSE "pivot")
  <2>1. l \in Block \cup {None}
    BY BlockByNumberType, ConfigAssumption, Zenon DEF fastTrack, TypeOK
  <2> HIDE DEF l
  <2>2. Number[Last(blocks)] \in Nat
    BY <1>4, FirstAndLast, NumberParentType, Zenon DEF TypeOK
  <2>3. /\ target'[f] = Number[Last(blocks)] /\ last'[f] = l
        /\ \A g \in Filter \ {f} : target'[g] = target[g] /\ last'[g] = last[g]
    BY <1>4 DEF TypeOK
  <2>4. TypeOK'
    BY <1>1, <1>4, <2>1, <2>2, Zenon DEF TypeOK, Goto, SyncPc, Proc
  <2>5. CASE l = None
    BY <1>1, <1>2, <1>4, <2>3, <2>4, <2>5, SyncFrame, Zenon DEF SyncPc, Holding
  <2>6. CASE l # None
    BY <1>1, <1>2, <1>4, <2>3, <2>4, <2>6, SyncFrame DEF SyncPc, Holding
  <2> QED
    BY <2>5, <2>6
<1> QED
  BY <1>3, <1>4 DEF syncImpl

\* A Sync that goes on changes nothing of the node.
LEMMA ResumedType ==
    ASSUME TypeOK, NEW f \in Filter, NEW b, resumed(f, b)
    PROVE  head' \in Block /\ fails' \in Nat /\ crashes' \in Nat /\ torn' \subseteq Filter
BY Zenon DEF TypeOK, resumed

\* syncPivot preserves the invariant.
LEMMA syncPivotStep ==
    ASSUME IInv, NEW f \in Filter, syncPivot(f)
    PROVE  IInv'
<1> USE DEF IInv, recVars
<1> DEFINE l == last[f]
           common == findAncestor(l, BlockByNumber(Number[l]))
<1>1. /\ spc[f] = "pivot" /\ blocksLock = f /\ blocks # <<>>
      /\ target[f] = Number[Last(blocks)] /\ last[f] \in Block
      /\ rpc \notin {"stopped", "populate"}
      /\ UNCHANGED <<blocks, recVars, target, limit, cursor, batch, last, filters,
                     synced, raced>>
  BY Zenon DEF syncPivot, SyncOK, LockOK, Holding, TypeOK
<1>2. Number[l] \in Nat /\ common \subseteq Block
  BY <1>1, NumberParentType, Zenon DEF findAncestor
<1>3. ASSUME chainVars' = chainVars \/ ProviderError({}) \/ ProviderError({f})
      PROVE  head' \in Block /\ fails' \in Nat /\ crashes' \in Nat /\ torn' \subseteq Filter
  BY <1>3, ProviderErrorType, Zenon DEF TypeOK, chainVars
<1>4. ASSUME NEW b, resumed(f, b), Goto(f, "plan"), UNCHANGED <<blocksLock, todo, evnt>>,
             origin' \in [Filter -> Nat], logs' \in [Filter -> Seq(Block)],
             view' \in [Filter -> SUBSET Block]
      PROVE  IInv'
  <2>1. TypeOK'
    BY <1>1, <1>4, ResumedType, Zenon DEF TypeOK, Goto, SyncPc
  <2>2. BlocksLinked' /\ EventOK'
    BY <1>1, <1>4, EventFrame, Zenon
  <2>3. LockOK' /\ SyncOK'
    BY <1>1, <1>4, SyncFrame DEF SyncPc, Holding
  <2> QED
    BY <2>1, <2>2, <2>3
<1>5. ASSUME syncError(f), UNCHANGED origin, logs' \in [Filter -> Seq(Block)],
             view' \in [Filter -> SUBSET Block],
             chainVars' = chainVars \/ ProviderError({}) \/ ProviderError({f})
      PROVE  IInv'
  <2>1. /\ BlocksLinked' /\ EventOK' /\ LockOK' /\ SyncOK'
        /\ blocksLock' \in Proc \cup {None} /\ todo' \in [Proc -> Seq(Block)]
        /\ evnt' \in [Proc -> [Added : Seq(Block), Removed : Seq(Block)]]
        /\ spc' \in [Filter -> SyncPc]
    BY <1>1, <1>5, SyncErrorStep
  <2>2. TypeOK'
    BY <1>1, <1>3, <1>5, <2>1, Zenon DEF TypeOK
  <2> QED
    BY <2>1, <2>2
<1> HIDE DEF l
<1>6. CASE /\ origin' = [origin EXCEPT ![f] =
                            IF Number[l] = target[f] THEN Number[l] ELSE Number[l] + 1]
           /\ Goto(f, "plan") /\ resumed(f, l)
           /\ UNCHANGED <<blocksLock, logs, view, todo, evnt>>
  <2>1. origin' \in [Filter -> Nat]
    <3> DEFINE o == IF Number[l] = target[f] THEN Number[l] ELSE Number[l] + 1
    <3>1. origin' = [origin EXCEPT ![f] = o] /\ origin \in [Filter -> Nat]
      BY <1>6, Zenon DEF TypeOK
    <3>2. o \in Nat
      BY <1>2
    <3> HIDE DEF o
    <3> QED
      BY <3>1, <3>2
  <2> QED
    BY <1>4, <1>6, <2>1, Zenon DEF TypeOK
<1>7. ASSUME NEW c \in common, NEW n \in 0..Len(logs[f]),
             removeLogs(f, Number[c] + 1, None, n),
             emitEvent(f, [Added |-> <<>>,
                           Removed |-> SubSeq(logs[f], n + 1, Len(logs[f]))]),
             \/ /\ origin' = [origin EXCEPT ![f] = Number[c] + 1]
                /\ Goto(f, "plan") /\ resumed(f, c)
                /\ UNCHANGED <<blocksLock, todo, evnt>>
             \/ /\ ProviderError({f}) /\ syncError(f) /\ UNCHANGED origin
      PROVE  IInv'
  <2>1. c \in Block /\ Number[c] + 1 \in Nat
    BY <1>2, <1>7, NumberParentType
  <2>2. /\ logs' \in [Filter -> Seq(Block)]
        /\ SubSeq(logs[f], n + 1, Len(logs[f])) \in Seq(Block)
    BY <1>7, RemoveType
  <2>3. view' \in [Filter -> SUBSET Block]
    BY <1>7, <2>2, EmitType, LinkedEmpty, Zenon
  <2>4. CASE /\ origin' = [origin EXCEPT ![f] = Number[c] + 1] /\ Goto(f, "plan")
             /\ resumed(f, c) /\ UNCHANGED <<blocksLock, todo, evnt>>
    <3>1. origin' \in [Filter -> Nat]
      BY <2>1, <2>4 DEF TypeOK
    <3> QED
      BY <1>4, <2>2, <2>3, <2>4, <3>1
  <2>5. CASE ProviderError({f}) /\ syncError(f) /\ UNCHANGED origin
    BY <1>5, <2>2, <2>3, <2>5
  <2> QED
    BY <1>7, <2>4, <2>5
<1>8. CASE /\ chainVars' = chainVars \/ ProviderError({})
           /\ syncError(f) /\ UNCHANGED <<origin, logs, view>>
  BY <1>5, <1>8, Zenon DEF TypeOK
<1> QED
  BY <1>6, <1>7, <1>8, Zenon DEF syncPivot, l, chainVars

\* syncPlan preserves the invariant.
LEMMA syncPlanStep ==
    ASSUME IInv, NEW f \in Filter, syncPlan(f)
    PROVE  IInv'
<1> USE DEF IInv, chainVars, recVars, storeVars
<1>1. /\ spc[f] = "plan" /\ blocksLock = f /\ blocks # <<>>
      /\ target[f] = Number[Last(blocks)] /\ rpc \notin {"stopped", "populate"}
      /\ target[f] \in Nat /\ origin[f] \in Nat
      /\ UNCHANGED <<chainVars, blocks, recVars, origin, target, storeVars,
                     filters, synced, raced>>
  BY Zenon DEF syncPlan, SyncOK, LockOK, Holding, TypeOK
<1>2. CASE /\ target[f] - origin[f] + 1 > MaxBlockBacklog /\ blocksLock' = None
           /\ limit' = [limit EXCEPT ![f] = target[f] - MaxBlockBacklog]
           /\ cursor' = [cursor EXCEPT ![f] = origin[f]]
           /\ batch' = [batch EXCEPT ![f] = BatchSize]
           /\ Goto(f, "batch") /\ UNCHANGED <<todo, evnt>>
  <2>0. \A t, o, m \in Nat : t - o + 1 > m => t - m \in Nat
    OBVIOUS
  <2>1. target[f] - MaxBlockBacklog \in Nat /\ BatchSize \in Nat
    BY <1>1, <1>2, <2>0, ConfigAssumption, Zenon
  <2>2. TypeOK'
    BY <1>1, <1>2, <2>1, Zenon DEF TypeOK, Goto, SyncPc
  <2>3. BlocksLinked' /\ EventOK'
    BY <1>1, <1>2, EventFrame, Zenon
  <2>4. LockOK' /\ SyncOK'
    BY <1>1, <1>2, SyncFrame, SMTT(60) DEF SyncPc, Holding
  <2> QED
    BY <2>2, <2>3, <2>4
<1>3. CASE syncError(f) /\ UNCHANGED <<limit, cursor, batch>>
  <2>1. /\ BlocksLinked' /\ EventOK' /\ LockOK' /\ SyncOK'
        /\ blocksLock' \in Proc \cup {None} /\ todo' \in [Proc -> Seq(Block)]
        /\ evnt' \in [Proc -> [Added : Seq(Block), Removed : Seq(Block)]]
        /\ spc' \in [Filter -> SyncPc]
    BY <1>1, <1>3, SyncErrorStep
  <2>2. TypeOK'
    BY <1>1, <1>3, <2>1, Zenon DEF TypeOK
  <2> QED
    BY <2>1, <2>2
<1>4. CASE /\ headSlice(f) >= 1 /\ origin[f] <= target[f]
           /\ todo' = [todo EXCEPT ![f] = SubSeq(blocks, headSlice(f), Len(blocks))]
           /\ Goto(f, "head") /\ UNCHANGED <<blocksLock, evnt, limit, cursor, batch>>
  <2>1. blocks \in Seq(Block) /\ Len(blocks) \in Nat
    BY DEF TypeOK
  <2>2. headSlice(f) \in 1..Len(blocks)
    BY <1>1, <1>4, <2>1 DEF headSlice
  <2>3. SubSeq(blocks, headSlice(f), Len(blocks)) \in Seq(Block)
    BY <2>1, <2>2
  <2>4. todo' \in [Proc -> Seq(Block)] /\ todo'[Rec] = todo[Rec]
    BY <1>4, <2>3, ConfigAssumption, Zenon DEF TypeOK, Proc
  <2>5. TypeOK'
    BY <1>1, <1>4, <2>4, Zenon DEF TypeOK, Goto, SyncPc
  <2>6. BlocksLinked' /\ EventOK'
    BY <1>1, <2>4, EventFrame, Zenon
  <2>7. LockOK' /\ SyncOK'
    BY <1>1, <1>4, SyncFrame DEF SyncPc, Holding
  <2> QED
    BY <2>5, <2>6, <2>7
<1>5. CASE Goto(f, "panic") /\ UNCHANGED <<blocksLock, todo, evnt, limit, cursor, batch>>
  <2>1. TypeOK'
    BY <1>1, <1>5, Zenon DEF TypeOK, Goto, SyncPc
  <2>2. BlocksLinked' /\ EventOK'
    BY <1>1, <1>5, EventFrame, Zenon
  <2>3. LockOK' /\ SyncOK'
    BY <1>1, <1>5, SyncFrame DEF SyncPc, Holding
  <2> QED
    BY <2>1, <2>2, <2>3
<1>6. \/ /\ target[f] - origin[f] + 1 > MaxBlockBacklog /\ blocksLock' = None
         /\ limit' = [limit EXCEPT ![f] = target[f] - MaxBlockBacklog]
         /\ cursor' = [cursor EXCEPT ![f] = origin[f]]
         /\ batch' = [batch EXCEPT ![f] = BatchSize]
         /\ Goto(f, "batch") /\ UNCHANGED <<todo, evnt>>
      \/ /\ IF origin[f] > target[f] THEN syncError(f)
            ELSE IF headSlice(f) >= 1
            THEN /\ todo' = [todo EXCEPT ![f] = SubSeq(blocks, headSlice(f), Len(blocks))]
                 /\ Goto(f, "head") /\ UNCHANGED <<blocksLock, evnt>>
            ELSE Goto(f, "panic") /\ UNCHANGED <<blocksLock, todo, evnt>>
         /\ UNCHANGED <<limit, cursor, batch>>
  BY Zenon DEF syncPlan
<1> QED
  <2>2. CASE origin[f] > target[f]
    BY <1>2, <1>3, <1>6, <2>2, Zenon
  <2>3. CASE headSlice(f) >= 1 /\ ~(origin[f] > target[f])
    BY <1>1, <1>2, <1>4, <1>6, <2>3
  <2>4. CASE ~(headSlice(f) >= 1) /\ ~(origin[f] > target[f])
    BY <1>2, <1>5, <1>6, <2>4, Zenon
  <2> QED
    BY <2>2, <2>3, <2>4, Zenon

\* syncBatch preserves the invariant.
LEMMA syncBatchStep ==
    ASSUME IInv, NEW f \in Filter, syncBatch(f)
    PROVE  IInv'
<1> USE DEF IInv, recVars
<1> DEFINE dst == MinOf(limit[f], cursor[f] + batch[f])
           answer == LogsInRange(cursor[f], dst)
<1>1. /\ spc[f] = "batch" /\ blocksLock # f /\ blocks # <<>>
      /\ rpc \notin {"stopped", "populate"}
      /\ UNCHANGED <<blocks, recVars, origin, target, limit, cursor, last,
                     filters, synced, raced>>
  BY Zenon DEF syncBatch, SyncOK, LockOK, Holding
<1>2. cursor[f] \in Nat /\ batch[f] \in Nat /\ dst \in Nat
  BY SMTT(60) DEF TypeOK, MinOf
<1>3. answer \subseteq Seq(Block)
  BY <1>2, LogsInRangeType, SMTT(60)
<1> HIDE DEF dst, answer
<1>4. CASE /\ batch' = [batch EXCEPT ![f] = @ \div 2]
           /\ UNCHANGED <<chainVars, blocksLock, spc, logs, view, todo, evnt>>
  <2>1. batch[f] \div 2 \in Nat
    BY <1>2
  <2>2. TypeOK'
    BY <1>1, <1>4, <2>1, Zenon DEF TypeOK, chainVars
  <2>3. BlocksLinked' /\ EventOK'
    BY <1>1, <1>4, EventFrame
  <2>4. LockOK' /\ SyncOK'
    BY <1>1, <1>4 DEF LockOK, SyncOK
  <2> QED
    BY <2>2, <2>3, <2>4
<1>5. ASSUME NEW l \in answer, logs' = [logs EXCEPT ![f] = @ \o l],
             emitEvent(f, [Added |-> l, Removed |-> <<>>]), Goto(f, "batched"),
             UNCHANGED <<chainVars, blocksLock, batch, todo, evnt>>
      PROVE  IInv'
  <2>1. l \in Seq(Block) /\ logs[f] \in Seq(Block)
    BY <1>3, <1>5 DEF TypeOK
  <2>2. logs[f] \o l \in Seq(Block)
    BY <2>1, ConcatProperties
  <2>3. view' \in [Filter -> SUBSET Block]
    BY <1>5, <2>1, EmitType, LinkedEmpty, Zenon
  <2>4. TypeOK'
    BY <1>1, <1>5, <2>2, <2>3, ZenonT(30) DEF TypeOK, Goto, SyncPc, chainVars
  <2>5. BlocksLinked' /\ EventOK'
    BY <1>1, <1>5, EventFrame
  <2>6. LockOK' /\ SyncOK'
    BY <1>1, <1>5, SyncFrame DEF SyncPc, Holding
  <2> QED
    BY <2>4, <2>5, <2>6
<1>6. CASE ProviderError(midWrite(f)) /\ syncError(f) /\ UNCHANGED <<batch, logs, view>>
  <2>1. /\ BlocksLinked' /\ EventOK' /\ LockOK' /\ SyncOK'
        /\ blocksLock' \in Proc \cup {None} /\ todo' \in [Proc -> Seq(Block)]
        /\ evnt' \in [Proc -> [Added : Seq(Block), Removed : Seq(Block)]]
        /\ spc' \in [Filter -> SyncPc]
    BY <1>1, <1>6, SyncErrorStep, Zenon
  <2>2. TypeOK'
    BY <1>1, <1>6, <2>1, ProviderErrorType, MidWriteType, ZenonT(30) DEF TypeOK
  <2> QED
    BY <2>1, <2>2
<1> QED
  BY <1>4, <1>5, <1>6, Zenon DEF syncBatch, answer, dst

\* syncBatchLast preserves the invariant.
LEMMA syncBatchLastStep ==
    ASSUME IInv, NEW f \in Filter, syncBatchLast(f)
    PROVE  IInv'
<1> USE DEF IInv, recVars
<1> DEFINE dst == MinOf(limit[f], cursor[f] + batch[f])
           next == cursor[f] + batch[f] + 1
<1>1. /\ spc[f] = "batched" /\ blocksLock # f /\ blocks # <<>>
      /\ rpc \notin {"stopped", "populate"}
      /\ UNCHANGED <<blocks, recVars, target, limit, logs, view, filters, synced, raced>>
  BY DEF syncBatchLast, SyncOK, LockOK, Holding
<1>0. limit[f] \in Nat /\ cursor[f] \in Nat /\ batch[f] \in Nat
  BY SMTT(30) DEF TypeOK
<1>2. dst \in Nat /\ next \in Nat /\ limit[f] + 1 \in Nat /\ batch[f] \in Nat
  <2> DEFINE a == limit[f]
             b == cursor[f]
             c == batch[f]
  <2> HIDE DEF a, b, c
  <2>1. a \in Nat /\ b \in Nat /\ c \in Nat
    BY <1>0, Zenon DEF a, b, c
  <2>2. MinOf(a, b + c) \in Nat /\ b + c + 1 \in Nat /\ a + 1 \in Nat
    BY <2>1 DEF MinOf
  <2> QED
    BY <2>1, <2>2, Zenon DEF a, b, c
<1>3. BlockByNumber(dst) \in Block \cup {None}
  BY <1>2, BlockByNumberType
<1> HIDE DEF dst, next
<1>4. CASE /\ last' = [last EXCEPT ![f] = BlockByNumber(dst)]
           /\ cursor' = [cursor EXCEPT ![f] = next]
           /\ batch' = [batch EXCEPT ![f] =
                 IF @ < BatchSize THEN MinOf(BatchSize, @ + additiveFactor) ELSE @]
           /\ origin' = [origin EXCEPT ![f] = IF next <= limit[f] THEN @ ELSE limit[f] + 1]
           /\ Goto(f, IF next <= limit[f] THEN "batch" ELSE "relock")
           /\ UNCHANGED <<chainVars, blocksLock, todo, evnt>>
  <2>1. additiveFactor \in Nat
    BY ConfigAssumption DEF additiveFactor
  <2>2. batch' \in [Filter -> Nat]
    <3> DEFINE n == IF batch[f] < BatchSize
                    THEN MinOf(BatchSize, batch[f] + additiveFactor) ELSE batch[f]
    <3>1. n \in Nat
      BY <1>2, <2>1, ConfigAssumption DEF MinOf
    <3>2. batch' = [batch EXCEPT ![f] = n] /\ batch \in [Filter -> Nat]
      BY <1>4, Zenon DEF TypeOK
    <3> HIDE DEF n
    <3> QED
      BY <3>1, <3>2
  <2>3. origin' \in [Filter -> Nat] /\ cursor' \in [Filter -> Nat]
    <3> DEFINE o == IF next <= limit[f] THEN origin[f] ELSE limit[f] + 1
    <3>1. /\ origin' = [origin EXCEPT ![f] = o] /\ cursor' = [cursor EXCEPT ![f] = next]
          /\ origin \in [Filter -> Nat] /\ cursor \in [Filter -> Nat]
      BY <1>4, Zenon DEF TypeOK
    <3>2. o \in Nat /\ next \in Nat
      BY <1>2, <3>1, Zenon
    <3> HIDE DEF o, next
    <3> QED
      BY <3>1, <3>2
  <2>4. /\ last' \in [Filter -> Block \cup {None}]
        /\ \A g \in Filter \ {f} : last'[g] = last[g]
    BY <1>3, <1>4 DEF TypeOK
  <2>5. PICK pc \in {"batch", "relock"} : Goto(f, pc)
    BY <1>4
  <2>6. TypeOK'
    BY <1>1, <1>4, <2>2, <2>3, <2>4, <2>5, ZenonT(30) DEF TypeOK, Goto, SyncPc, chainVars
  <2>7. BlocksLinked' /\ EventOK'
    BY <1>1, <1>4, EventFrame
  <2>8. LockOK' /\ SyncOK'
    BY <1>1, <1>4, <2>4, <2>5, SyncFrame DEF SyncPc, Holding
  <2> QED
    BY <2>6, <2>7, <2>8
<1>5. CASE /\ ProviderError(midWrite(f)) /\ syncError(f) /\ UNCHANGED <<origin, cursor, batch>>
           /\ UNCHANGED last \/ last' = [last EXCEPT ![f] = BlockByNumber(dst)]
  <2>0. /\ last' \in [Filter -> Block \cup {None}]
        /\ \A g \in Filter \ {f} : last'[g] = last[g]
    BY <1>3, <1>5, Zenon DEF TypeOK
  <2>1. /\ BlocksLinked' /\ EventOK' /\ LockOK' /\ SyncOK'
        /\ blocksLock' \in Proc \cup {None} /\ todo' \in [Proc -> Seq(Block)]
        /\ evnt' \in [Proc -> [Added : Seq(Block), Removed : Seq(Block)]]
        /\ spc' \in [Filter -> SyncPc]
    BY <1>1, <1>5, <2>0, SyncErrorStep, Zenon
  <2>2. TypeOK'
    BY <1>1, <1>5, <2>0, <2>1, ProviderErrorType, MidWriteType, ZenonT(30) DEF TypeOK
  <2> QED
    BY <2>1, <2>2
<1> QED
  BY <1>4, <1>5 DEF syncBatchLast, dst, next

\* syncRelock preserves the invariant.
LEMMA syncRelockStep ==
    ASSUME IInv, NEW f \in Filter, syncRelock(f)
    PROVE  IInv'
<1> USE DEF IInv, syncRelock, chainVars, recVars, storeVars
<1>1. blocks # <<>> /\ rpc \notin {"stopped", "populate"}
  BY Zenon DEF SyncOK
<1>2. Number[Last(blocks)] \in Nat
  BY <1>1, FirstAndLast, NumberParentType, ZenonT(30) DEF TypeOK
<1>3. /\ target'[f] = Number[Last(blocks)]
      /\ \A g \in Filter \ {f} : target'[g] = target[g]
  BY DEF TypeOK
<1>4. TypeOK'
  BY <1>2, Zenon DEF TypeOK, Goto, SyncPc, Proc
<1>5. BlocksLinked' /\ EventOK'
  BY EventFrame
<1>6. LockOK' /\ SyncOK'
  BY <1>1, <1>3, SyncFrame, Zenon DEF SyncPc, Holding
<1> QED
  BY <1>4, <1>5, <1>6

\* syncHead preserves the invariant.
LEMMA syncHeadStep ==
    ASSUME IInv, NEW f \in Filter, syncHead(f)
    PROVE  IInv'
<1> USE DEF IInv, recVars
<1>1. /\ spc[f] = "head" /\ blocksLock = f /\ blocks # <<>>
      /\ target[f] = Number[Last(blocks)] /\ rpc \notin {"stopped", "populate"}
      /\ UNCHANGED <<blocks, recVars, origin, target, limit, cursor, batch,
                     filters, synced, raced>>
  BY Zenon DEF syncHead, SyncOK, LockOK, Holding
<1>2. Last(blocks) \in Block /\ f \in Proc /\ Rec \in Proc \ {f}
  BY <1>1, FirstAndLast, ConfigAssumption, Zenon DEF TypeOK, Proc
<1>3. CASE storeBlockLogs(f, f) /\ UNCHANGED <<chainVars, blocksLock, spc, last, view>>
  <2>1. /\ logs' \in [Filter -> Seq(Block)]
        /\ evnt' \in [Proc -> [Added : Seq(Block), Removed : Seq(Block)]]
        /\ todo' \in [Proc -> Seq(Block)] /\ todo'[Rec] = todo[Rec]
    BY <1>2, <1>3, StoreBlockLogsType, Zenon
  <2>2. TypeOK'
    BY <1>1, <1>3, <2>1, Zenon DEF TypeOK, chainVars
  <2>3. BlocksLinked' /\ EventOK'
    BY <1>1, <2>1, EventFrame, Zenon
  <2>4. LockOK' /\ SyncOK'
    BY <1>1, <1>3, Zenon DEF LockOK, SyncOK
  <2> QED
    BY <2>2, <2>3, <2>4
<1>4. CASE /\ storeLastBlock(f, f, Last(blocks)) /\ blocksLock' = None
           /\ Goto(f, "done") /\ UNCHANGED <<chainVars, todo, logs>>
  <2>1. /\ last' \in [Filter -> Block \cup {None}]
        /\ \A g \in Filter \ {f} : last'[g] = last[g]
        /\ evnt' \in [Proc -> [Added : Seq(Block), Removed : Seq(Block)]]
        /\ view' \in [Filter -> SUBSET Block]
    BY <1>2, <1>4, StoreLastBlockType, Zenon
  <2>2. TypeOK'
    BY <1>1, <1>4, <2>1, ZenonT(30) DEF TypeOK, Goto, SyncPc, chainVars
  <2>3. BlocksLinked' /\ EventOK'
    BY <1>1, <1>4, EventFrame, ZenonT(30)
  <2>4. LockOK' /\ SyncOK'
    BY <1>1, <1>4, <2>1, SyncFrame DEF SyncPc, Holding
  <2> QED
    BY <2>2, <2>3, <2>4
<1>5. CASE ProviderError(midWrite(f)) /\ syncError(f) /\ UNCHANGED <<logs, last, view>>
  <2>1. /\ BlocksLinked' /\ EventOK' /\ LockOK' /\ SyncOK'
        /\ blocksLock' \in Proc \cup {None} /\ todo' \in [Proc -> Seq(Block)]
        /\ evnt' \in [Proc -> [Added : Seq(Block), Removed : Seq(Block)]]
        /\ spc' \in [Filter -> SyncPc]
    BY <1>1, <1>5, SyncErrorStep, Zenon
  <2>2. TypeOK'
    BY <1>1, <1>5, <2>1, ProviderErrorType, MidWriteType, ZenonT(30) DEF TypeOK
  <2> QED
    BY <2>1, <2>2
<1> QED
  BY <1>3, <1>4, <1>5, Zenon DEF syncHead

\* syncDone preserves the invariant.
LEMMA syncDoneStep ==
    ASSUME IInv, NEW f \in Filter, syncDone(f)
    PROVE  IInv'
<1> USE DEF IInv, syncDone, chainVars, blockVars, recVars, storeVars
<1>1. rpc \notin {"stopped", "populate"}
  BY DEF SyncOK
<1>2. TypeOK'
  BY Zenon DEF TypeOK, Goto, SyncPc
<1>3. BlocksLinked' /\ EventOK'
  BY EventFrame, Zenon
<1>4. LockOK' /\ SyncOK'
  BY <1>1, SyncFrame DEF SyncPc, Holding
<1> QED
  BY <1>2, <1>3, <1>4, SMTT(30)

\* Crash preserves the invariant.
LEMMA CrashStep ==
    ASSUME IInv, Crash
    PROVE  IInv'
<1> USE DEF IInv, Crash
<1>1. NoEvent \in [Added : Seq(Block), Removed : Seq(Block)]
  BY LinkedEmpty, Zenon DEF NoEvent
<1>2. \A f \in Filter : Blocks(logs[f]) \subseteq Block
  BY BlocksType, Zenon DEF TypeOK
<1>3. <<>> \in Seq(Filter) /\ <<>> \in Seq(Block)
  OBVIOUS
<1>4. /\ view' \in [Filter -> SUBSET Block]
      /\ evnt' \in [Proc -> [Added : Seq(Block), Removed : Seq(Block)]]
      /\ todo' \in [Proc -> Seq(Block)] /\ spc' \in [Filter -> SyncPc]
  BY <1>1, <1>2, <1>3, Zenon DEF SyncPc
<1>8. crashes' \in Nat
  BY DEF TypeOK
<1>9. torn' \subseteq Filter
  <2>1. torn \subseteq Filter
    BY Zenon DEF TypeOK
  <2>2. torn' = torn \cup UNION {midWrite(p) : p \in Proc}
    BY Zenon
  <2> HIDE DEF IInv, Crash
  <2> QED
    BY <2>1, <2>2, MidWriteType, Zenon
<1>5. TypeOK'
  BY <1>3, <1>4, <1>8, <1>9, ZenonT(30) DEF TypeOK, RecPc
<1>6. BlocksLinked' /\ EventOK'
  BY LinkedEmpty, ConfigAssumption, SMTT(30) DEF BlocksLinked, EventOK
<1>7. LockOK' /\ SyncOK'
  BY ConfigAssumption DEF LockOK, SyncOK, Holding
<1> QED
  BY <1>5, <1>6, <1>7, Zenon

-----------------------------------------------------------------------------
(* The theorems. *)

\* The invariant holds when the program starts.
LEMMA InitInvariant == Init => IInv
<1> SUFFICES ASSUME Init PROVE IInv
  OBVIOUS
<1> USE DEF Init, IInv
<1>1. NoEvent \in [Added : Seq(Block), Removed : Seq(Block)]
  BY LinkedEmpty DEF NoEvent
<1>2. <<>> \in Seq(Filter) /\ <<>> \in Seq(Block)
  OBVIOUS
<1>3. TypeOK
  BY <1>1, <1>2, TreeAssumption, ZenonT(30) DEF TypeOK, RecPc, SyncPc
<1>4. BlocksLinked /\ EventOK
  BY LinkedEmpty, ConfigAssumption DEF BlocksLinked, EventOK
<1>5. LockOK /\ SyncOK
  BY ConfigAssumption DEF LockOK, SyncOK, Holding
<1> QED
  BY <1>3, <1>4, <1>5

\* Every step of the node, the block tracker, a Sync or a crash preserves it.
LEMMA NextInvariant == IInv /\ [Next]_vars => IInv'
<1> SUFFICES ASSUME IInv, [Next]_vars PROVE IInv'
  OBVIOUS
<1>1. CASE NewHead
  BY <1>1, NewHeadStep
<1>2. CASE Track
  BY <1>2, StartStep, populateBlocksStep, PollStep, handleBlockEventStep, backfillStep,
     addBlockLockedStep, emitBlockEventStep, handleReconcileStep, visitFilterStep,
     doFilterStep DEF Track
<1>3. ASSUME NEW f \in Filter, NewFilter(f) \/ Sync(f)
      PROVE  IInv'
  BY <1>3, NewFilterStep, syncImplStep, syncPivotStep, syncPlanStep, syncBatchStep,
     syncBatchLastStep, syncRelockStep, syncHeadStep, syncDoneStep DEF Sync
<1>4. CASE Crash
  BY <1>4, CrashStep
<1>5. CASE UNCHANGED vars
  <2> USE DEF vars, chainVars, blockVars, recVars, syncVars, storeVars
  <2>1. UNCHANGED <<head, fails, crashes, torn, blocks, blocksLock, filters, rpc, polled,
                    added, removed, queue, spc, origin, target, limit, cursor, batch,
                    todo, evnt, synced, logs, last, view, owed, raced>>
    BY <1>5
  <2>2. TypeOK'
    BY <2>1, Zenon DEF IInv, TypeOK
  <2>3. BlocksLinked' /\ EventOK'
    BY <2>1, EventFrame, SMTT(60) DEF IInv
  <2>4. LockOK' /\ SyncOK'
    BY <2>1 DEF IInv, LockOK, SyncOK
  <2> QED
    BY <2>2, <2>3, <2>4 DEF IInv
<1> QED
  BY <1>1, <1>2, <1>3, <1>4, <1>5 DEF Next

\* The invariant holds throughout.
THEOREM Invariance == Spec => []IInv
<1> QED
  BY InitInvariant, NextInvariant, PTL DEF Spec

\* Every variable of the tracker keeps its type: walking the parents of blocks in
\* populateBlocks and handleReconcileImpl never leaves the blocks of the node, and
\* the arithmetic of syncImpl never goes below zero.
THEOREM TypeCorrect == Spec => []TypeOK
<1>1. IInv => TypeOK
  BY DEF IInv
<1> QED
  BY <1>1, Invariance, PTL

\* t.blocks is one unbroken branch of at most MaxBlockBacklog blocks, whatever the
\* node, the filters, failing calls and crashes do.
THEOREM BranchIntegrity == Spec => []BlocksLinked
<1>1. IInv => BlocksLinked
  BY DEF IInv
<1> QED
  BY <1>1, Invariance, PTL

\* addBlockLocked never answers "bad number sequence".
THEOREM SequenceNeverBad == Spec => []NoBadSequence
<1>1. IInv => NoBadSequence
  BY InSequence, Zenon DEF IInv, NoBadSequence
<1> QED
  BY <1>1, Invariance, PTL

\* A Sync that holds the lock aims at the head of t.blocks, which nobody moves: the
\* comment of syncImpl on its last slice is right.
THEOREM TargetStable == Spec => []TargetIsHead
<1>1. IInv => TargetIsHead
  BY Zenon DEF IInv, TargetIsHead, LockOK, SyncOK, Holding
<1> QED
  BY <1>1, Invariance, PTL

-----------------------------------------------------------------------------
(* How deep the list is: the slice of syncImpl is in range. *)

\* What the steps that leave the list and the block event alone leave of DepthOK.
LEMMA DepthFrame ==
    ASSUME DepthOK, UNCHANGED <<head, blocks, added, rpc>>, todo'[Rec] = todo[Rec]
    PROVE  DepthOK'
BY Zenon DEF DepthOK, Consecutive, Below, Deep

\* A step of the block tracker that keeps the list and the event, and does not add.
LEMMA DepthMove ==
    ASSUME DepthOK, UNCHANGED <<head, blocks, added>>,
           rpc \notin {"stopped", "populate", "append"},
           rpc' \notin {"event", "backfill", "append"}
    PROVE  DepthOK'
BY Zenon DEF DepthOK, Consecutive, Below, Deep

\* The parent of the first block continues the heights to the left.
LEMMA ConsecutiveCons ==
    ASSUME NEW s \in Seq(Block), Consecutive(s), Below(s), s # <<>>, head \in Block,
           Parent[Head(s)] \in Block
    PROVE  /\ Consecutive(<<Parent[Head(s)]>> \o s) /\ Below(<<Parent[Head(s)]>> \o s)
           /\ Last(<<Parent[Head(s)]>> \o s) = Last(s)
           /\ Len(<<Parent[Head(s)]>> \o s) = Len(s) + 1
<1> DEFINE p == Parent[Head(s)]
           t == <<p>> \o s
<1>1. /\ Len(s) \in Nat \ {0} /\ Head(s) = s[1] /\ s[1] \in Block
      /\ \A i \in 1..Len(s) : s[i] \in Block
  BY ElementOfBlocks
<1>2. p # None
  BY ConfigAssumption
<1>3. Number[s[1]] = Number[p] + 1 /\ p \in Block
  BY <1>1, <1>2, ParentNumber
<1>4. /\ Number[p] \in Nat /\ Number[head] \in Nat
      /\ \A i \in 1..Len(s) : Number[s[i]] \in Nat
  BY <1>1, <1>3, NumberParentType
<1> HIDE DEF p
<1>5. /\ Len(t) = Len(s) + 1 /\ t[1] = p
      /\ \A i \in 2..Len(t) : t[i] = s[i - 1] /\ i - 1 \in 1..Len(s)
  BY <1>1, <1>3
<1> HIDE DEF t
<1>6. ASSUME NEW i \in 1..Len(t)
      PROVE  Number[t[i]] = Number[t[1]] + i - 1 /\ Number[t[i]] <= Number[head]
  <2>1. CASE i = 1
    BY <1>1, <1>3, <1>4, <1>5, <2>1 DEF Below
  <2>2. CASE i # 1
    <3>1. t[i] = s[i - 1] /\ i - 1 \in 1..Len(s)
      BY <1>1, <1>5, <2>2
    <3>2. Number[s[i - 1]] = Number[s[1]] + (i - 1) - 1 /\ Number[s[i - 1]] <= Number[head]
      BY <3>1 DEF Consecutive, Below
    <3>3. i \in Nat /\ Number[s[1]] \in Nat /\ Number[p] \in Nat
      BY <1>1, <1>4, <1>5
    <3>4. Number[s[i - 1]] = Number[p] + i - 1
      BY <1>3, <3>2, <3>3
    <3> QED
      BY <1>5, <3>1, <3>2, <3>4
  <2> QED
    BY <2>1, <2>2
<1>7. Consecutive(t) /\ Below(t)
  BY <1>6 DEF Consecutive, Below
<1>8. Last(t) = Last(s)
  BY <1>1, <1>5 DEF Last
<1> QED
  BY <1>5, <1>7, <1>8, Zenon DEF t, p

\* A block on its own.
LEMMA ConsecutiveOne ==
    ASSUME NEW b \in Block, head \in Block, Number[b] <= Number[head]
    PROVE  Consecutive(<<b>>) /\ Below(<<b>>) /\ Last(<<b>>) = b
<1>1. Number[b] \in Nat
  BY NumberParentType
<1>2. Len(<<b>>) = 1 /\ <<b>>[1] = b
  OBVIOUS
<1> QED
  BY <1>1, <1>2 DEF Consecutive, Below, Last

\* A full list, or one that starts at the root, is deep.
LEMMA LastOfConsecutive ==
    ASSUME NEW s \in Seq(Block), Consecutive(s), s # <<>>
    PROVE  /\ Number[Last(s)] = Number[s[1]] + Len(s) - 1
           /\ Number[s[1]] \in Nat /\ Len(s) \in Nat \ {0}
BY FirstAndLast, NumberParentType, ElementOfBlocks DEF Consecutive, Last

\* A prefix keeps the heights.
LEMMA ConsecutivePrefix ==
    ASSUME NEW s \in Seq(Block), Consecutive(s), Below(s), NEW i \in 1..Len(s)
    PROVE  /\ SubSeq(s, 1, i) \in Seq(Block) /\ Len(SubSeq(s, 1, i)) = i
           /\ SubSeq(s, 1, i) # <<>> /\ SubSeq(s, 1, i)[1] = s[1]
           /\ Consecutive(SubSeq(s, 1, i)) /\ Below(SubSeq(s, 1, i))
<1> DEFINE t == SubSeq(s, 1, i)
<1>1. Len(s) \in Nat /\ i \in Nat /\ i <= Len(s) /\ i >= 1
  OBVIOUS
<1>2. t \in Seq(Block) /\ Len(t) = i /\ \A j \in 1..i : t[j] = s[j] /\ j \in 1..Len(s)
  BY <1>1
<1> HIDE DEF t
<1>3. t # <<>> /\ t[1] = s[1]
  BY <1>1, <1>2
<1>4. Consecutive(t)
  BY <1>2, <1>3, Zenon DEF Consecutive
<1>5. Below(t)
  BY <1>2 DEF Below
<1> QED
  BY <1>2, <1>3, <1>4, <1>5 DEF t

\* So does what follows the first block.
LEMMA ConsecutiveTail ==
    ASSUME NEW s \in Seq(Block), Consecutive(s), Below(s), s # <<>>
    PROVE  /\ Tail(s) \in Seq(Block) /\ Len(Tail(s)) = Len(s) - 1
           /\ Consecutive(Tail(s)) /\ Below(Tail(s))
<1> DEFINE t == Tail(s)
<1>1. /\ t \in Seq(Block) /\ Len(t) = Len(s) - 1 /\ Len(s) \in Nat
      /\ \A i \in 1..Len(t) : t[i] = s[i + 1] /\ i + 1 \in 1..Len(s)
      /\ \A i \in 1..Len(t) : 1 \in 1..Len(t)
  OBVIOUS
<1> HIDE DEF t
<1>2. \A i \in 1..Len(s) : Number[s[i]] \in Nat
  BY ElementOfBlocks, NumberParentType
<1>3. ASSUME NEW i \in 1..Len(t)
      PROVE  Number[t[i]] = Number[t[1]] + i - 1 /\ Number[t[i]] <= Number[head]
  <2>1. t[i] = s[i + 1] /\ i + 1 \in 1..Len(s) /\ t[1] = s[1 + 1] /\ 1 + 1 \in 1..Len(s)
    BY <1>1
  <2>2. /\ Number[s[i + 1]] = Number[s[1]] + (i + 1) - 1
        /\ Number[s[1 + 1]] = Number[s[1]] + (1 + 1) - 1
        /\ Number[s[i + 1]] <= Number[head]
    BY <2>1 DEF Consecutive, Below
  <2>3. Number[s[1]] \in Nat /\ i \in Nat
    BY <1>1, <1>2
  <2> QED
    BY <2>1, <2>2, <2>3
<1> QED
  BY <1>1, <1>3 DEF Consecutive, Below, t

\* The next block continues the heights to the right.
LEMMA ConsecutiveAppend ==
    ASSUME NEW s \in Seq(Block), Consecutive(s), Below(s), NEW b \in Block,
           Number[b] <= Number[head], s # <<>> => Number[Last(s)] + 1 = Number[b]
    PROVE  /\ Append(s, b) \in Seq(Block) /\ Len(Append(s, b)) = Len(s) + 1
           /\ Append(s, b) # <<>> /\ Last(Append(s, b)) = b
           /\ Consecutive(Append(s, b)) /\ Below(Append(s, b))
<1> DEFINE t == Append(s, b)
<1>1. /\ t \in Seq(Block) /\ Len(t) = Len(s) + 1 /\ t # <<>> /\ Len(s) \in Nat
      /\ t[Len(s) + 1] = b /\ \A i \in 1..Len(s) : t[i] = s[i]
  BY AppendProperties
<1> HIDE DEF t
<1>2. Last(t) = b
  BY <1>1 DEF Last
<1>3. ASSUME NEW i \in 1..Len(t)
      PROVE  Number[t[i]] = Number[t[1]] + i - 1 /\ Number[t[i]] <= Number[head]
  <2>1. CASE i \in 1..Len(s)
    <3>1. t[i] = s[i] /\ t[1] = s[1]
      BY <1>1, <2>1
    <3> QED
      BY <2>1, <3>1 DEF Consecutive, Below
  <2>2. CASE i = Len(s) + 1 /\ s = <<>>
    <3>1. i = 1 /\ t[i] = b
      BY <1>1, <2>2
    <3>2. Number[b] \in Nat
      BY NumberParentType
    <3> QED
      BY <3>1, <3>2
  <2>3. CASE i = Len(s) + 1 /\ s # <<>>
    <3>1. t[i] = b /\ t[1] = s[1]
      BY <1>1, <2>3
    <3>2. /\ Number[Last(s)] = Number[s[1]] + Len(s) - 1
          /\ Number[s[1]] \in Nat
      BY <2>3, LastOfConsecutive
    <3>3. Number[b] = Number[s[1]] + Len(s)
      <4> DEFINE nb == Number[b]  nl == Number[Last(s)]  n1 == Number[s[1]]  len == Len(s)
      <4>1. nb = nl + 1 /\ nl = n1 + len - 1 /\ n1 \in Nat /\ len \in Nat
        BY <1>1, <2>3, <3>2, Zenon
      <4> HIDE DEF nb, nl, n1, len
      <4>2. nb = n1 + len
        BY <4>1
      <4> QED
        BY <4>2 DEF nb, n1, len
    <3> QED
      BY <1>1, <2>3, <3>1, <3>2, <3>3
  <2> QED
    BY <1>1, <2>1, <2>2, <2>3
<1> QED
  BY <1>1, <1>2, <1>3 DEF Consecutive, Below, t

-----------------------------------------------------------------------------
LEMMA NewHeadDepth ==
    ASSUME HeadsRise, IInv, DepthOK, NewHead
    PROVE  DepthOK'
<1>1. /\ head \in Block /\ head' \in Block /\ Number[head] <= Number[head']
      /\ UNCHANGED <<blocks, added, rpc, todo>>
  BY DEF IInv, TypeOK, NewHead, HeadsRise, blockVars, recVars
<1>2. Number[head] \in Nat /\ Number[head'] \in Nat
  BY <1>1, NumberParentType
<1>3. ASSUME NEW s \in Seq(Block), Below(s)
      PROVE  Below(s)'
  <2>1. \A i \in 1..Len(s) : Number[s[i]] \in Nat
    BY ElementOfBlocks, NumberParentType
  <2> QED
    BY <1>1, <1>2, <1>3, <2>1 DEF Below
<1>4. /\ blocks \in Seq(Block) /\ added \in Seq(Block) /\ todo[Rec] \in Seq(Block)
  BY Zenon DEF IInv, TypeOK, Proc
<1> QED
  BY <1>1, <1>2, <1>3, <1>4 DEF DepthOK, Consecutive, Deep

LEMMA StartDepth ==
    ASSUME IInv, DepthOK, Start
    PROVE  DepthOK'
<1>1. /\ head \in Block /\ UNCHANGED <<head, blocks, todo>>
      /\ added' = <<head>> /\ rpc' = "populate"
  BY Zenon DEF IInv, TypeOK, DepthOK, Start, chainVars
<1>2. Number[head] \in Nat
  BY <1>1, NumberParentType, Zenon
<1>3. Consecutive(<<head>>) /\ Below(<<head>>)
  BY <1>1, <1>2, ConsecutiveOne
<1>4. Consecutive(added') /\ Below(added)'
  BY <1>1, <1>3 DEF Consecutive, Below
<1> QED
  BY <1>1, <1>4, Zenon DEF DepthOK, Consecutive, Below, Deep

LEMMA populateDepth ==
    ASSUME IInv, DepthOK, populateBlocks
    PROVE  DepthOK'
<1>1. /\ added \in Seq(Block) /\ added # <<>> /\ Linked(added) /\ rpc = "populate"
      /\ head \in Block /\ MaxBlockBacklog \in Nat
      /\ Consecutive(added) /\ Below(added)
  BY ConfigAssumption DEF IInv, TypeOK, EventOK, DepthOK, populateBlocks
<1>2. UNCHANGED head
  BY Zenon DEF populateBlocks, ProviderError, chainVars
<1>3. CASE populated /\ blocks' = added /\ rpc' = "idle" /\ UNCHANGED added
  <2>1. Len(added) = MaxBlockBacklog \/ Len(added) = Number[Last(added)] + 1
    BY <1>1, <1>3, LastOfConsecutive DEF populated
  <2>2. Deep(0)'
    BY <1>1, <1>3, <2>1, LastOfConsecutive DEF Deep
  <2> QED
    BY <1>1, <1>2, <1>3, <2>2 DEF DepthOK, Consecutive, Below
<1>4. CASE ~populated /\ added' = <<Parent[Head(added)]>> \o added /\ UNCHANGED <<rpc, blocks>>
  <2>1. Head(added) = added[1] /\ added[1] \in Block
    BY <1>1, FirstAndLast
  <2>2. Parent[Head(added)] \in Block
    BY <1>4, <2>1, RootOnly DEF populated
  <2>3. Consecutive(added') /\ Below(added')
    BY <1>1, <1>4, <2>2, ConsecutiveCons, Zenon
  <2> QED
    BY <1>1, <1>2, <1>4, <2>3 DEF DepthOK, Consecutive, Below
<1>5. CASE rpc' = "stopped" /\ UNCHANGED <<added, blocks>>
  BY <1>1, <1>2, <1>5, Zenon DEF DepthOK, Consecutive, Below
<1> QED
  BY <1>3, <1>4, <1>5, Zenon DEF populateBlocks

LEMMA PollDepth ==
    ASSUME IInv, DepthOK, Poll
    PROVE  DepthOK'
<1>1. /\ head \in Block /\ UNCHANGED <<head, blocks, todo>> /\ blocks \in Seq(Block)
      /\ added' = <<head>> /\ rpc = "idle" /\ rpc' = "event"
  BY DEF IInv, TypeOK, Poll, chainVars, blockVars
<1>2. Number[head] \in Nat
  BY <1>1, NumberParentType
<1>3. Consecutive(<<head>>) /\ Below(<<head>>) /\ Last(<<head>>) = head
  BY <1>1, <1>2, ConsecutiveOne
<1>4. Consecutive(added)' /\ Below(added)' /\ Last(added') = head
  BY <1>1, <1>3 DEF Consecutive, Below
<1>5. blocks # <<>> /\ Len(blocks) \in 1..Len(blocks)
  BY <1>1 DEF DepthOK
<1>6. Number[Last(blocks)] <= Number[head]
  BY <1>1, <1>5, Zenon DEF DepthOK, Below, Last
<1> QED
  BY <1>1, <1>4, <1>6, Zenon DEF DepthOK, Consecutive, Below, Deep


\* The event takes the place of what follows the parent of its first block: what it
\* brings makes up for what it cuts off, for it ends no lower.
LEMMA TruncateDepth ==
    ASSUME IInv, DepthOK, NEW new \in Seq(Block), new # <<>>, Consecutive(new), Below(new),
           rpc \in {"event", "backfill"}, Last(new) = Last(added), UNCHANGED head,
           blockAtIndex(Parent[Head(new)]) # 0,
           truncateBlocks(new, blockAtIndex(Parent[Head(new)]))
    PROVE  DepthOK'
<1> DEFINE i == blockAtIndex(Parent[Head(new)])
           cut == SubSeq(blocks, 1, i)
<1>1. /\ i \in 0..Len(blocks) /\ i # 0 /\ blocks[i] = Parent[Head(new)]
  BY BlockAtIndex DEF IInv
<1>2. /\ blocks' = cut /\ added' = new /\ rpc' = "append"
      /\ todo' = [todo EXCEPT ![Rec] = new]
  BY Zenon DEF truncateBlocks
<1> HIDE DEF i
<1>3. /\ blocks \in Seq(Block) /\ todo \in [Proc -> Seq(Block)] /\ blocks # <<>>
      /\ Consecutive(blocks) /\ Below(blocks) /\ Len(blocks) <= MaxBlockBacklog
      /\ Number[Last(blocks)] <= Number[Last(new)] /\ Deep(0) /\ MaxBlockBacklog \in Nat
  BY ConfigAssumption, Zenon DEF IInv, TypeOK, BlocksLinked, DepthOK
<1>4. todo'[Rec] = new
  BY <1>2, <1>3 DEF Proc
<1>5. Len(blocks) \in Nat /\ i \in 1..Len(blocks)
  BY <1>1, <1>3
<1>6. /\ cut \in Seq(Block) /\ Len(cut) = i /\ cut # <<>> /\ cut[1] = blocks[1]
      /\ Consecutive(cut) /\ Below(cut)
  BY <1>3, <1>5, ConsecutivePrefix, Zenon
<1> HIDE DEF cut
<1>8. /\ Number[Last(blocks)] = Number[blocks[1]] + Len(blocks) - 1
      /\ Number[Last(cut)] = Number[blocks[1]] + i - 1
      /\ Number[Last(new)] = Number[new[1]] + Len(new) - 1
      /\ Number[blocks[1]] \in Nat /\ Number[new[1]] \in Nat
      /\ Len(new) \in Nat
  BY <1>3, <1>5, <1>6, LastOfConsecutive, Zenon
<1>9. Number[new[1]] = Number[blocks[1]] + i
  <2>1. blocks[i] \in Block /\ Head(new) = new[1] /\ new[1] \in Block
    BY <1>3, <1>5, ElementOfBlocks, FirstAndLast
  <2>2. Number[new[1]] = Number[blocks[i]] + 1
    BY <1>1, <2>1, ParentNumber, ConfigAssumption
  <2>3. Number[blocks[i]] = Number[blocks[1]] + i - 1
    BY <1>3, <1>5 DEF Consecutive
  <2> QED
    BY <1>5, <1>8, <2>2, <2>3
<1>10. i + Len(new) >= MaxBlockBacklog \/ i = Number[Last(cut)] + 1
  <2> DEFINE lo == Number[blocks[1]]
             n == Len(blocks)
             k == Len(new)
             top == Number[Last(blocks)]
             first == Number[new[1]]
             end == Number[Last(new)]
             under == Number[Last(cut)]
             full == MaxBlockBacklog
  <2>1. /\ lo \in Nat /\ n \in Nat /\ k \in Nat /\ i \in Nat /\ first \in Nat /\ full \in Nat
        /\ top = lo + n - 1 /\ under = lo + i - 1 /\ end = first + k - 1 /\ first = lo + i
        /\ top <= end /\ (n + 0 >= full \/ n = top + 1)
    BY <1>3, <1>5, <1>8, <1>9 DEF Deep
  <2> HIDE DEF lo, n, k, top, first, end, under, full
  <2>2. i + k >= full \/ i = under + 1
    BY <2>1
  <2> QED
    BY <2>2, Zenon DEF k, under, full
<1>11. Deep(Len(todo[Rec]))'
  BY <1>2, <1>4, <1>6, <1>10 DEF Deep
<1> QED
  BY <1>2, <1>4, <1>6, <1>11, Zenon DEF DepthOK, Consecutive, Below

LEMMA handleBlockEventDepth ==
    ASSUME IInv, DepthOK, handleBlockEvent
    PROVE  DepthOK'
<1>1. /\ added \in Seq(Block) /\ added # <<>> /\ UNCHANGED head /\ rpc = "event"
      /\ blocks # <<>> /\ Consecutive(added) /\ Below(added)
  BY Zenon DEF IInv, TypeOK, EventOK, DepthOK, handleBlockEvent, chainVars
<1>2. CASE rpc' = "idle" /\ UNCHANGED <<blocks, added>>
  BY <1>1, <1>2, DepthMove
<1>3. CASE /\ blocks = <<>> \/ blockAtIndex(Parent[Head(added)]) # 0
           /\ truncateBlocks(added, blockAtIndex(Parent[Head(added)]))
  BY <1>1, <1>3, TruncateDepth, Zenon
<1>4. CASE rpc' = "backfill" /\ UNCHANGED <<blocks, added>>
  BY <1>1, <1>4, Zenon DEF DepthOK, Consecutive, Below, Deep
<1> QED
  BY <1>2, <1>3, <1>4, Zenon DEF handleBlockEvent, blockVars

LEMMA backfillDepth ==
    ASSUME IInv, DepthOK, backfill
    PROVE  DepthOK'
<1> DEFINE p == Parent[Head(added)]
           new == <<p>> \o added
<1>1. /\ added \in Seq(Block) /\ added # <<>> /\ UNCHANGED head /\ rpc = "backfill"
      /\ Consecutive(added) /\ Below(added) /\ head \in Block /\ Linked(added)
  BY Zenon DEF IInv, TypeOK, EventOK, DepthOK, backfill, chainVars, ProviderError
<1>2. ASSUME p # None
      PROVE  /\ Consecutive(new) /\ Below(new) /\ Last(new) = Last(added)
             /\ new \in Seq(Block) /\ new # <<>> /\ Head(new) = p
  <2>1. p \in Block
    BY <1>1, <1>2, FirstAndLast, ParentNumber, Zenon
  <2> QED
    BY <1>1, <2>1, ConsecutiveCons, LinkedCons
<1>3. CASE /\ p # None /\ blockAtIndex(Parent[p]) # 0
           /\ truncateBlocks(new, blockAtIndex(Parent[p]))
  <2> HIDE DEF new
  <2> QED
    BY <1>1, <1>2, <1>3, TruncateDepth, Zenon
<1>4. CASE p # None /\ added' = new /\ UNCHANGED <<blocks, rpc>>
  <2> HIDE DEF new
  <2>1. Last(added') = Last(added)
    BY <1>2, <1>4
  <2> QED
    BY <1>1, <1>2, <1>4, <2>1, Zenon DEF DepthOK, Consecutive, Below, Deep
<1>5. CASE rpc' = "idle" /\ UNCHANGED <<blocks, added>>
  BY <1>1, <1>5, DepthMove, Zenon
<1> QED
  BY <1>3, <1>4, <1>5, Zenon DEF backfill, blockVars

LEMMA addBlockLockedDepth ==
    ASSUME IInv, DepthOK, addBlockLocked
    PROVE  DepthOK'
<1> DEFINE b == Head(todo[Rec])
           t == trimmed
           new == Append(t, b)
<1>1. /\ todo \in [Proc -> Seq(Block)] /\ todo[Rec] \in Seq(Block) /\ todo[Rec] # <<>>
      /\ blocks \in Seq(Block) /\ blocks # <<>> /\ Len(blocks) <= MaxBlockBacklog
      /\ MaxBlockBacklog \in Nat \ {0} /\ head \in Block
      /\ Consecutive(blocks) /\ Below(blocks) /\ Below(todo[Rec]) /\ Deep(Len(todo[Rec]))
      /\ rpc = "append"
  BY ConfigAssumption, Zenon DEF IInv, TypeOK, BlocksLinked, DepthOK, Proc, addBlockLocked
<1>2. inSequence(b)
  BY <1>1, InSequence DEF IInv, NoBadSequence
<1>3. /\ blocks' = new /\ todo' = [todo EXCEPT ![Rec] = Tail(@)]
      /\ UNCHANGED <<head, added, rpc>>
  BY <1>2 DEF addBlockLocked, chainVars
<1>4. /\ todo'[Rec] = Tail(todo[Rec]) /\ Len(Tail(todo[Rec])) = Len(todo[Rec]) - 1
      /\ Len(todo[Rec]) \in Nat \ {0}
      /\ \A i \in 1..Len(Tail(todo[Rec])) :
             Tail(todo[Rec])[i] = todo[Rec][i + 1] /\ i + 1 \in 1..Len(todo[Rec])
  BY <1>1, <1>3 DEF Proc
<1>5. /\ b \in Block /\ Number[b] \in Nat /\ Number[b] <= Number[head] /\ Number[head] \in Nat
  BY <1>1, <1>4, FirstAndLast, NumberParentType DEF Below
<1> HIDE DEF b
<1>6. /\ t \in Seq(Block) /\ Consecutive(t) /\ Below(t)
      /\ Len(t) = IF Len(blocks) = MaxBlockBacklog THEN Len(blocks) - 1 ELSE Len(blocks)
      /\ Len(blocks) # MaxBlockBacklog => t = blocks
  BY <1>1, ConsecutiveTail DEF trimmed
<1>7. t # <<>> => Number[Last(t)] + 1 = Number[b]
  BY <1>2 DEF inSequence
<1> HIDE DEF t
<1>8. /\ new \in Seq(Block) /\ Len(new) = Len(t) + 1 /\ new # <<>> /\ Last(new) = b
      /\ Consecutive(new) /\ Below(new)
  BY <1>5, <1>6, <1>7, ConsecutiveAppend, Zenon
<1> HIDE DEF new
<1>11. Below(Tail(todo[Rec]))
  BY <1>1, <1>4 DEF Below
<1>12. Len(new) + Len(Tail(todo[Rec])) >= MaxBlockBacklog \/ Len(new) = Number[b] + 1
  <2>1. CASE Len(blocks) = MaxBlockBacklog
    BY <1>1, <1>4, <1>6, <1>8, <2>1
  <2>2. CASE Len(blocks) # MaxBlockBacklog
    <3>1. Number[b] = Number[Last(blocks)] + 1 /\ Len(new) = Len(blocks) + 1
      BY <1>1, <1>6, <1>7, <1>8, <2>2
    <3>2. Number[Last(blocks)] \in Nat /\ Len(blocks) \in Nat
      BY <1>1, FirstAndLast, NumberParentType
    <3> DEFINE n == Len(blocks)
               k == Len(todo[Rec])
               top == Number[Last(blocks)]
               full == MaxBlockBacklog
    <3>3. /\ n \in Nat /\ k \in Nat /\ top \in Nat /\ full \in Nat
          /\ n + k >= full \/ n = top + 1
          /\ Len(new) = n + 1 /\ Len(Tail(todo[Rec])) = k - 1 /\ Number[b] = top + 1
      BY <1>1, <1>4, <3>1, <3>2 DEF Deep
    <3> HIDE DEF n, k, top, full
    <3>4. (n + 1) + (k - 1) >= full \/ n + 1 = (top + 1) + 1
      BY <3>3
    <3> QED
      BY <3>3, <3>4, Zenon DEF full
  <2> QED
    BY <2>1, <2>2, Zenon
<1>13. Deep(Len(todo[Rec]))'
  BY <1>3, <1>4, <1>8, <1>12, Zenon DEF Deep
<1> QED
  BY <1>1, <1>3, <1>4, <1>8, <1>11, <1>13, Zenon DEF DepthOK, Consecutive, Below

LEMMA emitBlockEventDepth ==
    ASSUME IInv, DepthOK, emitBlockEvent
    PROVE  DepthOK'
<1>1. /\ UNCHANGED <<head, blocks, added>> /\ rpc = "append" /\ rpc' = "emit"
      /\ Len(todo[Rec]) = 0 /\ Deep(Len(todo[Rec]))
  BY Zenon DEF emitBlockEvent, chainVars, DepthOK
<1> QED
  BY <1>1 DEF DepthOK, Consecutive, Below, Deep

\* The block tracker's other steps leave the list alone.
LEMMA DeliverDepth ==
    ASSUME IInv, DepthOK, handleReconcile \/ visitFilter \/ doFilter
    PROVE  DepthOK'
<1>1. /\ UNCHANGED <<head, blocks, added>> /\ rpc \in {"emit", "filters", "filter"}
      /\ rpc' \in {"idle", "filters", "filter"} \/ UNCHANGED rpc
  BY DEF handleReconcile, visitFilter, doFilter, chainVars, blockVars, ProviderError
<1> QED
  BY <1>1, DepthMove

\* A Sync does too.
LEMMA SyncDepth ==
    ASSUME IInv, DepthOK, NEW f \in Filter, NewFilter(f) \/ Sync(f)
    PROVE  DepthOK'
<1> USE DEF chainVars, blockVars, recVars, ProviderError
<1>1. todo \in [Proc -> Seq(Block)] /\ Rec # f /\ f \in Proc /\ Rec \in Proc
  BY ConfigAssumption, Zenon DEF IInv, TypeOK, Proc
<1>2. syncError(f) => todo'[Rec] = todo[Rec]
  BY <1>1 DEF syncError
<1>3. CASE NewFilter(f)
  BY <1>3, DepthFrame, Zenon DEF NewFilter
<1>4. CASE syncImpl(f)
  BY <1>4, DepthFrame, Zenon DEF syncImpl
<1>5. CASE syncPivot(f)
  <2>1. UNCHANGED <<head, blocks, added, rpc>> /\ todo'[Rec] = todo[Rec]
    BY <1>2, <1>5, Zenon DEF syncPivot, resumed
  <2> QED
    BY <2>1, DepthFrame, Zenon
<1>6. CASE syncPlan(f)
  <2>1. UNCHANGED <<head, blocks, added, rpc>> /\ todo'[Rec] = todo[Rec]
    BY <1>1, <1>2, <1>6, Zenon DEF syncPlan
  <2> QED
    BY <2>1, DepthFrame, Zenon
<1>7. CASE syncBatch(f)
  <2>1. UNCHANGED <<head, blocks, added, rpc>> /\ todo'[Rec] = todo[Rec]
    BY <1>2, <1>7, Zenon DEF syncBatch
  <2> QED
    BY <2>1, DepthFrame, Zenon
<1>8. CASE syncBatchLast(f)
  <2>1. UNCHANGED <<head, blocks, added, rpc>> /\ todo'[Rec] = todo[Rec]
    BY <1>2, <1>8 DEF syncBatchLast
  <2> QED
    BY <2>1, DepthFrame, Zenon
<1>9. CASE syncRelock(f)
  BY <1>9, DepthFrame, Zenon DEF syncRelock
<1>10. CASE syncHead(f)
  <2>1. UNCHANGED <<head, blocks, added, rpc>> /\ todo'[Rec] = todo[Rec]
    BY <1>1, <1>2, <1>10, Zenon DEF syncHead, storeBlockLogs, storeLastBlock
  <2> QED
    BY <2>1, DepthFrame, Zenon
<1>11. CASE syncDone(f)
  BY <1>11, DepthFrame, Zenon DEF syncDone
<1> QED
  BY <1>3, <1>4, <1>5, <1>6, <1>7, <1>8, <1>9, <1>10, <1>11, Zenon DEF Sync

LEMMA CrashDepth ==
    ASSUME DepthOK, Crash
    PROVE  DepthOK'
<1>1. blocks' = <<>> /\ added' = <<>> /\ rpc' = "stopped" /\ UNCHANGED head
  BY DEF Crash
<1>2. \A i : i \notin 1..Len(<<>>)
  OBVIOUS
<1> QED
  BY <1>1, <1>2 DEF DepthOK, Consecutive, Below

LEMMA InitDepth == HeadsRise /\ Init => DepthOK
<1>1. \A i : i \notin 1..Len(<<>>)
  OBVIOUS
<1> QED
  BY <1>1 DEF HeadsRise, Init, DepthOK, Consecutive, Below

\* The list stays as deep as the backlog and the chain allow.
LEMMA NextDepth ==
    ASSUME HeadsRise, IInv, DepthOK, [Next]_vars
    PROVE  DepthOK'
<1>1. CASE NewHead
  BY <1>1, NewHeadDepth
<1>2. CASE Track
  BY <1>2, StartDepth, populateDepth, PollDepth, handleBlockEventDepth, backfillDepth,
     addBlockLockedDepth, emitBlockEventDepth, DeliverDepth DEF Track
<1>3. CASE \E f \in Filter : NewFilter(f) \/ Sync(f)
  BY <1>3, SyncDepth
<1>4. CASE Crash
  BY <1>4, CrashDepth
<1>5. CASE UNCHANGED vars
  BY <1>5, DepthFrame, Zenon DEF vars, chainVars, blockVars, recVars
<1> QED
  BY <1>1, <1>2, <1>3, <1>4, <1>5 DEF Next

\* A Sync that takes its last slice finds every block from origin on in the list.
LEMMA SliceStep ==
    ASSUME IInv, DepthOK, NEW f \in Filter, syncPlan(f)
    PROVE  \E l \in SyncPc \ {"panic"} : Goto(f, l)
<1>1. /\ spc \in [Filter -> SyncPc] /\ spc[f] = "plan"
      /\ blocks \in Seq(Block) /\ origin[f] \in Nat /\ target[f] \in Nat
      /\ blocks # <<>> /\ target[f] = Number[Last(blocks)] /\ blocksLock = f
      /\ MaxBlockBacklog \in Nat /\ Rec # f
  BY ConfigAssumption, Zenon DEF IInv, TypeOK, LockOK, SyncOK, Holding, syncPlan
<1>2. rpc \notin {"stopped", "populate", "append"}
  BY <1>1, Zenon DEF IInv, LockOK, SyncOK
<1> DEFINE n == Len(blocks)
           o == origin[f]
           top == target[f]
           full == MaxBlockBacklog
<1>3. n \in Nat /\ o \in Nat /\ top \in Nat /\ full \in Nat /\ (n + 0 >= full \/ n = top + 1)
  <2>1. n + 0 >= full \/ n = Number[Last(blocks)] + 1
    BY <1>2, Zenon DEF DepthOK, Deep
  <2>2. n \in Nat
    BY <1>1
  <2> QED
    BY <1>1, <2>1, <2>2, Zenon
<1>4. ASSUME top - o + 1 <= full, ~(o > top)
      PROVE  headSlice(f) >= 1
  <2>1. headSlice(f) = n - (top - o)
    BY DEF headSlice
  <2> HIDE DEF n, o, top, full
  <2> QED
    BY <1>3, <1>4, <2>1
<1> QED
  BY <1>1, <1>3, <1>4, Zenon DEF syncPlan, syncError, Goto, SyncPc

\* No other step leads to the panic of a slice out of range.
LEMMA PanicStep ==
    ASSUME IInv, DepthOK, NoSlicePanic, [Next]_vars
    PROVE  NoSlicePanic'
<1>1. CASE NewHead \/ Track \/ UNCHANGED vars
  <2>1. UNCHANGED spc
    BY <1>1, Zenon DEF NewHead, Track, Start, populateBlocks, Poll, handleBlockEvent, backfill,
       addBlockLocked, emitBlockEvent, handleReconcile, visitFilter, doFilter, vars, syncVars
  <2> QED
    BY <2>1, Zenon DEF NoSlicePanic
<1>2. ASSUME NEW f \in Filter, NewFilter(f) \/ Sync(f)
      PROVE  NoSlicePanic'
  <2>1. \E l \in SyncPc \ {"panic"} : Goto(f, l) \/ UNCHANGED spc
    BY <1>2, SliceStep, Zenon DEF NewFilter, Sync, syncImpl, syncPivot, syncBatch, syncBatchLast,
       syncRelock, syncHead, syncDone, syncError, Goto, SyncPc
  <2> QED
    BY <2>1, Zenon DEF NoSlicePanic, Goto, IInv, TypeOK
<1>3. CASE Crash
  BY <1>3, Zenon DEF Crash, NoSlicePanic
<1> QED
  BY <1>1, <1>2, <1>3 DEF Next

\* With a node whose heads never lose height, and a chain that has left its root, the
\* slice of t.blocks by which syncImpl reaches the head is in range: every reorg and
\* bulk sync leaves a list that is full or starts at the root.
THEOREM SliceInRange ==
    ASSUME HeadsRise
    PROVE  Spec => []NoSlicePanic
<1>1. Init => DepthOK /\ NoSlicePanic
  BY InitDepth DEF Init, NoSlicePanic
<1>2. IInv /\ DepthOK /\ NoSlicePanic /\ [Next]_vars => (DepthOK /\ NoSlicePanic)'
  BY NextDepth, PanicStep
<1> QED
  BY <1>1, <1>2, Invariance, PTL DEF Spec
=============================================================================
