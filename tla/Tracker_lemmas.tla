--------------------------- MODULE Tracker_lemmas ---------------------------
(***************************************************************************)
(* What the proofs about Tracker rest on: the tree of blocks, sequences of *)
(* blocks that form a branch, what an action leaves of the invariant, the  *)
(* operators that several actions share; and that the steps of the node,   *)
(* of the block tracker and of NewFilter preserve the inductive invariant. *)
(***************************************************************************)
EXTENDS Tracker, SequenceTheorems, TLAPS

-----------------------------------------------------------------------------
(* Facts about the tree. *)

\* The elements of a sequence of blocks are blocks.
LEMMA ElementOfBlocks ==
    \A s \in Seq(Block) : \A i \in 1..Len(s) : s[i] \in Block
OBVIOUS

\* A sequence with more than one element has one before the last.
LEMMA BeforeLast ==
    \A n \in Nat \ {0} : n # 1 => n - 1 \in 1..n
OBVIOUS

\* Number and Parent are functions on the blocks.
LEMMA NumberParentType ==
    ASSUME NEW b \in Block
    PROVE  Number[b] \in Nat /\ Parent[b] \in Block \cup {None}
<1>1. Branch[b] \in Seq(Block) /\ Branch[b] # <<>>
  BY TreeAssumption
<1>2. Len(Branch[b]) \in Nat \ {0}
  BY <1>1, EmptySeq
<1>3. ASSUME Len(Branch[b]) # 1
      PROVE  Branch[b][Len(Branch[b]) - 1] \in Block
  <2>1. Len(Branch[b]) - 1 \in 1..Len(Branch[b])
    BY <1>2, <1>3, BeforeLast, Zenon
  <2> QED
    BY <1>1, <2>1, ElementOfBlocks, Zenon
<1> QED
  BY <1>2, <1>3 DEF Number, Parent

\* A block is one above its parent.
LEMMA ParentNumber ==
    ASSUME NEW b \in Block, Parent[b] # None
    PROVE  Parent[b] \in Block /\ Number[b] = Number[Parent[b]] + 1
<1> DEFINE i == Len(Branch[b]) - 1
           p == Branch[b][i]
<1>1. Branch[b] \in Seq(Block) /\ Branch[b] # <<>>
  BY TreeAssumption
<1>2. Len(Branch[b]) \in Nat \ {0} /\ Len(Branch[b]) # 1
  BY <1>1, EmptySeq DEF Parent
<1>3. i \in 1..Len(Branch[b]) /\ Parent[b] = p
  BY <1>2, BeforeLast, Zenon DEF Parent
<1>4. p \in Block
  BY <1>1, <1>3, ElementOfBlocks, Zenon
<1>5. Branch[p] = SubSeq(Branch[b], 1, i)
  BY <1>3, TreeAssumption, Zenon
<1>6. Len(SubSeq(Branch[b], 1, i)) = i
  BY <1>1, <1>3, SubSeqProperties
<1>7. Number[b] = i /\ Number[p] = i - 1
  BY <1>2, <1>4, <1>5, <1>6 DEF Number
<1> HIDE DEF p
<1> QED
  BY <1>2, <1>3, <1>4, <1>7

\* Only the root has no parent.
LEMMA RootOnly ==
    ASSUME NEW b \in Block, Number[b] # 0
    PROVE  Parent[b] \in Block
<1>1. Branch[b] \in Seq(Block) /\ Branch[b] # <<>>
  BY TreeAssumption
<1>2. Len(Branch[b]) \in Nat \ {0} /\ Len(Branch[b]) # 1
  BY <1>1, EmptySeq DEF Number
<1>3. Len(Branch[b]) - 1 \in 1..Len(Branch[b])
  BY <1>2, BeforeLast, Zenon
<1>4. Branch[b][Len(Branch[b]) - 1] \in Block
  BY <1>1, <1>3, ElementOfBlocks, Zenon
<1> QED
  BY <1>2, <1>4 DEF Parent

-----------------------------------------------------------------------------
(* Linked sequences of blocks. *)

\* A prefix of a branch is a branch.
LEMMA LinkedPrefix ==
    ASSUME NEW s \in Seq(Block), Linked(s), NEW i \in 0..Len(s)
    PROVE  SubSeq(s, 1, i) \in Seq(Block) /\ Linked(SubSeq(s, 1, i))
BY DEF Linked

\* So is what follows its first block.
LEMMA LinkedTail ==
    ASSUME NEW s \in Seq(Block), Linked(s), s # <<>>
    PROVE  /\ Tail(s) \in Seq(Block) /\ Linked(Tail(s))
           /\ Len(Tail(s)) = Len(s) - 1
           /\ Tail(s) # <<>> => /\ Last(Tail(s)) = Last(s)
                                /\ Head(s) = Parent[Head(Tail(s))]
BY DEF Linked, Last

\* The parent of its first block extends it to the left.
LEMMA LinkedCons ==
    ASSUME NEW s \in Seq(Block), Linked(s), s # <<>>, Parent[Head(s)] \in Block
    PROVE  /\ <<Parent[Head(s)]>> \o s \in Seq(Block)
           /\ Linked(<<Parent[Head(s)]>> \o s)
           /\ <<Parent[Head(s)]>> \o s # <<>>
           /\ Head(<<Parent[Head(s)]>> \o s) = Parent[Head(s)]
BY DEF Linked

\* A child of its last block extends it to the right.
LEMMA LinkedAppend ==
    ASSUME NEW s \in Seq(Block), Linked(s), NEW b \in Block,
           s # <<>> => Last(s) = Parent[b]
    PROVE  /\ Append(s, b) \in Seq(Block) /\ Linked(Append(s, b))
           /\ Append(s, b) # <<>> /\ Last(Append(s, b)) = b
           /\ Len(Append(s, b)) = Len(s) + 1
<1>1. /\ Append(s, b) \in Seq(Block) /\ Len(Append(s, b)) = Len(s) + 1
      /\ \A i \in 1..Len(s) : Append(s, b)[i] = s[i]
      /\ Append(s, b)[Len(s) + 1] = b
      /\ Append(s, b) # <<>>
  BY AppendProperties
<1>2. Last(Append(s, b)) = b
  BY <1>1 DEF Last
<1>3. ASSUME NEW i \in 1..Len(s)
      PROVE  Append(s, b)[i] = Parent[Append(s, b)[i + 1]]
  <2>1. CASE i = Len(s)
    <3>1. s # <<>> /\ s[i] = Parent[b]
      BY <2>1 DEF Last
    <3> QED
      BY <1>1, <2>1, <3>1
  <2>2. CASE i # Len(s)
    <3>1. i \in 1..(Len(s) - 1) /\ i + 1 \in 1..Len(s)
      BY <2>2
    <3> QED
      BY <1>1, <3>1 DEF Linked
  <2> QED
    BY <2>1, <2>2
<1>4. Linked(Append(s, b))
  BY <1>1, <1>3 DEF Linked
<1> QED
  BY <1>1, <1>2, <1>4

\* blockAtIndex answers a position that holds the block, or 0.
LEMMA BlockAtIndex ==
    ASSUME TypeOK, NEW b
    PROVE  /\ blockAtIndex(b) \in 0..Len(blocks)
           /\ blockAtIndex(b) # 0 => blocks[blockAtIndex(b)] = b
<1>1. CASE \E i \in 1..Len(blocks) : blocks[i] = b
  <2>1. /\ blockAtIndex(b) \in 1..Len(blocks)
        /\ blocks[blockAtIndex(b)] = b
    BY <1>1, Zenon DEF blockAtIndex
  <2> QED
    BY <2>1
<1>2. CASE ~(\E i \in 1..Len(blocks) : blocks[i] = b)
  <2>1. blockAtIndex(b) = 0
    BY <1>2, Zenon DEF blockAtIndex
  <2>2. Len(blocks) \in Nat
    BY DEF TypeOK
  <2> QED
    BY <2>1, <2>2
<1> QED
  BY <1>1, <1>2
\* A block on its own is a branch.
LEMMA LinkedOne ==
    ASSUME NEW b \in Block
    PROVE  /\ <<b>> \in Seq(Block) /\ Linked(<<b>>) /\ <<b>> # <<>>
           /\ Len(<<b>>) = 1 /\ Head(<<b>>) = b
BY DEF Linked

\* So is no block at all.
LEMMA LinkedEmpty == <<>> \in Seq(Block) /\ Linked(<<>>) /\ Len(<<>>) = 0
BY DEF Linked

\* The first and the last of a sequence of blocks are blocks.
LEMMA FirstAndLast ==
    ASSUME NEW s \in Seq(Block), s # <<>>
    PROVE  Head(s) \in Block /\ Last(s) \in Block /\ Len(s) \in Nat \ {0}
BY DEF Last

-----------------------------------------------------------------------------
(* What an action leaves of the invariant when it does not touch its variables. *)

\* The list of blocks and the block event are left alone.
LEMMA EventFrame ==
    ASSUME BlocksLinked, EventOK, UNCHANGED <<blocks, rpc, added, queue>>,
           todo'[Rec] = todo[Rec]
    PROVE  BlocksLinked' /\ EventOK'
BY DEF BlocksLinked, EventOK, Linked, Last

\* The Sync of f moves to l, takes, keeps or releases the lock, and sees to its
\* target and its last block.
LEMMA SyncFrame ==
    ASSUME TypeOK, LockOK, SyncOK, NEW f \in Filter, NEW l \in SyncPc,
           Goto(f, l), UNCHANGED <<blocks, rpc>>,
           \A g \in Filter \ {f} : target'[g] = target[g] /\ last'[g] = last[g],
           rpc \in {"stopped", "populate"} => l \in {"none", "ready"},
           \/ blocksLock' = blocksLock /\ (l \in Holding <=> spc[f] \in Holding)
           \/ blocksLock = None /\ blocksLock' = f /\ l \in Holding
           \/ blocksLock = f /\ blocksLock' = None /\ l \notin Holding,
           l \in {"pivot", "plan", "batch", "batched", "relock", "head"} => blocks # <<>>,
           l \in {"pivot", "plan", "head"} => target'[f] = Number[Last(blocks)],
           l = "pivot" => last'[f] # None
    PROVE  LockOK' /\ SyncOK'
<1>1. spc'[f] = l /\ \A g \in Filter \ {f} : spc'[g] = spc[g]
  BY DEF Goto, TypeOK
<1>2. LockOK'
  <2>1. (blocksLock' = Rec) <=> (blocksLock = Rec)
    BY ConfigAssumption
  <2>2. ASSUME NEW g \in Filter
        PROVE  blocksLock' = g <=> spc'[g] \in Holding
    <3>1. CASE g = f
      BY <1>1, <3>1, ConfigAssumption DEF LockOK
    <3>2. CASE g # f
      BY <1>1, <3>2, ConfigAssumption DEF LockOK
    <3> QED
      BY <3>1, <3>2
  <2> QED
    BY <2>1, <2>2 DEF LockOK
<1>3. SyncOK'
  <2>1. ASSUME NEW g \in Filter
        PROVE  /\ rpc' \in {"stopped", "populate"} => spc'[g] \in {"none", "ready"}
               /\ spc'[g] \in {"pivot", "plan", "batch", "batched", "relock", "head"} =>
                      blocks' # <<>>
               /\ spc'[g] \in {"pivot", "plan", "head"} =>
                      target'[g] = Number[Last(blocks')]
               /\ spc'[g] = "pivot" => last'[g] # None
    <3>1. CASE g = f
      BY <1>1, <3>1
    <3>2. CASE g # f
      BY <1>1, <3>2 DEF SyncOK
    <3> QED
      BY <3>1, <3>2
  <2> QED
    BY <2>1 DEF SyncOK
<1> QED
  BY <1>2, <1>3

\* The block tracker changes the list while no Sync holds the lock.
LEMMA RecFrame ==
    ASSUME LockOK, SyncOK, UNCHANGED <<spc, target, last>>,
           blocksLock \in {None, Rec}, blocks # <<>> => blocks' # <<>>,
           rpc' \notin {"stopped", "populate"}
    PROVE  SyncOK'
<1>1. \A f \in Filter : spc[f] \notin Holding
  BY ConfigAssumption DEF LockOK
<1> QED
  BY <1>1 DEF SyncOK, Holding

-----------------------------------------------------------------------------
(* The operators that several actions share. *)

\* The block event replaces what follows the parent of its first block.
LEMMA Truncate ==
    ASSUME IInv, NEW new \in Seq(Block), Linked(new), new # <<>>,
           blocks = <<>> \/ blockAtIndex(Parent[Head(new)]) # 0,
           truncateBlocks(new, blockAtIndex(Parent[Head(new)]))
    PROVE  /\ blocks' \in Seq(Block) /\ removed' \in Seq(Block)
           /\ added' \in Seq(Block) /\ todo' \in [Proc -> Seq(Block)]
           /\ blocks # <<>> => blocks' # <<>>
           /\ rpc' = "append" /\ BlocksLinked' /\ EventOK'
<1> DEFINE i == blockAtIndex(Parent[Head(new)])
<1>1. /\ i \in 0..Len(blocks)
      /\ i # 0 => blocks[i] = Parent[Head(new)]
      /\ blocks # <<>> => i # 0
  BY BlockAtIndex, Zenon DEF IInv
<1>2. /\ blocks' = SubSeq(blocks, 1, i) /\ removed' = SubSeq(blocks, i + 1, Len(blocks))
      /\ added' = new /\ todo' = [todo EXCEPT ![Rec] = new] /\ rpc' = "append"
  BY DEF truncateBlocks
<1> HIDE DEF i
<1>3. /\ blocks \in Seq(Block) /\ todo \in [Proc -> Seq(Block)]
      /\ Linked(blocks) /\ Len(blocks) <= MaxBlockBacklog
  BY DEF IInv, TypeOK, BlocksLinked
<1>4. /\ SubSeq(blocks, 1, i) \in Seq(Block) /\ Linked(SubSeq(blocks, 1, i))
      /\ Len(SubSeq(blocks, 1, i)) = i
      /\ i # 0 => SubSeq(blocks, 1, i)[i] = blocks[i]
  BY <1>1, <1>3, LinkedPrefix
<1>5. SubSeq(blocks, i + 1, Len(blocks)) \in Seq(Block)
  BY <1>1, <1>3
<1>6. blocks # <<>> => blocks' # <<>> /\ Last(blocks') = Parent[Head(new)]
  BY <1>1, <1>2, <1>4, Zenon DEF Last
<1>7. BlocksLinked'
  BY <1>1, <1>2, <1>3, <1>4, ConfigAssumption DEF BlocksLinked
<1>8. todo' \in [Proc -> Seq(Block)] /\ todo'[Rec] = new
  BY <1>2, <1>3 DEF Proc
<1>9. blocks = <<>> => blocks' = <<>>
  BY <1>1, <1>2, <1>3, <1>4, EmptySeq
<1>10. EventOK'
  BY <1>2, <1>6, <1>8, <1>9 DEF EventOK
<1> QED
  BY <1>2, <1>4, <1>5, <1>6, <1>7, <1>8, <1>10, Zenon

\* The blocks of a sequence of blocks.
LEMMA BlocksType ==
    ASSUME NEW s \in Seq(Block)
    PROVE  Blocks(s) \subseteq Block
BY ElementOfBlocks DEF Blocks

\* An event changes what a reader has by blocks only.
LEMMA EmitType ==
    ASSUME TypeOK, NEW f \in Filter, NEW a \in Seq(Block), NEW r \in Seq(Block),
           emitEvent(f, [Added |-> a, Removed |-> r])
    PROVE  view' \in [Filter -> SUBSET Block]
<1>1. Blocks(a) \subseteq Block
  BY BlocksType
<1>2. view \in [Filter -> SUBSET Block]
  BY DEF TypeOK
<1> QED
  BY <1>1, <1>2 DEF emitEvent

\* The logs that removeLogs keeps, and those it removes, are logs.
LEMMA RemoveType ==
    ASSUME TypeOK, NEW f \in Filter, NEW m, NEW h, NEW n \in 0..Len(logs[f]),
           removeLogs(f, m, h, n)
    PROVE  /\ logs' \in [Filter -> Seq(Block)]
           /\ SubSeq(logs[f], n + 1, Len(logs[f])) \in Seq(Block)
<1>1. logs \in [Filter -> Seq(Block)] /\ logs[f] \in Seq(Block)
  BY DEF TypeOK
<1> DEFINE s == logs[f]
<1>2. \A t \in Seq(Block) : \A k \in 0..Len(t) :
          SubSeq(t, 1, k) \in Seq(Block) /\ SubSeq(t, k + 1, Len(t)) \in Seq(Block)
  OBVIOUS
<1>3. SubSeq(s, 1, n) \in Seq(Block) /\ SubSeq(s, n + 1, Len(s)) \in Seq(Block)
  BY <1>1, <1>2
<1>4. logs' = [logs EXCEPT ![f] = SubSeq(s, 1, n)]
  BY DEF removeLogs
<1> QED
  BY <1>1, <1>3, <1>4

\* Storing the logs of one block touches one filter and one goroutine.
LEMMA StoreBlockLogsType ==
    ASSUME TypeOK, NEW p \in Proc, NEW f \in Filter, storeBlockLogs(p, f)
    PROVE  /\ logs' \in [Filter -> Seq(Block)]
           /\ evnt' \in [Proc -> [Added : Seq(Block), Removed : Seq(Block)]]
           /\ todo' \in [Proc -> Seq(Block)]
           /\ \A q \in Proc \ {p} : todo'[q] = todo[q]
<1> DEFINE l == LogsOfBlock(Head(todo[p]))
<1>1. /\ logs \in [Filter -> Seq(Block)] /\ logs[f] \in Seq(Block)
      /\ todo \in [Proc -> Seq(Block)] /\ todo[p] \in Seq(Block)
      /\ evnt \in [Proc -> [Added : Seq(Block), Removed : Seq(Block)]]
      /\ evnt[p] \in [Added : Seq(Block), Removed : Seq(Block)]
  BY Zenon DEF TypeOK
<1>2. /\ todo[p] # <<>>
      /\ logs' = [logs EXCEPT ![f] = @ \o l]
      /\ evnt' = [evnt EXCEPT ![p].Added = @ \o l]
      /\ todo' = [todo EXCEPT ![p] = Tail(@)]
  BY DEF storeBlockLogs
<1>3. Head(todo[p]) \in Block /\ Tail(todo[p]) \in Seq(Block)
  BY <1>1, <1>2, HeadTailProperties
<1>4. l \in Seq(Block)
  BY <1>3 DEF LogsOfBlock
<1> HIDE DEF l
<1>5. logs[f] \o l \in Seq(Block) /\ evnt[p].Added \o l \in Seq(Block)
  BY <1>1, <1>4, ConcatProperties
<1>6. evnt' \in [Proc -> [Added : Seq(Block), Removed : Seq(Block)]]
  BY <1>1, <1>2, <1>5, Zenon
<1> QED
  BY <1>1, <1>2, <1>3, <1>5, <1>6

\* The end of doFilter stores a block and sends the event.
LEMMA StoreLastBlockType ==
    ASSUME TypeOK, NEW p \in Proc, NEW f \in Filter, NEW b \in Block,
           storeLastBlock(p, f, b)
    PROVE  /\ last' \in [Filter -> Block \cup {None}] /\ last'[f] = b
           /\ \A g \in Filter \ {f} : last'[g] = last[g]
           /\ evnt' \in [Proc -> [Added : Seq(Block), Removed : Seq(Block)]]
           /\ view' \in [Filter -> SUBSET Block]
<1>1. /\ evnt \in [Proc -> [Added : Seq(Block), Removed : Seq(Block)]]
      /\ last \in [Filter -> Block \cup {None}]
  BY Zenon DEF TypeOK
<1>2. /\ last' = [last EXCEPT ![f] = b] /\ emitEvent(f, evnt[p])
      /\ evnt' = [evnt EXCEPT ![p] = NoEvent]
  BY DEF storeLastBlock
<1>3. /\ evnt[p].Added \in Seq(Block) /\ evnt[p].Removed \in Seq(Block)
      /\ evnt[p] = [Added |-> evnt[p].Added, Removed |-> evnt[p].Removed]
  BY <1>1
<1>4. view' \in [Filter -> SUBSET Block]
  BY <1>2, <1>3, EmitType
<1>5. NoEvent \in [Added : Seq(Block), Removed : Seq(Block)]
  BY LinkedEmpty DEF NoEvent
<1> QED
  BY <1>1, <1>2, <1>4, <1>5, Zenon

-----------------------------------------------------------------------------
(* The inductive invariant is preserved: the block tracker and the node. *)

\* NewHead preserves the invariant.
LEMMA NewHeadStep ==
    ASSUME IInv, NewHead
    PROVE  IInv'
<1> USE DEF IInv, NewHead, blockVars, recVars, syncVars, storeVars
<1>1. TypeOK'
  BY Zenon DEF TypeOK
<1>2. BlocksLinked' /\ EventOK'
  BY EventFrame
<1>3. LockOK' /\ SyncOK'
  BY DEF LockOK, SyncOK, Last
<1> QED
  BY <1>1, <1>2, <1>3

\* Start preserves the invariant.
LEMMA StartStep ==
    ASSUME IInv, Start
    PROVE  IInv'
<1> USE DEF IInv, Start, chainVars, recVars, syncVars, storeVars
<1>1. head \in Block
  BY DEF TypeOK
<1>2. TypeOK'
  BY <1>1, LinkedOne, LinkedEmpty, Zenon DEF TypeOK, RecPc
<1>3. BlocksLinked'
  BY LinkedEmpty, ConfigAssumption DEF BlocksLinked, Linked
<1>4. EventOK'
  <2>1. CASE Number[head] = 0
    BY <2>1 DEF EventOK, Linked
  <2>2. CASE Number[head] # 0
    <3>1. added' = <<head>> /\ rpc' = "populate"
      BY <2>2, Zenon
    <3>2. Linked(added') /\ added' # <<>> /\ Len(added') <= MaxBlockBacklog
      <4> HIDE DEF IInv, Start
      <4> QED
        BY <1>1, <3>1, LinkedOne, ConfigAssumption
    <3> QED
      BY <3>1, <3>2, Zenon DEF EventOK
  <2> QED
    BY <2>1, <2>2
<1>5. LockOK' /\ SyncOK'
  BY DEF LockOK, SyncOK
<1> QED
  BY <1>2, <1>3, <1>4, <1>5

\* A goroutine is between two writes to stores of filters.
LEMMA MidWriteType ==
    ASSUME NEW p
    PROVE  midWrite(p) \subseteq Filter
BY Zenon DEF midWrite

\* A failing call is counted, and the filters that it leaves behind are recorded.
LEMMA ProviderErrorType ==
    ASSUME TypeOK, NEW S \in SUBSET Filter, ProviderError(S)
    PROVE  /\ head' = head /\ head' \in Block /\ crashes' = crashes /\ crashes' \in Nat
           /\ fails' \in Nat /\ torn' \subseteq Filter
<1>1. torn' \subseteq Filter
  BY Zenon DEF TypeOK, ProviderError
<1> QED
  BY <1>1, SMTT(30) DEF TypeOK, ProviderError

\* populateBlocks preserves the invariant.
LEMMA populateBlocksStep ==
    ASSUME IInv, populateBlocks
    PROVE  IInv'
<1> USE DEF IInv, chainVars, recVars, syncVars, storeVars
<1>1. /\ added \in Seq(Block) /\ added # <<>> /\ Linked(added)
      /\ Len(added) <= MaxBlockBacklog /\ rpc = "populate"
      /\ Head(added) \in Block /\ Len(added) \in Nat
  BY FirstAndLast DEF populateBlocks, EventOK, TypeOK
<1>2. \A f \in Filter : spc[f] \in {"none", "ready"}
  BY <1>1 DEF SyncOK
<1>3. /\ blocksLock \notin Filter \cup {Rec}
      /\ UNCHANGED <<blocksLock, spc, target, last, head, crashes, queue>>
  BY <1>1, <1>2 DEF LockOK, Holding, populateBlocks, ProviderError
<1>4. CASE populated /\ blocks' = added /\ rpc' = "idle" /\ UNCHANGED <<added, chainVars>>
  <2>1. TypeOK'
    BY <1>1, <1>4, Zenon DEF populateBlocks, TypeOK, RecPc
  <2>2. BlocksLinked' /\ EventOK'
    BY <1>1, <1>4 DEF BlocksLinked, EventOK
  <2>3. LockOK' /\ SyncOK'
    BY <1>2, <1>3, <1>4 DEF LockOK, SyncOK, Holding
  <2> QED
    BY <2>1, <2>2, <2>3, Zenon
<1>5. CASE /\ ~populated /\ added' = <<Parent[Head(added)]>> \o added
           /\ UNCHANGED <<rpc, blocks, chainVars>>
  <2>1. Parent[Head(added)] \in Block /\ Len(added) < MaxBlockBacklog
    BY <1>1, <1>5, RootOnly, ConfigAssumption DEF populated
  <2>2. /\ added' \in Seq(Block) /\ Linked(added') /\ added' # <<>>
        /\ Len(added') = Len(added) + 1
    BY <1>1, <1>5, <2>1, LinkedCons
  <2>3. TypeOK'
    BY <1>5, <2>2, Zenon DEF populateBlocks, TypeOK
  <2>4. BlocksLinked' /\ EventOK'
    BY <1>1, <1>5, <2>1, <2>2, ConfigAssumption DEF BlocksLinked, EventOK
  <2>5. LockOK' /\ SyncOK'
    BY <1>2, <1>3, <1>5 DEF LockOK, SyncOK, Holding
  <2> QED
    BY <2>3, <2>4, <2>5
<1>6. CASE ProviderError({}) /\ rpc' = "stopped" /\ UNCHANGED <<added, blocks>>
  <2>1. TypeOK'
    BY <1>6, ProviderErrorType, ZenonT(30) DEF populateBlocks, TypeOK, RecPc
  <2>2. BlocksLinked' /\ EventOK'
    BY <1>1, <1>6 DEF BlocksLinked, EventOK
  <2>3. LockOK' /\ SyncOK'
    BY <1>2, <1>3, <1>6 DEF LockOK, SyncOK, Holding
  <2> QED
    BY <2>1, <2>2, <2>3
<1> QED
  BY <1>4, <1>5, <1>6 DEF populateBlocks

\* Poll preserves the invariant.
LEMMA PollStep ==
    ASSUME IInv, Poll
    PROVE  IInv'
<1> USE DEF IInv, Poll, chainVars, blockVars, recVars, syncVars, storeVars
<1>1. head \in Block
  BY Zenon DEF TypeOK
<1>2. TypeOK'
  BY <1>1, LinkedOne, SMTT(60) DEF TypeOK, RecPc
<1>3. BlocksLinked' /\ EventOK'
  BY <1>1, LinkedOne, Zenon DEF BlocksLinked, EventOK
<1>4. LockOK' /\ SyncOK'
  BY Zenon DEF LockOK, SyncOK
<1> QED
  BY <1>2, <1>3, <1>4

\* handleBlockEvent preserves the invariant.
LEMMA handleBlockEventStep ==
    ASSUME IInv, handleBlockEvent
    PROVE  IInv'
<1> USE DEF IInv, chainVars, blockVars, recVars, syncVars, storeVars
<1> DEFINE b == Head(added)
           p == blockAtIndex(Parent[b])
<1>1. /\ rpc = "event" /\ blocksLock = None /\ UNCHANGED <<spc, target, last>>
      /\ added \in Seq(Block) /\ added # <<>> /\ Linked(added) /\ b \in Block
  BY FirstAndLast DEF handleBlockEvent, EventOK, TypeOK
<1>2. CASE rpc' = "idle" /\ polled' = b /\ UNCHANGED <<blockVars, added, removed, todo>>
  <2>1. TypeOK'
    BY <1>1, <1>2, Zenon DEF handleBlockEvent, TypeOK, RecPc
  <2>2. BlocksLinked' /\ EventOK'
    BY <1>1, <1>2 DEF BlocksLinked, EventOK
  <2>3. LockOK'
    BY <1>1, <1>2 DEF LockOK
  <2>4. SyncOK'
    BY <1>1, <1>2, RecFrame
  <2> QED
    BY <2>1, <2>2, <2>3, <2>4, Zenon
<1>3. CASE /\ blocks = <<>> \/ p # 0
           /\ truncateBlocks(added, p) /\ blocksLock' = Rec /\ UNCHANGED polled
  <2>1. /\ blocks' \in Seq(Block) /\ removed' \in Seq(Block)
        /\ added' \in Seq(Block) /\ todo' \in [Proc -> Seq(Block)]
        /\ blocks # <<>> => blocks' # <<>>
        /\ rpc' = "append" /\ BlocksLinked' /\ EventOK'
    BY <1>1, <1>3, Truncate, Zenon
  <2>2. TypeOK'
    BY <1>3, <2>1, Zenon DEF handleBlockEvent, TypeOK, RecPc, Proc
  <2>3. LockOK'
    BY <1>1, <1>3, <2>1, ConfigAssumption DEF LockOK
  <2>4. SyncOK'
    BY <1>1, <2>1, RecFrame, SMTT(60)
  <2> QED
    BY <2>1, <2>2, <2>3, <2>4
<1>4. CASE /\ rpc' = "backfill" /\ blocksLock' = Rec
           /\ UNCHANGED <<blocks, polled, added, removed, todo>>
  <2>1. TypeOK'
    BY <1>4, Zenon DEF handleBlockEvent, TypeOK, RecPc, Proc
  <2>2. BlocksLinked' /\ EventOK'
    BY <1>1, <1>4 DEF BlocksLinked, EventOK
  <2>3. LockOK'
    BY <1>1, <1>4, ConfigAssumption DEF LockOK
  <2>4. SyncOK'
    BY <1>1, <1>4, RecFrame, Zenon
  <2> QED
    BY <2>1, <2>2, <2>3, <2>4, SMTT(30)
<1> QED
  BY <1>2, <1>3, <1>4 DEF handleBlockEvent

\* backfill preserves the invariant.
LEMMA backfillStep ==
    ASSUME IInv, backfill
    PROVE  IInv'
<1> USE DEF IInv, chainVars, blockVars, recVars, syncVars, storeVars
<1> DEFINE p == Parent[Head(added)]
           new == <<p>> \o added
<1>1. /\ rpc = "backfill" /\ blocksLock = Rec /\ UNCHANGED <<spc, target, last>>
      /\ added \in Seq(Block) /\ added # <<>> /\ Linked(added) /\ Head(added) \in Block
  BY FirstAndLast DEF backfill, EventOK, LockOK, TypeOK
<1>2. ASSUME p # None
      PROVE  /\ new \in Seq(Block) /\ Linked(new) /\ new # <<>> /\ Head(new) = p
  BY <1>1, <1>2, NumberParentType, LinkedCons
<1>3. CASE /\ p # None /\ blockAtIndex(Parent[p]) # 0
           /\ truncateBlocks(new, blockAtIndex(Parent[p]))
           /\ UNCHANGED <<chainVars, blocksLock>>
  <2> HIDE DEF new
  <2>0. /\ new \in Seq(Block) /\ Linked(new) /\ new # <<>>
        /\ blockAtIndex(Parent[Head(new)]) # 0
        /\ truncateBlocks(new, blockAtIndex(Parent[Head(new)]))
    BY <1>2, <1>3
  <2>1. /\ blocks' \in Seq(Block) /\ removed' \in Seq(Block)
        /\ added' \in Seq(Block) /\ todo' \in [Proc -> Seq(Block)]
        /\ blocks # <<>> => blocks' # <<>>
        /\ rpc' = "append" /\ BlocksLinked' /\ EventOK'
    BY <2>0, Truncate
  <2>2. TypeOK'
    BY <1>3, <2>1, Zenon DEF backfill, TypeOK, RecPc
  <2>3. LockOK'
    BY <1>1, <1>3, <2>1, Zenon DEF LockOK
  <2>4. SyncOK'
    BY <1>1, <2>1, RecFrame
  <2> QED
    BY <2>1, <2>2, <2>3, <2>4
<1>4. CASE p # None /\ added' = new /\ UNCHANGED <<chainVars, blockVars, rpc, removed, todo>>
  <2>1. TypeOK'
    BY <1>2, <1>4, Zenon DEF backfill, TypeOK
  <2>2. BlocksLinked' /\ EventOK'
    BY <1>1, <1>2, <1>4, Zenon DEF BlocksLinked, EventOK
  <2>3. LockOK'
    BY <1>1, <1>4 DEF LockOK
  <2>4. SyncOK'
    BY <1>1, <1>4, RecFrame
  <2> QED
    BY <2>1, <2>2, <2>3, <2>4
<1>5. CASE /\ ProviderError({}) \/ UNCHANGED chainVars
           /\ blocksLock' = None /\ rpc' = "idle"
           /\ UNCHANGED <<blocks, added, removed, todo>>
  <2>1. head' = head /\ crashes' = crashes /\ fails' \in Nat /\ torn' \subseteq Filter
    BY <1>5, ProviderErrorType, Zenon DEF TypeOK
  <2>2. UNCHANGED <<polled, queue, owed, syncVars, storeVars, filters, evnt, synced, raced>>
    BY Zenon DEF backfill
  <2>3. TypeOK'
    BY <1>5, <2>1, <2>2, Zenon DEF TypeOK, RecPc
  <2>4. BlocksLinked' /\ EventOK'
    BY <1>1, <1>5, Zenon DEF BlocksLinked, EventOK
  <2>5. LockOK'
    BY <1>1, <1>5, ConfigAssumption DEF LockOK
  <2>6. SyncOK'
    BY <1>1, <1>5, RecFrame
  <2> QED
    BY <2>3, <2>4, <2>5, <2>6
<1> QED
  BY <1>3, <1>4, <1>5, Zenon DEF backfill

\* What addBlockLocked keeps of the list leaves room, and still ends in its head.
LEMMA Trimmed ==
    ASSUME TypeOK, BlocksLinked
    PROVE  /\ trimmed \in Seq(Block) /\ Linked(trimmed)
           /\ Len(trimmed) + 1 <= MaxBlockBacklog /\ Len(trimmed) \in Nat
           /\ trimmed # <<>> => blocks # <<>> /\ Last(trimmed) = Last(blocks)
<1>1. /\ blocks \in Seq(Block) /\ Linked(blocks) /\ Len(blocks) <= MaxBlockBacklog
      /\ Len(blocks) \in Nat
  BY DEF TypeOK, BlocksLinked
<1>2. CASE Len(blocks) = MaxBlockBacklog
  <2>1. blocks # <<>>
    BY <1>2, ConfigAssumption
  <2> QED
    BY <1>1, <1>2, <2>1, LinkedTail, ConfigAssumption DEF trimmed
<1>3. CASE Len(blocks) # MaxBlockBacklog
  BY <1>1, <1>3, ConfigAssumption DEF trimmed
<1> QED
  BY <1>2, <1>3

\* The next block of an event is one above the last of the list.
LEMMA InSequence ==
    ASSUME TypeOK, BlocksLinked, EventOK, rpc = "append", todo[Rec] # <<>>
    PROVE  /\ Head(todo[Rec]) \in Block /\ inSequence(Head(todo[Rec]))
           /\ trimmed # <<>> => Last(trimmed) = Parent[Head(todo[Rec])]
<1> DEFINE b == Head(todo[Rec])
<1>1. todo[Rec] \in Seq(Block) /\ b \in Block
  BY FirstAndLast, Zenon DEF TypeOK, Proc
<1>2. ASSUME trimmed # <<>>
      PROVE  Last(trimmed) = Parent[b] /\ Last(trimmed) \in Block
  BY <1>2, Trimmed, FirstAndLast DEF EventOK
<1>3. trimmed # <<>> => Number[b] = Number[Parent[b]] + 1
  BY <1>1, <1>2, ParentNumber, ConfigAssumption
<1> QED
  BY <1>1, <1>2, <1>3 DEF inSequence

\* addBlockLocked preserves the invariant.
LEMMA addBlockLockedStep ==
    ASSUME IInv, addBlockLocked
    PROVE  IInv'
<1> USE DEF IInv, chainVars, recVars, syncVars, storeVars
<1> DEFINE b == Head(todo[Rec])
<1>1. /\ rpc = "append" /\ todo[Rec] # <<>> /\ blocksLock = Rec
      /\ todo \in [Proc -> Seq(Block)] /\ todo[Rec] \in Seq(Block) /\ Linked(todo[Rec])
  BY DEF addBlockLocked, EventOK, LockOK, TypeOK, Proc
<1>2. /\ b \in Block /\ inSequence(b)
      /\ trimmed # <<>> => Last(trimmed) = Parent[b]
  BY <1>1, InSequence
<1>3. /\ blocks' = Append(trimmed, b) /\ todo' = [todo EXCEPT ![Rec] = Tail(@)]
      /\ UNCHANGED <<blocksLock, rpc, added, spc, target, last>>
  BY <1>2 DEF addBlockLocked
<1>4. /\ blocks' \in Seq(Block) /\ Linked(blocks') /\ Last(blocks') = b
      /\ blocks' # <<>> /\ Len(blocks') <= MaxBlockBacklog
  BY <1>2, <1>3, Trimmed, LinkedAppend
<1>5. /\ Tail(todo[Rec]) \in Seq(Block) /\ Linked(Tail(todo[Rec]))
      /\ Tail(todo[Rec]) # <<>> => b = Parent[Head(Tail(todo[Rec]))]
  BY <1>1, LinkedTail, Zenon
<1>6. /\ todo' \in [Proc -> Seq(Block)] /\ todo'[Rec] = Tail(todo[Rec])
  BY <1>1, <1>3, <1>5 DEF Proc
<1>7. TypeOK'
  BY <1>3, <1>4, <1>6, Zenon DEF addBlockLocked, TypeOK
<1>8. BlocksLinked'
  BY <1>4 DEF BlocksLinked
<1>9. EventOK'
  BY <1>1, <1>3, <1>4, <1>5, <1>6 DEF EventOK
<1>10. LockOK'
  BY <1>3 DEF LockOK
<1>11. SyncOK'
  BY <1>1, <1>3, <1>4, RecFrame, Zenon
<1> QED
  BY <1>7, <1>8, <1>9, <1>10, <1>11, Zenon

\* emitBlockEvent preserves the invariant.
LEMMA emitBlockEventStep ==
    ASSUME IInv, emitBlockEvent
    PROVE  IInv'
<1> USE DEF IInv, emitBlockEvent, chainVars, syncVars, storeVars
<1>1. TypeOK'
  BY Zenon DEF TypeOK, RecPc
<1>2. BlocksLinked' /\ EventOK'
  BY Zenon DEF BlocksLinked, EventOK
<1>3. LockOK' /\ SyncOK'
  BY ConfigAssumption DEF LockOK, SyncOK
<1> QED
  BY <1>1, <1>2, <1>3, Zenon

\* handleReconcile preserves the invariant.
LEMMA handleReconcileStep ==
    ASSUME IInv, handleReconcile
    PROVE  IInv'
<1> USE DEF IInv, handleReconcile, chainVars, blockVars, syncVars, storeVars
<1>1. TypeOK'
  BY Zenon DEF TypeOK, RecPc
<1>2. BlocksLinked' /\ EventOK'
  BY Zenon DEF BlocksLinked, EventOK
<1>3. LockOK' /\ SyncOK'
  BY ConfigAssumption, Zenon DEF LockOK, SyncOK
<1> QED
  BY <1>1, <1>2, <1>3

\* visitFilter preserves the invariant.
LEMMA visitFilterStep ==
    ASSUME IInv, visitFilter
    PROVE  IInv'
<1> USE DEF IInv, chainVars, blockVars, syncVars
<1>1. /\ rpc = "filters" /\ added \in Seq(Block) /\ added # <<>> /\ Last(added) \in Block
      /\ UNCHANGED <<chainVars, blockVars, added, removed, owed, syncVars, last,
                     view, filters, synced>>
  BY FirstAndLast DEF visitFilter, EventOK, TypeOK
<1>2. LockOK' /\ rpc' \in {"idle", "filters", "filter"}
  BY <1>1, Zenon DEF visitFilter, LockOK
<1>3. SyncOK'
  BY <1>1, <1>2 DEF SyncOK
<1>4. BlocksLinked' /\ EventOK'
  BY <1>1 DEF visitFilter, BlocksLinked, EventOK
<1>5. TypeOK'
  <2>1. CASE /\ rpc' = "idle" /\ polled' = Last(added)
             /\ UNCHANGED <<queue, todo, evnt, logs, raced>>
    BY <1>1, <2>1, Zenon DEF TypeOK, RecPc
  <2>2. CASE /\ queue # <<>> /\ queue' = Tail(queue)
             /\ raced' = raced \cup ({Head(queue)} \cap owed)
             /\ UNCHANGED <<rpc, polled, todo, evnt, logs>>
    <3>1. queue' \in Seq(Filter) /\ raced' \subseteq Filter
      BY <2>2 DEF TypeOK
    <3> QED
      BY <1>1, <2>2, <3>1, Zenon DEF TypeOK
  <2>3. CASE /\ queue # <<>> /\ raced' = raced \cup ({Head(queue)} \ owed)
             /\ \/ UNCHANGED <<logs, evnt>>
                \/ \E n \in 0..Len(logs[Head(queue)]) :
                     /\ removeLogs(Head(queue), Number[removed[1]], removed[1], n)
                     /\ evnt' = [evnt EXCEPT ![Rec].Removed =
                           SubSeq(logs[Head(queue)], n + 1, Len(logs[Head(queue)]))]
             /\ todo' = [todo EXCEPT ![Rec] = added]
             /\ rpc' = "filter" /\ UNCHANGED <<queue, polled>>
    <3>1. Head(queue) \in Filter /\ raced' \subseteq Filter
      <4>1. queue # <<>> /\ queue \in Seq(Filter) /\ raced \subseteq Filter
        BY <2>3, Zenon DEF TypeOK
      <4>2. raced' = raced \cup ({Head(queue)} \ owed)
        BY <2>3, Zenon
      <4> QED
        BY <4>1, <4>2
    <3>2. todo' \in [Proc -> Seq(Block)]
      BY <1>1, <2>3, Zenon DEF TypeOK
    <3>3. /\ logs' \in [Filter -> Seq(Block)]
          /\ evnt' \in [Proc -> [Added : Seq(Block), Removed : Seq(Block)]]
      <4>1. CASE UNCHANGED <<logs, evnt>>
        BY <4>1, Zenon DEF TypeOK
      <4>2. ASSUME NEW n \in 0..Len(logs[Head(queue)]),
                   removeLogs(Head(queue), Number[removed[1]], removed[1], n),
                   evnt' = [evnt EXCEPT ![Rec].Removed =
                           SubSeq(logs[Head(queue)], n + 1, Len(logs[Head(queue)]))]
            PROVE  /\ logs' \in [Filter -> Seq(Block)]
                   /\ evnt' \in [Proc -> [Added : Seq(Block), Removed : Seq(Block)]]
        <5>1. /\ logs' \in [Filter -> Seq(Block)]
              /\ SubSeq(logs[Head(queue)], n + 1, Len(logs[Head(queue)])) \in Seq(Block)
          BY <3>1, <4>2, RemoveType
        <5>2. evnt' \in [Proc -> [Added : Seq(Block), Removed : Seq(Block)]]
          BY <4>2, <5>1, ZenonT(30) DEF TypeOK
        <5> QED
          BY <5>1, <5>2, Zenon
      <4> QED
        BY <2>3, <4>1, <4>2, Zenon
    <3> QED
      BY <1>1, <2>3, <3>1, <3>2, <3>3, Zenon DEF TypeOK, RecPc
  <2> QED
    BY <2>1, <2>2, <2>3, Zenon DEF visitFilter
<1> QED
  BY <1>2, <1>3, <1>4, <1>5

\* doFilter preserves the invariant.
LEMMA doFilterStep ==
    ASSUME IInv, doFilter
    PROVE  IInv'
<1> USE DEF IInv, chainVars, blockVars, syncVars
<1> DEFINE f == Head(queue)
<1>1. /\ rpc = "filter" /\ added \in Seq(Block) /\ added # <<>> /\ Last(added) \in Block
      /\ queue # <<>> /\ queue \in Seq(Filter)
      /\ UNCHANGED <<blockVars, polled, added, removed, owed, syncVars, filters,
                     synced, raced>>
  BY FirstAndLast DEF doFilter, EventOK, TypeOK
<1>2. f \in Filter /\ Tail(queue) \in Seq(Filter) /\ Rec \in Proc
  BY <1>1, SMTT(60) DEF Proc
<1> HIDE DEF f
<1>3. CASE storeBlockLogs(Rec, f) /\ UNCHANGED <<chainVars, rpc, queue, last, view>>
  <2>1. /\ logs' \in [Filter -> Seq(Block)]
        /\ evnt' \in [Proc -> [Added : Seq(Block), Removed : Seq(Block)]]
        /\ todo' \in [Proc -> Seq(Block)]
    BY <1>2, <1>3, StoreBlockLogsType, Zenon
  <2>2. TypeOK'
    BY <1>1, <1>3, <2>1, ZenonT(30) DEF TypeOK
  <2>3. BlocksLinked' /\ EventOK'
    BY <1>1, <1>3, ZenonT(60) DEF BlocksLinked, EventOK
  <2>4. LockOK' /\ SyncOK'
    BY <1>1, <1>3, Zenon DEF LockOK, SyncOK
  <2> QED
    BY <2>2, <2>3, <2>4, SMTT(30)
<1>4. CASE /\ storeLastBlock(Rec, f, Last(added)) /\ rpc' = "filters"
           /\ queue' = Tail(queue) /\ UNCHANGED <<chainVars, todo, logs>>
  <2>1. /\ last' \in [Filter -> Block \cup {None}] /\ last'[f] = Last(added)
        /\ \A g \in Filter \ {f} : last'[g] = last[g]
        /\ evnt' \in [Proc -> [Added : Seq(Block), Removed : Seq(Block)]]
        /\ view' \in [Filter -> SUBSET Block]
    BY <1>1, <1>2, <1>4, StoreLastBlockType, Zenon
  <2>2. TypeOK'
    BY <1>1, <1>2, <1>4, <2>1, Zenon DEF TypeOK, RecPc
  <2>3. BlocksLinked' /\ EventOK'
    BY <1>1, <1>4, Zenon DEF BlocksLinked, EventOK
  <2>4. LockOK'
    BY <1>1, <1>4, Zenon DEF LockOK
  <2>5. \A g \in Filter : last'[g] # None \/ last'[g] = last[g]
    BY <1>1, <1>2, <2>1, ConfigAssumption, Zenon
  <2>6. SyncOK'
    BY <1>1, <1>4, <2>5, Zenon DEF SyncOK
  <2> QED
    BY <2>2, <2>3, <2>4, <2>6
<1>5. CASE /\ ProviderError(midWrite(Rec) \cup (Blocks(queue) \cap owed))
           /\ rpc' = "idle" /\ evnt' = [evnt EXCEPT ![Rec] = NoEvent]
           /\ UNCHANGED <<queue, todo, logs, last, view>>
  <2>1. NoEvent \in [Added : Seq(Block), Removed : Seq(Block)]
    BY LinkedEmpty, Zenon DEF NoEvent
  <2>0. evnt' \in [Proc -> [Added : Seq(Block), Removed : Seq(Block)]]
    BY <1>5, <2>1, Zenon DEF TypeOK
  <2>2. TypeOK'
    <3>1. midWrite(Rec) \cup (Blocks(queue) \cap owed) \subseteq Filter
      BY MidWriteType, Zenon DEF TypeOK
    <3>2. head' = head /\ crashes' = crashes /\ fails' \in Nat /\ torn' \subseteq Filter
      BY <1>5, <3>1, ProviderErrorType, Zenon
    <3> QED
      BY <1>1, <1>5, <2>0, <3>2, Zenon DEF TypeOK, RecPc
  <2>3. BlocksLinked' /\ EventOK'
    BY <1>1, <1>5, Zenon DEF BlocksLinked, EventOK
  <2>4. LockOK' /\ SyncOK'
    BY <1>1, <1>5 DEF LockOK, SyncOK
  <2> QED
    BY <2>2, <2>3, <2>4
<1> QED
  BY <1>3, <1>4, <1>5, Zenon DEF doFilter, f

\* NewFilter preserves the invariant.
LEMMA NewFilterStep ==
    ASSUME IInv, NEW f \in Filter, NewFilter(f)
    PROVE  IInv'
<1> USE DEF IInv, NewFilter, chainVars, blockVars, recVars, storeVars
<1>1. filters' \in Seq(Filter) /\ spc' \in [Filter -> SyncPc]
  BY AppendProperties DEF TypeOK, SyncPc
<1>2. TypeOK'
  BY <1>1, Zenon DEF TypeOK
<1>3. BlocksLinked' /\ EventOK'
  BY EventFrame
<1>4. LockOK' /\ SyncOK'
  BY SyncFrame, Zenon DEF Goto, SyncPc, Holding
<1> QED
  BY <1>2, <1>3, <1>4, Zenon

=============================================================================
