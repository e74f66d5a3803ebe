------------------------------ MODULE Tracker ------------------------------
(***************************************************************************)
(* The contract event tracker of tracker/tracker.go with the polling block *)
(* tracker of tracker/block_tracker.go.                                    *)
(*                                                                         *)
(* Two kinds of goroutine share the list t.blocks of the last blocks of    *)
(* the chain:                                                              *)
(*   - the block tracker polls the head of the chain and reconciles        *)
(*     t.blocks with it (handleBlockEvent, under blocksLock), then hands   *)
(*     the block event to every synced filter (handleReconcile, under      *)
(*     filterLock);                                                        *)
(*   - Sync, one goroutine per filter, brings the store of its filter up   *)
(*     to the head of t.blocks, in bulk while it is far from it (lock      *)
(*     released) and block by block at the end (lock held).                *)
(* The node at the other end of the provider is the environment: a tree of *)
(* blocks, of which the branch that ends in `head' is canonical.  A log is *)
(* identified with the block that holds it, so a block holds one log of    *)
(* interest or none.  A filter's store and its last processed block survive*)
(* a crash, everything else does not.                                      *)
(***************************************************************************)
EXTENDS Integers, Sequences

CONSTANTS
    Block,            \* every block of the tree
    Branch,           \* of every block, the blocks from the root to it
    HasLog,           \* blocks with a log that the filters select
    HeadMoves,        \* pairs of successive heads of the node
    FirstHead,        \* head of the node when the program starts
    Filter,           \* the filters of the program
    FastStart,        \* FilterConfig.Start (0: none) of every filter
    Async,            \* filters with FilterConfig.Async
    None,             \* no block, no owner
    Rec,              \* the goroutine of the block tracker
    MaxBlockBacklog,  \* Config.MaxBlockBacklog
    BatchSize,        \* Config.BatchSize
    ResultCap,        \* logs the node answers at most to one query
    MaxFails,         \* bound: failing provider calls
    MaxCrashes        \* bound: crashes of the program

\* Branches are closed under prefixes: the blocks form a tree.
ASSUME TreeAssumption ==
    /\ Branch \in [Block -> Seq(Block)]
    /\ \A b \in Block : /\ Branch[b] # <<>>
                        /\ Branch[b][Len(Branch[b])] = b
    /\ \A b \in Block : \A i \in 1..Len(Branch[b]) :
           Branch[Branch[b][i]] = SubSeq(Branch[b], 1, i)
    /\ FirstHead \in Block
    /\ HasLog \subseteq Block

ASSUME ConfigAssumption ==
    /\ MaxBlockBacklog \in Nat \ {0}
    /\ BatchSize \in Nat \ {0}
    /\ FastStart \in [Filter -> Nat]
    /\ None \notin Block \cup Filter \cup {Rec}
    /\ Rec \notin Filter

VARIABLES
    head,        \* the canonical head of the node
    fails,       \* failing provider calls so far
    crashes,     \* crashes so far
    torn,        \* history: filters left between two writes, or without an event
    blocks,      \* t.blocks
    blocksLock,  \* holder of t.blocksLock
    filters,     \* t.filters
    rpc,         \* where the block tracker is
    polled,      \* lastBlock of JSONBlockTracker.Track
    added,       \* the block event's Added, oldest first
    removed,     \* the block event's Removed
    queue,       \* filters the loop of handleReconcile has still to visit
    spc,         \* where the Sync of every filter is
    origin,      \* origin of syncImpl
    target,      \* targetNum of syncImpl
    limit,       \* limit of syncImpl
    cursor,      \* i of syncBatch
    batch,       \* batchSize of syncBatch
    todo,        \* blocks that a goroutine has still to append or to filter
    evnt,        \* the event that a doFilter of a goroutine builds
    synced,      \* Filter.synced
    logs,        \* the logs stored for every filter (store.Entry)
    last,        \* the stored lastBlock of every filter
    view,        \* the set of logs a reader of EventCh has, from the events alone
    owed,        \* history: filters that read t.blocks before the last event
    raced        \* history: filters for which an event was lost or doubled

chainVars == <<head, fails, crashes, torn>>
blockVars == <<blocks, blocksLock>>
recVars   == <<rpc, polled, added, removed, queue, owed>>
syncVars  == <<spc, origin, target, limit, cursor, batch>>
storeVars == <<logs, last, view>>
vars == <<chainVars, blockVars, recVars, syncVars, storeVars,
          filters, todo, evnt, synced, raced>>

Proc == Filter \cup {Rec}
NoEvent == [Added |-> <<>>, Removed |-> <<>>]
Last(s) == s[Len(s)]
MinOf(i, j) == IF i < j THEN i ELSE j

-----------------------------------------------------------------------------
(* The node behind the provider. *)

Number == [b \in Block |-> Len(Branch[b]) - 1]
Parent == [b \in Block |-> IF Len(Branch[b]) = 1 THEN None
                           ELSE Branch[b][Len(Branch[b]) - 1]]
Blocks(s) == {s[i] : i \in 1..Len(s)}

\* GetBlockByNumber: the canonical block of height n, null above the head.
BlockByNumber(n) == IF n > Number[head] THEN None ELSE Branch[head][n + 1]

\* l lists the logs of the blocks of S, which are of one branch, in its order.
IsLogsOf(l, S) ==
    /\ Blocks(l) = S \cap HasLog
    /\ \A i, j \in 1..Len(l) : i < j => Number[l[i]] < Number[l[j]]

\* The answer of GetLogs for the canonical blocks of heights lo..hi.
LogsInRange(lo, hi) ==
    LET S == Blocks(SubSeq(Branch[head], lo + 1, MinOf(hi, Number[head]) + 1))
    IN  {l \in UNION {[1..n -> S] : n \in 0..(hi + 1 - lo)} : IsLogsOf(l, S)}

\* The answer of GetLogs for one block, by hash.
LogsOfBlock(b) == IF b \in HasLog THEN <<b>> ELSE <<>>

NewHead ==
    /\ \E b \in Block : <<head, b>> \in HeadMoves /\ head' = b
    /\ UNCHANGED <<fails, crashes, torn, blockVars, recVars, syncVars, storeVars,
                   filters, todo, evnt, synced, raced>>

\* A provider call that returns an error, counted against the bound; S are the filters
\* that it leaves between two writes, or without an event.
ProviderError(S) ==
    /\ fails < MaxFails
    /\ fails' = fails + 1
    /\ torn' = torn \cup S
    /\ UNCHANGED <<head, crashes>>

\* Filters whose store goroutine p is between two writes to: doFilter and syncBatch
\* write logs before the last block, and a Sync that undoes a reorg removes logs while
\* the last block is still that of the old branch.
midWrite(p) ==
    {f \in Filter :
        \/ p = Rec /\ rpc = "filter" /\ Head(queue) = f /\ evnt[Rec] # NoEvent
        \/ p = f /\ spc[f] = "head" /\ evnt[f] # NoEvent
        \/ p = f /\ spc[f] = "batched"
        \/ /\ p = f /\ spc[f] \in {"plan", "batch", "batched", "relock", "head"}
           /\ last[f] # None
           /\ Number[last[f]] >= IF spc[f] \in {"batch", "batched"} THEN cursor[f] ELSE origin[f]}

-----------------------------------------------------------------------------
(* Start: fill t.blocks with the last blocks of the chain.  `added' is the
   slice that populateBlocks builds, from the head backwards.             *)

Start ==
    /\ rpc = "stopped"
    /\ IF Number[head] = 0
       THEN /\ blocks' = <<>>
            /\ rpc' = "idle"
            /\ UNCHANGED added
       ELSE /\ added' = <<head>>
            /\ rpc' = "populate"
            /\ UNCHANGED blocks
    /\ UNCHANGED <<chainVars, blocksLock, polled, removed, queue, owed,
                   syncVars, storeVars, filters, todo, evnt, synced, raced>>

\* populateBlocks stops at a full list, or at the root.
populated_NoRoot == Len(added) = MaxBlockBacklog
populated_WithoutRoot == Len(added) = MaxBlockBacklog \/ Number[Head(added)] <= 1
populated == Len(added) = MaxBlockBacklog \/ Number[Head(added)] = 0

populateBlocks ==
    /\ rpc = "populate"
    /\ \/ /\ populated
          /\ blocks' = added
          /\ rpc' = "idle"
          /\ UNCHANGED <<added, chainVars>>
       \/ /\ ~populated
          /\ added' = <<Parent[Head(added)]>> \o added
          /\ UNCHANGED <<rpc, blocks, chainVars>>
       \/ /\ Number[Head(added)] # 0
          /\ ProviderError({})
          /\ rpc' = "stopped"
          /\ UNCHANGED <<added, blocks>>
    /\ UNCHANGED <<blocksLock, polled, removed, queue, owed, syncVars,
                   storeVars, filters, todo, evnt, synced, raced>>

-----------------------------------------------------------------------------
(* JSONBlockTracker.Track and handleReconcile. *)

\* Track fetches the head; the block it handled last is skipped.
Poll ==
    /\ rpc = "idle"
    /\ polled # head
    /\ added' = <<head>>
    /\ rpc' = "event"
    /\ UNCHANGED <<chainVars, blockVars, polled, removed, queue, owed, syncVars,
                   storeVars, filters, todo, evnt, synced, raced>>

\* blockAtIndex, with 0 for a block that is not in the list.
blockAtIndex(b) ==
    IF \E i \in 1..Len(blocks) : blocks[i] = b
    THEN CHOOSE i \in 1..Len(blocks) : blocks[i] = b
    ELSE 0

\* handleBlockEvent drops the blocks after position i and starts adding new ones.
truncateBlocks_KeepsFork(new, i) ==
    /\ removed' = SubSeq(blocks, i + 1, Len(blocks))
    /\ UNCHANGED blocks
    /\ added' = new
    /\ todo' = [todo EXCEPT ![Rec] = new]
    /\ rpc' = "append"
truncateBlocks(new, i) ==
    /\ removed' = SubSeq(blocks, i + 1, Len(blocks))
    /\ blocks' = SubSeq(blocks, 1, i)
    /\ added' = new
    /\ todo' = [todo EXCEPT ![Rec] = new]
    /\ rpc' = "append"

\* handleReconcileImpl for a block that is known, or whose parent is.
handleBlockEvent ==
    /\ rpc = "event"
    /\ blocksLock = None
    /\ LET b == Head(added)
           p == blockAtIndex(Parent[b])
       IN  \/ /\ blockAtIndex(b) # 0
              /\ rpc' = "idle"
              /\ polled' = b
              /\ UNCHANGED <<blockVars, added, removed, todo>>
           \/ /\ blockAtIndex(b) = 0
              /\ blocks = <<>> \/ p # 0
              /\ truncateBlocks(added, p)
              /\ blocksLock' = Rec
              /\ UNCHANGED polled
           \/ /\ blockAtIndex(b) = 0
              /\ blocks # <<>> /\ p = 0
              /\ rpc' = "backfill"
              /\ blocksLock' = Rec
              /\ UNCHANGED <<blocks, polled, added, removed, todo>>
    /\ UNCHANGED <<chainVars, queue, owed, syncVars, storeVars, filters, evnt,
                   synced, raced>>

\* One turn of the backfill loop of handleReconcileImpl: Len(added) - 1 is its count.
backfill ==
    /\ rpc = "backfill"
    /\ LET p == Parent[Head(added)]
           more == Len(added) - 1 <= MaxBlockBacklog /\ p # None
       IN  \/ /\ more
              /\ blockAtIndex(Parent[p]) # 0
              /\ truncateBlocks(<<p>> \o added, blockAtIndex(Parent[p]))
              /\ UNCHANGED <<chainVars, blocksLock>>
           \/ /\ more
              /\ blockAtIndex(Parent[p]) = 0
              /\ added' = <<p>> \o added
              /\ UNCHANGED <<chainVars, blockVars, rpc, removed, todo>>
           \/ /\ IF more THEN ProviderError({}) ELSE UNCHANGED chainVars
              /\ blocksLock' = None
              /\ rpc' = "idle"
              /\ UNCHANGED <<blocks, added, removed, todo>>
    /\ UNCHANGED <<polled, queue, owed, syncVars, storeVars, filters, evnt,
                   synced, raced>>

\* addBlockLocked keeps the newest MaxBlockBacklog blocks.
trimmed_OneMore == IF Len(blocks) > MaxBlockBacklog THEN Tail(blocks) ELSE blocks
trimmed == IF Len(blocks) = MaxBlockBacklog THEN Tail(blocks) ELSE blocks

inSequence(b) == trimmed # <<>> => Number[Last(trimmed)] + 1 = Number[b]

addBlockLocked ==
    /\ rpc = "append"
    /\ todo[Rec] # <<>>
    /\ LET b == Head(todo[Rec])
       IN  IF inSequence(b)
           THEN /\ blocks' = Append(trimmed, b)
                /\ todo' = [todo EXCEPT ![Rec] = Tail(@)]
                /\ UNCHANGED <<blocksLock, rpc>>
           ELSE /\ blocks' = trimmed
                /\ blocksLock' = None
                /\ rpc' = "idle"
                /\ UNCHANGED todo
    /\ UNCHANGED <<chainVars, polled, added, removed, queue, owed, syncVars,
                   storeVars, filters, evnt, synced, raced>>

\* A filter whose Sync has read t.blocks for the last time.
PastHead(f) == synced[f] \/ spc[f] = "done"

\* handleBlockEvent unlocks t.blocks.
emitBlockEvent ==
    /\ rpc = "append"
    /\ todo[Rec] = <<>>
    /\ blocksLock' = None
    /\ rpc' = "emit"
    /\ owed' = {f \in Filter : PastHead(f)}
    /\ UNCHANGED <<chainVars, blocks, polled, added, removed, queue, syncVars,
                   storeVars, filters, todo, evnt, synced, raced>>

\* handleReconcile takes filterLock and starts its loop over t.filters.
handleReconcile ==
    /\ rpc = "emit"
    /\ rpc' = "filters"
    /\ queue' = filters
    /\ UNCHANGED <<chainVars, blockVars, polled, added, removed, owed, syncVars,
                   storeVars, filters, todo, evnt, synced, raced>>

-----------------------------------------------------------------------------
(* doFilter: the event reaches the store of a filter.  It runs in the block
   tracker's goroutine and, without blocks to remove, in Sync's.           *)

\* removeLogs(filter, number, hash) keeps the first n logs: from the newest on it
\* stops at a log below number, or at number with another hash (None for nil).
removeLogs_KeepsFirst(f, number, hash, n) ==
    /\ n > 0 => Number[logs[f][n]] <= number
    /\ \A i \in (n + 1)..Len(logs[f]) : Number[logs[f][i]] > number
    /\ logs' = [logs EXCEPT ![f] = SubSeq(@, 1, n)]
removeLogs_OneTooMany(f, number, hash, n) ==
    /\ n > 0 => Number[logs[f][n]] + 1 < number
    /\ \A i \in (n + 1)..Len(logs[f]) : Number[logs[f][i]] + 1 >= number
    /\ logs' = [logs EXCEPT ![f] = SubSeq(@, 1, n)]
removeLogs(f, number, hash, n) ==
    LET stop(b) == \/ Number[b] = number /\ hash # None /\ b # hash
                   \/ Number[b] < number
    IN  /\ n > 0 => stop(logs[f][n])
        /\ \A i \in (n + 1)..Len(logs[f]) : ~stop(logs[f][i])
        /\ logs' = [logs EXCEPT ![f] = SubSeq(@, 1, n)]

\* A reader of EventCh drops the removed logs and adds the added ones.  emitEvent
\* of an asynchronous filter drops the event if nobody is receiving.
emitEvent(f, e) ==
    \/ view' = [view EXCEPT ![f] = (@ \ Blocks(e.Removed)) \cup Blocks(e.Added)]
    \/ f \in Async /\ UNCHANGED view

\* doFilter asks for the logs of the next block by hash and stores them.
storeBlockLogs_LastOnly(p, f) ==
    LET l == LogsOfBlock(Head(todo[p]))
    IN  /\ todo[p] # <<>>
        /\ logs' = [logs EXCEPT ![f] = @ \o l]
        /\ evnt' = [evnt EXCEPT ![p].Added = l]
        /\ todo' = [todo EXCEPT ![p] = Tail(@)]
storeBlockLogs(p, f) ==
    LET l == LogsOfBlock(Head(todo[p]))
    IN  /\ todo[p] # <<>>
        /\ logs' = [logs EXCEPT ![f] = @ \o l]
        /\ evnt' = [evnt EXCEPT ![p].Added = @ \o l]
        /\ todo' = [todo EXCEPT ![p] = Tail(@)]

\* doFilter ends: the last added block becomes the index, then the event goes out.
storeLastBlock(p, f, b) ==
    /\ todo[p] = <<>>
    /\ last' = [last EXCEPT ![f] = b]
    /\ emitEvent(f, evnt[p])
    /\ evnt' = [evnt EXCEPT ![p] = NoEvent]

\* The loop of handleReconcile visits the next filter, or is over.
visitFilter ==
    /\ rpc = "filters"
    /\ \/ /\ queue = <<>>
          /\ rpc' = "idle"
          /\ polled' = Last(added)
          /\ UNCHANGED <<queue, todo, evnt, logs, raced>>
       \/ /\ queue # <<>>
          /\ ~synced[Head(queue)]
          /\ queue' = Tail(queue)
          /\ raced' = raced \cup ({Head(queue)} \cap owed)
          /\ UNCHANGED <<rpc, polled, todo, evnt, logs>>
       \/ /\ queue # <<>>
          /\ synced[Head(queue)]
          /\ LET f == Head(queue)
             IN  /\ raced' = raced \cup ({f} \ owed)
                 /\ \/ removed = <<>> /\ UNCHANGED <<logs, evnt>>
                    \/ /\ removed # <<>>
                       /\ \E n \in 0..Len(logs[f]) :
                            /\ removeLogs(f, Number[removed[1]], removed[1], n)
                            /\ evnt' = [evnt EXCEPT ![Rec].Removed =
                                           SubSeq(logs[f], n + 1, Len(logs[f]))]
          /\ todo' = [todo EXCEPT ![Rec] = added]
          /\ rpc' = "filter"
          /\ UNCHANGED <<queue, polled>>
    /\ UNCHANGED <<chainVars, blockVars, added, removed, owed, syncVars, last,
                   view, filters, synced>>

\* doFilter in handleReconcile; an error leaves the loop for all filters.
doFilter ==
    /\ rpc = "filter"
    /\ LET f == Head(queue)
       IN  \/ /\ storeBlockLogs(Rec, f)
              /\ UNCHANGED <<chainVars, rpc, queue, last, view>>
           \/ /\ storeLastBlock(Rec, f, Last(added))
              /\ rpc' = "filters"
              /\ queue' = Tail(queue)
              /\ UNCHANGED <<chainVars, todo, logs>>
           \/ /\ todo[Rec] # <<>>
              /\ ProviderError(midWrite(Rec) \cup (Blocks(queue) \cap owed))
              /\ rpc' = "idle"
              /\ evnt' = [evnt EXCEPT ![Rec] = NoEvent]
              /\ UNCHANGED <<queue, todo, logs, last, view>>
    /\ UNCHANGED <<blockVars, polled, added, removed, owed, syncVars, filters,
                   synced, raced>>

-----------------------------------------------------------------------------
(* NewFilter, and Sync of a filter once the tracker is ready. *)

NewFilter(f) ==
    /\ spc[f] = "none"
    /\ rpc \notin {"filters", "filter"}
    /\ filters' = Append(filters, f)
    /\ spc' = [spc EXCEPT ![f] = "ready"]
    /\ UNCHANGED <<chainVars, blockVars, recVars, origin, target, limit, cursor,
                   batch, storeVars, todo, evnt, synced, raced>>

Goto(f, l) == spc' = [spc EXCEPT ![f] = l]

\* fastTrack: the block the filter starts after, if one is configured.
fastTrack(f) == IF FastStart[f] = 0 THEN None ELSE BlockByNumber(FastStart[f])

\* syncImpl takes the lock, and the head of t.blocks for its target.
syncImpl(f) ==
    /\ spc[f] = "ready"
    /\ rpc \notin {"stopped", "populate"}
    /\ blocksLock = None
    /\ LET l == IF last[f] = None THEN fastTrack(f) ELSE last[f]
           behind == blocks # <<>> /\ last[f] # Last(blocks)
       IN  \/ /\ ~behind
              /\ Goto(f, "done")
              /\ UNCHANGED <<blocksLock, origin, target, last>>
           \/ /\ behind
              /\ blocksLock' = f
              /\ target' = [target EXCEPT ![f] = Number[Last(blocks)]]
              /\ origin' = [origin EXCEPT ![f] = 0]
              /\ last' = [last EXCEPT ![f] = l]
              /\ Goto(f, IF l = None THEN "plan" ELSE "pivot")
    /\ UNCHANGED <<chainVars, blocks, recVars, limit, cursor, batch, logs, view,
                   filters, todo, evnt, synced, raced>>

\* findAncestor: the last common ancestor, if it is near enough, as a set.
findAncestor(b, pivot) ==
    {c \in Block :
        /\ c \in Blocks(Branch[b]) \cap Blocks(Branch[pivot])
        /\ \A d \in Blocks(Branch[b]) \cap Blocks(Branch[pivot]) : Number[d] <= Number[c]
        /\ Number[b] - Number[c] < MaxBlockBacklog}

\* An error of syncImpl releases the lock; the program may call Sync again.
syncError(f) ==
    /\ blocksLock' = IF blocksLock = f THEN None ELSE blocksLock
    /\ todo' = [todo EXCEPT ![f] = <<>>]
    /\ evnt' = [evnt EXCEPT ![f] = NoEvent]
    /\ Goto(f, "ready")

\* Sync goes on from block b, which is of the node's branch; t.blocks may be of another.
resumed(f, b) ==
    /\ torn' = IF b \in Blocks(Branch[Last(blocks)]) THEN torn ELSE torn \cup {f}
    /\ UNCHANGED <<head, fails, crashes>>

\* syncImpl compares its last block with the chain and undoes a reorg.
syncPivot(f) ==
    /\ spc[f] = "pivot"
    /\ LET l == last[f]
           pivot == BlockByNumber(Number[l])
           common == findAncestor(l, pivot)
       IN  \/ /\ Number[l] <= target[f]
              /\ pivot = l
              /\ origin' = [origin EXCEPT ![f] =
                               IF Number[l] = target[f] THEN Number[l] ELSE Number[l] + 1]
              /\ Goto(f, "plan")
              /\ resumed(f, l)
              /\ UNCHANGED <<blocksLock, logs, view, todo, evnt>>
           \/ /\ Number[l] <= target[f]
              /\ pivot # l
              /\ \E c \in common, n \in 0..Len(logs[f]) :
                   /\ removeLogs(f, Number[c] + 1, None, n)
                   /\ emitEvent(f, [Added |-> <<>>,
                                    Removed |-> SubSeq(logs[f], n + 1, Len(logs[f]))])
                   /\ \/ /\ origin' = [origin EXCEPT ![f] = Number[c] + 1]
                         /\ Goto(f, "plan")
                         /\ resumed(f, c)
                         /\ UNCHANGED <<blocksLock, todo, evnt>>
                      \/ /\ ProviderError({f})
                         /\ syncError(f)
                         /\ UNCHANGED origin
           \/ /\ IF Number[l] > target[f] \/ common = {} THEN UNCHANGED chainVars
                                                         ELSE ProviderError({})
              /\ syncError(f)
              /\ UNCHANGED <<origin, logs, view>>
    /\ UNCHANGED <<blocks, recVars, target, limit, cursor, batch, last, filters,
                   synced, raced>>

\* Position in t.blocks of the block of height origin; the slice of syncImpl
\* panics when it is not a position.
headSlice(f) == Len(blocks) - (target[f] - origin[f])

syncPlan(f) ==
    /\ spc[f] = "plan"
    /\ \/ /\ target[f] - origin[f] + 1 > MaxBlockBacklog
          /\ blocksLock' = None
          /\ limit' = [limit EXCEPT ![f] = target[f] - MaxBlockBacklog]
          /\ cursor' = [cursor EXCEPT ![f] = origin[f]]
          /\ batch' = [batch EXCEPT ![f] = BatchSize]
          /\ Goto(f, "batch")
          /\ UNCHANGED <<todo, evnt>>
       \/ /\ target[f] - origin[f] + 1 <= MaxBlockBacklog
          /\ IF origin[f] > target[f] THEN syncError(f)
             ELSE IF headSlice(f) >= 1
             THEN /\ todo' = [todo EXCEPT ![f] =
                                 SubSeq(blocks, headSlice(f), Len(blocks))]
                  /\ Goto(f, "head")
                  /\ UNCHANGED <<blocksLock, evnt>>
             ELSE /\ Goto(f, "panic")
                  /\ UNCHANGED <<blocksLock, todo, evnt>>
          /\ UNCHANGED <<limit, cursor, batch>>
    /\ UNCHANGED <<chainVars, blocks, recVars, origin, target, storeVars,
                   filters, synced, raced>>

\* syncBatch queries the logs of the next range; the batch is halved when the
\* node refuses to answer that much.
syncBatch(f) ==
    /\ spc[f] = "batch"
    /\ LET dst == MinOf(limit[f], cursor[f] + batch[f])
           answer == LogsInRange(cursor[f], dst)
       IN  \/ /\ \E l \in answer : Len(l) > ResultCap
              /\ batch' = [batch EXCEPT ![f] = @ \div 2]
              /\ UNCHANGED <<chainVars, blocksLock, spc, logs, view, todo, evnt>>
           \/ /\ \E l \in answer :
                   /\ Len(l) <= ResultCap
                   /\ logs' = [logs EXCEPT ![f] = @ \o l]
                   /\ emitEvent(f, [Added |-> l, Removed |-> <<>>])
              /\ Goto(f, "batched")
              /\ UNCHANGED <<chainVars, blocksLock, batch, todo, evnt>>
           \/ /\ ProviderError(midWrite(f))
              /\ syncError(f)
              /\ UNCHANGED <<batch, logs, view>>
    /\ UNCHANGED <<blocks, recVars, origin, target, limit, cursor, last,
                   filters, synced, raced>>

additiveFactor == BatchSize \div 10

\* syncBatch moves the last block of the filter to the end of the range; the
\* context of the caller may be done.
syncBatchLast(f) ==
    /\ spc[f] = "batched"
    /\ LET dst == MinOf(limit[f], cursor[f] + batch[f])
           next == cursor[f] + batch[f] + 1
       IN  \/ /\ last' = [last EXCEPT ![f] = BlockByNumber(dst)]
              /\ cursor' = [cursor EXCEPT ![f] = next]
              /\ batch' = [batch EXCEPT ![f] =
                              IF @ < BatchSize THEN MinOf(BatchSize, @ + additiveFactor)
                              ELSE @]
              /\ origin' = [origin EXCEPT ![f] = IF next <= limit[f] THEN @ ELSE limit[f] + 1]
              /\ Goto(f, IF next <= limit[f] THEN "batch" ELSE "relock")
              /\ UNCHANGED <<chainVars, blocksLock, todo, evnt>>
           \/ /\ ProviderError(midWrite(f))
              /\ syncError(f)
              /\ UNCHANGED <<origin, cursor, batch>>
              /\ \/ UNCHANGED last
                 \/ last' = [last EXCEPT ![f] = BlockByNumber(dst)]
    /\ UNCHANGED <<blocks, recVars, target, limit, logs, view, filters,
                   synced, raced>>

\* syncImpl locks again after a bulk sync: the target may have moved.
syncRelock_OldTarget(f) ==
    /\ spc[f] = "relock"
    /\ blocksLock = None
    /\ blocksLock' = f
    /\ Goto(f, "plan")
    /\ UNCHANGED <<chainVars, blocks, recVars, origin, target, limit, cursor, batch,
                   storeVars, filters, todo, evnt, synced, raced>>
syncRelock(f) ==
    /\ spc[f] = "relock"
    /\ blocksLock = None
    /\ blocksLock' = f
    /\ target' = [target EXCEPT ![f] = Number[Last(blocks)]]
    /\ Goto(f, "plan")
    /\ UNCHANGED <<chainVars, blocks, recVars, origin, limit, cursor, batch,
                   storeVars, filters, todo, evnt, synced, raced>>

\* doFilter of the blocks up to the head, with the lock held to the end.
syncHead_KeepsLock(f) ==
    /\ spc[f] = "head"
    /\ \/ /\ storeBlockLogs(f, f)
          /\ UNCHANGED <<chainVars, blocksLock, spc, last, view>>
       \/ /\ storeLastBlock(f, f, Last(blocks))
          /\ Goto(f, "done")
          /\ UNCHANGED <<chainVars, blocksLock, todo, logs>>
       \/ /\ todo[f] # <<>>
          /\ ProviderError(midWrite(f))
          /\ syncError(f)
          /\ UNCHANGED <<logs, last, view>>
    /\ UNCHANGED <<blocks, recVars, origin, target, limit, cursor, batch,
                   filters, synced, raced>>
syncHead(f) ==
    /\ spc[f] = "head"
    /\ \/ /\ storeBlockLogs(f, f)
          /\ UNCHANGED <<chainVars, blocksLock, spc, last, view>>
       \/ /\ storeLastBlock(f, f, Last(blocks))
          /\ blocksLock' = None
          /\ Goto(f, "done")
          /\ UNCHANGED <<chainVars, todo, logs>>
       \/ /\ todo[f] # <<>>
          /\ ProviderError(midWrite(f))
          /\ syncError(f)
          /\ UNCHANGED <<logs, last, view>>
    /\ UNCHANGED <<blocks, recVars, origin, target, limit, cursor, batch,
                   filters, synced, raced>>

\* Sync marks the filter; from here on handleReconcile feeds it.
syncDone(f) ==
    /\ spc[f] = "done"
    /\ synced' = [synced EXCEPT ![f] = TRUE]
    /\ Goto(f, "synced")
    /\ UNCHANGED <<chainVars, blockVars, recVars, origin, target, limit, cursor,
                   batch, storeVars, filters, todo, evnt, raced>>

-----------------------------------------------------------------------------
(* The program stops without notice and is started again on the same store. *)

Crash ==
    /\ crashes < MaxCrashes
    /\ crashes' = crashes + 1
    /\ torn' = torn \cup UNION {midWrite(p) : p \in Proc}
    /\ blocks' = <<>> /\ blocksLock' = None /\ filters' = <<>>
    /\ rpc' = "stopped" /\ polled' = None /\ added' = <<>> /\ removed' = <<>>
    /\ queue' = <<>> /\ owed' = {}
    /\ spc' = [f \in Filter |-> "none"]
    /\ origin' = [f \in Filter |-> 0] /\ target' = [f \in Filter |-> 0]
    /\ limit' = [f \in Filter |-> 0] /\ cursor' = [f \in Filter |-> 0]
    /\ batch' = [f \in Filter |-> 0]
    /\ todo' = [p \in Proc |-> <<>>] /\ evnt' = [p \in Proc |-> NoEvent]
    /\ synced' = [f \in Filter |-> FALSE]
    /\ view' = [f \in Filter |-> Blocks(logs[f])]
    /\ UNCHANGED <<head, fails, logs, last, raced>>

Init ==
    /\ head = FirstHead /\ fails = 0 /\ crashes = 0 /\ torn = {}
    /\ blocks = <<>> /\ blocksLock = None /\ filters = <<>>
    /\ rpc = "stopped" /\ polled = None /\ added = <<>> /\ removed = <<>>
    /\ queue = <<>> /\ owed = {} /\ raced = {}
    /\ spc = [f \in Filter |-> "none"]
    /\ origin = [f \in Filter |-> 0] /\ target = [f \in Filter |-> 0]
    /\ limit = [f \in Filter |-> 0] /\ cursor = [f \in Filter |-> 0]
    /\ batch = [f \in Filter |-> 0]
    /\ todo = [p \in Proc |-> <<>>] /\ evnt = [p \in Proc |-> NoEvent]
    /\ synced = [f \in Filter |-> FALSE]
    /\ logs = [f \in Filter |-> <<>>] /\ view = [f \in Filter |-> {}]
    /\ last = [f \in Filter |-> None]

Sync(f) ==
    \/ syncImpl(f) \/ syncPivot(f) \/ syncPlan(f) \/ syncBatch(f)
    \/ syncBatchLast(f) \/ syncRelock(f) \/ syncHead(f) \/ syncDone(f)

Track ==
    \/ Start \/ populateBlocks \/ Poll \/ handleBlockEvent \/ backfill
    \/ addBlockLocked \/ emitBlockEvent \/ handleReconcile \/ visitFilter
    \/ doFilter

Next ==
    \/ NewHead
    \/ Track
    \/ \E f \in Filter : NewFilter(f) \/ Sync(f)
    \/ Crash

Spec == Init /\ [][Next]_vars

\* Goroutines are scheduled and polling goes on; nothing obliges the node to
\* move, a call to fail or the program to crash.
FairSpec ==
    /\ Spec
    /\ WF_vars(Track)
    /\ \A f \in Filter : WF_vars(NewFilter(f)) /\ SF_vars(Sync(f))

-----------------------------------------------------------------------------
(* Properties. *)

RecPc == {"stopped", "populate", "idle", "event", "backfill", "append", "emit",
          "filters", "filter"}
SyncPc == {"none", "ready", "pivot", "plan", "batch", "batched", "relock", "head",
           "done", "synced", "panic"}

\* Every variable has its type; in particular every block in it is a block of the
\* node, although the program walks parents that it may not have (populateBlocks).
TypeOK ==
    /\ head \in Block /\ fails \in Nat /\ crashes \in Nat
    /\ blocks \in Seq(Block) /\ blocksLock \in Proc \cup {None}
    /\ rpc \in RecPc
    /\ polled \in Block \cup {None}
    /\ added \in Seq(Block) /\ removed \in Seq(Block)
    /\ filters \in Seq(Filter) /\ queue \in Seq(Filter)
    /\ spc \in [Filter -> SyncPc]
    /\ origin \in [Filter -> Nat] /\ target \in [Filter -> Nat]
    /\ limit \in [Filter -> Nat] /\ cursor \in [Filter -> Nat]
    /\ batch \in [Filter -> Nat]
    /\ todo \in [Proc -> Seq(Block)]
    /\ evnt \in [Proc -> [Added : Seq(Block), Removed : Seq(Block)]]
    /\ synced \in [Filter -> BOOLEAN]
    /\ logs \in [Filter -> Seq(Block)] /\ view \in [Filter -> SUBSET Block]
    /\ last \in [Filter -> Block \cup {None}]
    /\ owed \subseteq Filter /\ raced \subseteq Filter /\ torn \subseteq Filter

Linked(s) == \A i \in 1..(Len(s) - 1) : s[i] = Parent[s[i + 1]]

\* t.blocks is at every moment one unbroken branch of the tree, of at most
\* MaxBlockBacklog blocks: reconciling a fork or a gap never leaves a hole in it.
BlocksLinked == Linked(blocks) /\ Len(blocks) <= MaxBlockBacklog

\* The blocks of an event continue t.blocks: the error "bad number sequence" of
\* addBlockLocked, which would leave t.blocks half updated, never occurs.
NoBadSequence ==
    rpc = "append" /\ todo[Rec] # <<>> => inSequence(Head(todo[Rec]))

\* "we are still holding the lock on the blocksLock so that we are sure that the
\* targetNum has not changed" (syncImpl): the target of a Sync that holds the lock
\* is the head of t.blocks, whatever the block tracker did during the bulk sync.
TargetIsHead ==
    \A f \in Filter : spc[f] \in {"pivot", "plan", "head"} =>
        /\ blocksLock = f
        /\ blocks # <<>>
        /\ target[f] = Number[Last(blocks)]

\* The slice of t.blocks that syncImpl takes to reach the head is in range: after
\* a bulk sync and any reorg the list still holds every block from origin on.
NoSlicePanic == \A f \in Filter : spc[f] # "panic"

\* No event is on its way from t.blocks to the filters.
Delivered == rpc \notin {"append", "emit", "filters", "filter"}

\* The blocks of the branch of b that a filter covers.
Covered(f, b) ==
    {c \in Blocks(Branch[b]) : FastStart[f] = 0 \/ Number[c] > FastStart[f]}

\* A synced filter has stored the logs of the branch of t.blocks, each once and in
\* order, through bulk sync, reorgs, backfill, failing calls and restarts.  Excepted are
\* the filters for which an event and the end of a Sync overlapped, and those that an
\* error or a stop left between two writes or without an event.
ExactLogs ==
    \A f \in Filter \ (raced \cup torn) :
        synced[f] /\ Delivered /\ blocks # <<>> => IsLogsOf(logs[f], Covered(f, Last(blocks)))

\* The events of a synchronous filter replay its store: a reader that applies them has
\* the stored logs whenever no doFilter is under way, with the same exceptions.
EventsReplayLogs ==
    \A f \in Filter \ (Async \cup raced \cup torn) :
        spc[f] # "head" /\ Delivered => view[f] = Blocks(logs[f])

\* "compareLogs(l.GetLogs(), f.entry.(*inmem.Entry).Logs())" after every restart
\* (TestTrackerSyncerRestarts): a filter that is synced has the logs of the branch,
\* wherever the program stopped before.
ExactAfterRestart ==
    \A f \in Filter \ raced :
        synced[f] /\ Delivered /\ blocks # <<>> => IsLogsOf(logs[f], Covered(f, Last(blocks)))

\* "IsSynced returns true if the filter is synced to head" (Filter.IsSynced).
SyncedToHead ==
    \A f \in Filter : synced[f] /\ Delivered /\ blocks # <<>> => last[f] = Last(blocks)

\* What the stored last block of a filter says is processed is stored: a stop at any
\* moment but between two writes leaves no gap of canonical logs below it, also when
\* the node returns to a branch that it had left.
ResumePoint ==
    \A f \in Filter \ (raced \cup torn \cup midWrite(Rec)) : last[f] # None /\ f \notin midWrite(f) =>
        Covered(f, last[f]) \cap Blocks(Branch[head]) \cap HasLog \subseteq Blocks(logs[f])

\* The head is so far from t.blocks that handleReconcileImpl gives up, on every poll: no
\* block of the list is among the parents that it fetches.
Outrun ==
    \A i \in 1..Len(blocks) :
        \/ blocks[i] \notin Blocks(Branch[head])
        \/ Number[head] - Number[blocks[i]] > MaxBlockBacklog + 2

\* Once the node stops moving, every filter is synced and t.blocks ends in the node's
\* head for good, or the node has outrun it for good.
CatchUp ==
    <>[](/\ blocks # <<>> /\ \A f \in Filter : synced[f]
         /\ Last(blocks) = head \/ Outrun)

-----------------------------------------------------------------------------
(* The inductive invariant behind TypeOK, BlocksLinked, NoBadSequence and
   TargetIsHead. *)

\* The block event in the hands of the block tracker is one branch, and while it
\* is added to t.blocks what is left of it continues t.blocks.
EventOK ==
    /\ rpc \notin {"stopped", "idle"} => added # <<>>
    /\ Linked(added)
    /\ rpc = "populate" => Len(added) <= MaxBlockBacklog
    /\ rpc = "filter" => queue # <<>>
    /\ rpc = "append" =>
           /\ Linked(todo[Rec])
           /\ todo[Rec] # <<>> /\ blocks # <<>> =>
                  Last(blocks) = Parent[Head(todo[Rec])]

Holding == {"pivot", "plan", "head", "panic"}

\* Who holds blocksLock is where the code says the lock is held.
LockOK ==
    /\ blocksLock = Rec <=> rpc \in {"backfill", "append"}
    /\ \A f \in Filter :
           blocksLock = f <=> spc[f] \in Holding

\* A Sync that works has a list of blocks to work with, and a last block to compare.
SyncOK ==
    /\ rpc \in {"stopped", "populate"} => \A f \in Filter : spc[f] \in {"none", "ready"}
    /\ \A f \in Filter :
           /\ spc[f] \in {"pivot", "plan", "batch", "batched", "relock", "head"} =>
                  blocks # <<>>
           /\ spc[f] \in {"pivot", "plan", "head"} => target[f] = Number[Last(blocks)]
           /\ spc[f] = "pivot" => last[f] # None

IInv == TypeOK /\ BlocksLinked /\ EventOK /\ LockOK /\ SyncOK
-----------------------------------------------------------------------------
(* What NoSlicePanic takes besides.  It depends on the node. *)

\* The heads of the node never lose height, and the first is not the root.
HeadsRise ==
    /\ Number[FirstHead] # 0
    /\ \A b, c \in Block : <<b, c>> \in HeadMoves => Number[b] <= Number[c]

\* The heights of the blocks of s are consecutive; none is above the node's head.
Consecutive(s) == \A i \in 1..Len(s) : Number[s[i]] = Number[s[1]] + i - 1
Below(s) == \A i \in 1..Len(s) : Number[s[i]] <= Number[head]

\* With n more blocks t.blocks is full, unless it reaches back to the root.
Deep(n) == Len(blocks) + n >= MaxBlockBacklog \/ Len(blocks) = Number[Last(blocks)] + 1

\* t.blocks is as deep as the chain and the backlog allow, except while an event is
\* appended, whose blocks then make up for what was cut off.
DepthOK ==
    /\ Number[head] # 0
    /\ Consecutive(blocks) /\ Below(blocks)
    /\ Consecutive(added) /\ Below(added)
    /\ rpc \notin {"stopped", "populate"} => blocks # <<>>
    /\ rpc \in {"event", "backfill"} => Number[Last(blocks)] <= Number[Last(added)]
    /\ rpc = "append" => Below(todo[Rec]) /\ Deep(Len(todo[Rec]))
    /\ rpc \notin {"stopped", "populate", "append"} => Deep(0)
=============================================================================
