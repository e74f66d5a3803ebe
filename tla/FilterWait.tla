----------------------------- MODULE FilterWait -----------------------------
(***************************************************************************)
(* The channels of a tracker's filter (tracker/tracker.go): the Sync calls *)
(* of the filter change its store, send the events to EventCh, a token to  *)
(* DoneCh and set `synced`; a consumer receives events and goroutines wait *)
(* for the filter with WaitDuration.                                       *)
(*                                                                         *)
(* A Sync holds blocksLock for its head part, sends included; the bulk     *)
(* part, if it has one, runs without the lock.                             *)
(***************************************************************************)
EXTENDS Naturals

CONSTANTS
    Syncer,     \* Sync calls of the filter
    Free,       \* blocksLock is not held
    Waiter,     \* WaitDuration calls
    MaxChanges  \* bound: changes of the store by one Sync

VARIABLES
    async,      \* config.Async
    sync,       \* of each Sync: its pc, the changes it made to the store and those of
                \* them that it has sent
    blocksLock, \* its holder
    got,        \* of each Sync: how many of its events the consumer has received
    ready,      \* the consumer waits at EventCh
    done,       \* tokens in DoneCh
    synced,     \* the filter's synced flag
    wait        \* of each waiter: "idle", "before[0]" and "select[0]" with 0 for a duration
                \* of zero, then "synced", "token" or "timeout"

ASSUME FilterAssumption == MaxChanges \in Nat /\ Free \notin Syncer

filterVars == <<async, sync, blocksLock, got, ready, done, synced, wait>>
syncVars == <<async, sync, blocksLock, got, ready>>

\* mutant: DoneCh without a buffer.
DoneCap_None == 0

\* DoneCh is made with room for one token, EventCh with none.
DoneCap == 1

receiving == {w \in Waiter : wait[w] \in {"select", "select0"}}

\* A change of the store whose event is not sent yet.
pending(s) == sync[s].sent < sync[s].changes

-----------------------------------------------------------------------------
\* lock.Lock(), and Unlock() again if the Sync begins with a bulk part.
startSync(s) ==
    /\ sync[s].pc = "start" /\ blocksLock = Free
    /\ \/ sync' = [sync EXCEPT ![s].pc = "bulk"] /\ UNCHANGED blocksLock
       \/ sync' = [sync EXCEPT ![s].pc = "head"] /\ blocksLock' = s
    /\ UNCHANGED <<async, got, ready, done, synced, wait>>

\* StoreLogs or RemoveLogs of syncBatch, syncImpl or doFilter.
changeStore(s) ==
    /\ sync[s].pc \in {"bulk", "head"} /\ ~pending(s)
    /\ sync[s].changes < MaxChanges
    /\ sync' = [sync EXCEPT ![s].changes = @ + 1]
    /\ UNCHANGED <<async, blocksLock, got, ready, done, synced, wait>>

\* The send blocks until the consumer receives; for an asynchronous filter it is
\* dropped if the consumer does not wait for it.
emitEvent(s) ==
    /\ pending(s) /\ sync[s].pc \in {"bulk", "head"}
    /\ ready \/ async
    /\ sync' = [sync EXCEPT ![s].sent = @ + 1]
    /\ got' = IF ready THEN [got EXCEPT ![s] = @ + 1] ELSE got
    /\ ready' = FALSE
    /\ UNCHANGED <<async, blocksLock, done, synced, wait>>

\* The lock again, after the last round of the bulk part.
relock(s) ==
    /\ sync[s].pc = "bulk" /\ ~pending(s) /\ blocksLock = Free
    /\ sync' = [sync EXCEPT ![s].pc = "head"] /\ blocksLock' = s
    /\ UNCHANGED <<async, got, ready, done, synced, wait>>

\* syncImpl returns nil and the lock.
unlock(s) ==
    /\ sync[s].pc = "head" /\ ~pending(s)
    /\ sync' = [sync EXCEPT ![s].pc = "unlocked"] /\ blocksLock' = Free
    /\ UNCHANGED <<async, got, ready, done, synced, wait>>

\* syncImpl fails, with a change that it will not send if it is in doFilter: the
\* deferred function unlocks, Sync returns the error and tells nobody.
syncFails(s) ==
    /\ \/ sync[s].pc \in {"start", "bulk"} /\ ~pending(s) /\ UNCHANGED blocksLock
       \/ sync[s].pc = "head" /\ blocksLock' = Free
    /\ sync' = [sync EXCEPT ![s].pc = "failed"]
    /\ UNCHANGED <<async, got, ready, done, synced, wait>>

\* The send to DoneCh that does not block: a waiting receiver takes the token, or
\* the buffer does, or nobody.
sendDone(s) ==
    /\ sync[s].pc = "unlocked"
    /\ sync' = [sync EXCEPT ![s].pc = "done"]
    /\ \/ \E w \in receiving : wait' = [wait EXCEPT ![w] = "token"] /\ UNCHANGED done
       \/ receiving = {} /\ done < DoneCap /\ done' = done + 1 /\ UNCHANGED wait
       \/ receiving = {} /\ done = DoneCap /\ UNCHANGED <<done, wait>>
    /\ UNCHANGED <<async, blocksLock, got, ready, synced>>

setSynced(s) ==
    /\ sync[s].pc = "done"
    /\ sync' = [sync EXCEPT ![s].pc = "returned"]
    /\ synced' = TRUE
    /\ UNCHANGED <<async, blocksLock, got, ready, done, wait>>

-----------------------------------------------------------------------------
consume ==
    /\ ~ready /\ ready' = TRUE
    /\ UNCHANGED <<async, sync, blocksLock, got, done, synced, wait>>

\* The consumer turns to something else before an event comes.
lookAway ==
    /\ ready /\ ready' = FALSE
    /\ UNCHANGED <<async, sync, blocksLock, got, done, synced, wait>>

\* WaitDuration: the flag, then, as a step of its own, the select.
checkSynced(w) ==
    /\ wait[w] = "idle"
    /\ \/ synced /\ wait' = [wait EXCEPT ![w] = "synced"]
       \/ ~synced /\ \E s \in {"before", "before0"} : wait' = [wait EXCEPT ![w] = s]
    /\ UNCHANGED <<syncVars, done, synced>>

enterSelect(w) ==
    /\ \/ wait[w] = "before" /\ wait' = [wait EXCEPT ![w] = IF done > 0 THEN "token" ELSE "select"]
       \/ wait[w] = "before0" /\ wait' = [wait EXCEPT ![w] = IF done > 0 THEN "token" ELSE "select0"]
    /\ done' = IF done > 0 THEN done - 1 ELSE done
    /\ UNCHANGED <<syncVars, synced>>

\* The timer is armed for the duration zero only, that of Wait.
waitTimeout(w) ==
    /\ wait[w] \in {"before0", "select0"}
    /\ wait' = [wait EXCEPT ![w] = "timeout"]
    /\ UNCHANGED <<syncVars, done, synced>>

FilterInit ==
    /\ async \in BOOLEAN
    /\ sync = [s \in Syncer |-> [pc |-> "start", changes |-> 0, sent |-> 0]]
    /\ blocksLock = Free
    /\ got = [s \in Syncer |-> 0] /\ ready = FALSE
    /\ done = 0 /\ synced = FALSE
    /\ wait = [w \in Waiter |-> "idle"]

syncStep(s) ==
    \/ startSync(s) \/ changeStore(s) \/ emitEvent(s) \/ relock(s)
    \/ unlock(s) \/ syncFails(s) \/ sendDone(s) \/ setSynced(s)

waitStep(w) == checkSynced(w) \/ enterSelect(w) \/ waitTimeout(w)

FilterNext ==
    \/ \E s \in Syncer : syncStep(s)
    \/ consume \/ lookAway
    \/ \E w \in Waiter : waitStep(w)

FilterSpec == FilterInit /\ [][FilterNext]_filterVars

\* Goroutines run, timers fire and the consumer comes back to EventCh.
FilterFair ==
    /\ FilterSpec
    /\ \A s \in Syncer : WF_filterVars(syncStep(s))
    /\ WF_filterVars(consume)
    /\ \A w \in Waiter : WF_filterVars(waitStep(w))

-----------------------------------------------------------------------------
Finished == {s \in Syncer : sync[s].pc \in {"done", "returned"}}

(* A WaitDuration returns nil only after a Sync has returned nil, and by then *)
(* the consumer of a synchronous filter has received the event of every       *)
(* change that this Sync made to the store (emitEvent, DoneCh, synced).       *)
NilAfterSync ==
    (\E w \in Waiter : wait[w] \in {"token", "synced"}) =>
        \E s \in Finished : ~async => got[s] = sync[s].changes

(* After a Sync that returned nil, a waiter with a duration that still waits  *)
(* at DoneCh has lost the token to another waiter: a Sync that ends between a *)
(* waiter's test of `synced` and its receive does not pass unnoticed          *)
(* (DoneCh's buffer).  Where every Sync failed, it waits without a token.     *)
StrandedByAnother ==
    \A w \in Waiter : wait[w] = "select" =>
        Finished = {} \/ \E v \in Waiter : wait[v] = "token"

(* blocksLock is held by the Sync that is in its head part, sending or about  *)
(* to, and by none that has returned, with an error or without (the deferred  *)
(* Unlock of syncImpl).                                                       *)
LockWithHead ==
    \A s \in Syncer : (blocksLock = s) <=> (sync[s].pc = "head")

(* What the filter's channels promise, whatever order the Syncs, the consumer *)
(* and the waiters run in.                                                    *)
ChannelsSound == NilAfterSync /\ StrandedByAnother /\ LockWithHead

(* A WaitDuration ends: "WaitDuration waits for the filter to finish up to    *)
(* duration" (tracker.go:164).                                                *)
WaitEnds == \A w \in Waiter : wait[w] \in {"select", "select0"} ~> wait[w] \in {"token", "timeout"}
=============================================================================
