------------------------------- MODULE Stores -------------------------------
(***************************************************************************)
(* The log entry of a filter in the three stores of the tracker            *)
(* (tracker/store/inmem, boltdb, postgresql): a growing list of logs whose *)
(* end is cut off when blocks are reverted.                                *)
(*                                                                         *)
(* The in-memory entry changes under its lock.  The other two write rows   *)
(* in a transaction of the database, a row at a time, after they have      *)
(* looked up the next index: bolt inside the transaction, whose lock is    *)
(* exclusive, PostgreSQL before it, with nothing that keeps another call   *)
(* from taking the same index.  A statement may fail and the process may   *)
(* stop between any two of them.                                           *)
(***************************************************************************)
EXTENDS Integers, Sequences, FiniteSets

CONSTANTS
    Writer,      \* goroutines that call StoreLogs and RemoveLogs
    Batch,       \* the batches of logs they store
    SliceValue,  \* what a field of a log that is a slice may hold
    NilSlice,    \* a nil slice
    MaxRows      \* bound: rows of the entry

\* A log: its block, its index in the block, its data and its topics.  An empty slice
\* is <<>>; `index` stands for the flag Removed too.
Log == [block : Nat, index : Nat, data : SliceValue, topics : SliceValue]

ASSUME StoresAssumption ==
    /\ \A batch \in Batch : batch \in Seq(Log)
    /\ NilSlice \in SliceValue /\ <<>> \in SliceValue
    /\ MaxRows \in Nat

VARIABLES
    kind,      \* the store in use
    rows,      \* the rows that are committed: <<index, column values>>
    txn,       \* the StoreLogs call of each writer
    told,      \* the logs that the calls which returned nil have left
    overlap    \* a call on a PostgreSQL entry was made while another was not over

storesVars == <<kind, rows, txn, told, overlap>>

StoreKinds == {"inmem", "bolt", "postgres"}
NoCall == [pc |-> "idle", batch |-> <<>>, indx |-> 0, rows |-> {}]

-----------------------------------------------------------------------------
\* What the columns hold: bolt keeps a Log's JSON, whose data is "0x" for nil and
\* for empty; PostgreSQL a text that is empty for nil data and for no topics, and
\* neither LogIndex nor Removed.
column(log) ==
    CASE kind = "inmem"    -> log
      [] kind = "bolt"     -> [log EXCEPT !.data = IF @ = NilSlice THEN <<>> ELSE @,
                                          !.topics = IF @ = NilSlice THEN <<>> ELSE @]
      [] kind = "postgres" -> [log EXCEPT !.topics = IF @ = NilSlice THEN <<>> ELSE @,
                                          !.index = 0]

\* The index after the last row, 0 if there is none.
LastIndex ==
    IF rows = {} THEN 0
    ELSE 1 + CHOOSE i \in {r[1] : r \in rows} : \A r \in rows : r[1] <= i

\* GetLog into a new Log: bolt decodes the JSON; PostgreSQL splits the topics, no text
\* being nil.
GetLog(i) ==
    LET log == (CHOOSE r \in rows : r[1] = i)[2]
    IN  IF kind = "postgres"
        THEN [log EXCEPT !.topics = IF @ = <<>> THEN NilSlice ELSE @]
        ELSE log

-----------------------------------------------------------------------------
endCall(w) == txn' = [txn EXCEPT ![w] = NoCall]

\* Another goroutine is inside a call.
others(w) == \E v \in Writer \ {w} : txn[v] # NoCall

\* inmem: the whole batch under the lock of the entry.
storeInmem(w, batch) ==
    /\ kind = "inmem" /\ txn[w] = NoCall
    /\ rows' = rows \cup {<<LastIndex + j - 1, column(batch[j])>> : j \in DOMAIN batch}
    /\ told' = told \o batch
    /\ UNCHANGED <<kind, txn, overlap>>

\* mutant: bolt's transaction is not exclusive.
beginBolt_Shared(w, batch) ==
    /\ kind = "bolt" /\ txn[w] = NoCall
    /\ txn' = [txn EXCEPT ![w] = [NoCall EXCEPT !.pc = "index", !.batch = batch]]
    /\ UNCHANGED <<kind, rows, told, overlap>>

\* bolt: Begin(true) waits for the writer before it.
beginBolt(w, batch) ==
    /\ kind = "bolt" /\ txn[w] = NoCall /\ ~others(w)
    /\ txn' = [txn EXCEPT ![w] = [NoCall EXCEPT !.pc = "index", !.batch = batch]]
    /\ UNCHANGED <<kind, rows, told, overlap>>

indexBolt(w) ==
    /\ txn[w].pc = "index"
    /\ txn' = [txn EXCEPT ![w].pc = "put", ![w].indx = LastIndex]
    /\ UNCHANGED <<kind, rows, told, overlap>>

\* PostgreSQL: the index, then Beginx.
indexPostgres(w, batch) ==
    /\ kind = "postgres" /\ txn[w] = NoCall
    /\ txn' = [txn EXCEPT ![w] = [pc |-> "begin", batch |-> batch, indx |-> LastIndex, rows |-> {}]]
    /\ overlap' = (overlap \/ others(w))
    /\ UNCHANGED <<kind, rows, told>>

beginPostgres(w) ==
    /\ txn[w].pc = "begin"
    /\ txn' = [txn EXCEPT ![w].pc = "put"]
    /\ UNCHANGED <<kind, rows, told, overlap>>

\* One row of the batch, in the transaction.
putRow(w) ==
    LET t == txn[w]
        n == Cardinality(t.rows)
    IN  /\ t.pc = "put" /\ n < Len(t.batch)
        /\ txn' = [txn EXCEPT ![w].rows = @ \cup {<<t.indx + n, column(t.batch[n + 1])>>}]
        /\ UNCHANGED <<kind, rows, told, overlap>>

commitTx(w) ==
    LET t == txn[w]
    IN  /\ t.pc = "put" /\ Cardinality(t.rows) = Len(t.batch)
        /\ rows' = rows \cup t.rows
        /\ told' = told \o t.batch
        /\ endCall(w)
        /\ UNCHANGED <<kind, overlap>>

\* A statement fails: the deferred Rollback drops the rows, the call returns the error.
failTx(w) ==
    /\ txn[w] # NoCall
    /\ endCall(w)
    /\ UNCHANGED <<kind, rows, told, overlap>>

\* RemoveLogs: a slice under the lock, a cursor in a write transaction, or one
\* statement, which does not see the rows of an open transaction.  The tracker's
\* indices are at most LastIndex.
RemoveLogs(w, i) ==
    /\ txn[w] = NoCall /\ i <= LastIndex
    /\ kind = "bolt" => ~others(w)
    /\ rows' = {r \in rows : r[1] < i}
    /\ told' = IF i < Len(told) THEN SubSeq(told, 1, i) ELSE told
    /\ overlap' = (overlap \/ others(w))
    /\ UNCHANGED <<kind, txn>>

\* The process stops; only the in-memory store forgets.
stop ==
    /\ txn' = [w \in Writer |-> NoCall]
    /\ rows' = IF kind = "inmem" THEN {} ELSE rows
    /\ told' = IF kind = "inmem" THEN <<>> ELSE told
    /\ UNCHANGED <<kind, overlap>>

StoresInit ==
    /\ kind \in StoreKinds
    /\ rows = {} /\ told = <<>> /\ overlap = FALSE
    /\ txn = [w \in Writer |-> NoCall]

\* Bounds: MaxRows rows, and no new call once two have overlapped.
StoresNext ==
    \/ \E w \in Writer :
         \/ \E batch \in Batch :
              /\ ~overlap /\ Len(told) + Len(batch) <= MaxRows
              /\ storeInmem(w, batch) \/ beginBolt(w, batch) \/ indexPostgres(w, batch)
         \/ indexBolt(w) \/ beginPostgres(w) \/ putRow(w) \/ commitTx(w) \/ failTx(w)
         \/ ~overlap /\ \E i \in 0..MaxRows : RemoveLogs(w, i)
    \/ stop

StoresSpec == StoresInit /\ [][StoresNext]_storesVars

-----------------------------------------------------------------------------
\* A nil slice and an empty one are the same to the tracker.
Same(x, y) == x = y \/ {x, y} = {NilSlice, <<>>}

(* An entry holds exactly the logs of the StoreLogs calls that returned nil,  *)
(* without those of the blocks removed since, in their order: the indices     *)
(* have no gap and none is used twice, and a failed or interrupted call       *)
(* leaves nothing (StoreLogs, RemoveLogs, LastIndex, GetLog of the three      *)
(* stores).  Each log is there whole, except that PostgreSQL gives back no    *)
(* LogIndex and no Removed.  Goroutines may call at the same time, but for    *)
(* PostgreSQL: there two calls that overlap take the same index               *)
(* (postgresql_store.go:111), and nothing is said of the entry from then on.  *)
EntryHolds ==
    /\ overlap => kind = "postgres"
    /\ ~overlap =>
         /\ LastIndex = Len(told)
         /\ Cardinality(rows) = Len(told)
         /\ \A i \in 1..Len(told) :
              LET got == GetLog(i - 1)
              IN  /\ got.block = told[i].block
                  /\ kind # "postgres" => got.index = told[i].index
                  /\ Same(got.data, told[i].data) /\ Same(got.topics, told[i].topics)
=============================================================================
