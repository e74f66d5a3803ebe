------------------------------- MODULE World -------------------------------
(***************************************************************************)
(* What the state database promises the EVM: one map from keys to values,  *)
(* the counters of the running transaction, and a stack of saved copies of *)
(* them to which the EVM may go back.  `base` is the map as the last       *)
(* committed transaction left it, which GetCommittedState reads.           *)
(***************************************************************************)
EXTENDS Integers, Sequences

CONSTANTS
    Key,        \* keys of the map
    KeyValue(_),\* values of a key
    KeysOf(_),  \* the keys that belong to an address
    Contract,   \* addresses
    Gone        \* the value of a key that has been deleted

VARIABLES
    now,    \* [data, dead, logs, refund]: the state as the EVM sees it
    saved,  \* the states that can be restored, oldest first
    base    \* the committed map

vars == <<now, saved, base>>

Fresh(data) == [data |-> data, dead |-> {}, logs |-> <<>>, refund |-> 0]

Init ==
    /\ DOMAIN base = Key /\ \A k \in Key : base[k] \in KeyValue(k)
    /\ now = Fresh(base)
    /\ saved = <<>>

\* One key is written.
Write(k) ==
    /\ \E v \in KeyValue(k) : now' = [now EXCEPT !.data[k] = v]
    /\ UNCHANGED <<saved, base>>

\* A log is added at the end.
Log ==
    /\ \E a \in Contract : now' = [now EXCEPT !.logs = Append(@, a)]
    /\ UNCHANGED <<saved, base>>

\* The refund counter changes and stays a natural number.
Refund ==
    /\ now'.refund >= 0
    /\ now' = [now EXCEPT !.refund = now'.refund]
    /\ UNCHANGED <<saved, base>>

\* A contract destroys itself: its account is written for the last time.
Destroy(a) ==
    /\ \E k \in KeysOf(a) : \E v \in KeyValue(k) :
         now' = [now EXCEPT !.data[k] = v, !.dead = @ \cup {a}]
    /\ UNCHANGED <<saved, base>>

Save ==
    /\ saved' = Append(saved, now)
    /\ UNCHANGED <<now, base>>

\* Back to the i-th saved state; it and those saved after it are dropped.
Restore(i) ==
    /\ now' = saved[i]
    /\ saved' = SubSeq(saved, 1, i - 1)
    /\ UNCHANGED base

\* The transaction ends: what destroyed itself is gone, the rest becomes the base.
Commit ==
    /\ base' = [k \in Key |-> IF \E a \in now.dead : k \in KeysOf(a)
                              THEN Gone ELSE now.data[k]]
    /\ now' = Fresh(base')
    /\ saved' = <<>>

Next ==
    \/ \E k \in Key : Write(k)
    \/ Log \/ Refund \/ Save \/ Commit
    \/ \E a \in Contract : Destroy(a)
    \/ \E i \in DOMAIN saved : Restore(i)

Spec == Init /\ [][Next]_vars
=============================================================================
