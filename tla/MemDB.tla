------------------------------- MODULE MemDB -------------------------------
(***************************************************************************)
(* The write sets of the state database: the skip list of                  *)
(* evm/storage/overlaydb/memdb.go, its iterator, the joined iterator of    *)
(* iterator.go and CleanContractStorageData of cachedb.go, which deletes   *)
(* while it iterates.                                                      *)
(*                                                                         *)
(* Keys are integers in the order of the comparer; a value is identified   *)
(* with its length, so 0 is the empty value, which marks a deleted key.    *)
(* p.node[0] is the head; kvData is abstracted to a key and a value per    *)
(* node.  randHeight is a choice.                                          *)
(***************************************************************************)
EXTENDS Integers, Sequences, FiniteSetsExt

CONSTANTS
    MaxKey,             \* keys are 1..MaxKey
    MaxHeight,          \* tMaxHeight
    RangeStart, RangeLimit, \* BytesPrefix of the iterators
    MaxPuts             \* bound: calls of Put

VARIABLES
    mem,   \* the MemDB of the CacheDB
    back,  \* the layer below, a MemDB too
    kv,    \* history: the map that mem stands for
    puts   \* history: number of Puts

KeyRange == 1..MaxKey
inRange(k) == k >= RangeStart /\ k < RangeLimit

NewMemDB == [node |-> [i \in {0} |-> [key |-> 0, val |-> 0, next |-> [h \in 1..MaxHeight |-> 0]]],
             maxHeight |-> 1, n |-> 0, kvSize |-> 0]

-----------------------------------------------------------------------------
\* findGE: level h of the search, from `node`; prev holds the nodes turned at.
RECURSIVE find(_, _, _, _, _)
find(p, key, node, h, prev) ==
    LET next == p.node[node].next[h]
        less == next # 0 /\ p.node[next].key < key
        same == next # 0 /\ p.node[next].key = key
    IN  IF less THEN find(p, key, next, h, prev)
        ELSE LET turned == [prev EXCEPT ![h] = node]
             IN  IF h = 1 THEN [node |-> next, exact |-> same, prev |-> turned]
                 ELSE find(p, key, node, h - 1, turned)

findGE(p, key) == find(p, key, 0, p.maxHeight, [h \in 1..MaxHeight |-> 0])

RECURSIVE before(_, _, _, _)
before(p, key, node, h) ==
    LET next == p.node[node].next[h]
    IN  IF next # 0 /\ p.node[next].key < key THEN before(p, key, next, h)
        ELSE IF h = 1 THEN node ELSE before(p, key, node, h - 1)

findLT(p, key) == before(p, key, 0, p.maxHeight)
findLast(p) == findLT(p, MaxKey + 1)

Get(p, key) ==
    LET f == findGE(p, key)
    IN  [unknown |-> ~f.exact, value |-> IF f.exact THEN p.node[f.node].val ELSE 0]

\* mutant: the search did not record the nodes it turned at.
linked_NotRecorded(p, prev, h) == [i \in 1..MaxHeight |-> 0]

\* The predecessors of a new node: the head on levels that were not in use.
linked(p, prev, h) ==
    [i \in 1..MaxHeight |-> IF i > p.maxHeight THEN 0 ELSE prev[i]]

\* Put with the height randHeight drew.  An existing node is overwritten in place.
Put(p, key, value, height) ==
    LET f == findGE(p, key)
        new == Cardinality(DOMAIN p.node)
        prev == linked(p, f.prev, height)
        links == [i \in 1..MaxHeight |-> IF i <= height THEN p.node[prev[i]].next[i] ELSE 0]
        relinked(j) == [p.node[j] EXCEPT !.next =
            [i \in 1..MaxHeight |-> IF i <= height /\ prev[i] = j THEN new ELSE p.node[j].next[i]]]
    IN  IF f.exact
        THEN [p EXCEPT !.node[f.node].val = value,
                       !.kvSize = @ + value - p.node[f.node].val]
        ELSE [node |-> [j \in DOMAIN p.node \cup {new} |->
                           IF j = new THEN [key |-> key, val |-> value, next |-> links]
                           ELSE relinked(j)],
              maxHeight |-> IF height > p.maxHeight THEN height ELSE p.maxHeight,
              n |-> p.n + 1,
              kvSize |-> p.kvSize + 1 + value]

\* ForEach: the keys and values in order, from a node of level one on.
RECURSIVE ForEach(_, _)
ForEach(p, node) ==
    IF node = 0 THEN <<>>
    ELSE <<<<p.node[node].key, p.node[node].val>>>> \o ForEach(p, p.node[node].next[1])

-----------------------------------------------------------------------------
\* dbIter over the range [RangeStart, RangeLimit); node 0 is "not valid".
NewIterator == [node |-> 0, forward |-> FALSE]

fill(p, node, forward, checkStart, checkLimit) ==
    LET outside == \/ checkLimit /\ p.node[node].key >= RangeLimit
                   \/ checkStart /\ p.node[node].key < RangeStart
    IN  [node |-> IF node # 0 /\ outside THEN 0 ELSE node, forward |-> forward]

Seek(p, key) ==
    fill(p, findGE(p, IF key < RangeStart THEN RangeStart ELSE key).node, TRUE, FALSE, TRUE)
First(p) == Seek(p, RangeStart)
Last(p) == fill(p, findLT(p, RangeLimit), FALSE, TRUE, FALSE)

IterNext(p, i) ==
    IF i.node # 0 THEN fill(p, p.node[i.node].next[1], TRUE, FALSE, TRUE)
    ELSE IF i.forward THEN i ELSE First(p)

IterPrev(p, i) ==
    IF i.node # 0 THEN fill(p, findLT(p, p.node[i.node].key), FALSE, TRUE, FALSE)
    ELSE IF i.forward THEN Last(p) ELSE i

-----------------------------------------------------------------------------
\* JoinIter: j.mem and j.back are the two iterators, 0 is the nil key.
KeyAt(p, i) == p.node[i.node].key
ValueAt(p, i) == p.node[i.node].val

Yield(j, m, b, origin) ==
    [j EXCEPT !.origin = origin, !.ok = TRUE,
              !.key   = IF origin = "back" THEN KeyAt(b, j.back) ELSE KeyAt(m, j.mem),
              !.value = IF origin = "back" THEN ValueAt(b, j.back) ELSE ValueAt(m, j.mem)]

smaller(m, b, j) ==
    CASE KeyAt(m, j.mem) < KeyAt(b, j.back) -> "mem"
      [] KeyAt(m, j.mem) = KeyAt(b, j.back) -> "both"
      [] OTHER                              -> "back"

joinFirst(m, b) ==
    LET j == [mem |-> First(m), back |-> First(b), key |-> 0, value |-> 0, ok |-> FALSE,
              origin |-> "mem", memEnd |-> FALSE, backEnd |-> FALSE]
    IN  CASE j.back.node # 0 /\ j.mem.node = 0 -> Yield(j, m, b, "back")
          [] j.back.node # 0 /\ j.mem.node # 0 -> Yield(j, m, b, smaller(m, b, j))
          [] j.back.node = 0 /\ j.mem.node # 0 -> Yield(j, m, b, "mem")
          [] OTHER                             -> j

\* next: an iterator that was empty from the start is found to be at its end
\* only here, after its nil key has been yielded once with no value.
joinNext(m, b, j0) ==
    LET stepMem  == j0.origin \in {"mem", "both"} /\ ~j0.memEnd
        stepBack == j0.origin \in {"back", "both"} /\ ~j0.backEnd
        mi == IF stepMem THEN IterNext(m, j0.mem) ELSE j0.mem
        bi == IF stepBack THEN IterNext(b, j0.back) ELSE j0.back
        j  == [j0 EXCEPT !.mem = mi, !.back = bi,
                         !.memEnd  = IF stepMem THEN mi.node = 0 ELSE @,
                         !.backEnd = IF stepBack THEN bi.node = 0 ELSE @]
    IN  CASE j.backEnd /\ j.memEnd   -> [j EXCEPT !.ok = FALSE, !.key = 0, !.value = 0]
          [] j.backEnd /\ ~j.memEnd  -> Yield(j, m, b, "mem")
          [] ~j.backEnd /\ j.memEnd  -> Yield(j, m, b, "back")
          [] OTHER                   -> Yield(j, m, b, smaller(m, b, j))

\* First and Next skip what has no value.
RECURSIVE skipEmpty(_, _, _)
skipEmpty(m, b, j) ==
    IF j.ok /\ j.value = 0 THEN skipEmpty(m, b, joinNext(m, b, j)) ELSE j

JoinFirst(m, b) == skipEmpty(m, b, joinFirst(m, b))
JoinNext(m, b, j) == skipEmpty(m, b, joinNext(m, b, j))

RECURSIVE drain(_, _, _)
drain(m, b, j) ==
    IF ~j.ok THEN <<>> ELSE <<<<j.key, j.value>>>> \o drain(m, b, JoinNext(m, b, j))

\* What a loop over NewIterator sees.
Joined(m, b) == drain(m, b, JoinFirst(m, b))

\* CleanContractStorageData: each key is deleted from mem before the next step
\* of the iterator, which reads the list it is deleted from (or inserted into).
RECURSIVE clean(_, _, _, _)
clean(m, b, j, height) ==
    IF ~j.ok THEN m
    ELSE LET after(m1) == clean(m1, b, JoinNext(m1, b, j), height)
         IN  after(Put(m, j.key, 0, height))

Cleaned(m, b, height) == clean(m, b, JoinFirst(m, b), height)

-----------------------------------------------------------------------------
\* Backends with every subset of the keys of the range, some of them with deletion
\* marks, between keys outside of it.
RECURSIVE filled(_, _)
filled(f, k) == IF k = 0 THEN NewMemDB
                ELSE IF f[k] = 2 THEN filled(f, k - 1)
                ELSE Put(filled(f, k - 1), k, f[k], 1)

Backends == {f \in [KeyRange -> 0..2] : \A k \in KeyRange : inRange(k) \/ f[k] = 1}

MemInit ==
    /\ mem = NewMemDB
    /\ back \in {filled(f, MaxKey) : f \in Backends}
    /\ kv = <<>> /\ puts = 0

memPut(key, value, height) ==
    /\ puts < MaxPuts
    /\ mem' = Put(mem, key, value, height)
    /\ kv' = [k \in DOMAIN kv \cup {key} |-> IF k = key THEN value ELSE kv[k]]
    /\ puts' = puts + 1
    /\ UNCHANGED back

MemNext ==
    \E key \in KeyRange, value \in 0..1, height \in 1..MaxHeight : memPut(key, value, height)

memVars == <<mem, back, kv, puts>>

-----------------------------------------------------------------------------
RECURSIVE ascending(_)
ascending(S) == IF S = {} THEN <<>> ELSE <<Min(S)>> \o ascending(S \ {Min(S)})

(* Whatever the order and the heights of the insertions, the skip list is the *)
(* map of its Puts: Get finds every key, ForEach visits them in order, and    *)
(* the counters are those of the map.                                         *)
SkipListIsMap ==
    /\ \A k \in KeyRange :
         Get(mem, k) = IF k \in DOMAIN kv THEN [unknown |-> FALSE, value |-> kv[k]]
                       ELSE [unknown |-> TRUE, value |-> 0]
    /\ LET ks == ascending(DOMAIN kv)
       IN  ForEach(mem, mem.node[0].next[1]) = [i \in DOMAIN ks |-> <<ks[i], kv[ks[i]]>>]
    /\ mem.n = Cardinality(DOMAIN kv)
    /\ mem.kvSize = mem.n + Cardinality({k \in DOMAIN kv : kv[k] = 1})

(* The joined iterator yields exactly the keys of the range that have a value *)
(* in the upper layer, or in the lower one and no entry in the upper: in      *)
(* order, once each, also when a layer is empty or ends first.                *)
JoinIsMerge ==
    LET merged(k) == IF k \in DOMAIN kv THEN kv[k] ELSE Get(back, k).value
        ks == ascending({k \in KeyRange : inRange(k) /\ merged(k) # 0})
    IN  Joined(mem, back) = [i \in DOMAIN ks |-> <<ks[i], merged(ks[i])>>]

(* After CleanContractStorageData no key of the range is left, although the   *)
(* loop deletes from the list it iterates over; keys outside the range keep   *)
(* their values.                                                              *)
CleanErases ==
    \A h \in 1..MaxHeight :
        \E m \in {Cleaned(mem, back, h)} :
            /\ Joined(m, back) = <<>>
            /\ \A k \in KeyRange : ~inRange(k) => Get(m, k) = Get(mem, k)

(* Wherever an iterator stands, it moves to the neighbour in its range: Next   *)
(* to the least greater key, Prev to the greatest smaller one, from either end *)
(* back in, Seek to the first key not below its argument.                      *)
IterMoves ==
    LET inside == {k \in DOMAIN kv : inRange(k)}
        least(S) == IF S = {} THEN 0 ELSE Min(S)
        most(S) == IF S = {} THEN 0 ELSE Max(S)
        at(i) == mem.node[i.node].key
        valid == {node \in DOMAIN mem.node : node # 0 /\ inRange(mem.node[node].key)}
    IN  /\ at(First(mem)) = least(inside) /\ at(Last(mem)) = most(inside)
        /\ at(IterNext(mem, NewIterator)) = least(inside)
        /\ mem.node[findLast(mem)].key = most(DOMAIN kv)
        /\ \A k \in KeyRange : at(Seek(mem, k)) = least({l \in inside : l >= k})
        /\ \A i \in [node : valid, forward : BOOLEAN] :
             /\ at(IterNext(mem, i)) = least({k \in inside : k > at(i)})
             /\ at(IterPrev(mem, i)) = most({k \in inside : k < at(i)})
        /\ \A i \in [node : {0}, forward : BOOLEAN] :
             /\ at(IterNext(mem, i)) = IF i.forward THEN 0 ELSE least(inside)
             /\ at(IterPrev(mem, i)) = IF i.forward THEN most(inside) ELSE 0
=============================================================================
