----------------------------- MODULE Preflight -----------------------------
(***************************************************************************)
(* preSyncCheck of the tracker (tracker/tracker.go): before it syncs, the  *)
(* tracker compares the genesis and the chain id of the provider with the  *)
(* two entries of its store, or writes them to an empty store.  Start and  *)
(* every Sync call it; a sync.Once runs it for the first of them and makes *)
(* the others wait.  A request or a store call may fail, and the process   *)
(* may stop and start again over the same store with another provider.     *)
(***************************************************************************)
EXTENDS Naturals

CONSTANTS
    Caller,     \* the goroutines of Start and of Sync
    Chain,      \* the chains of the providers: [genesis, id]
    Unset,      \* the value of a missing store entry, ""
    MaxStarts   \* bound: starts of the process

VARIABLES
    kv,         \* the store's entries: [genesis, id]
    provider,   \* the chain of the provider
    once,       \* preSyncOnce: "new", "running", "done"
    seen,       \* the entries as read by preSyncCheckImpl
    pc,         \* of each caller: "idle", its step in preSyncCheckImpl, "waiting", "nil", "error"
    ran,        \* the caller that runs the check
    starts      \* starts of the process

\* What a theorem assumes: a chain has a genesis and an id, and neither is the value of a
\* missing entry.
ASSUME ChainsNamed ==
    \A chain \in Chain : /\ chain = [genesis |-> chain.genesis, id |-> chain.id]
                         /\ chain.genesis # Unset /\ chain.id # Unset

preflightVars == <<kv, provider, once, seen, pc, ran, starts>>

at(c, s) == pc[c] = s
goto(c, s) == pc' = [pc EXCEPT ![c] = s]

\* The check ends for the caller that ran it; Do returns to it and frees the others.
finish(c, s) == goto(c, s) /\ once' = "done"

preSyncCheck(c) ==
    /\ at(c, "idle")
    /\ \/ once = "new" /\ once' = "running" /\ ran' = c /\ goto(c, "request")
       \/ once = "running" /\ goto(c, "waiting") /\ UNCHANGED <<once, ran>>
       \/ once = "done" /\ goto(c, "nil") /\ UNCHANGED <<once, ran>>
    /\ UNCHANGED <<kv, provider, seen, starts>>

\* The function of the others is not run: their err stays nil.
wake(c) ==
    /\ at(c, "waiting") /\ once = "done"
    /\ goto(c, "nil")
    /\ UNCHANGED <<kv, provider, once, seen, ran, starts>>

\* A request or a call of the store fails at one of the six places.
fail(c) ==
    /\ pc[c] \in {"request", "getGenesis", "getID", "setGenesis", "setID"}
    /\ finish(c, "error")
    /\ UNCHANGED <<kv, provider, seen, ran, starts>>

\* The two requests: genesis block and chain id of the provider.
request(c) ==
    /\ at(c, "request") /\ goto(c, "getGenesis")
    /\ UNCHANGED <<kv, provider, once, seen, ran, starts>>

getGenesis(c) ==
    /\ at(c, "getGenesis") /\ goto(c, "getID")
    /\ seen' = [seen EXCEPT !.genesis = kv.genesis]
    /\ UNCHANGED <<kv, provider, once, ran, starts>>

\* mutant: the chain id is not compared.
compare_GenesisOnly(c, s) ==
    IF s.genesis = Unset THEN goto(c, "setGenesis") /\ UNCHANGED once
    ELSE finish(c, IF s.genesis = provider.genesis THEN "nil" ELSE "error")

\* mutant: an entry without a chain id counts as empty.
compare_ByID(c, s) ==
    IF s.id = Unset THEN goto(c, "setGenesis") /\ UNCHANGED once
    ELSE finish(c, IF s = provider THEN "nil" ELSE "error")

\* A store with a genesis must agree with the provider in both entries.
compare(c, s) ==
    IF s.genesis = Unset THEN goto(c, "setGenesis") /\ UNCHANGED once
    ELSE finish(c, IF s = provider THEN "nil" ELSE "error")

getID(c) ==
    /\ at(c, "getID")
    /\ seen' = [seen EXCEPT !.id = kv.id]
    /\ compare(c, seen')
    /\ UNCHANGED <<kv, provider, ran, starts>>

setGenesis(c) ==
    /\ at(c, "setGenesis") /\ goto(c, "setID")
    /\ kv' = [kv EXCEPT !.genesis = provider.genesis]
    /\ UNCHANGED <<provider, once, seen, ran, starts>>

setID(c) ==
    /\ at(c, "setID") /\ finish(c, "nil")
    /\ kv' = [kv EXCEPT !.id = provider.id]
    /\ UNCHANGED <<provider, seen, ran, starts>>

\* The process stops and a new one starts with any provider.
restart ==
    /\ starts < MaxStarts /\ starts' = starts + 1
    /\ provider' \in Chain
    /\ once' = "new" /\ pc' = [c \in Caller |-> "idle"]
    /\ seen' = [genesis |-> Unset, id |-> Unset]
    /\ UNCHANGED <<kv, ran>>

PreflightInit ==
    /\ kv = [genesis |-> Unset, id |-> Unset]
    /\ provider \in Chain
    /\ once = "new" /\ seen = kv /\ starts = 1
    /\ pc = [c \in Caller |-> "idle"]
    /\ ran \in Caller

PreflightNext ==
    \/ \E c \in Caller :
         \/ preSyncCheck(c) \/ wake(c) \/ fail(c) \/ request(c) \/ getGenesis(c)
         \/ getID(c) \/ setGenesis(c) \/ setID(c)
    \/ restart

PreflightSpec == PreflightInit /\ [][PreflightNext]_preflightVars

-----------------------------------------------------------------------------
(* The caller whose check returned nil works on the chain that the store      *)
(* names, in genesis and in chain id, also after starts that failed or        *)
(* stopped between the two writes (preSyncCheckImpl).                         *)
CheckedMatches == once = "done" /\ at(ran, "nil") => kv = provider

\* What a step does to the entries of the store.
KeepsChain ==
    /\ kv.genesis # Unset => kv'.genesis = kv.genesis
    /\ kv.id # Unset => kv'.id = kv.id
    /\ kv'.id # Unset => kv' \in Chain

(* A store belongs to one chain: its genesis is never replaced, and its chain *)
(* id, once written, is that of a chain with this genesis (preSyncCheckImpl   *)
(* writes only to a store without a genesis).                                 *)
StoreKeepsChain == [][KeepsChain]_preflightVars
=============================================================================
