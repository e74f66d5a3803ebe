----------------------------- MODULE MCTracker -----------------------------
(***************************************************************************)
(* A tree of blocks for Tracker: the trunk g, a1 .. a7, a branch b5 .. b7  *)
(* that leaves it after a4 and a branch c2, c3 that leaves it after a1.    *)
(* The head of the node only grows in height; it may change branches.      *)
(***************************************************************************)
EXTENDS Tracker

Branches == {<<"g", "a1", "a2", "a3", "a4", "a5", "a6", "a7">>,
             <<"g", "a1", "a2", "a3", "a4", "b5", "b6", "b7">>,
             <<"g", "a1", "c2", "c3">>}

MCBlock == UNION {{s[i] : i \in 1..Len(s)} : s \in Branches}
MCBranch ==
    [b \in MCBlock |->
        CHOOSE p \in UNION {{SubSeq(s, 1, i) : i \in 1..Len(s)} : s \in Branches} :
            p[Len(p)] = b]
MCHasLog == MCBlock \ {"a2"}

\* One reorg, from a5 to the longer branch of b.
OneReorg == {<<"a4", "a5">>, <<"a5", "a6">>, <<"a5", "b6">>}

\* The branches a and b take turns at being the longer one.
TwoReorgs ==
    OneReorg \cup {<<"a6", "a7">>, <<"a6", "b7">>, <<"b6", "b7">>, <<"b6", "a7">>}

\* A chain shorter than the backlog, with a reorg, and two leaps: for a list of three
\* blocks a6 is just near enough to a1 to be reached by its parents, a7 is not.
ShortChain == {<<"a1", "a2">>, <<"a2", "c3">>, <<"a1", "a6">>, <<"a1", "a7">>}

CONSTANTS f1, f2
NoFastStart == [f \in Filter |-> 0]
SecondFrom1 == [f \in Filter |-> IF f = f1 THEN 0 ELSE 1]
NoneAsync == {}
SecondAsync == {f2}
=============================================================================
