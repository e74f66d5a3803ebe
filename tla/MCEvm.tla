------------------------------- MODULE MCEvm -------------------------------
(* An instance of Evm for TLC.                                               *)
EXTENDS Evm, TLC

CONSTANTS origin, contract, fresh, sha

Accounts == {origin, contract, fresh, sha}

acc(n, b, code) == [nonce |-> n, balance |-> b, code |-> code, hashed |-> TRUE]

\* What RemoteDB reads: every account, and its code hash, is there.
Remote ==
    [key \in {<<a>> : a \in Accounts} \cup (Accounts \X Slot) |->
        IF Len(key) = 2 THEN IF key[1] = contract THEN 1 ELSE 0
        ELSE IF key[1] = contract THEN acc(1, 1, TRUE)
        ELSE acc(0, IF key[1] = origin THEN 1 ELSE 0, FALSE)]

\* Nothing yet; the contract's slot cleared; a contract created at `fresh`.
Committed ==
    {<<>>,
     <<contract, 1>> :> 0,
     (<<fresh>> :> acc(1, 0, TRUE)) @@ (<<fresh, 1>> :> 1) @@ (<<origin>> :> acc(1, 1, FALSE))}
=============================================================================
