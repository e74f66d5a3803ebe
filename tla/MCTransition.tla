---------------------------- MODULE MCTransition ----------------------------
(* Instances of Transition for TLC.                                          *)
EXTENDS Transition

CONSTANTS alice, bob, miner

Accounts == {alice, bob, miner}
Balances == [a \in Accounts |-> IF a = miner THEN 0 ELSE IF a = alice THEN 3 ELSE 1]
=============================================================================
