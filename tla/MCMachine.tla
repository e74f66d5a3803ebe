----------------------------- MODULE MCMachine -----------------------------
(***************************************************************************)
(* Frames for TLC: which codes, stacks, gas and forks the interpreter is   *)
(* started with, and what the world around the frame may answer.           *)
(***************************************************************************)
EXTENDS Machine, FiniteSets

\* Operand values: zero, small, across a word, the largest uint64 and the first word beyond.
Operand == {0, 1, 5, U64 - 1, U64}

\* Operand stacks, bottom first: every choice for up to three, at most two operands
\* that are not zero beyond that.
Stacks(n) ==
    IF n <= 3 THEN [1..n -> Operand]
    ELSE {[k \in 1..n |-> IF k = i THEN v ELSE IF k = j THEN w ELSE 0] :
             i \in 1..n, j \in 1..n, v \in Operand, w \in Operand}

\* PUSH2 of each operand.
pushes(s) == [i \in 1 .. 3 * Len(s) |->
                 LET v == s[(i + 2) \div 3]
                 IN  CASE i % 3 = 1 -> 97 [] i % 3 = 2 -> v \div 256 [] OTHER -> v % 256]

frame(code, gas, fork, readOnly) ==
    Frame([code |-> code, input |-> <<1, 2, 3>>, gas |-> gas, fork |-> fork, readOnly |-> readOnly])

\* Every instruction on every stack it accepts; and with an operand missing, on a full
\* stack, short of gas, read only, in the first fork and in the last.
zeros(n) == [i \in 1..n |-> 0]
Table == newYoloV2InstructionSet
pops(b) == IF b \in DOMAIN Table THEN Table[b].minStack ELSE 0
Single ==
    \E b \in {c \in DOMAIN Table : pops(c) <= StackLimit} : \E s \in Stacks(pops(b)) :
        m = frame(pushes(s) \o <<b>>, U64 - 1, "istanbul", FALSE)
Edge ==
    \E b \in 0..255, gas \in {30, U64 - 1}, fork \in {"frontier", "yoloV2"}, readOnly \in BOOLEAN :
        \E n \in {0, pops(b) - 1, pops(b), StackLimit} \cap 0..StackLimit :
            m = frame(pushes(zeros(n)) \o <<b>>, gas, fork, readOnly)

\* All short programs over jumps, pushes and their data.
Jumps == \E c \in [1..5 -> {96, 97, 86, 87, 91, 90, 0, 4}] : m = frame(c, 45, "istanbul", FALSE)
Subs  == \E c \in [1..5 -> {96, 92, 93, 94, 0, 2, 3}] : m = frame(c, 60, "yoloV2", FALSE)

\* Memory accesses one after another, of words and of bytes.
Grow ==
    \E a \in {0, 1, 7}, b \in {0, 3, 300}, c \in {2, 12, 361}, gas \in {40, 60, 3000} :
        m = frame(pushes(<<0, a>>) \o <<82>> \o pushes(<<0, b>>) \o <<83>> \o pushes(<<c>>) \o <<81, 89>>,
                  gas, "istanbul", FALSE)

\* A push of n bytes behind k others, in a code that ends before, at or after its data.
Aligned ==
    \E k \in 0..8, n \in {1, 2, 7, 8, 9, 15, 16, 17, 32}, d \in {0, 1, 6, 8, 10, 17, 33} :
        m = frame([i \in 1..k |-> 91] \o <<95 + n>> \o [i \in 1..d |-> 91], 0, "istanbul", FALSE)

MCInit == Single \/ Edge \/ Jumps \/ Subs \/ Grow \/ Aligned

\* What the frame may be told: balances, fees, the results of calls.
MCOutside ==
    {[word |-> 0, cost |-> 200, data |-> <<>>, ok |-> "err", left |-> 0, copies |-> FALSE, number |-> 3],
     [word |-> 9, cost |-> 5000, data |-> <<7, 8, 9>>, ok |-> "ok", left |-> 5000, copies |-> FALSE, number |-> 300],
     [word |-> 9, cost |-> 5000, data |-> <<7, 8>>, ok |-> "revert", left |-> 5, copies |-> FALSE, number |-> 256],
     [word |-> 1, cost |-> 300, data |-> <<>>, ok |-> "ok", left |-> 0, copies |-> TRUE, number |-> 257]}
=============================================================================
