-------------------------- MODULE Transition_proof --------------------------
(***************************************************************************)
(* Proofs about Transition: no balance of the executor underflows, its gas *)
(* counters do not wrap, every transaction that is not rejected advances   *)
(* its sender's nonce by one, and funds move without being made or lost.   *)
(* IInv is the inductive invariant; PartOK is what it adds to the          *)
(* properties.                                                             *)
(***************************************************************************)
EXTENDS Transition, Sums_lemmas

(* What buyGas buys from a sender that cannot pay the limit is less than the *)
(* limit and costs no more than the sender has.                              *)
LEMMA Quotient ==
    ASSUME NEW h \in Nat, NEW p \in Nat, NEW g \in Nat, h < g * p
    PROVE  /\ h \div p \in Nat
           /\ h \div p <= h
           /\ h \div p < g
<1>1. p > 0
  BY SMTT(30)
<1> DEFINE q == h \div p
<1>2. q \in Int /\ q * p <= h /\ h < q * p + p
  BY <1>1, SMTT(30)
<1>3. q >= 0
  BY <1>1, <1>2, SMTT(30)
<1>4. q <= h
  BY <1>1, <1>2, <1>3, SMTT(30)
<1>5. q < g
  <2>1. SUFFICES ASSUME q >= g PROVE FALSE
    BY <1>2
  <2>2. q * p >= g * p
    BY <1>1, <1>2, <2>1, SMTT(30)
  <2>3. QED
    BY <1>1, <1>2, <2>2, SMTT(30)
<1>6. QED
  BY <1>2, <1>3, <1>4, <1>5

(* A gas counter below Word is its own remainder. *)
LEMMA SmallMod ==
    ASSUME NEW w \in Nat \ {0}, NEW x \in 0..(w - 1)
    PROVE  x % w = x
<1> DEFINE r == x % w
           q == x \div w
<1>1. q \in Int /\ r \in 0..(w - 1) /\ x = w * q + r
  BY SMTT(30)
<1>2. q = 0
  <2>1. ~(q >= 1)
    BY <1>1, SMTT(30)
  <2>2. ~(q <= -1)
    BY <1>1, SMTT(30)
  <2>3. QED
    BY <1>1, <2>1, <2>2
<1>3. QED
  BY <1>1, <1>2, SMTT(30)

LEMMA MessageType ==
    ASSUME NEW m \in Message
    PROVE  /\ m.from \in Addr /\ m.price \in Nat /\ m.value \in Nat /\ m.data \in Nat
           /\ m.gas \in 0..(Word - 1)
BY TransitionAssumption DEF Message

(* A transfer between accounts keeps balances natural numbers when the payer *)
(* has the amount, and AddBalance always does.                               *)
LEMMA BalanceOps ==
    ASSUME NEW b \in [Addr -> Nat], NEW a \in Addr, NEW v \in Nat
    PROVE  /\ AddBalance(b, a, v) \in [Addr -> Nat]
           /\ b[a] >= v => SubBalance(b, a, v) \in [Addr -> Nat]
           /\ \A to \in Addr : b[a] >= v => Transfer(b, a, to, v) \in [Addr -> Nat]
<1>1. AddBalance(b, a, v) \in [Addr -> Nat]
  BY DEF AddBalance
<1>2. ASSUME b[a] >= v PROVE SubBalance(b, a, v) \in [Addr -> Nat]
  <2>1. b[a] - v \in Nat
    BY <1>2
  <2>2. QED
    BY <2>1 DEF SubBalance
<1>3. ASSUME NEW to \in Addr, b[a] >= v PROVE Transfer(b, a, to, v) \in [Addr -> Nat]
  <2>1. SubBalance(b, a, v) \in [Addr -> Nat]
    BY <1>2, <1>3
  <2>2. QED
    BY <2>1 DEF Transfer, AddBalance
<1>4. QED
  BY <1>1, <1>2, <1>3

LEMMA InitOK == Init => IInv
<1> SUFFICES ASSUME Init PROVE IInv
  OBVIOUS
<1>1. TypeOK
  <2>1. balance \in [Addr -> Nat] /\ nonce \in [Addr -> 0..MaxNonce]
    BY TransitionAssumption DEF Init
  <2>2. refund \in Nat /\ before \in 0..MaxNonce
    BY TransitionAssumption DEF Init
  <2>3. gas \in 0..(Word - 1) /\ initialGas \in 0..(Word - 1)
    BY TransitionAssumption DEF Init
  <2>4. QED
    BY <2>1, <2>2, <2>3, Zenon DEF Init, TypeOK
<1>2. QED
  BY <1>1 DEF Init, IInv, GasWithinPurchase, NonceOnce, PartOK

LEMMA ExecuteStep ==
    ASSUME IInv, NEW m \in Message, ExecuteTransaction(m)
    PROVE  IInv'
<1>1. m.from \in Addr
  BY MessageType
<1>2. TypeOK'
  <2>1. refund' \in Nat /\ gas' \in 0..(Word - 1) /\ initialGas' \in 0..(Word - 1)
    BY TransitionAssumption DEF ExecuteTransaction
  <2>2. before' \in 0..MaxNonce
    BY <1>1 DEF IInv, TypeOK, ExecuteTransaction
  <2>3. QED
    BY <2>1, <2>2, Zenon DEF IInv, TypeOK, ExecuteTransaction
<1>3. GasWithinPurchase' /\ NonceOnce'
  BY DEF ExecuteTransaction, GasWithinPurchase, NonceOnce
<1>4. PartOK'
  BY <1>1 DEF IInv, TypeOK, ExecuteTransaction, PartOK, nonceRefused
<1>5. QED
  BY <1>2, <1>3, <1>4 DEF IInv

LEMMA RejectStep ==
    ASSUME IInv, rejectNonce
    PROVE  IInv'
<1>1. TypeOK'
  BY DEF IInv, TypeOK, rejectNonce
<1>2. QED
  BY <1>1 DEF IInv, rejectNonce, GasWithinPurchase, NonceOnce, PartOK

LEMMA BuyStep ==
    ASSUME IInv, buyGas
    PROVE  IInv'
<1> DEFINE c == charge(balance[msg.from], msg.gas * msg.price)
<1>1. msg \in Message /\ pc = "preCheck" /\ gas = 0
  BY DEF IInv, PartOK, buyGas
<1>2. /\ msg.from \in Addr /\ msg.price \in Nat /\ msg.gas \in 0..(Word - 1)
      /\ balance \in [Addr -> Nat] /\ balance[msg.from] \in Nat /\ Word \in Nat \ {0}
  BY <1>1, MessageType, TransitionAssumption DEF IInv, TypeOK
<1>3. c.gas \in 0..(Word - 1) /\ c.mgval \in Nat /\ c.mgval <= balance[msg.from]
  <2>1. CASE balance[msg.from] < msg.gas * msg.price
    <3> DEFINE q == balance[msg.from] \div msg.price
    <3>1. q \in Nat /\ q <= balance[msg.from] /\ q < msg.gas
      BY <1>2, <2>1, Quotient
    <3>2. c = [gas |-> q, mgval |-> q]
      BY <2>1 DEF charge
    <3> HIDE DEF q
    <3>3. QED
      BY <1>2, <3>1, <3>2
  <2>2. CASE ~(balance[msg.from] < msg.gas * msg.price)
    <3>1. c = [gas |-> msg.gas, mgval |-> msg.gas * msg.price]
      BY <2>2 DEF charge
    <3>2. msg.gas * msg.price \in Nat
      BY <1>2
    <3>3. QED
      BY <1>2, <2>2, <3>1, <3>2
  <2>3. QED
    BY <2>1, <2>2
<1> HIDE DEF c
<1>4. /\ gas' = (gas + c.gas) % Word /\ initialGas' = c.gas
      /\ balance' = SubBalance(balance, msg.from, c.mgval)
      /\ pc' = "intrinsic" /\ ~nonceRefused
      /\ UNCHANGED <<nonce, refund, msg, vmerr, before>>
  BY DEF buyGas, c
<1>5. gas' = c.gas
  <2>1. gas + c.gas = c.gas
    BY <1>1, <1>3
  <2>2. QED
    BY <1>2, <1>3, <1>4, <2>1, SmallMod
<1>6. balance' \in [Addr -> Nat]
  BY <1>2, <1>3, <1>4, BalanceOps
<1>7. TypeOK'
  BY <1>3, <1>4, <1>5, <1>6 DEF IInv, TypeOK
<1>8. GasWithinPurchase'
  BY <1>3, <1>4, <1>5 DEF GasWithinPurchase
<1>9. NonceOnce' /\ PartOK'
  BY <1>1, <1>4 DEF IInv, NonceOnce, PartOK
<1>10. QED
  BY <1>7, <1>8, <1>9 DEF IInv

LEMMA IntrinsicStep ==
    ASSUME IInv, takeIntrinsicGas
    PROVE  IInv'
<1>1. msg \in Message /\ pc = "intrinsic"
  BY DEF IInv, PartOK, takeIntrinsicGas
<1>2. IntrinsicGas \in Nat /\ msg.value \in Nat
  BY <1>1, MessageType, TransitionAssumption DEF IntrinsicGas
<1>3. gas' \in 0..gas
  BY <1>2 DEF takeIntrinsicGas, IInv, TypeOK
<1>4. TypeOK'
  <2>1. gas' \in 0..(Word - 1)
    BY <1>3, TransitionAssumption DEF IInv, TypeOK
  <2>2. vmerr' \in BOOLEAN
    BY Zenon DEF takeIntrinsicGas, unpayable
  <2>3. QED
    BY <2>1, <2>2, Zenon DEF IInv, TypeOK, takeIntrinsicGas
<1>5. GasWithinPurchase'
  BY <1>3 DEF IInv, TypeOK, GasWithinPurchase, takeIntrinsicGas
<1>6. NonceOnce'
  BY DEF NonceOnce, takeIntrinsicGas
<1>7. PartOK'
  <2>1. ~vmerr' => CanTransfer(msg.from, msg.value)
    <3>1. msg.value = 0 => CanTransfer(msg.from, msg.value)
      BY <1>1, MessageType DEF IInv, TypeOK, CanTransfer
    <3>2. msg.value = 0 \/ msg.value > 0
      BY <1>2
    <3>3. QED
      BY <3>1, <3>2, Zenon DEF takeIntrinsicGas, unpayable
  <2>2. CanTransfer(msg.from, msg.value)' <=> CanTransfer(msg.from, msg.value)
    BY Zenon DEF CanTransfer, takeIntrinsicGas
  <2>3. QED
    BY <1>1, <2>1, <2>2 DEF IInv, PartOK, takeIntrinsicGas
<1>8. QED
  BY <1>4, <1>5, <1>6, <1>7 DEF IInv

(* The nonce when the EVM returns: create has advanced it, since the balance *)
(* that PartOK speaks of covers the value.                                   *)
LEMMA RunNonce ==
    ASSUME IInv, pc = "run"
    PROVE  /\ msg \in Message /\ msg.from \in Addr
           /\ [nonce EXCEPT ![msg.from] = @ + 1] \in [Addr -> 0..MaxNonce]
           /\ [nonce EXCEPT ![msg.from] = @ + 1][msg.from] = before + 1
           /\ ~vmerr => nonceAfterRun = [nonce EXCEPT ![msg.from] = @ + 1]
<1>1. msg \in Message /\ nonce[msg.from] = before /\ before < MaxNonce
  BY DEF IInv, PartOK
<1>2. msg.from \in Addr /\ nonce \in [Addr -> 0..MaxNonce] /\ MaxNonce \in Nat
  BY <1>1, MessageType, TransitionAssumption DEF IInv, TypeOK
<1>3. nonce[msg.from] + 1 \in 0..MaxNonce
  BY <1>1, <1>2
<1>4. ~vmerr => nonceAfterRun = [nonce EXCEPT ![msg.from] = @ + 1]
  BY Zenon DEF IInv, PartOK, nonceAfterRun
<1>5. QED
  BY <1>1, <1>2, <1>3, <1>4

LEMMA SkipStep ==
    ASSUME IInv, skip
    PROVE  IInv'
<1>1. /\ msg \in Message /\ nonce' \in [Addr -> 0..MaxNonce]
      /\ nonce'[msg.from] = before + 1
  BY RunNonce DEF skip
<1>2. TypeOK'
  BY <1>1, Zenon DEF IInv, TypeOK, skip
<1>3. GasWithinPurchase' /\ NonceOnce' /\ PartOK'
  BY <1>1 DEF IInv, GasWithinPurchase, NonceOnce, PartOK, skip
<1>4. QED
  BY <1>2, <1>3 DEF IInv

LEMMA FailStep ==
    ASSUME IInv, runFails
    PROVE  IInv'
<1>1. /\ msg \in Message /\ nonce' \in [Addr -> 0..MaxNonce]
      /\ nonce'[msg.from] = before + 1
  BY RunNonce DEF runFails
<1>2. gas' \in 0..(Word - 1) /\ gas' <= gas
  BY TransitionAssumption DEF IInv, TypeOK, runFails
<1>3. TypeOK'
  BY <1>1, <1>2, Zenon DEF IInv, TypeOK, runFails
<1>4. GasWithinPurchase'
  BY <1>2 DEF IInv, TypeOK, GasWithinPurchase, runFails
<1>5. NonceOnce' /\ PartOK'
  BY <1>1 DEF NonceOnce, PartOK, runFails
<1>6. QED
  BY <1>3, <1>4, <1>5 DEF IInv

LEMMA SucceedStep ==
    ASSUME IInv, runSucceeds
    PROVE  IInv'
<1>1. /\ msg \in Message /\ msg.from \in Addr /\ nonce' \in [Addr -> 0..MaxNonce]
      /\ nonce'[msg.from] = before + 1
  BY RunNonce DEF runSucceeds
<1>2. gas' \in 0..(Word - 1) /\ gas' <= gas /\ refund' \in Nat
  BY TransitionAssumption DEF IInv, TypeOK, runSucceeds
<1>3. balance' \in [Addr -> Nat]
  <2>1. PICK to \in recipients, a \in Addr, b \in Addr, v \in Values :
          /\ Transfer(balance, msg.from, to, msg.value)[a] >= v
          /\ balance' = Transfer(Transfer(balance, msg.from, to, msg.value), a, b, v)
    BY Zenon DEF runSucceeds
  <2>2. to \in Addr /\ v \in Nat /\ msg.value \in Nat
    <3>1. msg.to \in Addr \cup {Nil}
      BY <1>1 DEF Message
    <3>2. QED
      BY <1>1, <3>1, MessageType, TransitionAssumption DEF recipients
  <2>3. balance[msg.from] >= msg.value /\ balance \in [Addr -> Nat]
    BY DEF runSucceeds, CanTransfer, IInv, TypeOK
  <2>4. Transfer(balance, msg.from, to, msg.value) \in [Addr -> Nat]
    BY <1>1, <2>2, <2>3, BalanceOps
  <2>5. QED
    BY <2>1, <2>2, <2>4, BalanceOps
<1>4. TypeOK'
  BY <1>1, <1>2, <1>3, Zenon DEF IInv, TypeOK, runSucceeds
<1>5. GasWithinPurchase'
  BY <1>2 DEF IInv, TypeOK, GasWithinPurchase, runSucceeds
<1>6. NonceOnce' /\ PartOK'
  BY <1>1 DEF NonceOnce, PartOK, runSucceeds
<1>7. QED
  BY <1>4, <1>5, <1>6 DEF IInv

(* Half of the gas used, or less, comes back: the counter stays within what *)
(* was bought.                                                              *)
LEMMA RefundFits ==
    ASSUME IInv
    PROVE  /\ gasUsed = initialGas - gas /\ gasUsed \in 0..(Word - 1)
           /\ gasBack \in Nat /\ gas + gasBack <= initialGas
           /\ (gas + gasBack) % Word = gas + gasBack
<1>1. /\ gas \in 0..(Word - 1) /\ initialGas \in 0..(Word - 1) /\ gas <= initialGas
      /\ refund \in Nat /\ Word \in Nat \ {0}
  BY TransitionAssumption DEF IInv, TypeOK, GasWithinPurchase
<1>2. initialGas - gas \in 0..(Word - 1)
  BY <1>1
<1>3. gasUsed = initialGas - gas
  BY <1>1, <1>2, SmallMod DEF gasUsed
<1>4. gasBack \in Nat /\ gasBack <= gasUsed
  <2>1. gasUsed \in Nat
    BY <1>2, <1>3
  <2>2. gasUsed \div 2 \in Nat /\ gasUsed \div 2 <= gasUsed
    BY <2>1
  <2>3. QED
    BY <1>1, <2>1, <2>2 DEF gasBack
<1>5. gas + gasBack <= initialGas /\ gas + gasBack \in 0..(Word - 1)
  BY <1>1, <1>3, <1>4
<1>6. (gas + gasBack) % Word = gas + gasBack
  BY <1>1, <1>5, SmallMod
<1>7. QED
  BY <1>2, <1>3, <1>4, <1>5, <1>6

LEMMA RefundStep ==
    ASSUME IInv, refundGas
    PROVE  IInv'
<1>1. msg \in Message /\ pc = "refund" /\ nonce[msg.from] = before + 1
  BY DEF IInv, PartOK, NonceOnce, refundGas
<1>2. gas' \in 0..(Word - 1) /\ gas' <= initialGas
  BY RefundFits, TransitionAssumption DEF IInv, TypeOK, refundGas
<1>3. balance' \in [Addr -> Nat]
  <2>1. msg.from \in Addr /\ gas' * msg.price \in Nat
    BY <1>1, <1>2, MessageType
  <2>2. QED
    BY <2>1, BalanceOps DEF IInv, TypeOK, refundGas
<1>4. TypeOK'
  BY <1>2, <1>3, Zenon DEF IInv, TypeOK, refundGas
<1>5. GasWithinPurchase' /\ NonceOnce' /\ PartOK'
  BY <1>1, <1>2 DEF GasWithinPurchase, NonceOnce, PartOK, refundGas
<1>6. QED
  BY <1>4, <1>5 DEF IInv

LEMMA FeeStep ==
    ASSUME IInv, payFee
    PROVE  IInv'
<1>1. msg \in Message
  BY DEF IInv, PartOK, payFee
<1>2. balance' \in [Addr -> Nat]
  <2>1. gasUsed * msg.price \in Nat
    BY <1>1, RefundFits, MessageType
  <2>2. QED
    BY <2>1, BalanceOps, TransitionAssumption DEF IInv, TypeOK, payFee
<1>3. TypeOK'
  BY <1>2, Zenon DEF IInv, TypeOK, payFee
<1>4. GasWithinPurchase' /\ NonceOnce' /\ PartOK'
  BY DEF IInv, GasWithinPurchase, NonceOnce, PartOK, payFee
<1>5. QED
  BY <1>3, <1>4 DEF IInv

LEMMA StutterStep ==
    ASSUME IInv, UNCHANGED vars
    PROVE  IInv'
<1>1. TypeOK' /\ GasWithinPurchase' /\ NonceOnce'
  BY Zenon DEF IInv, TypeOK, GasWithinPurchase, NonceOnce, vars
<1>2. PartOK'
  BY Zenon DEF IInv, PartOK, nonceRefused, CanTransfer, vars
<1>3. QED
  BY <1>1, <1>2 DEF IInv

(* IInv is an inductive invariant of the executor. *)
THEOREM Invariance == Spec => []IInv
<1>1. Init => IInv
  BY InitOK
<1>2. IInv /\ [Next]_vars => IInv'
  <2> SUFFICES ASSUME IInv, [Next]_vars PROVE IInv'
    OBVIOUS
  <2>1. ASSUME NEW m \in Message, ExecuteTransaction(m) PROVE IInv'
    BY <2>1, ExecuteStep
  <2>2. QED
    BY <2>1, RejectStep, BuyStep, IntrinsicStep, SkipStep, FailStep, SucceedStep,
       RefundStep, FeeStep, StutterStep, Zenon DEF Next
<1>3. QED
  BY <1>1, <1>2, PTL DEF Spec

(* No transaction, whatever its price, limit and value, makes a balance      *)
(* underflow: buyGas, Transfer and payFee keep balances natural numbers.     *)
THEOREM TypeCorrect == Spec => []TypeOK
<1>1. IInv => TypeOK
  BY DEF IInv
<1>2. QED
  BY <1>1, Invariance, PTL

(* The gas counter of a transition stays within what buyGas bought, so the   *)
(* uint64 difference gasUsed never wraps.                                    *)
THEOREM GasNeverWraps == Spec => []GasWithinPurchase
<1>1. IInv => GasWithinPurchase
  BY DEF IInv
<1>2. QED
  BY <1>1, Invariance, PTL

(* Every transaction that is executed or charged advances its sender's nonce *)
(* by exactly one, contract creations included.                              *)
THEOREM NonceAdvancesOnce == Spec => []NonceOnce
<1>1. IInv => NonceOnce
  BY DEF IInv
<1>2. QED
  BY <1>1, Invariance, PTL

-----------------------------------------------------------------------------
(* What the operations on balances do to their sum. *)
LEMMA TotalOps ==
    ASSUME NEW b \in [Addr -> Int], NEW a \in Addr, NEW v \in Int
    PROVE  /\ total(b) \in Int
           /\ AddBalance(b, a, v) \in [Addr -> Int]
           /\ total(AddBalance(b, a, v)) = total(b) + v
           /\ SubBalance(b, a, v) \in [Addr -> Int]
           /\ total(SubBalance(b, a, v)) = total(b) - v
<1> USE DEF total
<1>1. IsFiniteSet(Addr)
  BY TransitionAssumption
<1>2. total(b) \in Int
  BY <1>1, SumType
<1>3. ASSUME NEW w \in Int, NEW c, c = [b EXCEPT ![a] = w]
      PROVE  c \in [Addr -> Int] /\ total(c) = total(b) - b[a] + w
  <2>1. c \in [Addr -> Int] /\ c[a] = w /\ \A y \in Addr \ {a} : b[y] = c[y]
    BY <1>3
  <2>2. total(c) = total(b) - b[a] + c[a]
    BY <1>1, <2>1, SumExcept
  <2>3. QED
    BY <2>1, <2>2
<1> DEFINE t == total(b)
           h == b[a]
<1>4. t \in Int /\ h \in Int
  BY <1>2
<1>5. /\ AddBalance(b, a, v) = [b EXCEPT ![a] = h + v]
      /\ SubBalance(b, a, v) = [b EXCEPT ![a] = h - v]
  BY DEF AddBalance, SubBalance
<1>6. /\ AddBalance(b, a, v) \in [Addr -> Int] /\ total(AddBalance(b, a, v)) = t - h + (h + v)
      /\ SubBalance(b, a, v) \in [Addr -> Int] /\ total(SubBalance(b, a, v)) = t - h + (h - v)
  <2> HIDE DEF total
  <2>1. h + v \in Int /\ h - v \in Int
    BY <1>4
  <2>2. QED
    BY <1>3, <1>5, <2>1, Zenon
<1> HIDE DEF t, h, total
<1>7. t - h + (h + v) = t + v /\ t - h + (h - v) = t - v
  BY <1>4
<1>8. QED
  BY <1>2, <1>6, <1>7, Zenon DEF t

LEMMA TotalTransfer ==
    ASSUME NEW b \in [Addr -> Int], NEW a \in Addr, NEW to \in Addr, NEW v \in Int
    PROVE  /\ Transfer(b, a, to, v) \in [Addr -> Int]
           /\ total(Transfer(b, a, to, v)) = total(b)
<1> DEFINE c == SubBalance(b, a, v)
<1>1. c \in [Addr -> Int] /\ total(c) = total(b) - v /\ total(b) \in Int
  BY TotalOps
<1> HIDE DEF c
<1>2. AddBalance(c, to, v) \in [Addr -> Int] /\ total(AddBalance(c, to, v)) = total(c) + v
  BY <1>1, TotalOps
<1>3. Transfer(b, a, to, v) = AddBalance(c, to, v)
  BY DEF Transfer, c
<1>4. total(b) - v + v = total(b)
  BY <1>1
<1>5. QED
  BY <1>1, <1>2, <1>3, <1>4, Zenon

(* What worth is at each part of TransitionDb. *)
LEMMA WorthIs ==
    /\ pc \in {"idle", "preCheck"} => worth = total(balance) + 0
    /\ pc \in {"intrinsic", "run", "refund"} => worth = total(balance) + initialGas * msg.price
    /\ pc = "fee" => worth = total(balance) + gasUsed * msg.price
BY DEF worth

LEMMA BuyWorth ==
    ASSUME IInv, buyGas, ~shortSale
    PROVE  worth' = worth
<1> DEFINE have == balance[msg.from]
           p == msg.price
           g == msg.gas
           c == charge(have, g * p)
           t == total(balance)
<1>1. /\ msg \in Message /\ pc = "preCheck" /\ msg.from \in Addr
      /\ balance \in [Addr -> Nat] /\ balance \in [Addr -> Int]
      /\ have \in Nat /\ p \in Nat /\ g \in Nat
  BY MessageType, TransitionAssumption DEF IInv, TypeOK, PartOK, buyGas
<1>2. ~(have < g * p /\ p > 1)
  BY DEF shortSale
<1>3. /\ initialGas' = c.gas /\ balance' = SubBalance(balance, msg.from, c.mgval)
      /\ pc' = "intrinsic" /\ msg' = msg
  BY DEF buyGas
<1>4. c.mgval \in Int /\ c.mgval = c.gas * p
  <2>1. CASE ~(have < g * p)
    <3>1. c = [gas |-> g, mgval |-> g * p]
      BY <2>1 DEF charge
    <3>2. QED
      BY <1>1, <3>1
  <2>2. CASE have < g * p
    <3>1. p = 1
      <4>1. p # 0
        BY <1>1, <2>2
      <4>2. QED
        BY <1>1, <1>2, <2>2, <4>1
    <3>2. c = [gas |-> have \div p, mgval |-> have \div p]
      BY <2>2 DEF charge
    <3>3. have \div p = have
      BY <1>1, <3>1
    <3>4. QED
      BY <1>1, <3>1, <3>2, <3>3
  <2>3. QED
    BY <2>1, <2>2
<1> HIDE DEF c
<1>5. t \in Int /\ total(balance)' = t - c.mgval
  <2>1. t \in Int /\ total(SubBalance(balance, msg.from, c.mgval)) = t - c.mgval
    BY <1>1, <1>4, TotalOps
  <2>2. total(balance)' = total(balance')
    BY DEF total
  <2>3. QED
    BY <1>3, <2>1, <2>2, Zenon
<1>6. worth = t + 0
  BY <1>1, WorthIs
<1>7. worth' = (total(balance) + initialGas * msg.price)'
  BY <1>3 DEF worth
<1>8. worth' = t - c.mgval + c.mgval
  BY <1>3, <1>4, <1>5, <1>7, Zenon
<1> HIDE DEF t
<1>9. QED
  BY <1>4, <1>5, <1>6, <1>8

LEMMA RunWorth ==
    ASSUME IInv, runSucceeds
    PROVE  worth' = worth
<1>1. msg \in Message /\ msg.from \in Addr /\ balance \in [Addr -> Int] /\ pc = "run"
  BY MessageType DEF IInv, TypeOK, PartOK, runSucceeds
<1>2. PICK to \in recipients, a \in Addr, b \in Addr, v \in Values :
        balance' = Transfer(Transfer(balance, msg.from, to, msg.value), a, b, v)
  BY Zenon DEF runSucceeds
<1>3. to \in Addr /\ v \in Int /\ msg.value \in Int
  <2>1. msg.to \in Addr \cup {Nil}
    BY <1>1 DEF Message
  <2>2. QED
    BY <1>1, <2>1, MessageType, TransitionAssumption DEF recipients
<1> DEFINE paid == Transfer(balance, msg.from, to, msg.value)
<1>4. paid \in [Addr -> Int] /\ total(paid) = total(balance)
  BY <1>1, <1>3, TotalTransfer
<1> HIDE DEF paid
<1>5. total(Transfer(paid, a, b, v)) = total(paid)
  BY <1>3, <1>4, TotalTransfer
<1>6. total(balance') = total(balance)
  BY <1>2, <1>4, <1>5, Zenon DEF paid
<1>7. worth = total(balance) + initialGas * msg.price
  BY <1>1, WorthIs
<1>8. worth' = total(balance') + initialGas' * msg'.price
  BY DEF worth, total, runSucceeds
<1>9. QED
  BY <1>6, <1>7, <1>8, Zenon DEF runSucceeds

LEMMA RefundWorth ==
    ASSUME IInv, refundGas
    PROVE  worth' = worth
<1> DEFINE t == total(balance)
           p == msg.price
           back == gas'
           bought == initialGas
<1>1. /\ msg \in Message /\ msg.from \in Addr /\ balance \in [Addr -> Int] /\ pc = "refund"
      /\ p \in Nat /\ bought \in 0..(Word - 1) /\ Word \in Nat \ {0}
  BY MessageType, TransitionAssumption DEF IInv, TypeOK, PartOK, refundGas
<1>2. back \in 0..bought
  BY RefundFits DEF IInv, TypeOK, refundGas
<1>3. /\ balance' = AddBalance(balance, msg.from, back * p) /\ pc' = "fee"
      /\ initialGas' = bought /\ msg' = msg
  BY DEF refundGas
<1> HIDE DEF p, back, bought, t
<1>4. bought - back \in 0..(Word - 1) /\ back * p \in Int /\ (bought - back) * p \in Int
  BY <1>1, <1>2
<1>5. t \in Int /\ total(balance') = t + back * p
  BY <1>1, <1>3, <1>4, TotalOps DEF t
<1>6. worth = t + bought * p
  BY <1>1, WorthIs DEF t, bought, p
<1>7. worth' = total(balance') + ((initialGas' - gas') % Word) * msg'.price
  BY <1>3 DEF worth, total, gasUsed
<1>8. (initialGas' - gas') % Word = bought - back
  BY <1>1, <1>3, <1>4, SmallMod DEF back
<1>9. worth' = t + back * p + (bought - back) * p
  BY <1>3, <1>5, <1>7, <1>8, Zenon DEF p
<1>10. back * p + (bought - back) * p = bought * p
  BY <1>1, <1>2
<1>11. bought * p \in Int
  BY <1>1
<1>12. QED
  <2> DEFINE x == back * p
             y == (bought - back) * p
             z == bought * p
  <2>1. /\ x \in Int /\ y \in Int /\ z \in Int /\ t \in Int /\ x + y = z
        /\ worth' = t + x + y /\ worth = t + z
    BY <1>4, <1>5, <1>6, <1>9, <1>10, <1>11, Zenon
  <2> HIDE DEF x, y, z
  <2>2. QED
    BY <2>1

LEMMA FeeWorth ==
    ASSUME IInv, payFee
    PROVE  worth' = worth
<1> DEFINE fee == gasUsed * msg.price
<1>1. /\ msg \in Message /\ balance \in [Addr -> Int] /\ pc = "fee"
      /\ GasReceiver \in Addr /\ fee \in Int
  BY RefundFits, MessageType, TransitionAssumption DEF IInv, TypeOK, PartOK, payFee
<1>2. balance' = AddBalance(balance, GasReceiver, fee) /\ pc' = "idle"
  BY DEF payFee
<1>3. worth = total(balance) + fee
  BY <1>1, WorthIs
<1> HIDE DEF fee
<1>4. total(balance) \in Int /\ total(balance') = total(balance) + fee
  BY <1>1, <1>2, TotalOps
<1>5. worth' = total(balance') + 0
  BY <1>2 DEF worth, total
<1>6. QED
  BY <1>1, <1>3, <1>4, <1>5

LEMMA WorthStep ==
    ASSUME IInv, [Next]_vars
    PROVE  worth' = worth \/ shortSale
<1> USE DEF worth, total
<1>1. ASSUME NEW m \in Message, ExecuteTransaction(m) PROVE worth' = worth
  BY <1>1 DEF ExecuteTransaction
<1>2. CASE rejectNonce
  BY <1>2 DEF rejectNonce
<1>3. CASE takeIntrinsicGas
  BY <1>3 DEF takeIntrinsicGas
<1>4. CASE skip
  BY <1>4 DEF skip
<1>5. CASE runFails
  BY <1>5 DEF runFails
<1>6. CASE UNCHANGED vars
  BY <1>6, Zenon DEF vars, gasUsed
<1>7. QED
  BY <1>1, <1>2, <1>3, <1>4, <1>5, <1>6, BuyWorth, RunWorth, RefundWorth, FeeWorth, Zenon DEF Next

(* At any price, no step of the executor makes or destroys funds, except     *)
(* buyGas when it sells to a sender that cannot pay for its limit.           *)
THEOREM FundsOnlyMove == Spec => WorthKept
<1>1. IInv /\ [Next]_vars => [worth' = worth \/ shortSale]_vars
  BY WorthStep
<1>2. QED
  BY <1>1, Invariance, PTL DEF Spec, WorthKept

LEMMA NoShortSale ==
    ASSUME Prices \subseteq {0, 1}, IInv
    PROVE  ~shortSale
<1>1. pc = "preCheck" => msg \in Message
  BY DEF IInv, PartOK
<1>2. msg \in Message => msg.price \in {0, 1}
  BY Zenon DEF Message
<1>3. msg.price \in {0, 1} => ~(msg.price > 1)
  OBVIOUS
<1>4. QED
  BY <1>1, <1>2, <1>3, Zenon DEF shortSale, buyGas

LEMMA WorthAtStart == Init => worth = total(FirstBalance)
<1> SUFFICES ASSUME Init PROVE worth = total(FirstBalance)
  OBVIOUS
<1>1. FirstBalance \in [Addr -> Int] /\ GasReceiver \in Addr
  BY TransitionAssumption
<1>2. total(FirstBalance) \in Int
  BY <1>1, TotalOps
<1>3. worth = total(FirstBalance) + 0
  BY WorthIs DEF Init
<1>4. QED
  BY <1>2, <1>3

LEMMA WorthIdle ==
    ASSUME IInv, worth = total(FirstBalance)
    PROVE  SupplyConserved
<1>1. balance \in [Addr -> Int] /\ GasReceiver \in Addr
  BY TransitionAssumption DEF IInv, TypeOK
<1>2. total(balance) \in Int
  BY <1>1, TotalOps
<1>3. QED
  BY <1>2, WorthIs DEF SupplyConserved

(* At the prices 0 and 1, where no sale is short, the balances add up to the *)
(* first ones whenever no transaction is being executed, for any accounts,   *)
(* limits and values.                                                        *)
THEOREM SupplyStays ==
    ASSUME Prices \subseteq {0, 1}
    PROVE  Spec => []SupplyConserved
<1> DEFINE Kept == worth = total(FirstBalance)
<1>1. Init => Kept
  BY WorthAtStart
<1>2. IInv /\ Kept /\ [Next]_vars => Kept'
  <2> SUFFICES ASSUME IInv, Kept, [Next]_vars PROVE Kept'
    OBVIOUS
  <2>1. worth' = worth
    BY WorthStep, NoShortSale
  <2>2. QED
    BY <2>1, Zenon DEF total
<1>3. IInv /\ Kept => SupplyConserved
  BY WorthIdle
<1> HIDE DEF Kept
<1>4. QED
  BY <1>1, <1>2, <1>3, Invariance, PTL DEF Spec
=============================================================================
