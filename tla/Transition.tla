----------------------------- MODULE Transition -----------------------------
(***************************************************************************)
(* The executor: transactions applied one after another to the state       *)
(* (executor/state_transition.go, state_processor.go, executor.go).        *)
(*                                                                         *)
(* TransitionDb is split at its calls: buy gas at the price of the         *)
(* transaction, take the intrinsic gas, run the EVM, give back what is     *)
(* left and refunded, pay the fee receiver.                                *)
(*                                                                         *)
(* The EVM is abstract.  A run that succeeds has transferred the value and *)
(* perhaps moved funds once more between accounts; a run that fails has    *)
(* changed no balance (evm.Call and evm.create revert to their snapshot).  *)
(* Either leaves some of its gas behind, the first also some refund.       *)
(***************************************************************************)
EXTENDS Integers, FiniteSets, Functions

CONSTANTS
    Addr,                  \* accounts
    Nil,                   \* Message.To() of a contract creation
    GasReceiver,           \* the account that is paid the fees
    FirstBalance,          \* the balances the executor starts from
    Prices, Gases, Values, \* gas prices, gas limits and values of the messages
    DataGas,               \* what the data of the messages adds to IntrinsicGas
    TxGas,                 \* params.TxGas
    TxGasContractCreation, \* params.TxGasContractCreation
    MaxNonce,              \* bound: a sender stops at this nonce
    Word                   \* 2^64 in the code: gas counters are taken modulo Word

ASSUME TransitionAssumption ==
    /\ IsFiniteSet(Addr) /\ GasReceiver \in Addr /\ Nil \notin Addr
    /\ FirstBalance \in [Addr -> Nat]
    /\ Prices \subseteq Nat /\ Values \subseteq Nat /\ DataGas \subseteq Nat
    /\ Word \in Nat \ {0} /\ Gases \subseteq 0..(Word - 1)
    /\ TxGas \in Nat /\ TxGasContractCreation \in Nat /\ MaxNonce \in Nat

VARIABLES
    balance,    \* balances of the StateDB
    nonce,      \* nonces of the StateDB
    refund,     \* StateDB.refund
    pc,         \* the part of TransitionDb that comes next
    msg,        \* st.msg
    gas,        \* st.gas
    initialGas, \* st.initialGas
    vmerr,      \* vmerr # nil
    before      \* history: the sender's nonce when the transaction arrived

vars == <<balance, nonce, refund, pc, msg, gas, initialGas, vmerr, before>>

\* A nonce of Nil stands for CheckNonce() = FALSE.
Message == [from : Addr, to : Addr \cup {Nil}, nonce : 0..MaxNonce \cup {Nil},
            price : Prices, gas : Gases, value : Values, data : DataGas]

NoMsg == [from |-> GasReceiver, to |-> Nil, nonce |-> Nil,
          price |-> 0, gas |-> 0, value |-> 0, data |-> 0]

AddBalance(b, a, v) == [b EXCEPT ![a] = @ + v]
SubBalance(b, a, v) == [b EXCEPT ![a] = @ - v]
CanTransfer(a, v) == balance[a] >= v
Transfer(b, from, to, v) == AddBalance(SubBalance(b, from, v), to, v)

gasUsed == (initialGas - gas) % Word

-----------------------------------------------------------------------------
\* ExecuteTransaction: a fresh StateDB, hence no refund, and a fresh transition.
\* MaxNonce bounds the transactions of a sender that are not rejected.
ExecuteTransaction(m) ==
    /\ pc = "idle"
    /\ nonce[m.from] < MaxNonce \/ (m.nonce # Nil /\ m.nonce # nonce[m.from])
    /\ msg' = m
    /\ refund' = 0 /\ gas' = 0 /\ initialGas' = 0 /\ vmerr' = FALSE
    /\ before' = nonce[m.from]
    /\ pc' = "preCheck"
    /\ UNCHANGED <<balance, nonce>>

nonceRefused == msg.nonce # Nil /\ msg.nonce # nonce[msg.from]

\* ErrNonceTooHigh, ErrNonceTooLow: TransitionDb returns the error at once.
rejectNonce ==
    /\ pc = "preCheck"
    /\ nonceRefused
    /\ pc' = "idle"
    /\ msg' = NoMsg
    /\ UNCHANGED <<balance, nonce, refund, gas, initialGas, vmerr, before>>

\* mutant: the limit of the message is charged whatever the sender has.
charge_NoCap(have, want) == [gas |-> msg.gas, mgval |-> want]

\* What buyGas buys and what it charges.  A sender that cannot pay the limit gets
\* the gas its balance is worth; have.Div stores the quotient in have, which
\* mgval aliases, so the quotient is also what is charged.
charge(have, want) ==
    IF have < want
    THEN [gas |-> have \div msg.price, mgval |-> have \div msg.price]
    ELSE [gas |-> msg.gas, mgval |-> want]

\* preCheck with a nonce that is right or not looked at.
buyGas ==
    LET c == charge(balance[msg.from], msg.gas * msg.price)
    IN  /\ pc = "preCheck"
        /\ ~nonceRefused
        /\ gas' = (gas + c.gas) % Word
        /\ initialGas' = c.gas
        /\ balance' = SubBalance(balance, msg.from, c.mgval)
        /\ pc' = "intrinsic"
        /\ UNCHANGED <<nonce, refund, msg, vmerr, before>>

IntrinsicGas ==
    (IF msg.to = Nil THEN TxGasContractCreation ELSE TxGas) + msg.data

\* mutant: clause 6 is left to the EVM.
unpayable_Later == gas < IntrinsicGas

unpayable ==
    \/ gas < IntrinsicGas
    \/ msg.value > 0 /\ ~CanTransfer(msg.from, msg.value)

\* Clauses 4 to 6 of TransitionDb: a message that fails them is not executed,
\* and pays for its intrinsic gas all the same.
takeIntrinsicGas ==
    /\ pc = "intrinsic"
    /\ vmerr' = unpayable
    /\ gas' = IF gas < IntrinsicGas THEN 0 ELSE gas - IntrinsicGas
    /\ pc' = "run"
    /\ UNCHANGED <<balance, nonce, refund, msg, initialGas, before>>

\* vmerr is set: only the nonce advances.
skip ==
    /\ pc = "run"
    /\ vmerr
    /\ nonce' = [nonce EXCEPT ![msg.from] = @ + 1]
    /\ pc' = "refund"
    /\ UNCHANGED <<balance, refund, msg, gas, initialGas, vmerr, before>>

\* evm.create leaves the nonce alone when the sender cannot pay the value;
\* for a call TransitionDb has advanced it before evm.Call looks.
nonceAfterRun ==
    IF msg.to = Nil /\ ~CanTransfer(msg.from, msg.value)
    THEN nonce
    ELSE [nonce EXCEPT ![msg.from] = @ + 1]

\* evm.Call or evm.Create returns an error: its changes are reverted.
runFails ==
    /\ pc = "run"
    /\ ~vmerr
    /\ vmerr' = TRUE
    /\ nonce' = nonceAfterRun
    /\ gas' \in 0..gas
    /\ pc' = "refund"
    /\ UNCHANGED <<balance, refund, msg, initialGas, before>>

recipients == IF msg.to = Nil THEN Addr \ {msg.from} ELSE {msg.to}

\* evm.Call or evm.Create succeeds: the value is with the recipient, and the
\* code that ran may have moved v on from a to b.
runSucceeds ==
    /\ pc = "run"
    /\ ~vmerr
    /\ CanTransfer(msg.from, msg.value)
    /\ nonce' = nonceAfterRun
    /\ gas' \in 0..gas
    /\ refund' \in 0..initialGas
    /\ \E to \in recipients, a, b \in Addr, v \in Values :
         LET paid == Transfer(balance, msg.from, to, msg.value)
         IN  /\ paid[a] >= v
             /\ balance' = Transfer(paid, a, b, v)
    /\ pc' = "refund"
    /\ UNCHANGED <<msg, initialGas, vmerr, before>>

\* mutant: the refund counter is not capped.
gasBack_NoCap == refund

gasBack == IF gasUsed \div 2 > refund THEN refund ELSE gasUsed \div 2

\* mutant: what is left is returned before the refund is added to it.
refundGas_Early ==
    /\ pc = "refund"
    /\ gas' = (gas + gasBack) % Word
    /\ balance' = AddBalance(balance, msg.from, gas * msg.price)
    /\ pc' = "fee"
    /\ UNCHANGED <<nonce, refund, msg, initialGas, vmerr, before>>

refundGas ==
    /\ pc = "refund"
    /\ gas' = (gas + gasBack) % Word
    /\ balance' = AddBalance(balance, msg.from, gas' * msg.price)
    /\ pc' = "fee"
    /\ UNCHANGED <<nonce, refund, msg, initialGas, vmerr, before>>

\* The fee; applyTransaction then commits and ExecuteTransaction returns.
payFee ==
    /\ pc = "fee"
    /\ balance' = AddBalance(balance, GasReceiver, gasUsed * msg.price)
    /\ pc' = "idle"
    /\ UNCHANGED <<nonce, refund, msg, gas, initialGas, vmerr, before>>

Init ==
    /\ balance = FirstBalance
    /\ nonce = [a \in Addr |-> 0]
    /\ pc = "idle" /\ msg = NoMsg
    /\ refund = 0 /\ gas = 0 /\ initialGas = 0
    /\ vmerr = FALSE /\ before = 0

Next ==
    \/ \E m \in Message : ExecuteTransaction(m)
    \/ rejectNonce \/ buyGas \/ takeIntrinsicGas
    \/ skip \/ runFails \/ runSucceeds
    \/ refundGas \/ payFee

Spec == Init /\ [][Next]_vars

-----------------------------------------------------------------------------
(* Types.  That balances are natural numbers says that no SubBalance of the  *)
(* executor wraps: uint256.Sub would make the sender the richest account.    *)
TypeOK ==
    /\ balance \in [Addr -> Nat]
    /\ nonce \in [Addr -> 0..MaxNonce]
    /\ refund \in Nat
    /\ pc \in {"idle", "preCheck", "intrinsic", "run", "refund", "fee"}
    /\ msg \in Message \cup {NoMsg}
    /\ gas \in 0..(Word - 1) /\ initialGas \in 0..(Word - 1)
    /\ vmerr \in BOOLEAN
    /\ before \in 0..MaxNonce

(* The gas of a transition never exceeds what was bought, the refund added by *)
(* refundGas included: otherwise gasUsed, a uint64 difference, wraps and the  *)
(* fee receiver is paid for nearly 2^64 units of gas.                         *)
GasWithinPurchase ==
    gas <= initialGas

(* A transaction that was not rejected has advanced the nonce of its sender   *)
(* by exactly one when it ends, however it ends: TransitionDb advances it in  *)
(* two places and evm.create in a third.  applyTransaction relies on it when  *)
(* it derives the address of the contract from GetNonce(origin) - 1.          *)
NonceOnce ==
    pc \in {"refund", "fee"} => nonce[msg.from] = before + 1

(* What holds at each part of TransitionDb.  The balance that takeIntrinsicGas *)
(* checked still covers the value when the EVM checks it again, which is what  *)
(* NonceOnce needs of a contract creation.                                     *)
PartOK ==
    /\ pc # "idle" => msg \in Message
    /\ pc = "preCheck" => gas = 0 /\ initialGas = 0
    /\ pc \in {"preCheck", "intrinsic", "run"} => nonce[msg.from] = before
    /\ pc = "preCheck" => before < MaxNonce \/ nonceRefused
    /\ pc \in {"intrinsic", "run"} => before < MaxNonce
    /\ pc = "run" /\ ~vmerr => CanTransfer(msg.from, msg.value)

IInv == TypeOK /\ GasWithinPurchase /\ NonceOnce /\ PartOK

-----------------------------------------------------------------------------
total(b) == SumFunctionOnSet(b, Addr)

(* Between transactions the balances add up to what they were at the start:  *)
(* the gas bought from the sender is either returned to it or paid to the    *)
(* fee receiver, "exchanged at the original rate"                            *)
(* (executor/state_transition.go, refundGas).                                *)
SupplyConserved ==
    pc = "idle" => total(balance) = total(FirstBalance)

(* The balances and, at the price of the message, the gas that was bought and *)
(* is neither returned to the sender nor paid to the fee receiver yet.        *)
worth ==
    total(balance) + CASE pc \in {"intrinsic", "run", "refund"} -> initialGas * msg.price
                       [] pc = "fee" -> gasUsed * msg.price
                       [] pc \in {"idle", "preCheck"} -> 0

\* buyGas sells to a sender that cannot pay for the limit, at a price above 1.
shortSale ==
    /\ buyGas
    /\ balance[msg.from] < msg.gas * msg.price /\ msg.price > 1

(* No step of the executor makes or destroys funds, at any price, but for the *)
(* sale to a sender that is short (charge).                                   *)
WorthKept == [][worth' = worth \/ shortSale]_vars
=============================================================================
