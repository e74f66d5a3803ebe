---------------------------- MODULE Stream_proof ----------------------------
(***************************************************************************)
(* Proofs about the stream transport: its types, that an answer reaches    *)
(* only the client that asked (AnswerToCaller) and that subsLock is held   *)
(* exactly during unsubscribe (LockHolder), for any number of clients and  *)
(* of requests.                                                            *)
(*                                                                         *)
(* A step disturbs the ownership of ids in two ways only: a new Call takes *)
(* id seq + 1, which nothing on the wire carries yet, and the end of a     *)
(* Call gives its id up.  Every other step moves a message one leg further *)
(* or changes pc and result.                                               *)
(*                                                                         *)
(* Then the channels between the Syncs of a filter, the consumer of its    *)
(* events and WaitDuration (FilterWait), for any Sync calls, waiters and   *)
(* numbers of events, with an invariant of its own.                        *)
(***************************************************************************)
EXTENDS Stream, FilterWait, SequenceTheorems, TLAPS

\* The ids on the wire stay owned while seq, the calls and the wire stay.
LEMMA WireFrame ==
    ASSUME WireOK, UNCHANGED <<seq, call, requests, answers, msgs, inbox>>
    PROVE  WireOK'
BY DEF WireOK, Owned

\* Steps that leave pc, the calls and the lock alone keep CallOK and LockHolder.
LEMMA CallFrame ==
    ASSUME CallOK, LockHolder, UNCHANGED <<seq, call, pc, subsLock>>
    PROVE  CallOK' /\ LockHolder'
BY DEF CallOK, LockHolder, Owned

\* newCall takes an id that no client and no message uses.
LEMMA newCallStep ==
    ASSUME IInv, NEW c \in Client, NEW op \in {"call", "subscribe", "unsubscribe"},
           NEW sub \in Id \cup {None}, newCall(c, op, sub),
           UNCHANGED <<requests, answers, msgs, inbox>>
    PROVE  /\ CallOK' /\ WireOK'
           /\ seq' \in 0..MaxSeq
           /\ pc' \in [Client -> {"idle", "register", "write", "recv", "wait", "ret"}]
           /\ call' \in [Client -> [id : Id \cup {None}, sub : Id \cup {None},
                            op : {"none", "call", "subscribe", "unsubscribe"}]]
           /\ \A d \in Client : call'[d].op = IF d = c THEN op ELSE call[d].op
           /\ call[c].op = "none"
<1>1. /\ seq \in 0..MaxSeq /\ seq < MaxSeq /\ seq' = seq + 1 /\ pc[c] = "idle"
      /\ pc \in [Client -> {"idle", "register", "write", "recv", "wait", "ret"}]
      /\ pc' = [pc EXCEPT ![c] = "register"]
      /\ call \in [Client -> [id : Id \cup {None}, sub : Id \cup {None},
                            op : {"none", "call", "subscribe", "unsubscribe"}]]
      /\ call' = [call EXCEPT ![c] = [id |-> seq + 1, op |-> op, sub |-> sub]]
  BY Zenon DEF IInv, TypeOK, newCall, incSeq
<1>2. seq + 1 \in Id /\ seq' \in 0..MaxSeq /\ None \notin Id
  BY <1>1, StreamAssumption DEF Id
<1>3. \A d \in Client : d # c => call'[d] = call[d] /\ pc'[d] = pc[d]
  BY <1>1
<1>4. call'[c] = [id |-> seq + 1, op |-> op, sub |-> sub] /\ pc'[c] = "register"
  BY <1>1
<1>5. call[c] = NoCall
  BY <1>1 DEF IInv, CallOK
<1>6. \A i, b : Owned(i, b) => Owned(i, b)'
  BY <1>1, <1>2, <1>3, <1>4 DEF Owned
<1>7. WireOK'
  BY <1>6, Zenon DEF IInv, WireOK
<1>8. Owned(call[c].id, c)'
  <2>1. \A d \in Client : d # c => call'[d].id # seq + 1
    <3> SUFFICES ASSUME NEW d \in Client, d # c PROVE call[d].id # seq + 1
      BY <1>3
    <3>1. CASE pc[d] = "idle"
      BY <1>2, <3>1 DEF IInv, CallOK, NoCall
    <3>2. CASE pc[d] # "idle"
      <4>1. call[d].id \in 1..seq
        BY <3>2 DEF IInv, CallOK, Owned
      <4> QED
        BY <1>1, <4>1
    <3> QED
      BY <3>1, <3>2
  <2>2. call'[c].id = seq + 1 /\ seq + 1 \in 1..seq'
    BY <1>1, <1>4
  <2> QED
    BY <2>1, <2>2 DEF Owned
<1>9. CallOK'
  <2>1. ASSUME NEW d \in Client, d # c
        PROVE  IF pc'[d] = "idle" THEN call'[d] = NoCall
               ELSE call'[d].id \in Id /\ call'[d].op # "none" /\ Owned(call[d].id, d)'
    <3>1. Owned(call[d].id, d) => Owned(call[d].id, d)'
      BY <1>1, <1>2, <1>3, <1>4, <2>1 DEF Owned
    <3> QED
      BY <1>3, <2>1, <3>1 DEF IInv, CallOK
  <2>2. call'[c].id = seq + 1 /\ call'[c].op = op /\ pc'[c] = "register"
    BY <1>4
  <2> QED
    BY <1>2, <1>8, <2>1, <2>2 DEF CallOK
<1>10. call' \in [Client -> [id : Id \cup {None}, sub : Id \cup {None},
                            op : {"none", "call", "subscribe", "unsubscribe"}]]
  BY <1>1, <1>2
<1> QED
  BY <1>1, <1>2, <1>3, <1>4, <1>5, <1>7, <1>9, <1>10 DEF NoCall

\* Call and Subscribe preserve the invariant.
LEMMA CallStep ==
    ASSUME IInv, NEW c \in Client, Call(c) \/ Subscribe(c)
    PROVE  IInv'
<1> USE DEF handlerVars, subVars, connVars, nodeVars
<1>1. PICK op \in {"call", "subscribe"} : newCall(c, op, None)
  BY DEF Call, Subscribe
<1>2. UNCHANGED <<handlerVars, subVars, connVars, nodeVars, notes, answers, inbox, msgs>>
  BY DEF Call, Subscribe
<1>3. UNCHANGED <<result, cancels>>
  BY <1>1 DEF newCall
<1>4. /\ CallOK' /\ WireOK'
      /\ seq' \in 0..MaxSeq
      /\ pc' \in [Client -> {"idle", "register", "write", "recv", "wait", "ret"}]
      /\ call' \in [Client -> [id : Id \cup {None}, sub : Id \cup {None},
                       op : {"none", "call", "subscribe", "unsubscribe"}]]
      /\ \A d \in Client : call'[d].op = IF d = c THEN op ELSE call[d].op
      /\ call[c].op = "none"
  BY <1>1, <1>2, newCallStep
<1>5. LockHolder'
  BY <1>2, <1>4 DEF IInv, LockHolder
<1>6. TypeOK'
  BY <1>2, <1>3, <1>4, Zenon DEF IInv, TypeOK
<1> QED
  BY <1>4, <1>5, <1>6 DEF IInv

\* unsubscribe preserves the invariant: it takes the lock as it starts its request.
LEMMA unsubscribeStep ==
    ASSUME IInv, NEW c \in Client, unsubscribe(c)
    PROVE  IInv'
<1> USE DEF handlerVars, subVars, connVars, nodeVars
<1>1. PICK s \in cancels \cap subs :
            subs' = subs \ {s} /\ newCall(c, "unsubscribe", s)
  BY DEF unsubscribe
<1>2. /\ subsLock = None /\ subsLock' = c
      /\ UNCHANGED <<handlerVars, connVars, nodeVars, notes, answers, inbox, msgs>>
  BY DEF unsubscribe
<1>3. UNCHANGED <<result, cancels>>
  BY <1>1 DEF newCall
<1>4. s \in Id /\ subs' \subseteq Id
  BY <1>1 DEF IInv, TypeOK
<1>5. /\ CallOK' /\ WireOK'
      /\ seq' \in 0..MaxSeq
      /\ pc' \in [Client -> {"idle", "register", "write", "recv", "wait", "ret"}]
      /\ call' \in [Client -> [id : Id \cup {None}, sub : Id \cup {None},
                       op : {"none", "call", "subscribe", "unsubscribe"}]]
      /\ \A d \in Client : call'[d].op = IF d = c THEN "unsubscribe" ELSE call[d].op
      /\ call[c].op = "none"
  BY <1>1, <1>2, <1>4, newCallStep
<1>6. LockHolder'
  BY <1>2, <1>5, StreamAssumption DEF IInv, LockHolder
<1>7. subsLock' \in Client \cup {None}
  BY <1>2
<1>8. TypeOK'
  BY <1>2, <1>3, <1>4, <1>5, <1>7, Zenon DEF IInv, TypeOK
<1> QED
  BY <1>5, <1>6, <1>8 DEF IInv

\* setHandler and receive preserve the invariant.
LEMMA registerStep ==
    ASSUME IInv, NEW c \in Client, setHandler(c) \/ receive(c)
    PROVE  IInv'
<1> USE DEF handlerVars, subVars, connVars, nodeVars
<1>1. /\ UNCHANGED <<expired, seq, call, result, cancels, subVars, connVars, nodeVars,
                     notes, answers, inbox, msgs>>
      /\ pc[c] \in {"register", "recv"}
      /\ \E p \in {"write", "wait"} : pc' = [pc EXCEPT ![c] = p]
      /\ pc \in [Client -> {"idle", "register", "write", "recv", "wait", "ret"}]
  BY DEF setHandler, receive, IInv, TypeOK
<1>2. pc' \in [Client -> {"idle", "register", "write", "recv", "wait", "ret"}]
  BY <1>1
<1>3. CallOK'
  BY <1>1 DEF IInv, CallOK, Owned
<1>4. handler' \subseteq Id /\ timers' \subseteq Id
  BY <1>1 DEF IInv, TypeOK, CallOK, setHandler, receive
<1>5. TypeOK'
  BY <1>1, <1>2, <1>4, Zenon DEF IInv, TypeOK
<1>6. WireOK' /\ LockHolder'
  BY <1>1, WireFrame DEF IInv, LockHolder
<1> QED
  BY <1>3, <1>5, <1>6 DEF IInv

\* Write preserves the invariant: the request carries its client's id.
LEMMA WriteStep ==
    ASSUME IInv, NEW c \in Client, Write(c)
    PROVE  IInv'
<1> USE DEF handlerVars, subVars, connVars, nodeVars
<1>1. /\ UNCHANGED <<seq, call, cancels, handlerVars, subVars, connVars, active,
                     sent, garbage, notes, answers, inbox, msgs>>
      /\ pc[c] = "write"
      /\ \E p \in {"recv", "ret"} : pc' = [pc EXCEPT ![c] = p]
      /\ result' = result \/ result' = [result EXCEPT ![c] = "error"]
      /\ pc \in [Client -> {"idle", "register", "write", "recv", "wait", "ret"}]
      /\ result \in [Client -> {"none", "ok", "error", "timeout", "missed"}]
  BY DEF Write, IInv, TypeOK
<1> DEFINE r == [id |-> call[c].id, by |-> c, op |-> call[c].op, sub |-> call[c].sub]
<1>2. requests' = requests \/ requests' = requests \cup {r}
  BY DEF Write
<1>3. /\ pc' \in [Client -> {"idle", "register", "write", "recv", "wait", "ret"}]
      /\ result' \in [Client -> {"none", "ok", "error", "timeout", "missed"}]
  BY <1>1
<1>4. /\ call[c].id \in Id /\ call[c].op \in {"call", "subscribe", "unsubscribe"}
      /\ call[c].sub \in Id \cup {None} /\ Owned(call[c].id, c)
  BY <1>1 DEF IInv, CallOK, TypeOK
<1>5. r \in Request /\ r.id = call[c].id /\ r.by = c
  BY <1>4 DEF Request
<1>6. CallOK'
  BY <1>1 DEF IInv, CallOK, Owned
<1>7. requests' \subseteq Request
  <2>1. requests \subseteq Request
    BY DEF IInv, TypeOK
  <2> QED
    BY <1>2, <1>5, <2>1
<1>8. TypeOK'
  BY <1>1, <1>3, <1>7, Zenon DEF IInv, TypeOK
<1>9. LockHolder'
  BY <1>1 DEF IInv, LockHolder
<1>10. \A i, b : Owned(i, b) => Owned(i, b)'
  BY <1>1 DEF Owned
<1>11. \A m \in requests' : Owned(m.id, m.by)
  BY <1>2, <1>4, <1>5 DEF IInv, WireOK
<1>12. WireOK'
  BY <1>1, <1>10, <1>11, Zenon DEF IInv, WireOK
<1> QED
  BY <1>6, <1>8, <1>9, <1>12 DEF IInv

\* finish preserves the invariant: the client gives up its id and, after
\* unsubscribe, the lock.
LEMMA finishStep ==
    ASSUME IInv, NEW c \in Client, finish(c)
    PROVE  IInv'
<1> USE DEF handlerVars, subVars, connVars, nodeVars
<1>1. /\ UNCHANGED <<seq, handlerVars, connVars, nodeVars, notes, answers, inbox, msgs>>
      /\ pc[c] = "ret"
      /\ pc' = [pc EXCEPT ![c] = "idle"]
      /\ call' = [call EXCEPT ![c] = NoCall]
      /\ result' = [result EXCEPT ![c] = "none"]
      /\ subs' = subs \/ subs' = subs \cup {call[c].id}
      /\ cancels' = cancels \/ cancels' = cancels \cup {call[c].id}
      /\ subsLock' = IF call[c].op = "unsubscribe" THEN None ELSE subsLock
  BY DEF finish
<1>2. /\ pc \in [Client -> {"idle", "register", "write", "recv", "wait", "ret"}]
      /\ result \in [Client -> {"none", "ok", "error", "timeout", "missed"}]
      /\ call \in [Client -> [id : Id \cup {None}, sub : Id \cup {None},
                       op : {"none", "call", "subscribe", "unsubscribe"}]]
      /\ subs \subseteq Id /\ cancels \subseteq Id /\ seq \in 0..MaxSeq
      /\ subsLock \in Client \cup {None} /\ call[c].id \in Id
  BY <1>1 DEF IInv, TypeOK, CallOK
<1>3. /\ pc' \in [Client -> {"idle", "register", "write", "recv", "wait", "ret"}]
      /\ result' \in [Client -> {"none", "ok", "error", "timeout", "missed"}]
      /\ call' \in [Client -> [id : Id \cup {None}, sub : Id \cup {None},
                       op : {"none", "call", "subscribe", "unsubscribe"}]]
      /\ subs' \subseteq Id /\ cancels' \subseteq Id
      /\ subsLock' \in Client \cup {None}
  BY <1>1, <1>2 DEF NoCall
<1>4. TypeOK'
  BY <1>1, <1>3, Zenon DEF IInv, TypeOK
<1>5. \A d \in Client : call'[d] = IF d = c THEN NoCall ELSE call[d]
  BY <1>1, <1>2
<1>6. LockHolder'
  BY <1>1, <1>2, <1>5, StreamAssumption DEF IInv, LockHolder, NoCall
<1>7. ASSUME NEW i, NEW b, Owned(i, b)
      PROVE  Owned(i, b)'
  <2>1. i \in Id
    BY <1>2, <1>7, StreamAssumption DEF Owned, Id
  <2>2. i # None
    BY <2>1, StreamAssumption
  <2> QED
    BY <1>1, <1>5, <1>7, <2>2 DEF Owned, NoCall
<1>8. WireOK'
  BY <1>1, <1>7, Zenon DEF IInv, WireOK
<1>9. CallOK'
  <2> SUFFICES ASSUME NEW d \in Client, d # c, pc[d] # "idle"
               PROVE  /\ call[d].id \in Id /\ call[d].op # "none"
                      /\ Owned(call[d].id, d)'
    BY <1>1, <1>2, <1>5 DEF CallOK, IInv
  <2>1. call[d].id \in Id /\ call[d].op # "none" /\ Owned(call[d].id, d)
    BY DEF CallOK, IInv
  <2>2. call'[d].id = call[d].id
    BY <1>5
  <2>3. PICK i : i = call[d].id
    BY Zenon
  <2>4. Owned(i, d)'
    BY <1>7, <2>1, <2>3
  <2> QED
    BY <2>1, <2>2, <2>3, <2>4
<1> QED
  BY <1>4, <1>6, <1>8, <1>9 DEF IInv

\* An offer moves the client that receives to the end of its Call, and no other.
LEMMA offerStep ==
    ASSUME IInv, NEW i, NEW v \in {"ok", "error", "timeout"}, offer(i, v),
           UNCHANGED subsLock
    PROVE  /\ CallOK' /\ LockHolder'
           /\ UNCHANGED <<seq, call, cancels>>
           /\ pc' \in [Client -> {"idle", "register", "write", "recv", "wait", "ret"}]
           /\ result' \in [Client -> {"none", "ok", "error", "timeout", "missed"}]
<1>1. /\ pc' = [c \in Client |-> IF c \in Receiver(i) THEN "ret" ELSE pc[c]]
      /\ UNCHANGED <<seq, call, cancels>>
      /\ pc \in [Client -> {"idle", "register", "write", "recv", "wait", "ret"}]
      /\ result \in [Client -> {"none", "ok", "error", "timeout", "missed"}]
  BY DEF offer, IInv, TypeOK
<1>2. pc' \in [Client -> {"idle", "register", "write", "recv", "wait", "ret"}]
  BY <1>1
<1>3. result' \in [Client -> {"none", "ok", "error", "timeout", "missed"}]
  BY <1>1 DEF offer
<1>4. \A c \in Client : pc'[c] = "idle" <=> pc[c] = "idle"
  BY <1>1 DEF Receiver
<1>5. CallOK' /\ LockHolder'
  BY <1>1, <1>4 DEF IInv, CallOK, LockHolder, Owned
<1> QED
  BY <1>1, <1>2, <1>3, <1>5

\* The timer preserves the invariant.
LEMMA timerStep ==
    ASSUME IInv, NEW i \in Id, timerFires(i) \/ timerOffers(i)
    PROVE  IInv'
<1> USE DEF handlerVars, subVars, connVars, nodeVars, clientVars
<1>1. CASE timerFires(i)
  <2>1. /\ timers' \subseteq Id /\ handler' \subseteq Id /\ expired' \subseteq Id
        /\ UNCHANGED <<clientVars, subVars, connVars, nodeVars, notes, answers, inbox, msgs>>
    BY <1>1 DEF timerFires, IInv, TypeOK
  <2>2. TypeOK'
    BY <2>1, Zenon DEF IInv, TypeOK
  <2> QED
    BY <2>1, <2>2, CallFrame, WireFrame DEF IInv
<1>2. CASE timerOffers(i)
  <2>1. /\ expired' \subseteq Id /\ offer(i, "timeout")
        /\ UNCHANGED <<handler, timers, subVars, connVars, nodeVars, notes, answers,
                       inbox, msgs>>
    BY <1>2 DEF timerOffers, IInv, TypeOK
  <2>2. /\ CallOK' /\ LockHolder'
        /\ UNCHANGED <<seq, call, cancels>>
        /\ pc' \in [Client -> {"idle", "register", "write", "recv", "wait", "ret"}]
        /\ result' \in [Client -> {"none", "ok", "error", "timeout", "missed"}]
    BY <2>1, offerStep
  <2>3. TypeOK'
    BY <2>1, <2>2, Zenon DEF IInv, TypeOK
  <2> QED
    BY <2>1, <2>2, <2>3, WireFrame DEF IInv
<1> QED
  BY <1>1, <1>2

\* callback preserves the invariant.
LEMMA callbackStep ==
    ASSUME IInv, NEW m \in answers, callback(m)
    PROVE  IInv'
<1> USE DEF handlerVars, subVars, connVars, nodeVars
<1>1. /\ answers' = answers \ {m}
      /\ \E v \in {"ok", "error"} : offer(m.id, v)
      /\ UNCHANGED <<handlerVars, subVars, connVars, nodeVars, notes, inbox, msgs>>
  BY DEF callback
<1>2. /\ CallOK' /\ LockHolder'
      /\ UNCHANGED <<seq, call, cancels>>
      /\ pc' \in [Client -> {"idle", "register", "write", "recv", "wait", "ret"}]
      /\ result' \in [Client -> {"none", "ok", "error", "timeout", "missed"}]
  BY <1>1, offerStep
<1>3. answers' \subseteq Answer
  BY <1>1 DEF IInv, TypeOK
<1>4. TypeOK'
  BY <1>1, <1>2, <1>3, Zenon DEF IInv, TypeOK
<1>5. WireOK'
  BY <1>1, <1>2 DEF IInv, WireOK, Owned
<1> QED
  BY <1>2, <1>4, <1>5 DEF IInv

\* The messages of a stream have their kinds and types.
LEMMA MessageTypes ==
    /\ \A m \in Message : m.kind # "garbage" => m \in Answer \cup Note
    /\ \A m \in Answer \cup Note : m.kind = "answer" => m \in Answer
    /\ \A m \in Answer \cup Note : m.kind = "note" => m \in Note
BY DEF Message, Answer, Note, Garbage

\* Appending an owned answer, or no answer, keeps the wire owned.
LEMMA WireAppend ==
    ASSUME IInv, NEW m \in Message, inbox' = Append(inbox, m),
           m.kind = "answer" => Owned(m.id, m.by),
           UNCHANGED <<seq, call, answers, msgs>>, requests' \subseteq requests
    PROVE  WireOK' /\ inbox' \in Seq(Message)
<1>1. inbox \in Seq(Message) /\ inbox' \in Seq(Message)
  BY DEF IInv, TypeOK
<1>2. \A k \in 1..Len(inbox') : inbox'[k].kind = "answer" =>
                                Owned(inbox'[k].id, inbox'[k].by)
  BY <1>1 DEF IInv, WireOK
<1> QED
  BY <1>1, <1>2 DEF IInv, WireOK, Owned

\* listen preserves the invariant: it moves the first message to its goroutine.
LEMMA listenStep ==
    ASSUME IInv, listen
    PROVE  IInv'
<1> USE DEF handlerVars, subVars, connVars, nodeVars, clientVars
<1>1. /\ UNCHANGED <<up, clientVars, handlerVars, subVars, nodeVars, notes, answers>>
      /\ \/ /\ inbox # <<>> /\ inbox' = Tail(inbox)
            /\ \/ Head(inbox).kind # "garbage" /\ msgs' = msgs \cup {Head(inbox)}
               \/ msgs' = msgs
         \/ UNCHANGED <<inbox, msgs>>
  BY DEF listen
<1>2. listening' \in BOOLEAN
  BY Zenon DEF listen
<1>3. inbox \in Seq(Message) /\ msgs \subseteq Answer \cup Note
  BY DEF IInv, TypeOK
<1>4. inbox' \in Seq(Message) /\ msgs' \subseteq Answer \cup Note
  BY <1>1, <1>3, MessageTypes
<1>5. TypeOK'
  BY <1>1, <1>2, <1>4, Zenon DEF IInv, TypeOK
<1>6. /\ \A m \in msgs' : m.kind = "answer" => Owned(m.id, m.by)
      /\ \A k \in 1..Len(inbox') : inbox'[k].kind = "answer" =>
                                   Owned(inbox'[k].id, inbox'[k].by)
  BY <1>1, <1>3 DEF IInv, WireOK
<1>7. WireOK'
  BY <1>1, <1>6 DEF IInv, WireOK, Owned
<1> QED
  BY <1>1, <1>5, <1>7, CallFrame DEF IInv

\* handleMsg and handleSubscription preserve the invariant.
LEMMA handleStep ==
    ASSUME IInv, NEW m \in msgs, handleMsg(m) \/ handleSubscription(m)
    PROVE  IInv'
<1> USE DEF handlerVars, subVars, connVars, nodeVars, clientVars
<1>1. /\ UNCHANGED <<timers, expired, clientVars, subVars, connVars, nodeVars, inbox>>
      /\ msgs' = msgs \ {m}
      /\ handler' \subseteq handler
      /\ answers' = answers \/ (m.kind = "answer" /\ answers' = answers \cup {m})
      /\ notes' = notes \/ (m.kind = "note" /\ notes' = notes \cup {m})
  BY DEF handleMsg, handleSubscription
<1>2. msgs \subseteq Answer \cup Note /\ answers \subseteq Answer /\ notes \subseteq Note
  BY DEF IInv, TypeOK
<1>3. msgs' \subseteq Answer \cup Note /\ answers' \subseteq Answer /\ notes' \subseteq Note
  BY <1>1, <1>2, MessageTypes
<1>4. handler' \subseteq Id
  BY <1>1 DEF IInv, TypeOK
<1>5. TypeOK'
  BY <1>1, <1>3, <1>4, Zenon DEF IInv, TypeOK
<1>6. \A a \in answers' : Owned(a.id, a.by)
  BY <1>1 DEF IInv, WireOK
<1>7. WireOK'
  BY <1>1, <1>6 DEF IInv, WireOK, Owned
<1> QED
  BY <1>1, <1>5, <1>7, CallFrame DEF IInv

\* callSubscriber and Close preserve the invariant.
LEMMA quietStep ==
    ASSUME IInv, (\E m \in notes : callSubscriber(m)) \/ Close
    PROVE  IInv'
<1> USE DEF handlerVars, subVars, connVars, nodeVars, clientVars
<1>1. /\ UNCHANGED <<listening, clientVars, handlerVars, subVars, nodeVars, answers,
                     inbox, msgs>>
      /\ notes' \subseteq Note /\ up' \in BOOLEAN
  BY Zenon DEF callSubscriber, Close, IInv, TypeOK
<1>2. TypeOK'
  BY <1>1, Zenon DEF IInv, TypeOK
<1> QED
  BY <1>1, <1>2, CallFrame, WireFrame DEF IInv

\* The node's steps preserve the invariant: an answer carries the id and the
\* client of its request.
LEMMA nodeStep ==
    ASSUME IInv, NodeNext
    PROVE  IInv'
<1> USE DEF handlerVars, subVars, connVars, nodeVars, clientVars
<1>1. ASSUME NEW r \in requests, NEW ok \in BOOLEAN, respond(r, ok)
      PROVE  IInv'
  <2> DEFINE m == [kind |-> "answer", id |-> r.id, by |-> r.by, ok |-> ok]
  <2>1. r \in Request /\ r.id \in Id /\ r.by \in Client /\ Owned(r.id, r.by)
    BY DEF IInv, TypeOK, Request, WireOK
  <2>2. m \in Message /\ m.id = r.id /\ m.by = r.by
    BY <2>1 DEF Message, Answer
  <2>3. /\ requests' \subseteq requests /\ inbox' = Append(inbox, m)
        /\ UNCHANGED <<sent, garbage, clientVars, handlerVars, subVars, connVars,
                       notes, answers, msgs>>
    BY <1>1 DEF respond
  <2>4. active' \subseteq Id /\ requests' \subseteq Request
    BY <1>1, <2>1 DEF respond, IInv, TypeOK
  <2>5. WireOK' /\ inbox' \in Seq(Message)
    BY <2>1, <2>2, <2>3, WireAppend
  <2>6. TypeOK'
    BY <2>3, <2>4, <2>5, Zenon DEF IInv, TypeOK
  <2> QED
    BY <2>3, <2>5, <2>6, CallFrame DEF IInv
<1>2. ASSUME NEW s \in active, notify(s)
      PROVE  IInv'
  <2> DEFINE m == [kind |-> "note", sub |-> s, n |-> sent + 1]
  <2>1. /\ inbox' = Append(inbox, m) /\ sent' = sent + 1 /\ sent < MaxNotes
        /\ UNCHANGED <<requests, active, garbage, clientVars, handlerVars, subVars,
                       connVars, notes, answers, msgs>>
    BY <1>2 DEF notify
  <2>2. sent \in 0..MaxNotes /\ s \in Id
    BY DEF IInv, TypeOK
  <2>3. m \in Message /\ m.kind # "answer" /\ sent' \in 0..MaxNotes
    BY <2>1, <2>2, StreamAssumption DEF Message, Note
  <2>4. WireOK' /\ inbox' \in Seq(Message)
    BY <2>1, <2>3, WireAppend
  <2>5. TypeOK'
    BY <2>1, <2>3, <2>4, Zenon DEF IInv, TypeOK
  <2> QED
    BY <2>1, <2>4, <2>5, CallFrame DEF IInv
<1>3. ASSUME sendGarbage
      PROVE  IInv'
  <2> DEFINE m == [kind |-> "garbage"]
  <2>1. /\ inbox' = Append(inbox, m) /\ garbage' = garbage + 1 /\ garbage < MaxGarbage
        /\ UNCHANGED <<requests, active, sent, clientVars, handlerVars, subVars,
                       connVars, notes, answers, msgs>>
    BY <1>3 DEF sendGarbage
  <2>2. garbage \in 0..MaxGarbage
    BY DEF IInv, TypeOK
  <2>3. m \in Message /\ m.kind # "answer" /\ garbage' \in 0..MaxGarbage
    BY <2>1, <2>2, StreamAssumption DEF Message, Garbage
  <2>4. WireOK' /\ inbox' \in Seq(Message)
    BY <2>1, <2>3, WireAppend
  <2>5. TypeOK'
    BY <2>1, <2>3, <2>4, Zenon DEF IInv, TypeOK
  <2> QED
    BY <2>1, <2>4, <2>5, CallFrame DEF IInv
<1> QED
  BY <1>1, <1>2, <1>3, Zenon DEF NodeNext

\* The stream starts in the invariant.
LEMMA InitInvariant == Init => IInv
<1> SUFFICES ASSUME Init PROVE IInv
  OBVIOUS
<1>1. TypeOK
  BY StreamAssumption DEF Init, TypeOK, NoCall
<1>2. LockHolder /\ CallOK
  BY StreamAssumption DEF Init, LockHolder, CallOK, NoCall
<1>3. WireOK
  BY DEF Init, WireOK
<1> QED
  BY <1>1, <1>2, <1>3 DEF IInv

\* Every step of the stream, and a stutter, preserves the invariant.
LEMMA NextInvariant == IInv /\ [Next]_vars => IInv'
<1> SUFFICES ASSUME IInv, [Next]_vars PROVE IInv'
  OBVIOUS
<1>1. ASSUME NEW c \in Client, ClientNext(c)
      PROVE  IInv'
  BY <1>1, CallStep, unsubscribeStep, registerStep, WriteStep, finishStep, Zenon
     DEF ClientNext
<1>2. CASE UNCHANGED vars
  <2> USE <1>2 DEF vars, handlerVars, subVars, connVars, nodeVars, clientVars
  <2>1. TypeOK'
    BY Zenon DEF IInv, TypeOK
  <2> QED
    BY <2>1, CallFrame, WireFrame DEF IInv
<1> QED
  BY <1>1, <1>2, timerStep, listenStep, handleStep, callbackStep, quietStep, nodeStep,
     Zenon DEF Next

\* IInv is an invariant of the stream, for any clients and any number of requests.
THEOREM Invariance == Spec => []IInv
  BY InitInvariant, NextInvariant, PTL DEF Spec

\* Every state of the stream is well typed.
THEOREM TypeCorrect == Spec => []TypeOK
<1>1. IInv => TypeOK
  BY DEF IInv
<1> QED
  BY <1>1, Invariance, PTL

\* A client is never given the answer to a request it did not make, nor a late
\* answer to an earlier one, whatever the order of answers, timers and new calls.
THEOREM AnswersReachTheirCaller == Spec => []AnswerToCaller
<1>1. IInv => AnswerToCaller
  BY DEF IInv, WireOK, Owned, AnswerToCaller, Receiver
<1> QED
  BY <1>1, Invariance, PTL

\* subsLock is held exactly by the client inside unsubscribe's request, so every
\* return path of that request releases it and no other operation keeps it.
THEOREM LockDiscipline == Spec => []LockHolder
<1>1. IInv => LockHolder
  BY DEF IInv
<1> QED
  BY <1>1, Invariance, PTL


-----------------------------------------------------------------------------
\* FilterWait: the channels between the Syncs of a filter, its consumer and WaitDuration.
Waiting == {"idle", "before", "before0", "select", "select0"}
SyncPc == {"start", "bulk", "head", "unlocked", "failed", "done", "returned"}

TypeInv ==
    /\ async \in BOOLEAN /\ ready \in BOOLEAN /\ synced \in BOOLEAN
    /\ sync \in [Syncer -> [pc : SyncPc, changes : Nat, sent : Nat]]
    /\ got \in [Syncer -> Nat] /\ done \in Nat
    /\ wait \in [Waiter -> Waiting \cup {"synced", "token", "timeout"}]

\* What a Sync has sent was received, unless the filter is asynchronous; a Sync has one
\* event at most to send, and none once it has given the lock back.
SentInv ==
    \A s \in Syncer :
        /\ ~async => got[s] = sync[s].sent
        /\ sync[s].sent <= sync[s].changes
        /\ sync[s].pc \in {"unlocked", "done", "returned"} => sync[s].sent = sync[s].changes

\* A token, the flag and a waiter that returned nil each come from a finished Sync; a
\* token that was ever sent is in the buffer or with a waiter, and nobody waits at a
\* buffer that has one.
TokenInv ==
    /\ done > 0 \/ synced => Finished # {}
    /\ \A w \in Waiter : wait[w] \in {"token", "synced"} => Finished # {}
    /\ Finished # {} => done > 0 \/ \E w \in Waiter : wait[w] = "token"
    /\ \A w \in Waiter : wait[w] \in {"select", "select0"} => done = 0

ChannelInv == TypeInv /\ SentInv /\ TokenInv /\ LockWithHead

USE DEF Waiting, SyncPc, DoneCap

LEMMA ChannelInit == FilterInit => ChannelInv
<1> SUFFICES ASSUME FilterInit
             PROVE  ChannelInv
  OBVIOUS
<1>1. TypeInv /\ SentInv
  <2>1. /\ sync \in [Syncer -> [pc : SyncPc, changes : Nat, sent : Nat]]
        /\ got \in [Syncer -> Nat] /\ done \in Nat
        /\ wait \in [Waiter -> Waiting \cup {"synced", "token", "timeout"}]
    BY DEF FilterInit
  <2>2. SentInv
    <3>1. \A s \in Syncer :
             /\ got[s] = 0 /\ sync[s].sent = 0 /\ sync[s].changes = 0
             /\ sync[s].pc = "start"
      BY DEF FilterInit
    <3>2. 0 <= 0
      OBVIOUS
    <3> QED
      BY <3>1, <3>2, Zenon DEF SentInv
  <2> QED
    BY <2>1, <2>2, Zenon DEF FilterInit, TypeInv
<1>2. TokenInv
  BY DEF FilterInit, TokenInv, Finished
<1>3. LockWithHead
  BY FilterAssumption DEF FilterInit, LockWithHead
<1> QED
  BY <1>1, <1>2, <1>3 DEF ChannelInv

\* A step of a Sync that is not about tokens: the Syncs that are finished stay so, and
\* flag, buffer and waiters are left alone.
LEMMA TokensKept ==
    ASSUME TokenInv, Finished' = Finished, UNCHANGED <<done, synced, wait>>
    PROVE  TokenInv'
  BY DEF TokenInv

\* A Sync changes its own pc and the lock: every other one keeps both.
LEMMA LockMoves ==
    ASSUME LockWithHead, TypeInv, NEW s \in Syncer,
           \A x \in Syncer \ {s} : sync'[x] = sync[x] /\ ((blocksLock' = x) <=> (blocksLock = x)),
           (blocksLock' = s) <=> (sync'[s].pc = "head")
    PROVE  LockWithHead'
  BY DEF LockWithHead

LEMMA SyncStep ==
    ASSUME ChannelInv, NEW s \in Syncer,
           startSync(s) \/ changeStore(s) \/ relock(s) \/ unlock(s) \/ syncFails(s)
    PROVE  ChannelInv'
<1> USE DEF ChannelInv
<1>1. /\ UNCHANGED <<async, got, ready, done, synced, wait>>
      /\ \A x \in Syncer \ {s} : sync'[x] = sync[x]
      /\ sync' \in [Syncer -> [pc : SyncPc, changes : Nat, sent : Nat]]
  BY DEF startSync, changeStore, relock, unlock, syncFails, TypeInv
<1>2. TypeInv'
  BY <1>1 DEF TypeInv
<1>3. SentInv'
  BY <1>1 DEF startSync, changeStore, relock, unlock, syncFails, pending, TypeInv, SentInv
<1>4. sync[s].pc \notin {"done", "returned"} /\ sync'[s].pc \notin {"done", "returned"}
  BY DEF startSync, changeStore, relock, unlock, syncFails, TypeInv
<1>5. TokenInv'
  <2>1. Finished' = Finished
    BY <1>1, <1>4 DEF Finished
  <2> QED
    BY <1>1, <2>1, TokensKept
<1>6. LockWithHead'
  <2>1. /\ (blocksLock' = s) <=> (sync'[s].pc = "head")
        /\ \A x \in Syncer \ {s} : (blocksLock' = x) <=> (blocksLock = x)
    BY FilterAssumption DEF startSync, changeStore, relock, unlock, syncFails, LockWithHead, TypeInv
  <2> QED
    BY <1>1, <2>1, LockMoves
<1> QED
  BY <1>2, <1>3, <1>5, <1>6

LEMMA EmitStep ==
    ASSUME ChannelInv, NEW s \in Syncer, emitEvent(s)
    PROVE  ChannelInv'
<1> USE DEF ChannelInv
<1>1. /\ UNCHANGED <<async, blocksLock, done, synced, wait>>
      /\ sync' = [sync EXCEPT ![s].sent = sync[s].sent + 1]
      /\ sync[s].pc \in {"bulk", "head"} /\ sync[s].sent < sync[s].changes
  BY DEF emitEvent, pending
<1>2. \/ ready /\ got' = [got EXCEPT ![s] = got[s] + 1]
      \/ ~ready /\ async /\ got' = got
  BY DEF emitEvent, TypeInv
<1>3. ready' \in BOOLEAN
  BY Zenon DEF emitEvent
<1>4. TypeInv'
  BY <1>1, <1>2, <1>3 DEF TypeInv
<1>5. SentInv'
  BY <1>1, <1>2 DEF TypeInv, SentInv
<1>6. \A x \in Syncer : sync'[x].pc = sync[x].pc
  BY <1>1 DEF TypeInv
<1>7. TokenInv'
  <2>1. Finished' = Finished
    BY <1>6 DEF Finished
  <2> QED
    BY <1>1, <2>1, TokensKept
<1>8. LockWithHead'
  BY <1>1, <1>6 DEF LockWithHead
<1> QED
  BY <1>4, <1>5, <1>7, <1>8

LEMMA TokenStep ==
    ASSUME ChannelInv, NEW s \in Syncer, sendDone(s) \/ setSynced(s)
    PROVE  ChannelInv'
<1> USE DEF ChannelInv
<1>1. /\ UNCHANGED <<async, blocksLock, got, ready>>
      /\ \A x \in Syncer \ {s} : sync'[x] = sync[x]
      /\ sync' \in [Syncer -> [pc : SyncPc, changes : Nat, sent : Nat]]
      /\ sync[s].pc \in {"unlocked", "done"} /\ sync'[s].pc \in {"done", "returned"}
      /\ sync'[s].changes = sync[s].changes /\ sync'[s].sent = sync[s].sent
  BY DEF sendDone, setSynced, TypeInv
<1>2. done' \in Nat /\ synced' \in BOOLEAN
  <2>1. done' \in Nat
    BY DEF sendDone, setSynced, TypeInv
  <2>2. synced' \in BOOLEAN
    BY Zenon DEF sendDone, setSynced, TypeInv
  <2> QED
    BY <2>1, <2>2
<1>3. wait' \in [Waiter -> Waiting \cup {"synced", "token", "timeout"}]
  BY DEF sendDone, setSynced, receiving, TypeInv
<1>4. TypeInv'
  BY <1>1, <1>2, <1>3 DEF TypeInv
<1>5. SentInv'
  BY <1>1 DEF SentInv
<1>6. s \in Finished'
  BY <1>1 DEF Finished
<1>7. TokenInv'
  <2>1. done' > 0 \/ \E w \in Waiter : wait'[w] = "token"
    BY DEF sendDone, setSynced, receiving, TypeInv, TokenInv, Finished
  <2>2. \A w \in Waiter : wait'[w] \in {"select", "select0"} => done' = 0
    BY DEF sendDone, setSynced, receiving, TypeInv, TokenInv
  <2> QED
    BY <1>6, <2>1, <2>2 DEF TokenInv
<1>8. LockWithHead'
  <2>1. (blocksLock' = s) <=> (sync'[s].pc = "head")
    BY <1>1 DEF LockWithHead
  <2> QED
    BY <1>1, <2>1, LockMoves
<1> QED
  BY <1>4, <1>5, <1>7, <1>8

LEMMA WaitStep ==
    ASSUME ChannelInv, NEW w \in Waiter, waitStep(w)
    PROVE  ChannelInv'
<1> USE DEF ChannelInv
<1>1. UNCHANGED <<async, sync, blocksLock, got, ready, synced>>
  BY DEF waitStep, checkSynced, enterSelect, waitTimeout, syncVars
<1>2. Finished' = Finished
  BY <1>1 DEF Finished
<1>3. SentInv' /\ LockWithHead'
  BY <1>1 DEF SentInv, LockWithHead
<1>4. ASSUME checkSynced(w) \/ waitTimeout(w)
      PROVE  TypeInv' /\ TokenInv'
  <2>1. /\ done' = done /\ wait[w] \notin {"token", "synced"}
        /\ \E next \in {"synced", "before", "before0", "timeout"} :
              /\ wait' = [wait EXCEPT ![w] = next]
              /\ next = "synced" => synced
    BY <1>4 DEF checkSynced, waitTimeout
  <2>2. TypeInv'
    BY <1>1, <2>1 DEF TypeInv
  <2> QED
    BY <1>1, <1>2, <2>1, <2>2 DEF TypeInv, TokenInv
<1>5. ASSUME enterSelect(w)
      PROVE  TypeInv' /\ TokenInv'
  <2>1. /\ wait[w] \in {"before", "before0"}
        /\ done' = IF done > 0 THEN done - 1 ELSE done
        /\ \E next \in {"select", "select0"} :
              wait' = [wait EXCEPT ![w] = IF done > 0 THEN "token" ELSE next]
    BY <1>5 DEF enterSelect
  <2>2. TypeInv'
    <3>1. done' \in Nat
      BY <2>1 DEF TypeInv
    <3>2. wait' \in [Waiter -> Waiting \cup {"synced", "token", "timeout"}]
      BY <2>1 DEF TypeInv
    <3> QED
      BY <1>1, <3>1, <3>2 DEF TypeInv
  <2>3. CASE done > 0
    <3>1. /\ Finished # {} /\ wait'[w] = "token"
          /\ \A x \in Waiter \ {w} : wait'[x] = wait[x] /\ wait[x] \notin {"select", "select0"}
      BY <2>1, <2>3 DEF TokenInv, TypeInv
    <3> QED
      BY <1>1, <1>2, <2>2, <3>1 DEF TokenInv
  <2>4. CASE ~(done > 0)
    <3>1. /\ done = 0 /\ done' = done
          /\ \A x \in Waiter : wait'[x] = wait[x] \/ (x = w /\ wait'[x] \in {"select", "select0"})
      BY <2>1, <2>4 DEF TypeInv
    <3> QED
      BY <1>1, <1>2, <2>1, <2>2, <3>1 DEF TokenInv
  <2> QED
    BY <2>3, <2>4
<1> QED
  BY <1>3, <1>4, <1>5 DEF waitStep

LEMMA ChannelStep ==
    ASSUME ChannelInv, [FilterNext]_filterVars
    PROVE  ChannelInv'
<1>1. ASSUME consume \/ lookAway
      PROVE  ChannelInv'
  <2>1. ready' \in BOOLEAN /\ UNCHANGED <<async, sync, blocksLock, got, done, synced, wait>>
    BY <1>1, Zenon DEF consume, lookAway
  <2> QED
    BY <2>1 DEF ChannelInv, TypeInv, SentInv, TokenInv, LockWithHead, Finished
<1>2. CASE UNCHANGED filterVars
  BY <1>2 DEF filterVars, ChannelInv, TypeInv, SentInv, TokenInv, LockWithHead, Finished
<1> QED
  BY SyncStep, EmitStep, TokenStep, WaitStep, <1>1, <1>2 DEF FilterNext, syncStep

\* For any number of Sync and WaitDuration calls, with Syncs that fail anywhere: a
\* WaitDuration returns nil only after a Sync whose events were received, a waiter is
\* without a token after a successful Sync only if another waiter has it, and no Sync
\* that has returned keeps blocksLock (tracker.go).
THEOREM FilterKeepsPromises == FilterSpec => []ChannelsSound
<1>1. FilterInit => ChannelInv
  BY ChannelInit
<1>2. ChannelInv /\ [FilterNext]_filterVars => ChannelInv'
  BY ChannelStep
<1>3. ChannelInv => NilAfterSync
  BY DEF ChannelInv, TypeInv, SentInv, TokenInv, Finished, NilAfterSync
<1>4. ChannelInv => StrandedByAnother
  BY DEF ChannelInv, TypeInv, TokenInv, StrandedByAnother
<1>5. ChannelInv => ChannelsSound
  BY <1>3, <1>4 DEF ChannelInv, ChannelsSound
<1> QED
  BY <1>1, <1>2, <1>5, PTL DEF FilterSpec
=============================================================================
