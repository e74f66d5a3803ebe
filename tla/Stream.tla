------------------------------- MODULE Stream -------------------------------
(***************************************************************************)
(* The stream transport of jsonrpc/transport/websocket.go, shared by the   *)
(* websocket and the ipc connections.                                      *)
(*                                                                         *)
(* Goroutines that call Call, Subscribe and the cancel functions share one *)
(* connection.  A Call registers a handler under a fresh id, arms a timer, *)
(* writes the request and receives from its own unbuffered channel `ack'.  *)
(* listen starts one goroutine per message: handleMsg takes the handler of *)
(* an answer and offers it on `ack'; handleSubscription looks up the       *)
(* callback of a notification and calls it.  The timer deletes the handler *)
(* and offers ErrTimeout.  An offer that finds nobody receiving is lost.   *)
(*                                                                         *)
(* The channel `ack' of a Call is identified with the id of its request,   *)
(* and a subscription with the id of the request that created it.  The     *)
(* node at the other end answers in any order or not at all.               *)
(***************************************************************************)
EXTENDS Naturals, Sequences

CONSTANTS
    Client,        \* goroutines that use the transport
    None,          \* no goroutine, no subscription
    MaxSeq,        \* bound on the requests made
    MaxNotes,      \* bound on the notifications the node sends
    MaxGarbage,    \* bound on the messages that are not JSON
    PromptWrite    \* TRUE: no timer fires before its Call receives from ack

Id == 1..MaxSeq

ASSUME StreamAssumption ==
    /\ MaxSeq \in Nat /\ MaxNotes \in Nat /\ MaxGarbage \in Nat
    /\ PromptWrite \in BOOLEAN
    /\ None \notin Client /\ None \notin Id

VARIABLES
    seq,        \* s.seq
    handler,    \* ids with a callback in s.handler
    timers,     \* ids whose timer is armed
    expired,    \* ids whose timer has deleted the handler and not yet offered
    subs,       \* subscriptions with a callback in s.subs
    subsLock,   \* the goroutine that holds s.subsLock, or None
    listening,  \* listen has not returned
    up,         \* the connection is open
    pc,         \* where each client is
    call,       \* the request each client is making
    result,     \* what its Call is about to return; "missed" records an answer
                \* that was offered before the Call received
    cancels,    \* subscriptions whose cancel function has been returned
    requests,   \* requests written, not yet answered
    inbox,      \* messages sent by the node, not yet read
    msgs,       \* messages with a goroutine that has not looked up yet
    answers,    \* answers whose handler was taken, not yet offered
    notes,      \* notifications whose callback was found, not yet called
    active,     \* subscriptions the node serves
    sent,       \* notifications sent
    garbage     \* messages sent that are not JSON

clientVars == <<seq, pc, call, result, cancels>>
handlerVars == <<handler, timers, expired>>
subVars == <<subs, subsLock>>
connVars == <<listening, up>>
nodeVars == <<requests, active, sent, garbage>>
vars == <<clientVars, handlerVars, subVars, connVars, nodeVars, inbox,
          msgs, answers, notes>>

Request == [id : Id, by : Client, op : {"call", "subscribe", "unsubscribe"},
            sub : Id \cup {None}]
Answer == [kind : {"answer"}, id : Id, by : Client, ok : BOOLEAN]
Note == [kind : {"note"}, sub : Id, n : 1..MaxNotes]
Garbage == [kind : {"garbage"}]
Message == Answer \cup Note \cup Garbage

NoCall == [id |-> None, op |-> "none", sub |-> None]

-----------------------------------------------------------------------------
(***************************************************************************)
(* Calls.                                                                  *)
(***************************************************************************)

\* incSeq reads and writes s.seq in two steps and a second call has read it too.
incSeq_Lost == IF seq = 0 THEN 1 ELSE seq

incSeq == seq + 1

\* The first lines of Call, up to the channel.
newCall(c, op, sub) ==
    /\ pc[c] = "idle"
    /\ seq < MaxSeq
    /\ seq' = incSeq
    /\ call' = [call EXCEPT ![c] = [id |-> incSeq, op |-> op, sub |-> sub]]
    /\ pc' = [pc EXCEPT ![c] = "register"]
    /\ UNCHANGED <<result, cancels>>

\* No timer.
setHandler_NoTimer(c) ==
    /\ pc[c] = "register"
    /\ handler' = handler \cup {call[c].id}
    /\ pc' = [pc EXCEPT ![c] = "write"]
    /\ UNCHANGED <<timers, expired, seq, call, result, cancels, subVars, connVars,
                   nodeVars, notes, answers, inbox, msgs>>

\* Nobody can see the handler before the timer: the request is not written yet.
setHandler(c) ==
    /\ pc[c] = "register"
    /\ handler' = handler \cup {call[c].id}
    /\ timers' = timers \cup {call[c].id}
    /\ pc' = [pc EXCEPT ![c] = "write"]
    /\ UNCHANGED <<expired, seq, call, result, cancels, subVars, connVars,
                   nodeVars, notes, answers, inbox, msgs>>

\* codec.Write; an error returns at once and leaves the handler to the timer.
Write(c) ==
    /\ pc[c] = "write"
    /\ \/ /\ up
          /\ requests' = requests \cup
                {[id |-> call[c].id, by |-> c, op |-> call[c].op, sub |-> call[c].sub]}
          /\ pc' = [pc EXCEPT ![c] = "recv"]
          /\ UNCHANGED result
       \/ /\ ~up
          /\ pc' = [pc EXCEPT ![c] = "ret"]
          /\ result' = [result EXCEPT ![c] = "error"]
          /\ UNCHANGED requests
    /\ UNCHANGED <<seq, call, cancels, handlerVars, subVars, connVars, active,
                   sent, garbage, notes, answers, inbox, msgs>>

\* `<-ack' with nothing to receive yet.
receive(c) ==
    /\ pc[c] = "recv"
    /\ pc' = [pc EXCEPT ![c] = "wait"]
    /\ UNCHANGED <<seq, call, result, cancels, handlerVars, subVars, connVars,
                   nodeVars, notes, answers, inbox, msgs>>

\* The client that receives from the channel of call i, if there is one.
Receiver(i) == {c \in Client : pc[c] = "wait" /\ call[c].id = i}

\* select { case ack <- v: default: }
offer(i, v) ==
    /\ pc' = [c \in Client |-> IF c \in Receiver(i) THEN "ret" ELSE pc[c]]
    /\ result' = [c \in Client |->
                     IF c \in Receiver(i) THEN v
                     ELSE IF v # "timeout" /\ call[c].id = i THEN "missed"
                     ELSE result[c]]
    /\ UNCHANGED <<seq, call, cancels>>

Call(c) ==
    /\ newCall(c, "call", None)
    /\ UNCHANGED <<handlerVars, subVars, connVars, nodeVars, notes, answers,
                   inbox, msgs>>

Subscribe(c) ==
    /\ newCall(c, "subscribe", None)
    /\ UNCHANGED <<handlerVars, subVars, connVars, nodeVars, notes, answers,
                   inbox, msgs>>

\* A cancel function called again finds no subscription and changes nothing.
unsubscribe(c) ==
    /\ subsLock = None
    /\ \E s \in cancels \cap subs :
          /\ subs' = subs \ {s}
          /\ newCall(c, "unsubscribe", s)
    /\ subsLock' = c
    /\ UNCHANGED <<handlerVars, connVars, nodeVars, notes, answers, inbox, msgs>>

\* setSubscription is given the argument of the request, not the id in its answer.
finish_WrongKey(c) ==
    /\ pc[c] = "ret"
    /\ \/ /\ call[c].op = "subscribe" /\ result[c] = "ok"
          /\ subsLock = None
          /\ subs' = subs \cup {call[c].sub}
          /\ cancels' = cancels \cup {call[c].id}
          /\ UNCHANGED subsLock
       \/ /\ call[c].op = "subscribe" => result[c] # "ok"
          /\ subsLock' = IF call[c].op = "unsubscribe" THEN None ELSE subsLock
          /\ UNCHANGED <<subs, cancels>>
    /\ pc' = [pc EXCEPT ![c] = "idle"]
    /\ call' = [call EXCEPT ![c] = NoCall]
    /\ result' = [result EXCEPT ![c] = "none"]
    /\ UNCHANGED <<seq, handlerVars, connVars, nodeVars, notes, answers,
                   inbox, msgs>>

\* The unlock is not deferred: an error of the Call skips it.
finish_NoDefer(c) ==
    /\ pc[c] = "ret"
    /\ \/ /\ call[c].op = "subscribe" /\ result[c] = "ok"
          /\ subsLock = None
          /\ subs' = subs \cup {call[c].id}
          /\ cancels' = cancels \cup {call[c].id}
          /\ UNCHANGED subsLock
       \/ /\ call[c].op = "subscribe" => result[c] # "ok"
          /\ subsLock' = IF call[c].op = "unsubscribe" /\ result[c] = "ok"
                         THEN None ELSE subsLock
          /\ UNCHANGED <<subs, cancels>>
    /\ pc' = [pc EXCEPT ![c] = "idle"]
    /\ call' = [call EXCEPT ![c] = NoCall]
    /\ result' = [result EXCEPT ![c] = "none"]
    /\ UNCHANGED <<seq, handlerVars, connVars, nodeVars, notes, answers,
                   inbox, msgs>>

\* What the caller of Call does with what it returns: Subscribe registers the
\* callback under the lock, unsubscribe releases the lock.
finish(c) ==
    /\ pc[c] = "ret"
    /\ \/ /\ call[c].op = "subscribe" /\ result[c] = "ok"
          /\ subsLock = None
          /\ subs' = subs \cup {call[c].id}
          /\ cancels' = cancels \cup {call[c].id}
          /\ UNCHANGED subsLock
       \/ /\ call[c].op = "subscribe" => result[c] # "ok"
          /\ subsLock' = IF call[c].op = "unsubscribe" THEN None ELSE subsLock
          /\ UNCHANGED <<subs, cancels>>
    /\ pc' = [pc EXCEPT ![c] = "idle"]
    /\ call' = [call EXCEPT ![c] = NoCall]
    /\ result' = [result EXCEPT ![c] = "none"]
    /\ UNCHANGED <<seq, handlerVars, connVars, nodeVars, notes, answers,
                   inbox, msgs>>

-----------------------------------------------------------------------------
(***************************************************************************)
(* The timer of call i, in its own goroutine.                              *)
(***************************************************************************)

timerFires(i) ==
    /\ i \in timers
    /\ PromptWrite => \A c \in Client :
                         call[c].id = i => pc[c] \notin {"write", "recv"}
    /\ timers' = timers \ {i}
    /\ handler' = handler \ {i}
    /\ expired' = expired \cup {i}
    /\ UNCHANGED <<clientVars, subVars, connVars, nodeVars, notes, answers,
                   inbox, msgs>>

timerOffers(i) ==
    /\ i \in expired
    /\ expired' = expired \ {i}
    /\ offer(i, "timeout")
    /\ UNCHANGED <<handler, timers, subVars, connVars, nodeVars, notes,
                   answers, inbox, msgs>>

-----------------------------------------------------------------------------
(***************************************************************************)
(* The reader of the connection and the goroutines it starts.              *)
(***************************************************************************)

listen ==
    /\ listening
    /\ \/ /\ up /\ inbox # <<>>
          /\ inbox' = Tail(inbox)
          /\ listening' = (Head(inbox).kind # "garbage")
          /\ msgs' = IF Head(inbox).kind = "garbage" THEN msgs ELSE msgs \cup {Head(inbox)}
       \/ /\ ~up
          /\ listening' = FALSE
          /\ UNCHANGED <<inbox, msgs>>
    /\ UNCHANGED <<up, clientVars, handlerVars, subVars, nodeVars, notes,
                   answers>>

\* Takes the handler of the answer; an answer without one is ignored.
handleMsg(m) ==
    /\ m.kind = "answer"
    /\ msgs' = msgs \ {m}
    /\ handler' = handler \ {m.id}
    /\ answers' = IF m.id \in handler THEN answers \cup {m} ELSE answers
    /\ UNCHANGED <<timers, expired, clientVars, subVars, connVars, nodeVars,
                   notes, inbox>>

callback(m) ==
    /\ m \in answers
    /\ answers' = answers \ {m}
    /\ offer(m.id, IF m.ok THEN "ok" ELSE "error")
    /\ UNCHANGED <<handlerVars, subVars, connVars, nodeVars, notes, inbox, msgs>>

\* Looks the callback up under subsLock, which it holds for that only.  The node's
\* notifications carry a subscription: params that are none, on which the code panics,
\* are left out.
handleSubscription(m) ==
    /\ m.kind = "note"
    /\ subsLock = None
    /\ msgs' = msgs \ {m}
    /\ notes' = IF m.sub \in subs THEN notes \cup {m} ELSE notes
    /\ UNCHANGED <<clientVars, handlerVars, subVars, connVars, nodeVars,
                   answers, inbox>>

callSubscriber(m) ==
    /\ m \in notes
    /\ notes' = notes \ {m}
    /\ UNCHANGED <<clientVars, handlerVars, subVars, connVars, nodeVars,
                   answers, inbox, msgs>>

\* The program's Close, or keepAlive's when no pong comes back.  (A second Close
\* by the program would panic on the closed channel.)
Close ==
    /\ up
    /\ up' = FALSE
    /\ UNCHANGED <<listening, clientVars, handlerVars, subVars, nodeVars, notes,
                   answers, inbox, msgs>>

-----------------------------------------------------------------------------
(***************************************************************************)
(* The node.                                                               *)
(***************************************************************************)

respond(r, ok) ==
    /\ up
    /\ requests' = requests \ {r}
    /\ inbox' = Append(inbox, [kind |-> "answer", id |-> r.id, by |-> r.by, ok |-> ok])
    /\ active' = IF r.op = "subscribe" /\ ok THEN active \cup {r.id}
                 ELSE IF r.op = "unsubscribe" /\ ok THEN active \ {r.sub}
                 ELSE active
    /\ UNCHANGED <<sent, garbage, clientVars, handlerVars, subVars, connVars,
                   notes, answers, msgs>>

notify(s) ==
    /\ up /\ sent < MaxNotes
    /\ s \in active
    /\ sent' = sent + 1
    /\ inbox' = Append(inbox, [kind |-> "note", sub |-> s, n |-> sent + 1])
    /\ UNCHANGED <<requests, active, garbage, clientVars, handlerVars, subVars,
                   connVars, notes, answers, msgs>>

sendGarbage ==
    /\ up /\ garbage < MaxGarbage
    /\ garbage' = garbage + 1
    /\ inbox' = Append(inbox, [kind |-> "garbage"])
    /\ UNCHANGED <<requests, active, sent, clientVars, handlerVars, subVars,
                   connVars, notes, answers, msgs>>

-----------------------------------------------------------------------------
Init ==
    /\ seq = 0 /\ handler = {} /\ timers = {} /\ expired = {}
    /\ subs = {} /\ subsLock = None
    /\ listening = TRUE /\ up = TRUE
    /\ pc = [c \in Client |-> "idle"]
    /\ call = [c \in Client |-> NoCall]
    /\ result = [c \in Client |-> "none"]
    /\ cancels = {} /\ requests = {} /\ inbox = <<>> /\ msgs = {}
    /\ answers = {} /\ notes = {} /\ active = {} /\ sent = 0 /\ garbage = 0

ClientNext(c) ==
    \/ Call(c) \/ Subscribe(c) \/ unsubscribe(c)
    \/ setHandler(c) \/ Write(c) \/ receive(c) \/ finish(c)

NodeNext ==
    \/ \E r \in requests, ok \in BOOLEAN : respond(r, ok)
    \/ \E s \in active : notify(s)
    \/ sendGarbage

Next ==
    \/ \E c \in Client : ClientNext(c)
    \/ \E i \in Id : timerFires(i) \/ timerOffers(i)
    \/ listen
    \/ \E m \in msgs : handleMsg(m) \/ handleSubscription(m)
    \/ \E m \in answers : callback(m)
    \/ \E m \in notes : callSubscriber(m)
    \/ Close
    \/ NodeNext

Spec == Init /\ [][Next]_vars

\* The scheduler runs every goroutine that can run, and every timer fires.  The
\* node owes nothing, and no client is obliged to start a call.  A goroutine that
\* competes for subsLock gets it in the end (Go's mutexes do not starve).
FairSpec ==
    /\ Spec
    /\ \A c \in Client : /\ WF_vars(setHandler(c)) /\ WF_vars(Write(c))
                         /\ WF_vars(receive(c)) /\ SF_vars(finish(c))
    /\ \A i \in Id : WF_vars(timerFires(i)) /\ WF_vars(timerOffers(i))
    /\ WF_vars(listen)
    /\ WF_vars(\E m \in msgs : handleMsg(m))
    /\ SF_vars(\E m \in msgs : handleSubscription(m))
    /\ WF_vars(\E m \in answers : callback(m))

-----------------------------------------------------------------------------
(***************************************************************************)
(* Properties.                                                             *)
(***************************************************************************)

\* Every variable of the stream has its type; in particular the lock is held by
\* the client that is in unsubscribe, or by nobody.
TypeOK ==
    /\ seq \in 0..MaxSeq
    /\ handler \subseteq Id /\ timers \subseteq Id /\ expired \subseteq Id
    /\ subs \subseteq Id /\ cancels \subseteq Id /\ active \subseteq Id
    /\ subsLock \in Client \cup {None}
    /\ listening \in BOOLEAN /\ up \in BOOLEAN
    /\ pc \in [Client -> {"idle", "register", "write", "recv", "wait", "ret"}]
    /\ call \in [Client -> [id : Id \cup {None}, sub : Id \cup {None},
                            op : {"none", "call", "subscribe", "unsubscribe"}]]
    /\ result \in [Client -> {"none", "ok", "error", "timeout", "missed"}]
    /\ requests \subseteq Request
    /\ inbox \in Seq(Message)
    /\ msgs \subseteq Answer \cup Note
    /\ answers \subseteq Answer /\ notes \subseteq Note
    /\ sent \in 0..MaxNotes /\ garbage \in 0..MaxGarbage

\* A client never gets the answer to somebody else's request, nor the late answer
\* to an earlier request of its own: an answer that Call's callback is about to
\* offer on a channel goes to the client that made the request (incSeq, setHandler
\* and handleMsg, with the ids shared by every goroutine of the connection).
AnswerToCaller ==
    \A m \in answers : \A c \in Receiver(m.id) : m.by = c

\* subsLock is held exactly while a client is in the Call of unsubscribe: no other
\* path, Call's error returns included, keeps the lock or gives it up early.
LockHolder ==
    \A c \in Client : subsLock = c <=> call[c].op = "unsubscribe"

\* Every registered handler has an armed timer, or its request's answer would be
\* waited for without end: whatever happens to the request, a failed write or a
\* lost connection included, its handler is removed in the end (setHandler).
HandlersDrain == \A i \in Id : (i \in handler) ~> (i \notin handler)

\* Every Call returns, with an answer, an error or ErrTimeout, whatever the node
\* does (setHandler's timer), as long as no timer fires before the Call receives.
CallsReturn == \A c \in Client : (pc[c] # "idle") ~> (pc[c] = "idle")

\* The goroutine of a notification comes to its end even if it has to wait for the
\* lock that unsubscribe holds for the whole of a request to the node.
NotesHandled ==
    \A m \in Note : (m \in msgs) ~> (m \notin msgs)

\* Id i has been given to a request of b, and no other client is using it.
Owned(i, b) == i \in 1..seq /\ \A c \in Client : call[c].id = i => c = b

\* A client outside Call has no request; inside, its id is its own.
CallOK ==
    \A c \in Client : IF pc[c] = "idle" THEN call[c] = NoCall
                      ELSE /\ call[c].id \in Id
                           /\ call[c].op # "none"
                           /\ Owned(call[c].id, c)

\* On every leg of its way to the node and back a request is owned by its client.
WireOK ==
    /\ \A m \in requests : Owned(m.id, m.by)
    /\ \A m \in answers : Owned(m.id, m.by)
    /\ \A m \in msgs : m.kind = "answer" => Owned(m.id, m.by)
    /\ \A k \in 1..Len(inbox) :
          inbox[k].kind = "answer" => Owned(inbox[k].id, inbox[k].by)

\* The inductive invariant behind AnswerToCaller and LockHolder.
IInv == TypeOK /\ LockHolder /\ CallOK /\ WireOK

\* A Call returns ErrTimeout only if its request was not answered in time: no
\* answer to it had found its handler before (websocket.go:27).
TimeoutMeansNoAnswer ==
    [][\A c \in Client : result'[c] = "timeout" => result[c] # "missed"]_vars

=============================================================================
