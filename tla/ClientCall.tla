----------------------------- MODULE ClientCall -----------------------------
(***************************************************************************)
(* The call table of the wrpc-go client (client.go): how Client.Invoke     *)
(* draws a request id, registers a response channel under it, sends the    *)
(* request, and waits; and how the recv goroutine of a connection hands a  *)
(* response over through that table (clientConn.invoke).                   *)
(*                                                                         *)
(* A member of Calls is one execution of Invoke in a goroutine of its own, *)
(* a member of Readers one recv goroutine.  The channel respChan that an   *)
(* Invoke makes is identified with the call.  rwLock is the mutex that     *)
(* guards reqMap; a critical section of Invoke is one step, the one of     *)
(* clientConn.invoke is two, because it sends on a channel while it holds  *)
(* the mutex.                                                              *)
(*                                                                         *)
(* What lies below sendRequest is abstracted to the outcome of one         *)
(* attempt: no connector, a failed dial, a failed write, a full write.     *)
(* The peer answers each written request at most once, in any order, or    *)
(* never.  A response is identified with the call whose request it         *)
(* answers: the request id it carries is the id of that call.              *)
(***************************************************************************)
EXTENDS Integers, Functions

CONSTANTS
    Calls,        \* executions of Client.Invoke
    Readers,      \* recv goroutines
    None,         \* no call, no reader
    MaxInt32,     \* the value at which nextRequestId restarts (scaled down)
    ReTry,        \* ClientOptions.reTry
    Expiring      \* calls whose context ends: requestTimeout > 0, or its own

ASSUME ClientCallAssumption ==
    /\ None \notin Calls
    /\ None \notin Readers
    /\ MaxInt32 \in Nat \ {0}
    /\ ReTry \in Int
    /\ Expiring \subseteq Calls

VARIABLES
    requestId,    \* the process-wide counter
    pc,           \* where each Invoke is
    id,           \* Request.RequestId of each call, 0 before it is drawn
    reqMap,       \* Client.reqMap: id -> the call whose channel it holds
    chan,         \* state of each respChan
    buf,          \* the response buffered in each respChan (capacity 1)
    attempts,     \* iterations sendRequest has finished
    rwLock,       \* the reader that holds Client.rwLock, or None
    hand,         \* the response a reader has unpacked
    target,       \* the channel a reader is about to send on
    got,          \* the response an Invoke took from its channel
    result        \* what Invoke returned

\* History, read by the properties only.
VARIABLES
    draws,        \* ids drawn so far
    drawNo,       \* the position of each call's id among the draws
    writes,       \* how often each call's request was written in full
    answers       \* how many responses to each call reached a reader

appVars == <<requestId, pc, id, reqMap, chan, buf, attempts, got, result>>
readerVars == <<rwLock, hand, target>>
history == <<draws, drawNo, writes, answers>>
vars == <<appVars, readerVars, history>>

\* The states of an Invoke between the insertion in reqMap and the moment
\* it has left the table for good.
Registered == {"send", "sent", "failed", "wait", "expired"}

PcStates == {"idle", "add", "register", "received", "done"} \cup Registered

Results == {"none", "sendError", "timeout", "response"}

TryTime == IF ReTry <= 0 THEN 1 ELSE ReTry

Init ==
    /\ requestId = 0
    /\ pc = [c \in Calls |-> "idle"]
    /\ id = [c \in Calls |-> 0]
    /\ reqMap = [i \in {} |-> None]
    /\ chan = [c \in Calls |-> "nil"]
    /\ buf = [c \in Calls |-> None]
    /\ attempts = [c \in Calls |-> 0]
    /\ rwLock = None
    /\ hand = [r \in Readers |-> None]
    /\ target = [r \in Readers |-> None]
    /\ got = [c \in Calls |-> None]
    /\ result = [c \in Calls |-> "none"]
    /\ draws = 0
    /\ drawNo = [c \in Calls |-> 0]
    /\ writes = [c \in Calls |-> 0]
    /\ answers = [c \in Calls |-> 0]

-----------------------------------------------------------------------------
(* Operations on reqMap.                                                   *)

\* Variant: delete(reqMap, i) forgotten.
ForgetNothing(i) == reqMap

\* delete(client.reqMap, i)
Forget(i) == Restrict(reqMap, DOMAIN reqMap \ {i})

\* client.reqMap[i] = respChan of c
Store(i, c) == [j \in DOMAIN reqMap \cup {i} |-> IF j = i THEN c ELSE reqMap[j]]

-----------------------------------------------------------------------------
(* nextRequestId: a compare-and-swap and an add, atomic one by one.        *)

\* Variant: the counter is not atomic and an increment may be lost.
DrawLost(c, n) ==
    /\ requestId' \in {requestId, n}
    /\ id' = [id EXCEPT ![c] = n]
    /\ pc' = [pc EXCEPT ![c] = "register"]
    /\ draws' = draws + 1
    /\ drawNo' = [drawNo EXCEPT ![c] = draws + 1]

Draw(c, n) ==
    /\ requestId' = n
    /\ id' = [id EXCEPT ![c] = n]
    /\ pc' = [pc EXCEPT ![c] = "register"]
    /\ draws' = draws + 1
    /\ drawNo' = [drawNo EXCEPT ![c] = draws + 1]

\* Variant: the counter wraps one id early.
WrapsEarly == requestId >= MaxInt32 - 1

Wraps == requestId = MaxInt32

NextIdCas(c) ==
    /\ pc[c] = "idle"
    /\ \/ /\ Wraps
          /\ Draw(c, 1)
       \/ /\ ~Wraps
          /\ pc' = [pc EXCEPT ![c] = "add"]
          /\ UNCHANGED <<requestId, id, draws, drawNo>>
    /\ UNCHANGED <<reqMap, chan, buf, attempts, got, result, readerVars,
                   writes, answers>>

NextIdAdd(c) ==
    /\ pc[c] = "add"
    /\ Draw(c, requestId + 1)
    /\ UNCHANGED <<reqMap, chan, buf, attempts, got, result, readerVars,
                   writes, answers>>

-----------------------------------------------------------------------------
(* Invoke up to the wait: registration, then the loop of sendRequest.      *)

Register(c) ==
    /\ pc[c] = "register"
    /\ rwLock = None
    /\ reqMap' = Store(id[c], c)
    /\ chan' = [chan EXCEPT ![c] = "open"]
    /\ pc' = [pc EXCEPT ![c] = "send"]
    /\ UNCHANGED <<requestId, id, buf, attempts, got, result, readerVars,
                   history>>

\* The iteration that ends now is the last one.
LastAttempt(c) == attempts[c] + 1 = TryTime

\* PacketRequest fails, or connector() finds no connector: return at once.
NoConnector(c) ==
    /\ pc[c] = "send"
    /\ pc' = [pc EXCEPT ![c] = "failed"]
    /\ UNCHANGED <<requestId, id, reqMap, chan, buf, attempts, got, result,
                   readerVars, history>>

\* getConn fails: the error is kept for the end of the loop.
DialFails(c) ==
    /\ pc[c] = "send"
    /\ attempts' = [attempts EXCEPT ![c] = @ + 1]
    /\ pc' = [pc EXCEPT ![c] = IF LastAttempt(c) THEN "failed" ELSE "send"]
    /\ UNCHANGED <<requestId, id, reqMap, chan, buf, got, result, readerVars,
                   history>>

\* send fails: the loop keeps cerr, which is nil here, so that when this was
\* the last attempt sendRequest reports success.
WriteFails(c) ==
    /\ pc[c] = "send"
    /\ attempts' = [attempts EXCEPT ![c] = @ + 1]
    /\ pc' = [pc EXCEPT ![c] = IF LastAttempt(c) THEN "wait" ELSE "send"]
    /\ UNCHANGED <<requestId, id, reqMap, chan, buf, got, result, readerVars,
                   history>>

\* Variant: the break is missing.
WriteWithoutBreak(c) ==
    /\ pc[c] = "send"
    /\ attempts' = [attempts EXCEPT ![c] = @ + 1]
    /\ writes' = [writes EXCEPT ![c] = @ + 1]
    /\ pc' = [pc EXCEPT ![c] = IF LastAttempt(c) THEN "sent" ELSE "send"]
    /\ UNCHANGED <<requestId, id, reqMap, chan, buf, got, result, readerVars,
                   draws, drawNo, answers>>

\* send writes the whole packet: from here on the peer may answer, while the
\* loop is left with a break.
WriteSucceeds(c) ==
    /\ pc[c] = "send"
    /\ attempts' = [attempts EXCEPT ![c] = @ + 1]
    /\ writes' = [writes EXCEPT ![c] = @ + 1]
    /\ pc' = [pc EXCEPT ![c] = "sent"]
    /\ UNCHANGED <<requestId, id, reqMap, chan, buf, got, result, readerVars,
                   draws, drawNo, answers>>

\* err = nil; break; return err: on to the select.
SendReturns(c) ==
    /\ pc[c] = "sent"
    /\ pc' = [pc EXCEPT ![c] = "wait"]
    /\ UNCHANGED <<requestId, id, reqMap, chan, buf, attempts, got, result,
                   readerVars, history>>

-----------------------------------------------------------------------------
(* The select of Invoke, and the two paths that take the call off the      *)
(* table.                                                                  *)

\* delete(reqMap, id); close(respChan); return.
Leave(c, outcome) ==
    /\ reqMap' = Forget(id[c])
    /\ chan' = [chan EXCEPT ![c] = "closed"]
    /\ buf' = [buf EXCEPT ![c] = None]
    /\ pc' = [pc EXCEPT ![c] = "done"]
    /\ result' = [result EXCEPT ![c] = outcome]
    /\ UNCHANGED <<requestId, id, attempts, got, readerVars, history>>

\* Variant: the table and the channel are touched without the lock.
WithdrawUnlocked(c, outcome) == Leave(c, outcome)

\* The same between Lock and Unlock.
Withdraw(c, outcome) == rwLock = None /\ Leave(c, outcome)

SendErrorReturn(c) == pc[c] = "failed" /\ Withdraw(c, "sendError")

\* The select takes ctx.Done(); a response may still arrive before the lock.
ContextDone(c) ==
    /\ c \in Expiring
    /\ pc[c] = "wait"
    /\ pc' = [pc EXCEPT ![c] = "expired"]
    /\ UNCHANGED <<requestId, id, reqMap, chan, buf, attempts, got, result,
                   readerVars, history>>

\* Variant: the timeout is reported like a failed send.
TimeoutAsSendError(c) == pc[c] = "expired" /\ Withdraw(c, "sendError")

TimeoutReturn(c) == pc[c] = "expired" /\ Withdraw(c, "timeout")

\* The select takes the response.  Its !ok branch would need the channel
\* closed by somebody else while the call waits, which ChannelSafe excludes.
TakeResponse(c) ==
    /\ pc[c] = "wait"
    /\ buf[c] # None
    /\ got' = [got EXCEPT ![c] = buf[c]]
    /\ buf' = [buf EXCEPT ![c] = None]
    /\ pc' = [pc EXCEPT ![c] = "received"]
    /\ UNCHANGED <<requestId, id, reqMap, chan, attempts, result, readerVars,
                   history>>

\* close(respChan), without the lock, and return the body or the error the
\* response carries.
ResponseReturn(c) ==
    /\ pc[c] = "received"
    /\ chan' = [chan EXCEPT ![c] = "closed"]
    /\ pc' = [pc EXCEPT ![c] = "done"]
    /\ result' = [result EXCEPT ![c] = "response"]
    /\ UNCHANGED <<requestId, id, reqMap, buf, attempts, got, readerVars,
                   history>>

-----------------------------------------------------------------------------
(* clientConn.invoke, run by a recv goroutine for each response.           *)

\* A response to a written request of c reaches reader r and unpacks.
ResponseArrives(r, c) ==
    /\ hand[r] = None
    /\ answers[c] < writes[c]
    /\ hand' = [hand EXCEPT ![r] = c]
    /\ answers' = [answers EXCEPT ![c] = @ + 1]
    /\ UNCHANGED <<appVars, rwLock, target, draws, drawNo, writes>>

\* Lock, look the id up, and find it: it leaves the table, and the reader goes
\* on to send, still holding the lock.
LookUpKnown(r) ==
    /\ hand[r] # None
    /\ rwLock = None
    /\ id[hand[r]] \in DOMAIN reqMap
    /\ reqMap' = Forget(id[hand[r]])
    /\ target' = [target EXCEPT ![r] = reqMap[id[hand[r]]]]
    /\ rwLock' = r
    /\ UNCHANGED <<requestId, pc, id, chan, buf, attempts, got, result, hand,
                   history>>

\* An id that is not in the table: the response is dropped.
LookUpUnknown(r) ==
    /\ hand[r] # None
    /\ rwLock = None
    /\ id[hand[r]] \notin DOMAIN reqMap
    /\ hand' = [hand EXCEPT ![r] = None]
    /\ UNCHANGED <<appVars, rwLock, target, history>>

\* Variant: respChan has no buffer.
RoomIfAwaited(c) == chan[c] = "open" /\ buf[c] = None /\ pc[c] = "wait"

\* A send on respChan neither blocks nor panics: open, capacity 1.
Room(c) == chan[c] = "open" /\ buf[c] = None

\* Variant: no buffer, and a response nobody is waiting for is dropped.
SentIfAwaited(r) ==
    IF pc[target[r]] = "wait" THEN [buf EXCEPT ![target[r]] = hand[r]] ELSE buf

\* respChan <- resp
Sent(r) == [buf EXCEPT ![target[r]] = hand[r]]

\* Send, then Unlock.  A full channel blocks the reader, a closed one panics:
\* in both cases this step is not enabled, and ChannelSafe is false.
Deliver(r) ==
    /\ rwLock = r
    /\ Room(target[r])
    /\ buf' = Sent(r)
    /\ rwLock' = None
    /\ hand' = [hand EXCEPT ![r] = None]
    /\ target' = [target EXCEPT ![r] = None]
    /\ UNCHANGED <<requestId, pc, id, reqMap, chan, attempts, got, result,
                   history>>

-----------------------------------------------------------------------------

SendStep(c) ==
    \/ NoConnector(c) \/ DialFails(c) \/ WriteFails(c) \/ WriteSucceeds(c)
    \/ SendReturns(c)

CallStep(c) ==
    \/ NextIdCas(c) \/ NextIdAdd(c) \/ Register(c) \/ SendStep(c)
    \/ SendErrorReturn(c) \/ ContextDone(c) \/ TimeoutReturn(c)
    \/ TakeResponse(c) \/ ResponseReturn(c)

ReaderStep(r) == LookUpKnown(r) \/ LookUpUnknown(r) \/ Deliver(r)

Next ==
    \/ \E c \in Calls : CallStep(c)
    \/ \E r \in Readers : ReaderStep(r)
    \/ \E r \in Readers, c \in Calls : ResponseArrives(r, c)

Spec == Init /\ [][Next]_vars

\* Goroutines that can run are scheduled, dials and writes end, timers fire.
\* Nothing is assumed of the peer: a response need never arrive.
Fairness ==
    /\ \A c \in Calls : WF_vars(CallStep(c))
    /\ \A r \in Readers : WF_vars(ReaderStep(r))

FairSpec == Spec /\ Fairness

-----------------------------------------------------------------------------
(* Properties.                                                             *)

Drawn(c) == pc[c] \notin {"idle", "add"}

Distance(m, n) == IF m <= n THEN n - m ELSE m - n

\* Two calls that share a request id.
Collide(c, d) == c # d /\ Drawn(c) /\ Drawn(d) /\ id[c] = id[d]

\* Types of the table, the counters and the goroutine states of the client.
TypeOK ==
    /\ requestId \in Nat
    /\ pc \in [Calls -> PcStates]
    /\ id \in [Calls -> Nat]
    /\ DOMAIN reqMap \subseteq Nat
    /\ \A i \in DOMAIN reqMap : reqMap[i] \in Calls
    /\ chan \in [Calls -> {"nil", "open", "closed"}]
    /\ buf \in [Calls -> Calls \cup {None}]
    /\ attempts \in [Calls -> 0 .. TryTime]
    /\ rwLock \in Readers \cup {None}
    /\ hand \in [Readers -> Calls \cup {None}]
    /\ target \in [Readers -> Calls \cup {None}]
    /\ got \in [Calls -> Calls \cup {None}]
    /\ result \in [Calls -> Results]
    /\ draws \in Nat
    /\ drawNo \in [Calls -> Nat]
    /\ writes \in [Calls -> Nat]
    /\ answers \in [Calls -> Nat]

\* Invoke and clientConn.invoke share respChan without a common protocol for
\* closing it.  The reader that sends while it holds rwLock always finds the
\* channel open with room, so it neither panics nor blocks every other call;
\* and an Invoke about to close its channel finds it open.
ChannelSafe ==
    /\ \A r \in Readers : rwLock = r =>
         /\ target[r] # None
         /\ chan[target[r]] = "open"
         /\ buf[target[r]] = None
    /\ \A c \in Calls : pc[c] \in {"failed", "expired", "received"} =>
         chan[c] = "open"

\* reqMap does not leak and never leads a reader to a call that has left:
\* an entry belongs to a call that is still in Invoke, with an empty channel.
EntriesAreLive ==
    \A i \in DOMAIN reqMap :
        /\ pc[reqMap[i]] \in Registered
        /\ id[reqMap[i]] = i
        /\ buf[reqMap[i]] = None

\* The wrap of nextRequestId is a compare-and-swap followed by an add, and
\* the counter can jump over MaxInt32.  Whether it wraps or escapes, an id
\* is not drawn again before MaxInt32 further draws.
IdsFarApart ==
    \A c, d \in Calls :
        Collide(c, d) => Distance(drawNo[c], drawNo[d]) >= MaxInt32

\* The response an Invoke has taken is the one to its own request, unless the
\* ids of the two requests were drawn MaxInt32 draws apart or more.
OwnResponse ==
    \A c \in Calls : got[c] # None =>
        got[c] = c \/ Distance(drawNo[c], drawNo[got[c]]) >= MaxInt32

\* No response is lost between sending and waiting: from its registration
\* until it leaves, a call is in the table, or its answer is in its channel
\* or in the hands of a reader; only a call with the same id can take that
\* away.  In particular an answer that overtakes the return of sendRequest
\* finds its channel.
Reachable ==
    \A c \in Calls : pc[c] \in Registered =>
        \/ id[c] \in DOMAIN reqMap /\ reqMap[id[c]] = c
        \/ buf[c] # None
        \/ rwLock # None /\ target[rwLock] = c
        \/ \E d \in Calls : Collide(c, d)

\* The retries of sendRequest put a request on the wire at most once, and an
\* Invoke that returns a send error did not put it there: the caller can
\* repeat the call without repeating its effect.
WrittenAtMostOnce ==
    \A c \in Calls :
        /\ writes[c] <= 1
        /\ result[c] = "sendError" => writes[c] = 0

\* With a deadline every Invoke returns, whatever the peer does.  Without one
\* it returns once its response has arrived, even when that is before
\* sendRequest is left; only a call with the same id can take the response.
CallsReturn ==
    \A c \in Calls :
        /\ c \in Expiring => <>(pc[c] = "done")
        /\ answers[c] > 0 ~> pc[c] = "done" \/ \E d \in Calls : Collide(c, d)

\* What a caller can see of the table: a call begins when it registers, and
\* its outcome becomes visible when Invoke returns.
PromisePhase == [c \in Calls |->
    IF pc[c] \in {"idle", "add", "register"} THEN "new"
    ELSE IF pc[c] = "done" THEN "ended" ELSE "open"]
PromiseSent == {c \in Calls : writes[c] # 0}
PromiseAnswer == [c \in Calls |-> IF pc[c] = "done" THEN got[c] ELSE None]

Promise == INSTANCE RpcCall WITH
    NoAnswer <- None,
    phase <- PromisePhase,
    sent <- PromiseSent,
    outcome <- result,
    answer <- PromiseAnswer

\* While no two calls share an id, every step of the client's table is a step
\* of RpcCall or invisible there: ids, table, channels and readers implement
\* the promise.  Cardinality(Calls) <= MaxInt32 keeps ids apart.
KeepsPromise == Promise!Spec

-----------------------------------------------------------------------------
(* The inductive invariant behind the safety properties.  ClientCallProof  *)
(* proves it and derives them.                                             *)

\* The last attempt leaves the state "send".
AttemptsLeft == \A c \in Calls :
    pc[c] \in {"idle", "add", "register", "send"} => attempts[c] < TryTime

TypeInv == TypeOK /\ AttemptsLeft

\* A written request is not in sendRequest any more, and only a call that has
\* returned has a result.
WritesInv == \A c \in Calls :
    /\ writes[c] # 0 =>
         /\ writes[c] = 1
         /\ pc[c] \in {"sent", "wait", "expired", "received", "done"}
         /\ result[c] # "sendError"
    /\ pc[c] # "done" => result[c] = "none"

\* How far the counter, and the id of a call, are behind the number of draws.
Lag == draws - requestId
LagOf(c) == drawNo[c] - id[c]

\* Lag grows by MaxInt32 when the counter wraps and is constant otherwise.
IdsInv ==
    /\ \A c \in Calls : Drawn(c) =>
         /\ drawNo[c] <= draws
         /\ LagOf(c) = Lag \/ Lag - LagOf(c) >= MaxInt32
    /\ \A c, d \in Calls : c # d /\ Drawn(c) /\ Drawn(d) =>
         /\ drawNo[c] # drawNo[d]
         /\ LagOf(c) = LagOf(d) \/ Distance(LagOf(c), LagOf(d)) >= MaxInt32

\* d is the call the response in hand answers, or one with the same id.
SameId(c, d) == d \in Calls /\ Drawn(c) /\ Drawn(d) /\ id[c] = id[d]

\* The channel of a call is open exactly from its registration to its return.
ChanInv == \A c \in Calls :
    /\ pc[c] \in {"idle", "add", "register"} => chan[c] = "nil"
    /\ pc[c] \in Registered \cup {"received"} => chan[c] = "open"
    /\ pc[c] = "done" => chan[c] = "closed"

NotInTable(c) == \A i \in DOMAIN reqMap : reqMap[i] # c

\* A reader between LookUpKnown and Deliver owns the channel it took.
ReaderInv == \A r \in Readers :
    /\ rwLock # r => target[r] = None
    /\ rwLock = r =>
         /\ target[r] \in Calls
         /\ pc[target[r]] \in Registered
         /\ buf[target[r]] = None
         /\ NotInTable(target[r])
         /\ hand[r] # None
         /\ SameId(target[r], hand[r])
    /\ hand[r] # None => Drawn(hand[r])

\* A response that was handed over has the id of the call that got it.
HandedOverInv == \A c \in Calls :
    /\ buf[c] # None => pc[c] \in Registered /\ SameId(c, buf[c])
    /\ got[c] # None => SameId(c, got[c])

\* Only a response to a written request is on its way, and a call leaves by
\* the response branch only with one.
AnswerInv ==
    /\ \A r \in Readers : hand[r] # None => writes[hand[r]] # 0
    /\ \A c \in Calls :
         /\ buf[c] # None => writes[buf[c]] # 0
         /\ got[c] # None => writes[got[c]] # 0
         /\ pc[c] = "received" => got[c] # None
         /\ pc[c] \notin {"received", "done"} => got[c] = None

TableInv == ChanInv /\ EntriesAreLive /\ ReaderInv /\ HandedOverInv

\* The parts together.
CallTableInv ==
    TypeInv /\ WritesInv /\ IdsInv /\ AnswerInv /\ TableInv /\ Reachable

=============================================================================
