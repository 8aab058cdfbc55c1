---------------------------- MODULE ServerInvoke ----------------------------
(***************************************************************************)
(* What a wrpc-go server does with a request (tcpConn.invoke in            *)
(* server_tcp.go).  handle starts one goroutine per frame.  It takes a     *)
(* slot of the channel tick, which has room for maxInvoke, looks the       *)
(* encoder up, runs the dispatcher in a second goroutine and waits for it  *)
(* or for its context on the unbuffered respChan, closes respChan, writes  *)
(* the response and gives the slot back.  A panic of the dispatcher, of a  *)
(* send on a closed respChan included, is recovered by logx.Recover and    *)
(* ends the second goroutine only.  The write has no deadline: a peer that *)
(* keeps its connection and reads no more holds the request in it.         *)
(*                                                                         *)
(* invokeTimeout has no option that sets it, so hasTimeout is FALSE in a   *)
(* server built from this code; TRUE is what the code is written for.      *)
(***************************************************************************)
EXTENDS Integers, FiniteSets

CONSTANTS
    Requests,     \* the frames that arrive
    MaxInvoke,    \* ServerConfig.MaxInvoke, the capacity of tick
    MayPanic      \* service methods may panic

ASSUME ServerInvokeAssumption ==
    /\ MaxInvoke \in Nat \ {0}
    /\ MayPanic \in BOOLEAN

VARIABLES
    hasTimeout,   \* ServerOptions.invokeTimeout > 0
    tick,         \* number of elements in the channel tick
    pc,           \* where the goroutine of each request is
    holds,        \* the deferred "<-tick" is registered
    expired,      \* the context of the request is done
    stalled,      \* requests in a write to a peer that reads no more
    resp,         \* the local variable resp
    respChan,     \* "nil", "open" or "closed"
    worker,       \* where the dispatcher goroutine of each request is
    outcome       \* what the dispatcher returned, while it is being sent

\* History: the response that was written to the connection of a request, and
\* the requests whose dispatcher panicked.
VARIABLES replied, panicked

history == <<replied, panicked>>
\* What time and the peers decide.
envVars == <<hasTimeout, expired, stalled>>
vars == <<tick, pc, holds, envVars, resp, respChan, worker, outcome, history>>

PcStates == {"new", "tick", "encoder", "run", "close", "reply", "write",
             "release", "done"}

Responses == {"none", "full", "noEncoder", "ok", "error"}

Init ==
    /\ hasTimeout \in BOOLEAN
    /\ tick = 0
    /\ pc = [q \in Requests |-> "new"]
    /\ holds = [q \in Requests |-> FALSE]
    /\ expired = [q \in Requests |-> FALSE]
    /\ stalled = {}
    /\ resp = [q \in Requests |-> "none"]
    /\ respChan = [q \in Requests |-> "nil"]
    /\ worker = [q \in Requests |-> "none"]
    /\ outcome = [q \in Requests |-> "none"]
    /\ replied = [q \in Requests |-> "none"]
    /\ panicked = {}

Goto(q, where) == pc' = [pc EXCEPT ![q] = where]

-----------------------------------------------------------------------------
(* The goroutine of the request.                                           *)

\* A full frame: go conn.invoke(body).  What does not unpack is dropped.
Receive(q) ==
    /\ pc[q] = "new"
    /\ \/ Goto(q, "tick")
       \/ Goto(q, "done")
    /\ UNCHANGED <<tick, holds, envVars, resp, respChan, worker, outcome,
                   history>>

\* The deadline of context.WithTimeout passes.
ContextDone(q) ==
    /\ hasTimeout
    /\ pc[q] \in PcStates \ {"new", "done"}
    /\ ~expired[q]
    /\ expired' = [expired EXCEPT ![q] = TRUE]
    /\ UNCHANGED <<hasTimeout, stalled, tick, pc, holds, resp, respChan,
                   worker, outcome, history>>

\* The peer keeps the connection and never reads again: Write has no deadline.
PeerStops(q) ==
    /\ pc[q] = "write"
    /\ stalled' = stalled \cup {q}
    /\ UNCHANGED <<hasTimeout, expired, tick, pc, holds, resp, respChan,
                   worker, outcome, history>>

TickHasRoom == tick < MaxInvoke

\* Variant: the slot is given back at once, not when the request is done.
AcquireSlotBriefly(q) ==
    /\ pc[q] = "tick"
    /\ TickHasRoom
    /\ Goto(q, "encoder")
    /\ UNCHANGED <<tick, holds, envVars, resp, respChan, worker, outcome,
                   history>>

\* case tick <- struct{}{}: the channel has room.
AcquireSlot(q) ==
    /\ pc[q] = "tick"
    /\ TickHasRoom
    /\ tick' = tick + 1
    /\ holds' = [holds EXCEPT ![q] = TRUE]
    /\ Goto(q, "encoder")
    /\ UNCHANGED <<envVars, resp, respChan, worker, outcome,
                   history>>

\* Variant: the deferred receive is registered for both cases.
RejectFullReleases(q) ==
    /\ pc[q] = "tick"
    /\ expired[q]
    /\ resp' = [resp EXCEPT ![q] = "full"]
    /\ holds' = [holds EXCEPT ![q] = TRUE]
    /\ Goto(q, "encoder")
    /\ UNCHANGED <<tick, envVars, respChan, worker, outcome, history>>

\* case <-ctx.Done(): ErrRequestFull, and no slot to give back.
RejectFull(q) ==
    /\ pc[q] = "tick"
    /\ expired[q]
    /\ resp' = [resp EXCEPT ![q] = "full"]
    /\ Goto(q, "encoder")
    /\ UNCHANGED <<tick, holds, envVars, respChan, worker, outcome, history>>

Answered(q) == resp[q] # "none"

\* GetEncoder(encName): a request with a response already is not dispatched,
\* one with an unknown encoder gets ErrEncoderNotFound.
ChooseEncoder(q) ==
    /\ pc[q] = "encoder"
    /\ \/ /\ Answered(q)
          /\ Goto(q, "reply")
          /\ UNCHANGED <<resp, respChan, worker>>
       \/ /\ ~Answered(q)
          /\ resp' = [resp EXCEPT ![q] = "noEncoder"]
          /\ Goto(q, "reply")
          /\ UNCHANGED <<respChan, worker>>
       \/ /\ ~Answered(q)
          /\ respChan' = [respChan EXCEPT ![q] = "open"]
          /\ worker' = [worker EXCEPT ![q] = "running"]
          /\ Goto(q, "run")
          /\ UNCHANGED resp
    /\ UNCHANGED <<tick, holds, envVars, outcome, history>>

\* case <-ctx.Done() while the dispatcher runs.
RunExpired(q) ==
    /\ pc[q] = "run"
    /\ expired[q]
    /\ resp' = [resp EXCEPT ![q] = "full"]
    /\ Goto(q, "close")
    /\ UNCHANGED <<tick, holds, envVars, respChan, worker, outcome, history>>

\* Variant: respChan is not closed.
LeaveRespChanOpen(q) ==
    /\ pc[q] = "close"
    /\ Goto(q, "reply")
    /\ UNCHANGED <<tick, holds, envVars, resp, respChan, worker, outcome,
                   history>>

\* close(respChan)
CloseRespChan(q) ==
    /\ pc[q] = "close"
    /\ respChan' = [respChan EXCEPT ![q] = "closed"]
    /\ Goto(q, "reply")
    /\ UNCHANGED <<tick, holds, envVars, resp, worker, outcome, history>>

\* Variant: the deferred receive from tick is missing.
NothingDeferred(q) == "done"

Deferred(q) == IF holds[q] THEN "release" ELSE "done"

\* PacketResponse, which may fail.
Reply(q) ==
    /\ pc[q] = "reply"
    /\ Goto(q, "write") \/ Goto(q, Deferred(q))
    /\ UNCHANGED <<tick, holds, envVars, resp, respChan, worker, outcome,
                   history>>

\* conn.rw.Write returns, with an error or without.
WriteReturns(q) ==
    /\ pc[q] = "write"
    /\ q \notin stalled
    /\ \/ replied' = [replied EXCEPT ![q] = resp[q]]
       \/ UNCHANGED replied
    /\ Goto(q, Deferred(q))
    /\ UNCHANGED <<tick, holds, envVars, resp, respChan, worker, outcome,
                   panicked>>

\* The deferred receive from tick; it would block on an empty channel.
ReleaseSlot(q) ==
    /\ pc[q] = "release"
    /\ tick > 0
    /\ tick' = tick - 1
    /\ holds' = [holds EXCEPT ![q] = FALSE]
    /\ Goto(q, "done")
    /\ UNCHANGED <<envVars, resp, respChan, worker, outcome,
                   history>>

-----------------------------------------------------------------------------
(* The goroutine of the dispatcher.                                        *)

\* Variant: the closure assigns the resp of the request goroutine.
DispatcherSetsResp(q) ==
    /\ worker[q] = "running"
    /\ worker' = [worker EXCEPT ![q] = "sending"]
    /\ \E o \in {"ok", "error"} :
         /\ outcome' = [outcome EXCEPT ![q] = o]
         /\ resp' = [resp EXCEPT ![q] = o]
    /\ UNCHANGED <<tick, pc, holds, envVars, respChan, history>>

DispatcherReturns(q) ==
    /\ worker[q] = "running"
    /\ worker' = [worker EXCEPT ![q] = "sending"]
    /\ \E o \in {"ok", "error"} : outcome' = [outcome EXCEPT ![q] = o]
    /\ UNCHANGED <<tick, pc, holds, envVars, resp, respChan, history>>

\* The service method panics: recovered, and nothing is sent.
DispatcherPanics(q) ==
    /\ MayPanic
    /\ worker[q] = "running"
    /\ worker' = [worker EXCEPT ![q] = "ended"]
    /\ panicked' = panicked \cup {q}
    /\ UNCHANGED <<tick, pc, holds, envVars, resp, respChan, outcome, replied>>

\* respChan <- resp meets resp = <-respChan.
HandOver(q) ==
    /\ worker[q] = "sending"
    /\ pc[q] = "run"
    /\ respChan[q] = "open"
    /\ resp' = [resp EXCEPT ![q] = outcome[q]]
    /\ worker' = [worker EXCEPT ![q] = "ended"]
    /\ Goto(q, "close")
    /\ UNCHANGED <<tick, holds, envVars, respChan, outcome, history>>

\* respChan <- resp on the closed channel panics, which is recovered.
SendOnClosed(q) ==
    /\ worker[q] = "sending"
    /\ respChan[q] = "closed"
    /\ worker' = [worker EXCEPT ![q] = "ended"]
    /\ UNCHANGED <<tick, pc, holds, envVars, resp, respChan, outcome, history>>

-----------------------------------------------------------------------------

InvokeStep(q) ==
    \/ AcquireSlot(q) \/ RejectFull(q) \/ ChooseEncoder(q) \/ RunExpired(q)
    \/ CloseRespChan(q) \/ Reply(q) \/ WriteReturns(q) \/ ReleaseSlot(q)
    \/ HandOver(q)

WorkerStep(q) ==
    DispatcherReturns(q) \/ DispatcherPanics(q) \/ SendOnClosed(q)

Next ==
    \E q \in Requests :
        \/ Receive(q) \/ ContextDone(q) \/ PeerStops(q)
        \/ InvokeStep(q) \/ WorkerStep(q)

Spec == Init /\ [][Next]_vars

\* Goroutines are scheduled, service methods return or panic, deadlines pass. A
\* write ends unless its peer has stopped reading, which none has to do.
\* Waiting senders on a channel are served in order, so that a goroutine that
\* finds tick full again and again is served in the end: strong fairness.
Fairness ==
    \A q \in Requests :
        /\ WF_vars(ContextDone(q))
        /\ SF_vars(InvokeStep(q))
        /\ WF_vars(WorkerStep(q))

FairSpec == Spec /\ Fairness

-----------------------------------------------------------------------------
(* Properties.                                                             *)

\* Types of the slots and of both goroutines of a request.
TypeOK ==
    /\ hasTimeout \in BOOLEAN
    /\ tick \in 0 .. MaxInvoke
    /\ pc \in [Requests -> PcStates]
    /\ holds \in [Requests -> BOOLEAN]
    /\ expired \in [Requests -> BOOLEAN]
    /\ stalled \subseteq Requests
    /\ resp \in [Requests -> Responses]
    /\ respChan \in [Requests -> {"nil", "open", "closed"}]
    /\ worker \in [Requests -> {"none", "running", "sending", "ended"}]
    /\ outcome \in [Requests -> {"none", "ok", "error"}]
    /\ replied \in [Requests -> Responses]
    /\ panicked \subseteq Requests

\* tick counts the requests that will give a slot back, whichever select
\* branch they took, so that the deferred receive never blocks and no slot
\* is given back twice.
SlotsConserved == tick = Cardinality({q \in Requests : holds[q]})

Busy == {q \in Requests : worker[q] \in {"running", "sending"}}

\* Without a timeout maxInvoke bounds the dispatchers that run: each has the
\* slot of a request that waits for it.
DispatchersBounded == ~hasTimeout => Cardinality(Busy) <= MaxInvoke

\* A response that was written is the one the request ended with, and tells
\* what became of the dispatcher: a result is the result of a dispatcher that
\* has returned, and a late or panicking dispatcher cannot change an answer.
SettledReply ==
    \A q \in Requests : replied[q] # "none" =>
        /\ replied[q] = resp[q]
        /\ replied[q] \in {"ok", "error"} =>
              /\ outcome[q] = replied[q]
              /\ worker[q] = "ended"
              /\ q \notin panicked
        /\ replied[q] = "noEncoder" => worker[q] = "none"

\* Requests that never end: their peer reads no more, or their dispatcher
\* panicked and no timeout makes up for it.
Stuck == stalled \cup {q \in panicked : ~hasTimeout}

\* Every request that waits for a slot is finished unless it gets stuck itself,
\* or, without a timeout, maxInvoke others did, each of which keeps its slot.
FinishedUnlessWedged ==
    \A q \in Requests :
        pc[q] = "tick" ~>
            \/ pc[q] = "done"
            \/ q \in Stuck
            \/ ~hasTimeout /\ Cardinality(Stuck) >= MaxInvoke

\* No dispatcher goroutine is left behind on respChan: it is received from,
\* or the channel is closed under it.
WorkerEnds == \A q \in Requests : worker[q] = "sending" ~> worker[q] = "ended"

=============================================================================
