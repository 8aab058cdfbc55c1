------------------------------ MODULE RpcProof ------------------------------
(***************************************************************************)
(* Proofs about the server's handling of requests, for any requests and    *)
(* any number of slots, and about client and server together: what Rpc     *)
(* composes implements RemoteCall.                                         *)
(***************************************************************************)
EXTENDS Rpc, ClientCallProof

-----------------------------------------------------------------------------
(* The server: no slot is lost or given back twice, dispatchers are        *)
(* bounded, and a reply tells what the dispatcher did.                     *)

Holders == {q \in Calls : holds[q]}

\* The slots taken are those of the requests that will give one back.
SlotsInv == IsFiniteSet(Holders) /\ tick = Cardinality(Holders)

\* Where a goroutine is says which slot, response and dispatcher it has.
StagesInv == \A q \in Calls :
    /\ holds[q] =>
         at[q] \in {"encoder", "run", "close", "reply", "write", "release"}
    /\ at[q] \in {"run", "release"} => holds[q]
    /\ at[q] = "encoder" => holds[q] \/ resp[q] = "full"
    /\ at[q] \in {"new", "tick", "run"} => resp[q] = "none"
    /\ at[q] = "encoder" => resp[q] \in {"none", "full"}
    /\ at[q] \in {"new", "tick", "encoder"} => worker[q] = "none"
    /\ at[q] \in {"new", "tick", "encoder", "run", "close", "reply", "write"} =>
         replied[q] = "none"
    /\ expired[q] => hasTimeout

\* A dispatcher has one end, and a response agrees with it.
DispatcherInv == \A q \in Calls :
    /\ worker[q] \in {"none", "running"} =>
         returned[q] = "none" /\ q \notin panicked
    /\ worker[q] = "sending" => q \notin panicked
    /\ worker[q] \in {"running", "sending"} => at[q] = "run" \/ hasTimeout
    /\ resp[q] \in {"ok", "error"} =>
         returned[q] = resp[q] /\ worker[q] = "ended" /\ q \notin panicked
    /\ resp[q] = "noEncoder" => worker[q] = "none"
    /\ replied[q] # "none" => replied[q] = resp[q]

ServerInv == Server!TypeOK /\ SlotsInv /\ StagesInv /\ DispatcherInv

-----------------------------------------------------------------------------

LEMMA ServerInvokeInit == Server!Init => ServerInv
<1> SUFFICES ASSUME Server!Init PROVE ServerInv
  OBVIOUS
<1>1. Holders = {}
  BY DEF Server!Init, Holders
<1>2. SlotsInv
  BY <1>1, FS_EmptySet DEF Server!Init, SlotsInv
<1>3. Server!TypeOK
  BY RpcAssumption DEF Server!Init, Server!TypeOK, Server!PcStates,
    Server!Responses
<1>4. StagesInv /\ DispatcherInv
  BY DEF Server!Init, StagesInv, DispatcherInv
<1>. QED BY <1>2, <1>3, <1>4 DEF ServerInv

\* A step that leaves tick and holds alone keeps the slots.
LEMMA SlotsKept ==
    SlotsInv /\ UNCHANGED <<tick, holds>> => SlotsInv'
BY DEF SlotsInv, Holders

LEMMA ServerInvokeStep == ServerInv /\ [Server!Next]_(Server!vars) => ServerInv'
<1> SUFFICES ASSUME ServerInv, [Server!Next]_(Server!vars) PROVE ServerInv'
  OBVIOUS
<1> USE RpcAssumption
    DEF ServerInv, Server!TypeOK, StagesInv, DispatcherInv, Server!PcStates,
        Server!Responses, Server!Goto, Server!envVars, Server!history
<1>1. ASSUME NEW q \in Calls, Server!Receive(q) PROVE ServerInv'
  BY <1>1, SlotsKept DEF Server!Receive
<1>2. ASSUME NEW q \in Calls, Server!ContextDone(q) PROVE ServerInv'
  BY <1>2, SlotsKept DEF Server!ContextDone
<1>3. ASSUME NEW q \in Calls, Server!AcquireSlot(q) PROVE ServerInv'
  <2>1. Holders' = Holders \cup {q} /\ q \notin Holders
    BY <1>3 DEF Server!AcquireSlot, Holders
  <2>2. SlotsInv'
    BY <1>3, <2>1, FS_AddElement DEF Server!AcquireSlot, SlotsInv
  <2>3. tick' \in 0 .. MaxInvoke
    BY <1>3 DEF Server!AcquireSlot, Server!TickHasRoom
  <2>. QED BY <1>3, <2>2, <2>3 DEF Server!AcquireSlot
<1>4. ASSUME NEW q \in Calls, Server!RejectFull(q) PROVE ServerInv'
  BY <1>4, SlotsKept DEF Server!RejectFull
<1>5. ASSUME NEW q \in Calls, Server!ChooseEncoder(q) PROVE ServerInv'
  BY <1>5, SlotsKept DEF Server!ChooseEncoder, Server!Answered
<1>6. ASSUME NEW q \in Calls, Server!RunExpired(q) PROVE ServerInv'
  BY <1>6, SlotsKept DEF Server!RunExpired
<1>7. ASSUME NEW q \in Calls, Server!CloseRespChan(q) PROVE ServerInv'
  BY <1>7, SlotsKept DEF Server!CloseRespChan
<1>8. ASSUME NEW q \in Calls, Server!Reply(q) \/ Server!WriteReturns(q)
      PROVE  ServerInv'
  <2>1. CASE Server!Reply(q)
    BY <2>1, SlotsKept DEF Server!Reply, Server!Deferred
  <2>2. CASE Server!WriteReturns(q)
    BY <2>2, SlotsKept DEF Server!WriteReturns, Server!Deferred
  <2>. QED BY <1>8, <2>1, <2>2
<1>9. ASSUME NEW q \in Calls, Server!ReleaseSlot(q) PROVE ServerInv'
  <2>1. Holders' = Holders \ {q} /\ q \in Holders
    BY <1>9 DEF Server!ReleaseSlot, Holders
  <2>2. SlotsInv'
    BY <1>9, <2>1, FS_RemoveElement DEF Server!ReleaseSlot, SlotsInv
  <2>3. tick' \in 0 .. MaxInvoke
    BY <1>9 DEF Server!ReleaseSlot
  <2>. QED BY <1>9, <2>2, <2>3 DEF Server!ReleaseSlot
<1>10. ASSUME NEW q \in Calls, Server!HandOver(q) PROVE ServerInv'
  BY <1>10, SlotsKept DEF Server!HandOver
<1>11. ASSUME NEW q \in Calls, Server!DispatcherReturns(q) PROVE ServerInv'
  BY <1>11, SlotsKept DEF Server!DispatcherReturns
<1>12. ASSUME NEW q \in Calls, Server!DispatcherPanics(q) PROVE ServerInv'
  BY <1>12, SlotsKept DEF Server!DispatcherPanics
<1>13. ASSUME NEW q \in Calls, Server!SendOnClosed(q) PROVE ServerInv'
  BY <1>13, SlotsKept DEF Server!SendOnClosed
<1>14. ASSUME NEW q \in Calls, Server!PeerStops(q) PROVE ServerInv'
  BY <1>14, SlotsKept DEF Server!PeerStops
<1>15. CASE UNCHANGED Server!vars
  BY <1>15, SlotsKept DEF Server!vars
<1>. QED BY <1>1, <1>2, <1>3, <1>4, <1>5, <1>6, <1>7, <1>8, <1>9, <1>10,
            <1>11, <1>12, <1>13, <1>14, <1>15
         DEF Server!Next, Server!InvokeStep, Server!WorkerStep

LEMMA ServerInvokeInv == Server!Spec => []ServerInv
BY ServerInvokeInit, ServerInvokeStep, PTL DEF Server!Spec

-----------------------------------------------------------------------------

\* The Cardinality that ServerInvoke brings with it.
LEMMA ServerCardinality ==
    ASSUME NEW S PROVE Server!Cardinality(S) = Cardinality(S)
BY DEF Server!Cardinality, Cardinality

\* Every element of the channel tick belongs to one request, which will take it
\* out: the deferred receive neither blocks nor takes the slot of another.
LEMMA ServerConservesSlots == Server!Spec => []Server!SlotsConserved
<1>1. ServerInv => Server!SlotsConserved
  BY ServerCardinality
  DEF ServerInv, SlotsInv, Server!SlotsConserved, Holders
<1>. QED BY ServerInvokeInv, <1>1, PTL

\* Without an invoke timeout at most maxInvoke dispatchers run.
LEMMA ServerBoundsDispatchers == Server!Spec => []Server!DispatchersBounded
<1>1. ServerInv => Server!DispatchersBounded
  <2> SUFFICES ASSUME ServerInv, ~hasTimeout
               PROVE  Cardinality(Server!Busy) <= MaxInvoke
    BY ServerCardinality DEF Server!DispatchersBounded
  <2>1. Server!Busy \subseteq Holders
    BY DEF ServerInv, StagesInv, DispatcherInv, Server!Busy, Holders
  <2>2. /\ IsFiniteSet(Server!Busy)
        /\ Cardinality(Server!Busy) <= Cardinality(Holders)
    BY <2>1, FS_Subset DEF ServerInv, SlotsInv
  <2>3. Cardinality(Holders) \in 0 .. MaxInvoke
    BY DEF ServerInv, Server!TypeOK, SlotsInv
  <2>4. Cardinality(Server!Busy) \in Nat
    BY <2>2, FS_CardinalityType
  <2>. QED BY <2>2, <2>3, <2>4, RpcAssumption
<1>. QED BY ServerInvokeInv, <1>1, PTL

\* A written response is the one the request ended with, and a result in it is
\* that of a dispatcher that returned it.
LEMMA ServerSettlesReplies == Server!Spec => []Server!SettledReply
<1>1. ServerInv => Server!SettledReply
  BY DEF ServerInv, DispatcherInv, Server!SettledReply
<1>. QED BY ServerInvokeInv, <1>1, PTL

-----------------------------------------------------------------------------
(* Client and server together: each goes on as if it were alone.           *)

LEMMA ClientKeepsSpec == RpcSpec => Spec
<1>1. RpcInit => Init
  BY DEF RpcInit
<1>2. [RpcNext]_rpcVars => [Next]_vars
  BY DEF RpcNext, ClientStep, RequestArrives, ServerStep, ReplyArrives, Next,
         rpcVars
<1>. QED BY <1>1, <1>2, PTL DEF RpcSpec, Spec

LEMMA ServerKeepsSpec == RpcSpec => Server!Spec
<1>1. RpcInit => Server!Init
  BY DEF RpcInit
<1>2. [RpcNext]_rpcVars => [Server!Next]_(Server!vars)
  BY DEF RpcNext, ClientStep, RequestArrives, ServerStep, ReplyArrives,
         Server!Next, Server!vars, Server!envVars, Server!history, serverVars,
         rpcVars
<1>. QED BY <1>1, <1>2, PTL DEF RpcSpec, Server!Spec

\* In front of any clients, every element of the channel tick belongs to one
\* request, which will take it out.
THEOREM SlotsAlwaysConserved == RpcSpec => []SlotsConserved
BY ServerKeepsSpec, ServerConservesSlots, PTL DEF SlotsConserved

\* Without an invoke timeout at most maxInvoke dispatchers run.
THEOREM DispatchersAlwaysBounded == RpcSpec => []DispatchersBounded
BY ServerKeepsSpec, ServerBoundsDispatchers, PTL DEF DispatchersBounded

\* A written response is the one the request ended with, and a result in it is
\* that of a dispatcher that returned it.
THEOREM RepliesSettled == RpcSpec => []SettledReply
BY ServerKeepsSpec, ServerSettlesReplies, PTL DEF SettledReply

-----------------------------------------------------------------------------
(* What connects them.                                                     *)

\* A server has only requests that were written, and a response the client has
\* was written by the server.
LinkInv ==
    /\ \A c \in Calls : at[c] # "new" => writes[c] # 0
    /\ \A r \in Readers : hand[r] # None => replied[hand[r]] # "none"
    /\ \A c \in Calls :
         /\ buf[c] # None => replied[buf[c]] # "none"
         /\ got[c] # None => replied[got[c]] # "none"

LEMMA LinkInit == RpcInit => LinkInv
  BY DEF RpcInit, Init, Server!Init, LinkInv

\* A step of the client by itself.
LEMMA LinkClient ==
  ASSUME TypeInv, LinkInv, ClientStep
  PROVE  LinkInv'
<1> USE DEF TypeInv, TypeOK, LinkInv, appVars, readerVars, history, serverVars
<1>1. UNCHANGED <<at, replied>>
  BY DEF ClientStep
<1>2. ASSUME NEW c \in Calls, CallStep(c) PROVE LinkInv'
  <2>1. CASE NextIdCas(c) \/ NextIdAdd(c) \/ Register(c)
    BY <1>1, <2>1 DEF NextIdCas, NextIdAdd, Draw, Register
  <2>2. CASE \/ NoConnector(c) \/ DialFails(c) \/ WriteFails(c)
             \/ SendReturns(c) \/ ContextDone(c)
    BY <1>1, <2>2
    DEF NoConnector, DialFails, WriteFails, SendReturns, ContextDone
  <2>3. CASE WriteSucceeds(c)
    BY <1>1, <2>3 DEF WriteSucceeds
  <2>4. CASE SendErrorReturn(c) \/ TimeoutReturn(c)
    BY <1>1, <2>4 DEF SendErrorReturn, TimeoutReturn, Withdraw, Leave
  <2>5. CASE TakeResponse(c)
    BY <1>1, <2>5 DEF TakeResponse
  <2>6. CASE ResponseReturn(c)
    BY <1>1, <2>6 DEF ResponseReturn
  <2>. QED
    BY <1>2, <2>1, <2>2, <2>3, <2>4, <2>5, <2>6 DEF CallStep, SendStep
<1>3. ASSUME NEW r \in Readers, ReaderStep(r) PROVE LinkInv'
  <2>1. CASE LookUpKnown(r) \/ LookUpUnknown(r)
    BY <1>1, <2>1 DEF LookUpKnown, LookUpUnknown
  <2>2. CASE Deliver(r)
    BY <1>1, <2>2 DEF Deliver, Sent
  <2>. QED BY <1>3, <2>1, <2>2 DEF ReaderStep
<1>. QED BY <1>2, <1>3 DEF ClientStep

LEMMA LinkStep ==
  TypeInv /\ ServerInv /\ LinkInv /\ [RpcNext]_rpcVars => LinkInv'
<1> SUFFICES ASSUME TypeInv, ServerInv, LinkInv, [RpcNext]_rpcVars
             PROVE  LinkInv'
  OBVIOUS
<1> USE DEF ServerInv, Server!TypeOK
<1>1. CASE ClientStep
  BY <1>1, LinkClient
<1>2. ASSUME NEW c \in Calls, RequestArrives(c) PROVE LinkInv'
  BY <1>2 DEF RequestArrives, Server!Receive, Server!Goto, Server!history,
              LinkInv, TypeInv, TypeOK, vars, appVars, readerVars, history
<1>3. ASSUME NEW c \in Calls, ServerStep(c) PROVE LinkInv'
  <2>1. UNCHANGED vars
    BY <1>3 DEF ServerStep
  <2>2. ASSUME NEW d \in Calls
        PROVE  /\ at[d] = "new" => at'[d] = "new"
               /\ replied[d] # "none" => replied'[d] # "none"
    <3>1. CASE Server!Reply(c) \/ Server!WriteReturns(c)
      BY <3>1 DEF Server!Reply, Server!WriteReturns, Server!Goto,
                  Server!history, StagesInv
    <3>2. CASE Server!ContextDone(c) \/ Server!PeerStops(c)
      BY <3>2 DEF Server!ContextDone, Server!PeerStops, Server!history
    <3>3. CASE Server!AcquireSlot(c) \/ Server!RejectFull(c)
      BY <3>3 DEF Server!AcquireSlot, Server!RejectFull, Server!Goto,
                  Server!history
    <3>4. CASE Server!ChooseEncoder(c) \/ Server!RunExpired(c)
      BY <3>4 DEF Server!ChooseEncoder, Server!RunExpired, Server!Goto,
                  Server!history
    <3>5. CASE \/ Server!CloseRespChan(c) \/ Server!ReleaseSlot(c)
               \/ Server!HandOver(c)
      BY <3>5 DEF Server!CloseRespChan, Server!ReleaseSlot, Server!HandOver,
                  Server!Goto, Server!history
    <3>6. CASE Server!WorkerStep(c)
      BY <3>6 DEF Server!WorkerStep, Server!DispatcherReturns,
                  Server!DispatcherPanics, Server!SendOnClosed, Server!history
    <3>. QED BY <1>3, <3>1, <3>2, <3>3, <3>4, <3>5, <3>6
             DEF ServerStep, Server!InvokeStep
  <2>. QED BY <2>1, <2>2
           DEF LinkInv, TypeInv, TypeOK, vars, appVars, readerVars, history
<1>4. ASSUME NEW r \in Readers, NEW c \in Calls, ReplyArrives(r, c)
      PROVE  LinkInv'
  BY <1>4 DEF ReplyArrives, ResponseArrives, LinkInv, TypeInv, TypeOK,
              serverVars, appVars, readerVars, history
<1>5. CASE UNCHANGED rpcVars
  BY <1>5 DEF rpcVars, serverVars, LinkInv, vars, appVars, readerVars, history
<1>. QED BY <1>1, <1>2, <1>3, <1>4, <1>5 DEF RpcNext

-----------------------------------------------------------------------------
(* Steps of the composition and steps of the service.                      *)

ClientInv == TypeInv /\ WritesInv /\ AnswerInv /\ TableInv /\ NoSharedId

LEMMA ServiceInit == RpcInit => Service!Init
  BY DEF RpcInit, Init, Server!Init, Service!Init, Told, Execution

\* Only ResponseReturn, and the two ways to leave without a response, change
\* what a caller was told.
LEMMA TellStep ==
  ASSUME ClientInv, ServerInv, LinkInv, NEW c \in Calls, CallStep(c),
         UNCHANGED serverVars
  PROVE  [Service!Next]_(Service!vars)
<1> USE DEF ClientInv, TypeInv, TypeOK
<1>1. UNCHANGED Execution
  BY DEF serverVars, Execution
<1>2. ASSUME UNCHANGED <<result, got>> PROVE [Service!Next]_(Service!vars)
  BY <1>1, <1>2 DEF serverVars, Told, Service!vars
<1>3. ASSUME pc[c] # "done",
             NEW t \in {"ok", "error", "full", "timeout", "sendError",
                        "noEncoder"},
             t \in {"ok", "error"} => Execution[c] = t,
             t \in {"sendError", "noEncoder"} => Execution[c] = "none",
             Told' = [Told EXCEPT ![c] = t]
      PROVE  [Service!Next]_(Service!vars)
  <2>1. Told[c] = "none"
    BY <1>3 DEF Told, WritesInv
  <2>. QED BY <1>1, <1>3, <2>1
           DEF Service!Next, Service!Tell, Service!NotExecuted
<1>4. CASE TakeResponse(c)
  <2>1. result[c] = "none" /\ result' = result
        /\ \A d \in Calls : d # c => got'[d] = got[d]
    BY <1>4 DEF TakeResponse, WritesInv
  <2>2. Told' = Told
    BY <2>1 DEF Told, serverVars
  <2>. QED BY <1>1, <2>2 DEF Service!vars
<1>5. CASE SendErrorReturn(c)
  <2>1. /\ pc[c] = "failed" /\ result' = [result EXCEPT ![c] = "sendError"]
        /\ writes[c] = 0 /\ got' = got
    BY <1>5 DEF SendErrorReturn, Withdraw, Leave, WritesInv
  <2>2. at[c] = "new"
    BY <2>1 DEF LinkInv
  <2>3. Execution[c] = "none"
    BY <2>2 DEF ServerInv, StagesInv, DispatcherInv, Execution
  <2>4. Told' = [Told EXCEPT ![c] = "sendError"]
    BY <2>1 DEF Told, serverVars
  <2>. QED BY <1>3, <2>1, <2>3, <2>4
<1>6. CASE TimeoutReturn(c)
  <2>1. /\ pc[c] = "expired" /\ result' = [result EXCEPT ![c] = "timeout"]
        /\ got' = got
    BY <1>6 DEF TimeoutReturn, Withdraw, Leave
  <2>2. Told' = [Told EXCEPT ![c] = "timeout"]
    BY <2>1 DEF Told, serverVars
  <2>. QED BY <1>3, <2>1, <2>2
<1>7. CASE ResponseReturn(c)
  <2>1. /\ pc[c] = "received" /\ result' = [result EXCEPT ![c] = "response"]
        /\ got' = got
    BY <1>7 DEF ResponseReturn
  <2>2. got[c] = c
    BY <2>1, OwnIsWritten DEF AnswerInv
  <2>3. replied[c] # "none"
    BY <2>2, ClientCallAssumption DEF LinkInv
  <2>4. replied[c] \in {"ok", "error", "full", "noEncoder"}
    BY <2>3 DEF ServerInv, Server!TypeOK, Server!Responses
  <2>5. Told' = [Told EXCEPT ![c] = replied[c]]
    BY <2>1, <2>2 DEF Told, serverVars
  <2>6. replied[c] \in {"ok", "error"} => Execution[c] = replied[c]
    BY <2>3 DEF ServerInv, DispatcherInv, Execution
  <2>7. replied[c] = "noEncoder" => Execution[c] = "none"
    BY <2>3 DEF ServerInv, DispatcherInv, Execution
  <2>. QED BY <1>3, <2>1, <2>4, <2>5, <2>6, <2>7
<1>. QED
  BY <1>2, <1>4, <1>5, <1>6, <1>7
  DEF CallStep, SendStep, NextIdCas, NextIdAdd, Draw, Register, NoConnector,
      DialFails, WriteFails, WriteSucceeds, SendReturns, ContextDone

\* A call that ended with a response has the one to its own request.
LEMMA ToldReplies ==
  ASSUME ClientInv, LinkInv, NEW c \in Calls, result[c] = "response",
         got[c] # None
  PROVE  got[c] = c /\ replied[c] # "none"
  BY OwnIsWritten DEF ClientInv, LinkInv

\* Only the dispatcher changes what became of the execution.
LEMMA ExecuteStep ==
  ASSUME ClientInv, ServerInv, LinkInv, NEW c \in Calls,
         \/ Server!Receive(c) \/ Server!ContextDone(c) \/ Server!PeerStops(c)
         \/ Server!InvokeStep(c) \/ Server!WorkerStep(c),
         UNCHANGED vars,
         \A d \in Calls : result[d] = "response" => got[d] # None
  PROVE  [Service!Next]_(Service!vars)
<1> USE DEF ServerInv, Server!TypeOK, Server!history
<1>1. UNCHANGED <<result, got>>
  BY DEF vars, appVars
<1>2. UNCHANGED Told
  <2>1. ASSUME NEW d \in Calls, result[d] = "response"
        PROVE  replied'[got[d]] = replied[got[d]]
    <3>1. got[d] = d /\ replied[d] # "none"
      BY <2>1, ToldReplies
    <3>2. CASE Server!WriteReturns(c)
      BY <3>1, <3>2 DEF Server!WriteReturns, StagesInv
    <3>3. CASE ~Server!WriteReturns(c)
      BY <3>1, <3>3
      DEF Server!Receive, Server!ContextDone, Server!PeerStops,
          Server!InvokeStep, Server!WorkerStep, Server!AcquireSlot,
          Server!RejectFull, Server!ChooseEncoder, Server!RunExpired,
          Server!CloseRespChan, Server!Reply, Server!ReleaseSlot,
          Server!HandOver, Server!DispatcherReturns,
          Server!DispatcherPanics, Server!SendOnClosed
    <3>. QED BY <3>2, <3>3
  <2>. QED BY <1>1, <2>1 DEF Told
<1>3. ASSUME UNCHANGED <<worker, returned, panicked>>
      PROVE  [Service!Next]_(Service!vars)
  BY <1>2, <1>3 DEF Execution, Service!vars
<1>4. CASE Server!ChooseEncoder(c)
  <2>1. CASE UNCHANGED worker
    BY <1>3, <1>4, <2>1 DEF Server!ChooseEncoder
  <2>2. CASE ~UNCHANGED worker
    <3>1. /\ at[c] = "encoder" /\ worker' = [worker EXCEPT ![c] = "running"]
          /\ UNCHANGED <<returned, panicked>>
      BY <1>4, <2>2 DEF Server!ChooseEncoder
    <3>2. worker[c] = "none" /\ c \notin panicked /\ replied[c] = "none"
      BY <3>1 DEF StagesInv, DispatcherInv
    <3>3. Execution[c] = "none"
          /\ Execution' = [Execution EXCEPT ![c] = "running"]
      BY <3>1, <3>2 DEF Execution
    <3>4. writes[c] # 0
      BY <3>1 DEF LinkInv
    <3>5. result[c] # "sendError" /\ result[c] # "response"
      BY <3>2, <3>4, ToldReplies DEF ClientInv, WritesInv
    <3>6. Told[c] \notin {"sendError", "noEncoder"}
      BY <3>5 DEF Told, ClientInv, TypeInv, TypeOK, Results
    <3>. QED BY <1>2, <3>3, <3>6
             DEF Service!Next, Service!Execute, Service!NotExecuted
  <2>. QED BY <2>1, <2>2
<1>5. CASE Server!DispatcherReturns(c)
  <2>1. PICK o \in {"ok", "error"} :
          /\ worker[c] = "running" /\ worker' = [worker EXCEPT ![c] = "sending"]
          /\ returned' = [returned EXCEPT ![c] = o] /\ UNCHANGED panicked
    BY <1>5 DEF Server!DispatcherReturns
  <2>2. c \notin panicked
    BY <2>1 DEF DispatcherInv
  <2>3. Execution[c] = "running" /\ Execution' = [Execution EXCEPT ![c] = o]
    BY <2>1, <2>2 DEF Execution
  <2>. QED BY <1>2, <2>3 DEF Service!Next, Service!Finish
<1>6. CASE Server!DispatcherPanics(c)
  <2>1. /\ worker[c] = "running" /\ worker' = [worker EXCEPT ![c] = "ended"]
        /\ panicked' = panicked \cup {c} /\ UNCHANGED returned
    BY <1>6 DEF Server!DispatcherPanics
  <2>2. c \notin panicked
    BY <2>1 DEF DispatcherInv
  <2>3. /\ Execution[c] = "running"
        /\ Execution' = [Execution EXCEPT ![c] = "panicked"]
    BY <2>1, <2>2 DEF Execution
  <2>. QED BY <1>2, <2>3 DEF Service!Next, Service!Finish
<1>7. CASE Server!HandOver(c) \/ Server!SendOnClosed(c)
  <2>1. /\ worker[c] = "sending" /\ worker' = [worker EXCEPT ![c] = "ended"]
        /\ UNCHANGED <<returned, panicked>>
    BY <1>7 DEF Server!HandOver, Server!SendOnClosed
  <2>2. Execution' = Execution
    BY <2>1 DEF Execution
  <2>. QED BY <1>2, <2>2 DEF Service!vars
<1>8. CASE \/ Server!Receive(c) \/ Server!ContextDone(c)
           \/ Server!AcquireSlot(c) \/ Server!RejectFull(c)
           \/ Server!RunExpired(c) \/ Server!CloseRespChan(c)
           \/ Server!Reply(c) \/ Server!WriteReturns(c)
           \/ Server!ReleaseSlot(c) \/ Server!PeerStops(c)
  BY <1>3, <1>8
  DEF Server!Receive, Server!ContextDone, Server!AcquireSlot,
      Server!RejectFull, Server!RunExpired, Server!CloseRespChan,
      Server!Reply, Server!WriteReturns, Server!ReleaseSlot, Server!PeerStops
<1>. QED BY <1>4, <1>5, <1>6, <1>7, <1>8
         DEF Server!InvokeStep, Server!WorkerStep

\* An Invoke that returned a response took one from its channel.
ToldInv == \A c \in Calls : result[c] = "response" => got[c] # None

LEMMA ToldInvStep ==
  TypeInv /\ AnswerInv /\ ToldInv /\ [Next]_vars => ToldInv'
<1> SUFFICES ASSUME TypeInv, AnswerInv, ToldInv, [Next]_vars PROVE ToldInv'
  OBVIOUS
<1> USE DEF TypeInv, TypeOK, ToldInv
<1>1. ASSUME NEW c \in Calls, CallStep(c) PROVE ToldInv'
  <2>1. CASE TakeResponse(c)
    BY <2>1 DEF TakeResponse
  <2>2. CASE ResponseReturn(c)
    BY <2>2 DEF ResponseReturn, AnswerInv
  <2>3. CASE SendErrorReturn(c) \/ TimeoutReturn(c)
    BY <2>3 DEF SendErrorReturn, TimeoutReturn, Withdraw, Leave
  <2>4. CASE NextIdCas(c) \/ NextIdAdd(c) \/ Register(c) \/ ContextDone(c)
    BY <2>4 DEF NextIdCas, NextIdAdd, Draw, Register, ContextDone
  <2>5. CASE SendStep(c)
    BY <2>5 DEF SendStep, NoConnector, DialFails, WriteFails, WriteSucceeds,
                SendReturns
  <2>. QED BY <1>1, <2>1, <2>2, <2>3, <2>4, <2>5 DEF CallStep
<1>2. ASSUME NEW r \in Readers, ReaderStep(r) PROVE ToldInv'
  BY <1>2 DEF ReaderStep, LookUpKnown, LookUpUnknown, Deliver, appVars
<1>3. ASSUME NEW r \in Readers, NEW c \in Calls, ResponseArrives(r, c)
      PROVE  ToldInv'
  BY <1>3 DEF ResponseArrives, appVars
<1>4. CASE UNCHANGED vars
  BY <1>4 DEF vars, appVars
<1>. QED BY <1>1, <1>2, <1>3, <1>4 DEF Next

LEMMA ServiceStep ==
  ASSUME ClientInv, ServerInv, LinkInv, ToldInv, [RpcNext]_rpcVars
  PROVE  [Service!Next]_(Service!vars)
<1>1. ASSUME NEW c \in Calls, CallStep(c), UNCHANGED serverVars
      PROVE  [Service!Next]_(Service!vars)
  BY <1>1, TellStep
<1>2. ASSUME UNCHANGED <<result, got, serverVars>>
      PROVE  [Service!Next]_(Service!vars)
  BY <1>2 DEF serverVars, Told, Execution, Service!vars
<1>3. ASSUME NEW r \in Readers, ReaderStep(r), UNCHANGED serverVars
      PROVE  [Service!Next]_(Service!vars)
  BY <1>2, <1>3 DEF ReaderStep, LookUpKnown, LookUpUnknown, Deliver, appVars
<1>4. ASSUME NEW r \in Readers, NEW c \in Calls, ReplyArrives(r, c)
      PROVE  [Service!Next]_(Service!vars)
  BY <1>2, <1>4 DEF ReplyArrives, ResponseArrives, appVars
<1>5. ASSUME NEW c \in Calls, RequestArrives(c) \/ ServerStep(c)
      PROVE  [Service!Next]_(Service!vars)
  BY <1>5, ExecuteStep DEF RequestArrives, ServerStep, ToldInv
<1>6. CASE UNCHANGED rpcVars
  BY <1>2, <1>6 DEF rpcVars, vars, appVars
<1>. QED BY <1>1, <1>3, <1>4, <1>5, <1>6 DEF RpcNext, ClientStep

\* A client with no more calls than request ids and the server it calls
\* implement the service: a call is executed at most once, and what Invoke
\* returns agrees with what the dispatcher did, although deadlines on both
\* sides, retries and late responses cross each other.
THEOREM RpcKeepsService ==
  ASSUME IsFiniteSet(Calls), Cardinality(Calls) <= MaxInt32
  PROVE  RpcSpec => KeepsService
<1>1. RpcSpec => Spec
  BY ClientKeepsSpec
<1>2. RpcSpec => []ServerInv
  BY ServerKeepsSpec, ServerInvokeInv, PTL
<1>3. Spec => []ClientInv
  <2>1. TypeInv /\ WritesInv /\ TableInv /\ AnswerInv /\ NoSharedId
          => ClientInv
    BY DEF ClientInv
  <2>2. Spec => []NoSharedId
    BY EnoughIds
  <2>. QED BY <2>1, <2>2, TableAlways, TypeInit, TypeStep, AnswerInit,
              AnswerStep, PTL DEF Spec
<1>4. ClientInv => TypeInv /\ AnswerInv
  BY DEF ClientInv
<1>5. Init => ToldInv
  BY DEF Init, ToldInv
<1>6. Spec => []ToldInv
  BY <1>3, <1>4, <1>5, ToldInvStep, PTL DEF Spec
<1>7. RpcSpec => []LinkInv
  BY <1>1, <1>2, <1>3, <1>4, LinkInit, LinkStep, PTL DEF RpcSpec
<1>8. ClientInv /\ ServerInv /\ LinkInv /\ ToldInv /\ [RpcNext]_rpcVars
        => [Service!Next]_(Service!vars)
  BY ServiceStep
<1>. QED BY <1>1, <1>2, <1>3, <1>6, <1>7, <1>8, ServiceInit, PTL
         DEF RpcSpec, KeepsService, Service!Spec

\* The promise of the call table still holds in front of a server.
THEOREM RpcKeepsPromise ==
  ASSUME IsFiniteSet(Calls), Cardinality(Calls) <= MaxInt32
  PROVE  RpcSpec => KeepsPromise
BY ClientKeepsSpec, TableKeepsPromise, PTL

=============================================================================
