--------------------------------- MODULE Rpc ---------------------------------
(***************************************************************************)
(* Client and server together: the call table of a client (ClientCall) and *)
(* the request handling of the server its calls go to (ServerInvoke).  A   *)
(* request that was written may arrive, and a response that was written    *)
(* may, in any order; either is lost when its connection breaks.  The      *)
(* connections themselves are in Connector and Framing.                    *)
(***************************************************************************)
EXTENDS ClientCall

CONSTANTS
    MaxInvoke,    \* as in ServerInvoke
    MayPanic

ASSUME RpcAssumption ==
    /\ MaxInvoke \in Nat \ {0}
    /\ MayPanic \in BOOLEAN

\* The state of the server.  at and returned are its pc and outcome.
VARIABLES hasTimeout, tick, at, holds, expired, stalled, resp, respChan,
          worker, returned, replied, panicked

serverVars == <<hasTimeout, tick, at, holds, expired, stalled, resp, respChan,
                worker, returned, replied, panicked>>

rpcVars == <<vars, serverVars>>

Server == INSTANCE ServerInvoke WITH
    Requests <- Calls,
    pc <- at,
    outcome <- returned

RpcInit == Init /\ Server!Init

ClientStep ==
    /\ \/ \E c \in Calls : CallStep(c)
       \/ \E r \in Readers : ReaderStep(r)
    /\ UNCHANGED serverVars

\* handle cuts the request off the stream and starts tcpConn.invoke.
RequestArrives(c) ==
    /\ writes[c] > 0
    /\ Server!Receive(c)
    /\ UNCHANGED vars

ServerStep(c) ==
    /\ \/ Server!ContextDone(c) \/ Server!PeerStops(c)
       \/ Server!InvokeStep(c) \/ Server!WorkerStep(c)
    /\ UNCHANGED vars

\* recv cuts the response off the stream and calls clientConn.invoke.
ReplyArrives(r, c) ==
    /\ replied[c] # "none"
    /\ ResponseArrives(r, c)
    /\ UNCHANGED serverVars

RpcNext ==
    \/ ClientStep
    \/ \E c \in Calls : RequestArrives(c) \/ ServerStep(c)
    \/ \E r \in Readers, c \in Calls : ReplyArrives(r, c)

RpcSpec == RpcInit /\ [][RpcNext]_rpcVars

\* Only the client is fair: of the server, and of what is under way between the
\* two, nothing is assumed.
RpcFairSpec == RpcSpec /\ Fairness

-----------------------------------------------------------------------------
(* Properties.                                                             *)

\* The answer of a call is the response that was written to its request.
Told == [c \in Calls |->
    IF result[c] = "response" THEN replied[got[c]] ELSE result[c]]

Execution == [c \in Calls |->
    IF c \in panicked THEN "panicked"
    ELSE IF worker[c] \in {"none", "running"} THEN worker[c]
    ELSE returned[c]]

Service == INSTANCE RemoteCall WITH told <- Told, execution <- Execution

\* Behind the client, too, tick counts the requests that will give a slot back.
SlotsConserved == Server!SlotsConserved

\* Whatever the calls do, without an invoke timeout no more dispatchers run for
\* them than maxInvoke.
DispatchersBounded == Server!DispatchersBounded

\* A response that was written tells what became of the dispatcher, even when
\* the caller has given up or both deadlines pass meanwhile.
SettledReply == Server!SettledReply

\* At most one execution, and no caller is misled about it: what Invoke returns
\* agrees with what the dispatcher did, although deadlines on both sides,
\* retries and late responses cross each other.
KeepsService == Service!Spec

=============================================================================
