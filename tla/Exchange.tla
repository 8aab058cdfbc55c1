------------------------------ MODULE Exchange ------------------------------
(***************************************************************************)
(* What a call carries there and back: the metadata map of its context,    *)
(* the encoder it names (meta.go, encoder.go), and the code its outcome is *)
(* turned into and back (util/uerror, GetResponse, the end of Invoke).     *)
(* The generated dispatcher hands the context of a request to the service  *)
(* method, so that calls the method makes carry the same map on.  They may *)
(* come from goroutines of the method and outlive it, and the request.     *)
(*                                                                         *)
(* A map is a reference.  All calls with one context write their encode    *)
(* type into one map, and so do the calls a method makes with the map of   *)
(* its request.  Those writes are not synchronised: the Go runtime may end *)
(* the process when it notices, which is a behaviour that stops early.     *)
(* Connections, tables, slots and panics are in the other modules.         *)
(***************************************************************************)
EXTENDS Integers

CONSTANTS
    Calls,         \* executions of Invoke; each names its server-side map too
    Contexts,      \* outgoing contexts with metadata
    NilContexts,   \* those whose Meta is nil
    Fresh,         \* a context without metadata: Invoke makes a map
    Names,         \* encoder names, given or by default (encodeType for "")
    Encoders,      \* those in encMap
    None,          \* no name
    Nil, Plain,    \* no error; an error whose text is not the JSON of an Error
    Codes          \* codes of the uerror.Errors that methods return

ASSUME ExchangeAssumption ==
    /\ NilContexts \subseteq Contexts
    /\ Encoders \subseteq Names
    /\ None \notin Names
    /\ Fresh \notin Contexts \cup Calls
    /\ Contexts \cap Calls = {}
    /\ Codes \subseteq Int
    /\ Nil \notin Int /\ Plain \notin Int /\ Nil # Plain

VARIABLES
    hasTimeout,    \* ServerOptions.invokeTimeout > 0
    pc,            \* where each Invoke is: "new", "packing", "sent", "done"
    ctx,           \* the map its context holds
    name,          \* the encoder that encoded its body
    meta,          \* the encode type each map holds
    carried,       \* the encode type in the packed request
    arrived,       \* calls whose request has reached a server
    srv,           \* where tcpConn.invoke is: "none", "run", "reply", "replied"
    disp,          \* the dispatcher: "none", "running", "returned"
    resp,          \* the response: its code, and the error that caused it
    result         \* the error Invoke returned, and the error that caused it

\* History: calls whose map another Invoke wrote before they packed it, each
\* with that other.
VARIABLE overwritten

clientVars == <<pc, ctx, name, carried, result, overwritten>>
serverVars == <<arrived, srv, disp, resp>>
vars == <<hasTimeout, meta, clientVars, serverVars>>

Maps == Contexts \cup Calls

RequestTimeout == 405
RequestFull == 502
EncoderNotFound == 404

Errors == {Nil, Plain} \cup Codes \cup
          {RequestTimeout, RequestFull, EncoderNotFound, 200}

Init ==
    /\ hasTimeout \in BOOLEAN
    /\ pc = [c \in Calls |-> "new"]
    /\ ctx = [c \in Calls |-> Fresh]
    /\ name = [c \in Calls |-> None]
    /\ meta = [m \in Maps |-> None]
    /\ carried = [c \in Calls |-> None]
    /\ arrived = {}
    /\ srv = [c \in Calls |-> "none"]
    /\ disp = [c \in Calls |-> "none"]
    /\ resp = [c \in Calls |-> [code |-> 200, cause |-> Nil]]
    /\ result = [c \in Calls |-> [says |-> Nil, cause |-> Nil]]
    /\ overwritten = {}

-----------------------------------------------------------------------------
(* Errors and codes.                                                       *)

\* Variant: the JSON of an error is not parsed.
ParseNothing(e) == IF e = Nil THEN 200 ELSE 502

\* ParseError, and the code GetResponse makes of it.
ParseError(e) == IF e = Nil THEN 200 ELSE IF e = Plain THEN 502 ELSE e

\* What Invoke makes of the code of a response.
ErrorOf(code) == IF code > 0 /\ code # 200 THEN code ELSE Nil

Response(e, cause) == [code |-> ParseError(e), cause |-> cause]

-----------------------------------------------------------------------------
(* The client.                                                             *)

\* Variant: Set keeps a value that is there.
SetIfAbsent(m, n) ==
    IF m \in NilContexts \/ meta[m] # None THEN meta
    ELSE [meta EXCEPT ![m] = n]

\* Meta.Set
Set(m, n) == IF m \in NilContexts THEN meta ELSE [meta EXCEPT ![m] = n]

\* The contexts a new call can have: its own, a shared one, or that of a
\* request whose method was started, which a goroutine of it may keep.
Usable == {Fresh} \cup Contexts \cup {d \in Calls : disp[d] # "none"}

\* FromOutgoingContext, the default for the name, and Set.
Prepare(c) ==
    /\ pc[c] = "new"
    /\ \E m \in Usable, n \in Names :
         /\ ctx' = [ctx EXCEPT ![c] = m]
         /\ name' = [name EXCEPT ![c] = n]
         /\ meta' = IF m = Fresh THEN meta ELSE Set(m, n)
         /\ overwritten' = overwritten \cup
              {<<d, c>> : d \in {e \in Calls :
                   m # Fresh /\ pc[e] = "packing" /\ ctx[e] = m}}
    /\ pc' = [pc EXCEPT ![c] = "packing"]
    /\ UNCHANGED <<hasTimeout, carried, result, serverVars>>

Return(c, says, cause) ==
    /\ pc' = [pc EXCEPT ![c] = "done"]
    /\ result' = [result EXCEPT ![c] = [says |-> says, cause |-> cause]]

\* PacketRequest reads the map; the request is written.
Send(c) ==
    /\ pc[c] = "packing"
    /\ pc' = [pc EXCEPT ![c] = "sent"]
    /\ carried' = [carried EXCEPT
         ![c] = IF ctx[c] = Fresh THEN name[c] ELSE meta[ctx[c]]]
    /\ UNCHANGED <<hasTimeout, meta, ctx, name, result, overwritten,
                   serverVars>>

\* sendRequest fails with an error of its own.
SendFails(c) ==
    /\ pc[c] = "packing"
    /\ Return(c, Plain, Plain)
    /\ UNCHANGED <<hasTimeout, meta, ctx, name, carried, overwritten,
                   serverVars>>

ClientTimeout(c) ==
    /\ pc[c] = "sent"
    /\ Return(c, RequestTimeout, RequestTimeout)
    /\ UNCHANGED <<hasTimeout, meta, ctx, name, carried, overwritten,
                   serverVars>>

\* resp := <-respChan, and the test of its code.  A response that counts as a
\* success may still not unmarshal in the stub.
TakeResponse(c) ==
    /\ pc[c] = "sent"
    /\ srv[c] = "replied"
    /\ \/ Return(c, ErrorOf(resp[c].code), resp[c].cause)
       \/ ErrorOf(resp[c].code) = Nil /\ Return(c, Plain, Plain)
    /\ UNCHANGED <<hasTimeout, meta, ctx, name, carried, overwritten,
                   serverVars>>

-----------------------------------------------------------------------------
(* The server.                                                             *)

Respond(c, e, cause) ==
    /\ resp' = [resp EXCEPT ![c] = Response(e, cause)]
    /\ srv' = [srv EXCEPT ![c] = "reply"]

\* GetEncoder finds an encoder for the request.
Known(c) == carried[c] \in Encoders

\* The request is unpacked into a map of its own.  It waits for a slot in vain,
\* or there is no such encoder, or the dispatcher is started.
Arrive(c) ==
    /\ pc[c] = "sent" \/ (pc[c] = "done" /\ result[c].says = RequestTimeout)
    /\ c \notin arrived
    /\ arrived' = arrived \cup {c}
    /\ meta' = [meta EXCEPT ![c] = carried[c]]
    /\ \/ /\ hasTimeout
          /\ Respond(c, RequestFull, RequestFull)
          /\ UNCHANGED disp
       \/ /\ ~Known(c)
          /\ Respond(c, EncoderNotFound, EncoderNotFound)
          /\ UNCHANGED disp
       \/ /\ Known(c)
          /\ srv' = [srv EXCEPT ![c] = "run"]
          /\ disp' = [disp EXCEPT ![c] = "running"]
          /\ UNCHANGED resp
    /\ UNCHANGED <<hasTimeout, clientVars>>

\* Calls with the context of request c that have returned.
Nested(c) == {d \in Calls : pc[d] = "done" /\ ctx[d] = c}

\* What the dispatcher may return: its own errors, those of Decode, Encode and
\* an unknown method included, or the error of a call the method made that has
\* returned by then.
Outcomes(c) ==
    {[says |-> e, cause |-> e] : e \in {Nil, Plain} \cup Codes}
      \cup {result[d] : d \in {d \in Nested(c) : result[d].says # Nil}}

\* The method returns, whether or not the calls that its goroutines make have;
\* nobody waits for the dispatcher once its request has expired.
DispatcherReturns(c) ==
    /\ disp[c] = "running"
    /\ disp' = [disp EXCEPT ![c] = "returned"]
    /\ IF srv[c] = "run"
       THEN \E o \in Outcomes(c) : Respond(c, o.says, o.cause)
       ELSE UNCHANGED <<resp, srv>>
    /\ UNCHANGED <<hasTimeout, meta, clientVars, arrived>>

\* case <-ctx.Done() while the dispatcher runs.
Expire(c) ==
    /\ hasTimeout
    /\ srv[c] = "run"
    /\ Respond(c, RequestFull, RequestFull)
    /\ UNCHANGED <<hasTimeout, meta, clientVars, arrived, disp>>

\* PacketResponse packs the map of the request too.
Reply(c) ==
    /\ srv[c] = "reply"
    /\ srv' = [srv EXCEPT ![c] = "replied"]
    /\ UNCHANGED <<hasTimeout, meta, clientVars, arrived, disp, resp>>

-----------------------------------------------------------------------------

ClientStep(c) ==
    Prepare(c) \/ Send(c) \/ SendFails(c) \/ ClientTimeout(c) \/ TakeResponse(c)

ServerStep(c) == Arrive(c) \/ DispatcherReturns(c) \/ Expire(c) \/ Reply(c)

Next == \E c \in Calls : ClientStep(c) \/ ServerStep(c)

Spec == Init /\ [][Next]_vars

-----------------------------------------------------------------------------
(* Properties.                                                             *)

\* Errors whose code Invoke takes for a success.
SuccessCode(e) == e \notin {Nil, Plain} /\ (e <= 0 \/ e = 200)

\* Over any number of hops a caller is told the error that was the cause: with
\* its code, or as 502 when it is plain.  Only a code of 200, 0 or less is lost
\* on the way: ParseError lets it through and Invoke takes it for a success.
OutcomeTravels ==
    \A c \in Calls : pc[c] = "done" =>
        LET says == result[c].says
            cause == result[c].cause
        IN  \/ says = cause
            \/ cause = Plain /\ says = 502
            \/ SuccessCode(cause) /\ says = Nil

\* A body is decoded by the encoder that encoded it, whatever calls share its
\* context one after the other, whatever its method calls in turn, and
\* whatever calls of an earlier method are still about.  Only an Invoke with
\* the same context that comes between Set and PacketRequest changes that, and
\* then the encoder is the one which that Invoke names, no other.
DecodedAsEncoded ==
    \A c \in Calls : disp[c] # "none" =>
        \/ carried[c] = name[c]
        \/ \E d \in Calls : <<c, d>> \in overwritten /\ carried[c] = name[d]

=============================================================================
