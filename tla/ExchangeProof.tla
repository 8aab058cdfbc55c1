---------------------------- MODULE ExchangeProof ----------------------------
(***************************************************************************)
(* Proofs about Exchange, for any number of calls, contexts, encoders and  *)
(* codes, and any depth of nesting.                                        *)
(***************************************************************************)
EXTENDS Exchange, TLAPS

TypeOK ==
    /\ hasTimeout \in BOOLEAN
    /\ pc \in [Calls -> {"new", "packing", "sent", "done"}]
    /\ ctx \in [Calls -> Maps \cup {Fresh}]
    /\ name \in [Calls -> Names \cup {None}]
    /\ meta \in [Maps -> Names \cup {None}]
    /\ carried \in [Calls -> Names \cup {None}]
    /\ srv \in [Calls -> {"none", "run", "reply", "replied"}]
    /\ disp \in [Calls -> {"none", "running", "returned"}]
    /\ resp \in [Calls -> [code : Int, cause : Errors]]
    /\ result \in [Calls -> [says : Errors, cause : Errors]]

\* What a caller is told of an error, by any number of hops.
Told(e) == ErrorOf(ParseError(e))

\* A response holds the code of the error that caused it, as every later hop
\* would tell it.
ErrorsInv ==
    /\ \A c \in Calls : ErrorOf(resp[c].code) = Told(resp[c].cause)
    /\ \A c \in Calls :
         result[c].says \in {Told(result[c].cause), result[c].cause}

\* The order of the steps of a call and of its request.
StagesInv ==
    /\ \A c \in Calls :
         /\ pc[c] \in {"new", "packing"} => carried[c] = None
         /\ c \in arrived => pc[c] \in {"sent", "done"}
         /\ c \notin arrived => srv[c] = "none" /\ disp[c] = "none"
         /\ disp[c] # "none" => carried[c] \in Encoders
    /\ \A c, d \in Calls : ctx[c] = d => d \in arrived

\* n is what call c named, or one that overwrote its map, or nothing.
Named(c, n) ==
    \/ n \in {name[c], None}
    \/ \E d \in Calls : <<c, d>> \in overwritten /\ n = name[d]

\* What a map holds for a call that is about to pack it.
MapsInv ==
    /\ \A m \in NilContexts : meta[m] = None
    /\ \A c \in Calls : pc[c] = "packing" /\ ctx[c] # Fresh =>
         Named(c, meta[ctx[c]])
    /\ \A c \in Calls : Named(c, carried[c])
    /\ \A c, d \in Calls : <<c, d>> \in overwritten => pc[d] # "new"

Inv == TypeOK /\ ErrorsInv /\ StagesInv /\ MapsInv

-----------------------------------------------------------------------------

\* A told error is told the same by the next hop.
LEMMA ToldAgain ==
    ASSUME NEW e \in Errors
    PROVE  /\ ParseError(e) \in Int
           /\ Told(e) \in Errors
           /\ Told(Told(e)) = Told(e)
<1> USE DEF Told, ErrorOf, ParseError
<1>1. CASE e = Nil
  BY <1>1, ExchangeAssumption DEF Errors
<1>2. CASE e = Plain
  <2>1. ParseError(e) = 502 /\ Told(e) = 502
    BY <1>2, ExchangeAssumption
  <2>2. Told(502) = 502
    BY ExchangeAssumption
  <2>. QED BY <2>1, <2>2 DEF Errors, RequestFull
<1>3. CASE e # Nil /\ e # Plain
  <2>1. e \in Codes \/ e \in {405, 502, 404, 200}
    BY <1>3 DEF Errors, RequestTimeout, RequestFull, EncoderNotFound
  <2>2. e \in Int
    <3> HIDE DEF Told, ErrorOf, ParseError
    <3>1. Codes \subseteq Int
      BY ExchangeAssumption
    <3>2. {405, 502, 404, 200} \subseteq Int
      OBVIOUS
    <3>. QED BY <2>1, <3>1, <3>2
  <2>3. ParseError(e) = e
    BY <1>3
  <2>4. Told(e) = e \/ Told(e) = Nil
    BY <2>3
  <2>5. Told(Nil) = Nil
    BY ExchangeAssumption
  <2>. QED BY <2>2, <2>3, <2>4, <2>5 DEF Errors
<1>. QED BY <1>1, <1>2, <1>3

\* The error and the code of a response that respond writes.
LEMMA RespondFaithful ==
    ASSUME NEW e \in Errors, NEW cause \in Errors, e \in {Told(cause), cause}
    PROVE  /\ Response(e, cause) \in [code : Int, cause : Errors]
           /\ ErrorOf(Response(e, cause).code) = Told(Response(e, cause).cause)
BY ToldAgain DEF Response, Told

LEMMA ExchangeInit == Init => Inv
<1> SUFFICES ASSUME Init PROVE Inv
  OBVIOUS
<1>1. Nil \in Errors /\ ErrorOf(200) = Nil /\ Told(Nil) = Nil
  BY ExchangeAssumption DEF Errors, ErrorOf, Told, ParseError
<1>2. TypeOK
  BY <1>1 DEF Init, TypeOK
<1>3. ErrorsInv
  BY <1>1 DEF Init, ErrorsInv
<1>4. StagesInv
  BY ExchangeAssumption DEF Init, StagesInv
<1>5. MapsInv
  BY ExchangeAssumption DEF Init, MapsInv, Maps, Named
<1>. QED BY <1>2, <1>3, <1>4, <1>5 DEF Inv

\* Types and errors: every response and result is made from faithful ones.
LEMMA ErrorsStep == TypeOK /\ ErrorsInv /\ [Next]_vars => (TypeOK /\ ErrorsInv)'
<1> SUFFICES ASSUME TypeOK, ErrorsInv, [Next]_vars
             PROVE  (TypeOK /\ ErrorsInv)'
  OBVIOUS
<1> USE DEF TypeOK, ErrorsInv, clientVars, serverVars
<1>0. /\ {Nil, Plain, RequestTimeout, RequestFull, EncoderNotFound} \subseteq Errors
      /\ Codes \subseteq Errors
  BY DEF Errors
<1>1. ASSUME NEW c \in Calls, NEW e \in Errors, NEW cause \in Errors,
             e \in {Told(cause), cause}, Respond(c, e, cause)
      PROVE  /\ resp' \in [Calls -> [code : Int, cause : Errors]]
             /\ srv' \in [Calls -> {"none", "run", "reply", "replied"}]
             /\ \A d \in Calls : ErrorOf(resp'[d].code) = Told(resp'[d].cause)
  BY <1>1, RespondFaithful DEF Respond
<1>2. ASSUME NEW c \in Calls, NEW e \in Errors, NEW cause \in Errors,
             e \in {Told(cause), cause}, Return(c, e, cause)
      PROVE  /\ pc' \in [Calls -> {"new", "packing", "sent", "done"}]
             /\ result' \in [Calls -> [says : Errors, cause : Errors]]
             /\ \A d \in Calls :
                  result'[d].says \in {Told(result'[d].cause), result'[d].cause}
  BY <1>2 DEF Return
<1>3. ASSUME NEW c \in Calls, Prepare(c) PROVE (TypeOK /\ ErrorsInv)'
  BY <1>3 DEF Prepare, Set, Usable, Maps
<1>4. ASSUME NEW c \in Calls, Send(c) PROVE (TypeOK /\ ErrorsInv)'
  BY <1>4 DEF Send
<1>5. ASSUME NEW c \in Calls, SendFails(c) PROVE (TypeOK /\ ErrorsInv)'
  BY <1>0, <1>2, <1>5 DEF SendFails
<1>6. ASSUME NEW c \in Calls, ClientTimeout(c) PROVE (TypeOK /\ ErrorsInv)'
  BY <1>0, <1>2, <1>6 DEF ClientTimeout
<1>7. ASSUME NEW c \in Calls, TakeResponse(c) PROVE (TypeOK /\ ErrorsInv)'
  <2>1. /\ resp[c].cause \in Errors
        /\ ErrorOf(resp[c].code) = Told(resp[c].cause)
        /\ Told(resp[c].cause) \in Errors
    BY ToldAgain
  <2>. QED BY <1>0, <1>2, <1>7, <2>1 DEF TakeResponse
<1>8. ASSUME NEW c \in Calls, Arrive(c) PROVE (TypeOK /\ ErrorsInv)'
  BY <1>0, <1>1, <1>8 DEF Arrive, Maps
<1>9. ASSUME NEW c \in Calls, DispatcherReturns(c)
      PROVE  (TypeOK /\ ErrorsInv)'
  <2>1. ASSUME NEW o \in Outcomes(c)
        PROVE  /\ o.says \in Errors /\ o.cause \in Errors
               /\ o.says \in {Told(o.cause), o.cause}
    BY <1>0, <2>1 DEF Outcomes, Nested
  <2>. QED BY <1>1, <1>9, <2>1 DEF DispatcherReturns
<1>10. ASSUME NEW c \in Calls, Expire(c) PROVE (TypeOK /\ ErrorsInv)'
  BY <1>0, <1>1, <1>10 DEF Expire
<1>11. ASSUME NEW c \in Calls, Reply(c) PROVE (TypeOK /\ ErrorsInv)'
  BY <1>11 DEF Reply
<1>12. CASE UNCHANGED vars
  BY <1>12 DEF vars
<1>. QED BY <1>3, <1>4, <1>5, <1>6, <1>7, <1>8, <1>9, <1>10, <1>11, <1>12
         DEF Next, ClientStep, ServerStep

\* A request is run once, and its map is used by its own dispatcher's calls.
LEMMA StagesStep == TypeOK /\ StagesInv /\ [Next]_vars => StagesInv'
<1> SUFFICES ASSUME TypeOK, StagesInv, [Next]_vars PROVE StagesInv'
  OBVIOUS
<1> USE DEF TypeOK, StagesInv, clientVars, serverVars
<1>1. ASSUME NEW c \in Calls, Prepare(c) PROVE StagesInv'
  BY <1>1, ExchangeAssumption DEF Prepare, Usable
<1>2. ASSUME NEW c \in Calls, Send(c) PROVE StagesInv'
  BY <1>2 DEF Send
<1>3. ASSUME NEW c \in Calls,
             SendFails(c) \/ ClientTimeout(c) \/ TakeResponse(c)
      PROVE  StagesInv'
  BY <1>3 DEF SendFails, ClientTimeout, TakeResponse, Return
<1>4. ASSUME NEW c \in Calls, Arrive(c) PROVE StagesInv'
  BY <1>4 DEF Arrive, Respond, Known
<1>5. ASSUME NEW c \in Calls, DispatcherReturns(c) PROVE StagesInv'
  BY <1>5 DEF DispatcherReturns, Respond
<1>6. ASSUME NEW c \in Calls, Expire(c) \/ Reply(c) PROVE StagesInv'
  BY <1>6 DEF Expire, Reply, Respond
<1>7. CASE UNCHANGED vars
  BY <1>7 DEF vars
<1>. QED BY <1>1, <1>2, <1>3, <1>4, <1>5, <1>6, <1>7
         DEF Next, ClientStep, ServerStep

\* The steps that write neither a map a call is about to pack nor a name.
LEMMA MapsFrame ==
  ASSUME MapsInv, UNCHANGED <<name, ctx, overwritten>>,
         \A m \in NilContexts : meta'[m] = None,
         \A c \in Calls : pc'[c] = "new" => pc[c] = "new",
         \A c \in Calls : pc'[c] = "packing" =>
            /\ pc[c] = "packing"
            /\ ctx[c] # Fresh => meta'[ctx[c]] = meta[ctx[c]],
         \A c \in Calls :
            \/ carried'[c] = carried[c]
            \/ carried'[c] = name[c]
            \/ pc[c] = "packing" /\ ctx[c] # Fresh /\ carried'[c] = meta[ctx[c]]
  PROVE  MapsInv'
<1>1. ASSUME NEW c \in Calls, NEW x, Named(c, x) PROVE Named(c, x)'
  BY <1>1 DEF Named
<1>2. ASSUME NEW c \in Calls, pc'[c] = "packing", ctx'[c] # Fresh
      PROVE  Named(c, meta[ctx[c]])'
  <2>1. PICK x : x = meta[ctx[c]]
    OBVIOUS
  <2>2. x = meta'[ctx'[c]] /\ Named(c, x)
    BY <1>2, <2>1 DEF MapsInv
  <2>3. Named(c, x)'
    BY <1>1, <2>2
  <2>. QED BY <2>2, <2>3 DEF Named
<1>3. ASSUME NEW c \in Calls PROVE Named(c, carried[c])'
  <2>1. PICK x : x = carried'[c]
    OBVIOUS
  <2>2. Named(c, x)
    BY <2>1 DEF MapsInv, Named
  <2>3. Named(c, x)'
    BY <1>1, <2>2
  <2>. QED BY <2>1, <2>3 DEF Named
<1>. QED BY <1>2, <1>3 DEF MapsInv

\* Between Set and PacketRequest a map changes only by another Set, which marks
\* the call: the map of a request is written before any call has it.
LEMMA MapsStep == TypeOK /\ StagesInv /\ MapsInv /\ [Next]_vars => MapsInv'
<1> SUFFICES ASSUME TypeOK, StagesInv, MapsInv, [Next]_vars PROVE MapsInv'
  OBVIOUS
<1> USE DEF TypeOK, StagesInv, MapsInv, clientVars, serverVars
<1>1. ASSUME NEW c \in Calls, Prepare(c) PROVE MapsInv'
  <2>1. PICK m \in Usable, n \in Names :
          /\ ctx' = [ctx EXCEPT ![c] = m]
          /\ name' = [name EXCEPT ![c] = n]
          /\ meta' = IF m = Fresh THEN meta ELSE Set(m, n)
          /\ overwritten' = overwritten \cup
               {<<d, c>> : d \in {e \in Calls :
                    m # Fresh /\ pc[e] = "packing" /\ ctx[e] = m}}
    BY <1>1 DEF Prepare
  <2>2. m # Fresh => m \in Maps
    BY DEF Usable, Maps
  <2>3. \A k \in Maps :
             meta'[k] = meta[k]
               \/ (k = m /\ k \notin NilContexts /\ meta'[k] = n)
    BY <2>1, <2>2 DEF Set
  <2>4. \A k \in NilContexts : meta'[k] = None
    BY <2>3, ExchangeAssumption DEF Maps
  <2>5. /\ pc[c] = "new" /\ pc' = [pc EXCEPT ![c] = "packing"]
        /\ carried' = carried
    BY <1>1 DEF Prepare
  <2>6. \A d, e \in Calls : <<d, e>> \in overwritten => <<d, e>> \in overwritten'
    BY <2>1
  <2>7. ASSUME NEW d \in Calls, NEW x, d # c, Named(d, x)
        PROVE  Named(d, x)'
    <3>1. name'[d] = name[d]
      BY <2>1, <2>7
    <3>2. ASSUME NEW e \in Calls, <<d, e>> \in overwritten, x = name[e]
          PROVE  <<d, e>> \in overwritten' /\ x = name'[e]
      <4>1. e # c
        BY <2>5, <3>2
      <4>. QED BY <2>1, <2>6, <3>2, <4>1
    <3>. QED BY <2>7, <3>1, <3>2 DEF Named
  <2>8. ASSUME NEW d \in Calls, pc'[d] = "packing", ctx'[d] # Fresh
        PROVE  Named(d, meta[ctx[d]])'
    <3>1. CASE d = c
      <4>1. ctx'[d] = m /\ name'[d] = n /\ m \in Maps
        BY <2>1, <2>2, <2>8, <3>1
      <4>2. meta'[m] \in {n, None}
        BY <2>1, <2>4, <2>8, <4>1 DEF Set
      <4>. QED BY <4>1, <4>2 DEF Named
    <3>2. CASE d # c
      <4>1. /\ pc[d] = "packing" /\ ctx'[d] = ctx[d] /\ ctx[d] # Fresh
            /\ ctx[d] \in Maps
        BY <2>1, <2>5, <2>8, <3>2
      <4>2. CASE meta'[ctx[d]] = meta[ctx[d]]
        <5>1. Named(d, meta[ctx[d]])
          BY <4>1
        <5>2. PICK x : x = meta[ctx[d]]
          OBVIOUS
        <5>3. Named(d, x)'
          BY <2>7, <3>2, <5>1, <5>2
        <5>. QED BY <4>1, <4>2, <5>2, <5>3 DEF Named
      <4>3. CASE ctx[d] = m /\ meta'[m] = n
        <5>1. <<d, c>> \in overwritten' /\ name'[c] = n
          BY <2>1, <4>1, <4>3
        <5>. QED BY <4>1, <4>3, <5>1 DEF Named
      <4>. QED BY <2>3, <4>1, <4>2, <4>3
    <3>. QED BY <3>1, <3>2
  <2>9. ASSUME NEW d \in Calls PROVE Named(d, carried[d])'
    <3>1. CASE d = c
      <4>1. carried'[d] = None
        BY <2>5, <3>1
      <4>. QED BY <4>1 DEF Named
    <3>2. CASE d # c
      <4>1. PICK x : x = carried[d]
        OBVIOUS
      <4>2. Named(d, x)'
        BY <2>7, <3>2, <4>1
      <4>. QED BY <2>5, <4>1, <4>2 DEF Named
    <3>. QED BY <3>1, <3>2
  <2>10. ASSUME NEW d \in Calls, NEW e \in Calls, <<d, e>> \in overwritten'
         PROVE  pc'[e] # "new"
    BY <2>1, <2>5, <2>10
  <2>. QED BY <2>4, <2>8, <2>9, <2>10
<1>2. ASSUME NEW c \in Calls, Send(c) PROVE MapsInv'
  BY <1>2, MapsFrame DEF Send
<1>3. ASSUME NEW c \in Calls,
             SendFails(c) \/ ClientTimeout(c) \/ TakeResponse(c)
      PROVE  MapsInv'
  BY <1>3, MapsFrame DEF SendFails, ClientTimeout, TakeResponse, Return
<1>4. ASSUME NEW c \in Calls, Arrive(c) PROVE MapsInv'
  BY <1>4, MapsFrame, ExchangeAssumption DEF Arrive, Maps
<1>5. ASSUME NEW c \in Calls,
             DispatcherReturns(c) \/ Expire(c) \/ Reply(c)
      PROVE  MapsInv'
  BY <1>5, MapsFrame DEF DispatcherReturns, Expire, Reply
<1>6. CASE UNCHANGED vars
  BY <1>6, MapsFrame DEF vars
<1>. QED BY <1>1, <1>2, <1>3, <1>4, <1>5, <1>6
         DEF Next, ClientStep, ServerStep

LEMMA ExchangeInv == Spec => []Inv
<1>1. Inv /\ [Next]_vars => Inv'
  BY ErrorsStep, StagesStep, MapsStep DEF Inv
<1>. QED BY ExchangeInit, <1>1, PTL DEF Spec

-----------------------------------------------------------------------------

\* Over any number of hops, a caller of Invoke is told the error that was the
\* cause, unless its code is one that Invoke takes for a success.
THEOREM OutcomesTravel == Spec => []OutcomeTravels
<1>1. ASSUME NEW e \in Errors
      PROVE  \/ Told(e) = e
             \/ e = Plain /\ Told(e) = 502
             \/ SuccessCode(e) /\ Told(e) = Nil
  <2>1. CASE e \in {Nil, Plain}
    BY <2>1, ExchangeAssumption DEF Told, ErrorOf, ParseError
  <2>2. CASE e \notin {Nil, Plain}
    <3>1. ParseError(e) = e /\ e \in Int
      BY <2>2, ToldAgain DEF ParseError
    <3>. QED BY <2>2, <3>1 DEF Told, ErrorOf, SuccessCode
  <2>. QED BY <2>1, <2>2
<1>2. Inv => OutcomeTravels
  BY <1>1 DEF Inv, TypeOK, ErrorsInv, OutcomeTravels
<1>. QED BY ExchangeInv, <1>2, PTL

\* The dispatcher decodes a body with the encoder that encoded it, unless
\* another Invoke with the same context wrote the map in between: then with the
\* one that other call names.
THEOREM DecodedRight == Spec => []DecodedAsEncoded
<1>1. Inv => DecodedAsEncoded
  BY ExchangeAssumption
  DEF Inv, TypeOK, StagesInv, MapsInv, Named, DecodedAsEncoded
<1>. QED BY ExchangeInv, <1>1, PTL

=============================================================================
