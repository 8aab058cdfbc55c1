-------------------------- MODULE ClientCallProof --------------------------
(***************************************************************************)
(* Proofs of the safety properties of ClientCall, for any number of calls  *)
(* and readers and any MaxInt32, ReTry and Expiring, and that its call     *)
(* table implements RpcCall.                                               *)
(***************************************************************************)
EXTENDS ClientCall, FiniteSets, FiniteSetTheorems, TLAPS

-----------------------------------------------------------------------------
(* Facts used everywhere.                                                  *)

\* sendRequest makes at least one attempt.
LEMMA TryTimeType == TryTime \in Nat /\ TryTime > 0
  BY ClientCallAssumption DEF TryTime

\* What delete does to reqMap.
LEMMA ForgetFacts ==
  ASSUME NEW i
  PROVE  /\ DOMAIN Forget(i) = DOMAIN reqMap \ {i}
         /\ \A j \in DOMAIN reqMap \ {i} : Forget(i)[j] = reqMap[j]
  BY DEF Forget, Restrict

-----------------------------------------------------------------------------
(* Types.                                                                  *)

LEMMA TypeInit == Init => TypeInv
  BY ClientCallAssumption, TryTimeType
  DEF Init, TypeInv, TypeOK, AttemptsLeft, PcStates, Results, Registered

LEMMA TypeStep == TypeInv /\ [Next]_vars => TypeInv'
<1> SUFFICES ASSUME TypeInv, [Next]_vars PROVE TypeInv'
  OBVIOUS
<1> USE DEF TypeInv, TypeOK, AttemptsLeft, PcStates, Results, Registered,
            appVars, readerVars, history
<1>1. ASSUME NEW c \in Calls, CallStep(c) PROVE TypeInv'
  <2>1. CASE NextIdCas(c)
    BY <2>1, ClientCallAssumption DEF NextIdCas, Draw
  <2>2. CASE NextIdAdd(c)
    BY <2>2 DEF NextIdAdd, Draw
  <2>3. CASE Register(c)
    <3>1. reqMap' = Store(id[c], c)
      BY <2>3 DEF Register
    <3>2. /\ DOMAIN reqMap' = DOMAIN reqMap \cup {id[c]}
          /\ \A j \in DOMAIN reqMap' :
               reqMap'[j] = IF j = id[c] THEN c ELSE reqMap[j]
      BY <3>1 DEF Store
    <3>3. id[c] \in Nat
      OBVIOUS
    <3>4. DOMAIN reqMap' \subseteq Nat
      BY <3>2, <3>3
    <3>5. \A i \in DOMAIN reqMap' : reqMap'[i] \in Calls
      BY <3>2
    <3>. QED BY <2>3, <3>4, <3>5 DEF Register
  <2>4. CASE NoConnector(c)
    BY <2>4 DEF NoConnector
  <2>5. CASE DialFails(c)
    BY <2>5, TryTimeType DEF DialFails, LastAttempt
  <2>6. CASE WriteFails(c)
    BY <2>6, TryTimeType DEF WriteFails, LastAttempt
  <2>7. CASE WriteSucceeds(c)
    BY <2>7, TryTimeType DEF WriteSucceeds
  <2>7a. CASE SendReturns(c)
    BY <2>7a DEF SendReturns
  <2>8. ASSUME NEW outcome \in Results, Leave(c, outcome) PROVE TypeInv'
    BY <2>8, ForgetFacts DEF Leave
  <2>9. CASE SendErrorReturn(c)
    BY <2>8, <2>9 DEF SendErrorReturn, Withdraw
  <2>10. CASE ContextDone(c)
    BY <2>10 DEF ContextDone
  <2>11. CASE TimeoutReturn(c)
    BY <2>8, <2>11 DEF TimeoutReturn, Withdraw
  <2>12. CASE TakeResponse(c)
    BY <2>12 DEF TakeResponse
  <2>13. CASE ResponseReturn(c)
    BY <2>13 DEF ResponseReturn
  <2>. QED
    BY <1>1, <2>1, <2>2, <2>3, <2>4, <2>5, <2>6, <2>7, <2>9, <2>10, <2>11,
       <2>12, <2>13, <2>7a DEF CallStep, SendStep
<1>2. ASSUME NEW r \in Readers, ReaderStep(r) PROVE TypeInv'
  <2>1. CASE LookUpKnown(r)
    BY <2>1, ForgetFacts DEF LookUpKnown
  <2>2. CASE LookUpUnknown(r)
    BY <2>2 DEF LookUpUnknown
  <2>3. CASE Deliver(r)
    BY <2>3 DEF Deliver, Sent
  <2>. QED BY <1>2, <2>1, <2>2, <2>3 DEF ReaderStep
<1>3. ASSUME NEW r \in Readers, NEW c \in Calls, ResponseArrives(r, c)
      PROVE  TypeInv'
  BY <1>3 DEF ResponseArrives
<1>4. CASE UNCHANGED vars
  BY <1>4 DEF vars
<1>. QED BY <1>1, <1>2, <1>3, <1>4 DEF Next

\* Every variable of the client's call table keeps its type.
THEOREM TypeCorrect == Spec => []TypeOK
<1>1. TypeInv => TypeOK
  BY DEF TypeInv
<1>. QED BY <1>1, TypeInit, TypeStep, PTL DEF Spec

-----------------------------------------------------------------------------
(* Transmission.                                                           *)

LEMMA WritesInit == Init => WritesInv
  BY DEF Init, WritesInv

LEMMA WritesStep == TypeInv /\ WritesInv /\ [Next]_vars => WritesInv'
<1> SUFFICES ASSUME TypeInv, WritesInv, [Next]_vars PROVE WritesInv'
  OBVIOUS
<1> USE DEF TypeInv, TypeOK, WritesInv, Registered, PcStates, Results,
            appVars, readerVars, history
<1>1. ASSUME NEW c \in Calls, CallStep(c) PROVE WritesInv'
  <2>1. CASE NextIdCas(c)
    BY <2>1 DEF NextIdCas, Draw
  <2>2. CASE NextIdAdd(c)
    BY <2>2 DEF NextIdAdd, Draw
  <2>3. CASE Register(c)
    BY <2>3 DEF Register
  <2>4. CASE NoConnector(c)
    BY <2>4 DEF NoConnector
  <2>5. CASE DialFails(c)
    BY <2>5 DEF DialFails
  <2>6. CASE WriteFails(c)
    BY <2>6 DEF WriteFails
  <2>7. CASE WriteSucceeds(c)
    BY <2>7 DEF WriteSucceeds
  <2>7a. CASE SendReturns(c)
    BY <2>7a DEF SendReturns
  <2>8. CASE SendErrorReturn(c)
    BY <2>8 DEF SendErrorReturn, Withdraw, Leave
  <2>9. CASE ContextDone(c)
    BY <2>9 DEF ContextDone
  <2>10. CASE TimeoutReturn(c)
    BY <2>10 DEF TimeoutReturn, Withdraw, Leave
  <2>11. CASE TakeResponse(c)
    BY <2>11 DEF TakeResponse
  <2>12. CASE ResponseReturn(c)
    BY <2>12 DEF ResponseReturn
  <2>. QED
    BY <1>1, <2>1, <2>2, <2>3, <2>4, <2>5, <2>6, <2>7, <2>8, <2>9, <2>10,
       <2>11, <2>12, <2>7a DEF CallStep, SendStep
<1>2. ASSUME NEW r \in Readers, ReaderStep(r) PROVE WritesInv'
  BY <1>2 DEF ReaderStep, LookUpKnown, LookUpUnknown, Deliver
<1>3. ASSUME NEW r \in Readers, NEW c \in Calls, ResponseArrives(r, c)
      PROVE  WritesInv'
  BY <1>3 DEF ResponseArrives
<1>4. CASE UNCHANGED vars
  BY <1>4 DEF vars
<1>. QED BY <1>1, <1>2, <1>3, <1>4 DEF Next

\* The retries of sendRequest transmit a request at most once, and not at all
\* when Invoke returns a send error.
THEOREM TransmittedOnce == Spec => []WrittenAtMostOnce
<1>1. TypeInv /\ WritesInv => WrittenAtMostOnce
  BY DEF TypeInv, TypeOK, WritesInv, WrittenAtMostOnce
<1>. QED BY <1>1, TypeInit, TypeStep, WritesInit, WritesStep, PTL DEF Spec

-----------------------------------------------------------------------------
(* Request ids.                                                            *)

LEMMA IdsInit == Init => IdsInv
  BY DEF Init, IdsInv, Drawn

\* Steps that draw no id leave the numbers alone.
LEMMA IdsFrame ==
  ASSUME IdsInv, UNCHANGED <<requestId, id, draws, drawNo>>,
         \A c \in Calls : Drawn(c)' <=> Drawn(c)
  PROVE  IdsInv'
  BY DEF IdsInv, Lag, LagOf, Distance

\* Drawing the next number, whether the counter advances by one or wraps.
LEMMA DrawKeepsIds ==
  ASSUME TypeInv, IdsInv, NEW c \in Calls, ~Drawn(c),
         NEW n \in Nat, Draw(c, n),
         n = requestId + 1 \/ (requestId = MaxInt32 /\ n = 1)
  PROVE  IdsInv'
<1> USE DEF TypeInv, TypeOK, PcStates, Registered, Drawn, Draw, Lag, LagOf
<1>1. /\ Drawn(c)' /\ drawNo'[c] = draws + 1 /\ draws' = draws + 1
      /\ LagOf(c)' = Lag'
      /\ Lag' = Lag \/ Lag' = Lag + MaxInt32
  BY ClientCallAssumption
<1>2. \A d \in Calls \ {c} :
        /\ Drawn(d)' <=> Drawn(d)
        /\ drawNo'[d] = drawNo[d]
        /\ LagOf(d)' = LagOf(d)
  OBVIOUS
<1>3. \A d \in Calls \ {c} : Drawn(d) =>
        /\ drawNo[d] < draws'
        /\ LagOf(d) = Lag' \/ Lag' - LagOf(d) >= MaxInt32
  <2> SUFFICES ASSUME NEW d \in Calls \ {c}, Drawn(d)
               PROVE  /\ drawNo[d] < draws'
                      /\ LagOf(d) = Lag' \/ Lag' - LagOf(d) >= MaxInt32
    OBVIOUS
  <2>1. drawNo[d] <= draws /\ (LagOf(d) = Lag \/ Lag - LagOf(d) >= MaxInt32)
    BY DEF IdsInv
  <2>2. drawNo[d] \in Int /\ draws \in Int /\ LagOf(d) \in Int /\ Lag \in Int
    OBVIOUS
  <2>. QED BY ONLY <1>1, <2>1, <2>2, ClientCallAssumption
<1>. QED
  BY <1>1, <1>2, <1>3, ClientCallAssumption DEF IdsInv, Distance

LEMMA IdsStep == TypeInv /\ IdsInv /\ [Next]_vars => IdsInv'
<1> SUFFICES ASSUME TypeInv, IdsInv, [Next]_vars PROVE IdsInv'
  OBVIOUS
<1>1. ASSUME NEW c \in Calls, CallStep(c) PROVE IdsInv'
  <2>1. CASE NextIdCas(c)
    <3>1. CASE Wraps /\ Draw(c, 1)
      BY <2>1, <3>1, DrawKeepsIds DEF NextIdCas, Drawn, Wraps
    <3>2. CASE ~Wraps
      <4>1. \A d \in Calls : Drawn(d)' <=> Drawn(d)
        BY <2>1, <3>2 DEF NextIdCas, Drawn, TypeInv, TypeOK
      <4>. QED BY <2>1, <3>2, <4>1, IdsFrame DEF NextIdCas
    <3>. QED BY <2>1, <3>1, <3>2 DEF NextIdCas
  <2>2. CASE NextIdAdd(c)
    BY <2>2, DrawKeepsIds DEF NextIdAdd, Drawn, TypeInv, TypeOK
  <2>3. CASE ~NextIdCas(c) /\ ~NextIdAdd(c)
    <3>1. UNCHANGED <<requestId, id, draws, drawNo>>
      BY <1>1, <2>3
      DEF CallStep, SendStep, Register, NoConnector, DialFails, WriteFails,
          WriteSucceeds, SendReturns, SendErrorReturn, ContextDone,
          TimeoutReturn,
          TakeResponse, ResponseReturn, Withdraw, Leave, history
    <3>2. \A d \in Calls : Drawn(d)' <=> Drawn(d)
      BY <1>1, <2>3
      DEF CallStep, SendStep, Register, NoConnector, DialFails, WriteFails,
          WriteSucceeds, SendReturns, SendErrorReturn, ContextDone,
          TimeoutReturn,
          TakeResponse, ResponseReturn, Withdraw, Leave, Drawn, TypeInv,
          TypeOK
    <3>. QED BY <3>1, <3>2, IdsFrame
  <2>. QED BY <2>1, <2>2, <2>3
<1>2. ASSUME UNCHANGED <<requestId, id, pc, draws, drawNo>> PROVE IdsInv'
  BY <1>2, IdsFrame DEF Drawn
<1>3. ASSUME NEW r \in Readers, ReaderStep(r) PROVE IdsInv'
  BY <1>2, <1>3
  DEF ReaderStep, LookUpKnown, LookUpUnknown, Deliver, appVars, history
<1>4. ASSUME NEW r \in Readers, NEW c \in Calls, ResponseArrives(r, c)
      PROVE  IdsInv'
  BY <1>2, <1>4 DEF ResponseArrives, appVars
<1>5. CASE UNCHANGED vars
  BY <1>2, <1>5 DEF vars, appVars, history
<1>. QED BY <1>1, <1>3, <1>4, <1>5 DEF Next

LEMMA IdsGiveFarApart == TypeInv /\ IdsInv => IdsFarApart
<1> SUFFICES ASSUME TypeInv, IdsInv, NEW c \in Calls, NEW d \in Calls,
                    Collide(c, d)
             PROVE  Distance(drawNo[c], drawNo[d]) >= MaxInt32
  BY DEF IdsFarApart
<1>1. /\ drawNo[c] # drawNo[d]
      /\ LagOf(c) = LagOf(d) \/ Distance(LagOf(c), LagOf(d)) >= MaxInt32
  BY DEF IdsInv, Collide
<1>2. /\ id[c] = id[d]
      /\ id[c] \in Int /\ drawNo[c] \in Int /\ drawNo[d] \in Int
  BY DEF TypeInv, TypeOK, Collide
<1>. QED BY <1>1, <1>2, ClientCallAssumption DEF LagOf, Distance

\* nextRequestId does not repeat an id within MaxInt32 draws, even when its
\* counter jumps over MaxInt32.
THEOREM IdsStayFarApart == Spec => []IdsFarApart
BY TypeInit, TypeStep, IdsInit, IdsStep, IdsGiveFarApart, PTL DEF Spec

-----------------------------------------------------------------------------
(* Responses on their way.                                                 *)

LEMMA AnswerInit == Init => AnswerInv
  BY DEF Init, AnswerInv

LEMMA AnswerStep == TypeInv /\ AnswerInv /\ [Next]_vars => AnswerInv'
<1> SUFFICES ASSUME TypeInv, AnswerInv, [Next]_vars PROVE AnswerInv'
  OBVIOUS
<1> USE DEF TypeInv, TypeOK, AnswerInv, appVars, readerVars, history
<1>1. ASSUME NEW c \in Calls, CallStep(c) PROVE AnswerInv'
  <2>1. CASE NextIdCas(c) \/ NextIdAdd(c) \/ Register(c)
    BY <2>1 DEF NextIdCas, NextIdAdd, Draw, Register
  <2>2. CASE \/ NoConnector(c) \/ DialFails(c) \/ WriteFails(c)
            \/ SendReturns(c) \/ ContextDone(c)
    BY <2>2 DEF NoConnector, DialFails, WriteFails, SendReturns, ContextDone
  <2>3. CASE WriteSucceeds(c)
    BY <2>3 DEF WriteSucceeds
  <2>4. CASE SendErrorReturn(c) \/ TimeoutReturn(c)
    BY <2>4 DEF SendErrorReturn, TimeoutReturn, Withdraw, Leave
  <2>5. CASE TakeResponse(c)
    BY <2>5 DEF TakeResponse
  <2>6. CASE ResponseReturn(c)
    BY <2>6 DEF ResponseReturn
  <2>. QED
    BY <1>1, <2>1, <2>2, <2>3, <2>4, <2>5, <2>6 DEF CallStep, SendStep
<1>2. ASSUME NEW r \in Readers, ReaderStep(r) PROVE AnswerInv'
  <2>1. CASE LookUpKnown(r) \/ LookUpUnknown(r)
    BY <2>1 DEF LookUpKnown, LookUpUnknown
  <2>2. CASE Deliver(r)
    BY <2>2 DEF Deliver, Sent
  <2>. QED BY <1>2, <2>1, <2>2 DEF ReaderStep
<1>3. ASSUME NEW r \in Readers, NEW c \in Calls, ResponseArrives(r, c)
      PROVE  AnswerInv'
  BY <1>3 DEF ResponseArrives
<1>4. CASE UNCHANGED vars
  BY <1>4 DEF vars
<1>. QED BY <1>1, <1>2, <1>3, <1>4 DEF Next

-----------------------------------------------------------------------------
(* The table, the channels and the reader that holds the lock.             *)

LEMMA TableInit == Init => TableInv
<1> SUFFICES ASSUME Init PROVE TableInv
  OBVIOUS
<1>1. ChanInv
  BY DEF Init, ChanInv, Registered
<1>2. EntriesAreLive
  BY DEF Init, EntriesAreLive
<1>3. ReaderInv
  BY ClientCallAssumption DEF Init, ReaderInv
<1>4. HandedOverInv
  BY DEF Init, HandedOverInv
<1>. QED BY <1>1, <1>2, <1>3, <1>4 DEF TableInv

\* Steps of a call that touch neither table nor channels, and move it forward
\* between states that mean the same for them.
LEMMA TableFrame ==
  ASSUME TypeInv, TypeInv', TableInv, NEW c \in Calls,
         UNCHANGED <<reqMap, chan, buf, got, readerVars>>,
         \A d \in Calls \ {c} : pc'[d] = pc[d] /\ id'[d] = id[d],
         \/ /\ pc[c] \in {"idle", "add"}
            /\ pc'[c] \in {"idle", "add", "register"}
         \/ /\ pc[c] \in Registered
            /\ pc'[c] \in Registered
            /\ id'[c] = id[c]
  PROVE  TableInv'
<1> USE DEF TypeInv, TypeOK, TableInv, Registered, Drawn, readerVars
<1>1. ChanInv'
  BY DEF ChanInv
<1>2. EntriesAreLive'
  BY DEF EntriesAreLive
<1>3. ReaderInv'
  BY DEF ReaderInv, SameId, NotInTable
<1>4. HandedOverInv'
  BY DEF HandedOverInv, SameId
<1>. QED BY <1>1, <1>2, <1>3, <1>4

LEMMA TableRegister ==
  ASSUME TypeInv, TypeInv', TableInv, NEW c \in Calls, Register(c)
  PROVE  TableInv'
<1> USE DEF TypeInv, TypeOK, TableInv, Registered, Drawn, Register,
            readerVars, history
<1>1. /\ DOMAIN reqMap' = DOMAIN reqMap \cup {id[c]}
      /\ \A j \in DOMAIN reqMap' :
           reqMap'[j] = IF j = id[c] THEN c ELSE reqMap[j]
  BY DEF Store
<1>2. ChanInv'
  BY DEF ChanInv
<1>3. buf[c] = None
  BY DEF HandedOverInv
<1>4. EntriesAreLive'
  BY <1>1, <1>3 DEF EntriesAreLive
<1>5. ReaderInv'
  BY ClientCallAssumption DEF ReaderInv, SameId, NotInTable
<1>6. HandedOverInv'
  BY DEF HandedOverInv, SameId
<1>. QED BY <1>2, <1>4, <1>5, <1>6

LEMMA TableLeave ==
  ASSUME TypeInv, TypeInv', TableInv, NEW c \in Calls, NEW outcome,
         pc[c] \in Registered, Withdraw(c, outcome)
  PROVE  TableInv'
<1> USE DEF TypeInv, TypeOK, TableInv, Registered, Drawn, Withdraw, Leave,
            readerVars, history
<1>1. /\ DOMAIN reqMap' = DOMAIN reqMap \ {id[c]}
      /\ \A j \in DOMAIN reqMap' : reqMap'[j] = reqMap[j]
  BY DEF Forget, Restrict
<1>2. ChanInv'
  BY DEF ChanInv
<1>3. \A j \in DOMAIN reqMap' : reqMap'[j] # c
  BY <1>1 DEF EntriesAreLive
<1>4. EntriesAreLive'
  BY <1>1, <1>3 DEF EntriesAreLive
<1>5. ReaderInv'
  BY ClientCallAssumption DEF ReaderInv
<1>6. HandedOverInv'
  BY DEF HandedOverInv, SameId
<1>. QED BY <1>2, <1>4, <1>5, <1>6

LEMMA TableReturn ==
  ASSUME TypeInv, TypeInv', TableInv, NEW c \in Calls,
         TakeResponse(c) \/ ResponseReturn(c)
  PROVE  TableInv'
<1> USE DEF TypeInv, TypeOK, TableInv, Registered, Drawn, readerVars, history
<1>1. CASE TakeResponse(c)
  <2> USE <1>1 DEF TakeResponse
  <2>1. ChanInv'
    BY DEF ChanInv
  <2>2. EntriesAreLive'
    BY DEF EntriesAreLive
  <2>3. ReaderInv'
    BY DEF ReaderInv, SameId, NotInTable
  <2>4. HandedOverInv'
    BY DEF HandedOverInv, SameId
  <2>. QED BY <2>1, <2>2, <2>3, <2>4
<1>2. CASE ResponseReturn(c)
  <2> USE <1>2 DEF ResponseReturn
  <2>1. ChanInv'
    BY DEF ChanInv
  <2>2. EntriesAreLive'
    BY DEF EntriesAreLive
  <2>3. ReaderInv'
    BY DEF ReaderInv, SameId, NotInTable
  <2>4. HandedOverInv'
    BY DEF HandedOverInv, SameId
  <2>. QED BY <2>1, <2>2, <2>3, <2>4
<1>. QED BY <1>1, <1>2

LEMMA TableReader ==
  ASSUME TypeInv, TypeInv', TableInv, NEW r \in Readers, ReaderStep(r)
  PROVE  TableInv'
<1> USE DEF TypeInv, TypeOK, TableInv, Registered, Drawn, appVars, readerVars,
            history
<1>1. CASE LookUpKnown(r)
  <2> USE <1>1 DEF LookUpKnown
  <2>1. /\ DOMAIN reqMap' = DOMAIN reqMap \ {id[hand[r]]}
        /\ \A j \in DOMAIN reqMap' : reqMap'[j] = reqMap[j]
    BY ForgetFacts
  <2>2. ChanInv'
    BY DEF ChanInv
  <2>3. EntriesAreLive'
    BY <2>1 DEF EntriesAreLive
  <2>4. LET c == reqMap[id[hand[r]]]
        IN  /\ target'[r] = c /\ c \in Calls /\ pc[c] \in Registered
            /\ buf[c] = None
            /\ id[c] = id[hand[r]]
            /\ \A j \in DOMAIN reqMap' : reqMap'[j] # c
    BY <2>1 DEF EntriesAreLive
  <2>5. ReaderInv'
    BY <2>4, ClientCallAssumption DEF ReaderInv, SameId, NotInTable
  <2>6. HandedOverInv'
    BY DEF HandedOverInv, SameId
  <2>. QED BY <2>2, <2>3, <2>5, <2>6
<1>2. CASE LookUpUnknown(r)
  <2> USE <1>2 DEF LookUpUnknown
  <2>1. ChanInv'
    BY DEF ChanInv
  <2>2. EntriesAreLive'
    BY DEF EntriesAreLive
  <2>3. ReaderInv'
    BY ClientCallAssumption DEF ReaderInv, SameId, NotInTable
  <2>4. HandedOverInv'
    BY DEF HandedOverInv, SameId
  <2>. QED BY <2>1, <2>2, <2>3, <2>4
<1>3. CASE Deliver(r)
  <2> USE <1>3 DEF Deliver, Sent
  <2>1. ChanInv'
    BY DEF ChanInv
  <2>2. EntriesAreLive'
    BY DEF EntriesAreLive, ReaderInv, NotInTable
  <2>3. ReaderInv'
    BY ClientCallAssumption DEF ReaderInv
  <2>4. HandedOverInv'
    BY DEF HandedOverInv, ReaderInv, SameId
  <2>. QED BY <2>1, <2>2, <2>3, <2>4
<1>. QED BY <1>1, <1>2, <1>3 DEF ReaderStep

LEMMA TableArrival ==
  ASSUME TypeInv, WritesInv, TableInv, NEW r \in Readers, NEW c \in Calls,
         ResponseArrives(r, c)
  PROVE  TableInv'
<1> USE DEF TypeInv, TypeOK, TableInv, Registered, Drawn, appVars,
            ResponseArrives
<1>1. ChanInv' /\ EntriesAreLive'
  BY DEF ChanInv, EntriesAreLive
<1>2. Drawn(c)
  BY DEF WritesInv
<1>3. ReaderInv'
  BY <1>2, ClientCallAssumption DEF ReaderInv, SameId, NotInTable
<1>4. HandedOverInv'
  BY DEF HandedOverInv, SameId
<1>. QED BY <1>1, <1>3, <1>4

LEMMA TableStep ==
  TypeInv /\ TypeInv' /\ WritesInv /\ TableInv /\ [Next]_vars => TableInv'
<1> SUFFICES ASSUME TypeInv, TypeInv', WritesInv, TableInv, [Next]_vars
             PROVE  TableInv'
  OBVIOUS
<1>1. ASSUME NEW c \in Calls, CallStep(c) PROVE TableInv'
  <2> USE DEF TypeInv, TypeOK, Registered
  <2>1. CASE NextIdCas(c)
    BY <2>1, TableFrame DEF NextIdCas, Draw
  <2>2. CASE NextIdAdd(c)
    BY <2>2, TableFrame DEF NextIdAdd, Draw
  <2>3. CASE Register(c)
    BY <2>3, TableRegister
  <2>4. CASE NoConnector(c)
    BY <2>4, TableFrame DEF NoConnector
  <2>5. CASE DialFails(c)
    BY <2>5, TableFrame DEF DialFails
  <2>6. CASE WriteFails(c)
    BY <2>6, TableFrame DEF WriteFails
  <2>7. CASE WriteSucceeds(c)
    BY <2>7, TableFrame DEF WriteSucceeds
  <2>7a. CASE SendReturns(c)
    BY <2>7a, TableFrame DEF SendReturns
  <2>8. CASE SendErrorReturn(c)
    BY <2>8, TableLeave DEF SendErrorReturn
  <2>9. CASE ContextDone(c)
    BY <2>9, TableFrame DEF ContextDone
  <2>10. CASE TimeoutReturn(c)
    BY <2>10, TableLeave DEF TimeoutReturn
  <2>11. CASE TakeResponse(c)
    BY <2>11, TableReturn
  <2>12. CASE ResponseReturn(c)
    BY <2>12, TableReturn
  <2>. QED
    BY <1>1, <2>1, <2>2, <2>3, <2>4, <2>5, <2>6, <2>7, <2>8, <2>9, <2>10,
       <2>11, <2>12, <2>7a DEF CallStep, SendStep
<1>2. ASSUME NEW r \in Readers, ReaderStep(r) PROVE TableInv'
  BY <1>2, TableReader
<1>3. ASSUME NEW r \in Readers, NEW c \in Calls, ResponseArrives(r, c)
      PROVE  TableInv'
  BY <1>3, TableArrival
<1>4. CASE UNCHANGED vars
  BY <1>4
  DEF vars, appVars, readerVars, history, TableInv, ChanInv, EntriesAreLive,
      ReaderInv, HandedOverInv, Drawn, SameId, NotInTable
<1>. QED BY <1>1, <1>2, <1>3, <1>4 DEF Next

\* What holds of the table for the calls that share no id, and for all of
\* them: the invariant that the three theorems below rest on.
LEMMA TableAlways == Spec => [](TypeInv /\ WritesInv /\ TableInv)
BY TypeInit, TypeStep, WritesInit, WritesStep, TableInit, TableStep, PTL
DEF Spec

\* A reader never sends on a closed or full respChan while it holds rwLock,
\* and an Invoke that closes its channel is the first to do so.
THEOREM NoPanicNoBlock == Spec => []ChannelSafe
<1>1. TypeInv /\ TableInv => ChannelSafe
  BY ClientCallAssumption
  DEF TypeInv, TypeOK, TableInv, ChanInv, ReaderInv, ChannelSafe, Registered
<1>. QED BY <1>1, TableAlways, PTL

\* reqMap holds calls in progress only.
THEOREM NoLeakedEntry == Spec => []EntriesAreLive
<1>1. TableInv => EntriesAreLive
  BY DEF TableInv
<1>. QED BY <1>1, TableAlways, PTL

\* An Invoke returns its own response unless ids have come round.
THEOREM ResponsesMatch == Spec => []OwnResponse
<1>1. TypeInv /\ TableInv /\ IdsFarApart => OwnResponse
  BY DEF TypeInv, TypeOK, TableInv, HandedOverInv, SameId, Drawn, IdsFarApart,
         Collide, OwnResponse
<1>. QED BY <1>1, TableAlways, IdsStayFarApart, PTL

-----------------------------------------------------------------------------
(* No response is lost between sending and waiting.                        *)

\* Reachable, for one call.
Found(c) ==
  \/ id[c] \in DOMAIN reqMap /\ reqMap[id[c]] = c
  \/ buf[c] # None
  \/ rwLock # None /\ target[rwLock] = c
  \/ \E d \in Calls : Collide(c, d)

LEMMA ReachableIsFound ==
  Reachable <=> \A c \in Calls : pc[c] \in Registered => Found(c)
  BY DEF Reachable, Found

\* A drawn id stays, and so does a collision.
LEMMA CollisionsStay ==
  ASSUME TypeInv, [Next]_vars, NEW c \in Calls, NEW d \in Calls, Collide(c, d)
  PROVE  Collide(c, d)'
<1> USE DEF TypeInv, TypeOK, Collide, Drawn, appVars, readerVars, history
<1>1. ASSUME NEW e \in Calls, CallStep(e) PROVE Collide(c, d)'
  BY <1>1
  DEF CallStep, SendStep, NextIdCas, NextIdAdd, Draw, Register, NoConnector,
      DialFails, WriteFails, WriteSucceeds, SendReturns, SendErrorReturn,
      ContextDone,
      TimeoutReturn, TakeResponse, ResponseReturn, Withdraw, Leave
<1>2. ASSUME NEW r \in Readers, ReaderStep(r) PROVE Collide(c, d)'
  BY <1>2 DEF ReaderStep, LookUpKnown, LookUpUnknown, Deliver
<1>3. ASSUME NEW r \in Readers, NEW e \in Calls, ResponseArrives(r, e)
      PROVE  Collide(c, d)'
  BY <1>3 DEF ResponseArrives
<1>4. CASE UNCHANGED vars
  BY <1>4 DEF vars
<1>. QED BY <1>1, <1>2, <1>3, <1>4 DEF Next

LEMMA FoundStays ==
  ASSUME TypeInv, TypeInv', TableInv, [Next]_vars,
         NEW c \in Calls, pc[c] \in Registered => Found(c),
         pc'[c] \in Registered
  PROVE  Found(c)'
<1> USE DEF TypeInv, TypeOK, Registered, appVars, readerVars, history
<1>1. CASE \E d \in Calls : Collide(c, d)
  BY <1>1, CollisionsStay DEF Found
<1>2. CASE ~\E d \in Calls : Collide(c, d)
  <2>1. CASE Register(c)
    BY <2>1 DEF Register, Store, Found
  <2>2. CASE /\ pc[c] \in Registered
            /\ UNCHANGED <<id, reqMap, buf, rwLock, target>>
    BY <1>2, <2>2 DEF Found
  <2>3. ASSUME NEW e \in Calls \ {c}, CallStep(e), ~Register(c)
        PROVE  Found(c)'
    <3>1. pc[c] \in Registered /\ Found(c)
      BY <2>3
      DEF CallStep, SendStep, NextIdCas, NextIdAdd, Draw, Register,
          NoConnector, DialFails, WriteFails, WriteSucceeds, SendReturns,
          SendErrorReturn,
          ContextDone, TimeoutReturn, TakeResponse, ResponseReturn, Withdraw,
          Leave
    <3>2. CASE NextIdCas(e) \/ NextIdAdd(e)
      BY <1>2, <3>1, <3>2 DEF NextIdCas, NextIdAdd, Draw, Found
    <3>3. CASE Register(e)
      <4>1. id[e] # id[c]
        BY <1>2, <3>1, <3>3 DEF Register, Collide, Drawn
      <4>. QED BY <1>2, <3>1, <3>3, <4>1 DEF Register, Store, Found
    <3>4. CASE SendErrorReturn(e) \/ TimeoutReturn(e)
      <4>1. id[e] # id[c]
        BY <1>2, <3>1, <3>4
        DEF SendErrorReturn, TimeoutReturn, Collide, Drawn
      <4>2. /\ DOMAIN reqMap' = DOMAIN reqMap \ {id[e]}
            /\ \A j \in DOMAIN reqMap' : reqMap'[j] = reqMap[j]
        BY <3>4
        DEF SendErrorReturn, TimeoutReturn, Withdraw, Leave, Forget, Restrict
      <4>3. UNCHANGED <<id, rwLock, target>> /\ buf'[c] = buf[c]
        BY <3>4 DEF SendErrorReturn, TimeoutReturn, Withdraw, Leave
      <4>. QED BY <1>2, <3>1, <4>1, <4>2, <4>3 DEF Found
    <3>5. CASE SendStep(e) \/ ContextDone(e) \/ TakeResponse(e)
                 \/ ResponseReturn(e)
      <4>1. UNCHANGED <<id, reqMap, rwLock, target>> /\ buf'[c] = buf[c]
        BY <3>5
        DEF SendStep, NoConnector, DialFails, WriteFails, WriteSucceeds,
            SendReturns, ContextDone, TakeResponse, ResponseReturn
      <4>. QED BY <1>2, <3>1, <4>1 DEF Found
    <3>. QED BY <2>3, <3>2, <3>3, <3>4, <3>5 DEF CallStep
  <2>4. CASE CallStep(c) /\ ~Register(c)
    <3>1. SendStep(c) \/ ContextDone(c)
      BY <2>4
      DEF CallStep, NextIdCas, NextIdAdd, Draw, SendErrorReturn,
          TimeoutReturn, TakeResponse, ResponseReturn, Withdraw, Leave
    <3>. QED
      BY <2>2, <3>1
      DEF SendStep, NoConnector, DialFails, WriteFails, WriteSucceeds,
          SendReturns, ContextDone
  <2>5. ASSUME NEW r \in Readers, ReaderStep(r) PROVE Found(c)'
    <3>1. pc[c] \in Registered /\ Found(c)
      BY <2>5 DEF ReaderStep, LookUpKnown, LookUpUnknown, Deliver
    <3>2. CASE LookUpKnown(r)
      <4>1. /\ DOMAIN reqMap' = DOMAIN reqMap \ {id[hand[r]]}
            /\ \A j \in DOMAIN reqMap' : reqMap'[j] = reqMap[j]
        BY <3>2 DEF LookUpKnown, Forget, Restrict
      <4>2. /\ target'[r] = reqMap[id[hand[r]]] /\ rwLock' = r
            /\ rwLock = None /\ UNCHANGED <<id, buf>>
        BY <3>2 DEF LookUpKnown
      <4>. QED BY <1>2, <3>1, <4>1, <4>2, ClientCallAssumption DEF Found
    <3>3. CASE LookUpUnknown(r)
      BY <2>2, <3>1, <3>3 DEF LookUpUnknown
    <3>4. CASE Deliver(r)
      <4>1. CASE target[r] = c
        BY <3>4, <4>1, ClientCallAssumption
        DEF Deliver, Sent, Found, TableInv, ReaderInv
      <4>2. CASE target[r] # c
        BY <1>2, <3>1, <3>4, <4>2, ClientCallAssumption
        DEF Deliver, Sent, Found
      <4>. QED BY <4>1, <4>2
    <3>. QED BY <2>5, <3>2, <3>3, <3>4 DEF ReaderStep
  <2>6. ASSUME NEW r \in Readers, NEW e \in Calls, ResponseArrives(r, e)
        PROVE  Found(c)'
    BY <2>2, <2>6 DEF ResponseArrives
  <2>7. CASE UNCHANGED vars
    BY <2>2, <2>7 DEF vars
  <2>. QED BY <2>1, <2>3, <2>4, <2>5, <2>6, <2>7 DEF Next
<1>. QED BY <1>1, <1>2

LEMMA ReachableStep ==
  TypeInv /\ TypeInv' /\ TableInv /\ Reachable /\ [Next]_vars => Reachable'
<1> SUFFICES ASSUME TypeInv, TypeInv', TableInv, Reachable, [Next]_vars,
                    NEW c \in Calls, pc'[c] \in Registered
             PROVE  Found(c)'
  BY DEF Reachable, Found
<1>1. pc[c] \in Registered => Found(c)
  BY ReachableIsFound
<1>. QED BY <1>1, FoundStays

\* A call that is registered is always reached by its response.
THEOREM NoResponseLost == Spec => []Reachable
<1>1. Init => Reachable
  BY DEF Init, Reachable, Registered
<1>. QED BY <1>1, TypeInit, TypeStep, TableAlways, ReachableStep, PTL DEF Spec

\* The inductive invariant that the runs check as a whole.
THEOREM CallTableAlways == Spec => []CallTableInv
<1>1. TypeInv /\ WritesInv /\ IdsInv /\ AnswerInv /\ TableInv /\ Reachable
        <=> CallTableInv
  BY DEF CallTableInv
<1>. QED BY <1>1, TableAlways, IdsInit, IdsStep, AnswerInit, AnswerStep,
            TypeInit, TypeStep, NoResponseLost, PTL DEF Spec

-----------------------------------------------------------------------------
(* The call table implements RpcCall: KeepsPromise, for the calls of a     *)
(* client whose number does not exceed the number of request ids.          *)

\* No two calls have the same request id.
NoSharedId == \A c, d \in Calls : ~Collide(c, d)

-----------------------------------------------------------------------------
(* Enough ids keep the calls apart.                                        *)

DrawnCalls == {c \in Calls : Drawn(c)}

\* draws counts the calls that have an id, and numbers them from 1.
CountInv ==
    /\ IsFiniteSet(DrawnCalls)
    /\ draws = Cardinality(DrawnCalls)
    /\ \A c \in Calls : Drawn(c) => drawNo[c] >= 1

LEMMA CountInit == Init => CountInv
<1> SUFFICES ASSUME Init PROVE CountInv
  OBVIOUS
<1>1. DrawnCalls = {}
  BY DEF Init, DrawnCalls, Drawn
<1>. QED BY <1>1, FS_EmptySet DEF Init, CountInv, Drawn

LEMMA CountFrame ==
  ASSUME CountInv, UNCHANGED <<draws, drawNo>>,
         \A c \in Calls : Drawn(c)' <=> Drawn(c)
  PROVE  CountInv'
<1>1. DrawnCalls' = DrawnCalls
  BY DEF DrawnCalls
<1>. QED BY <1>1 DEF CountInv

LEMMA CountDraw ==
  ASSUME TypeInv, CountInv, NEW c \in Calls, ~Drawn(c), NEW n, Draw(c, n)
  PROVE  CountInv'
<1> USE DEF TypeInv, TypeOK, Draw, Drawn
<1>1. DrawnCalls' = DrawnCalls \cup {c}
  BY DEF DrawnCalls
<1>2. c \notin DrawnCalls
  BY DEF DrawnCalls
<1>3. /\ IsFiniteSet(DrawnCalls')
      /\ Cardinality(DrawnCalls') = Cardinality(DrawnCalls) + 1
  BY <1>1, <1>2, FS_AddElement DEF CountInv
<1>4. \A d \in Calls : Drawn(d)' => drawNo'[d] >= 1
  BY DEF CountInv
<1>. QED BY <1>3, <1>4 DEF CountInv

LEMMA CountStep == TypeInv /\ CountInv /\ [Next]_vars => CountInv'
<1> SUFFICES ASSUME TypeInv, CountInv, [Next]_vars PROVE CountInv'
  OBVIOUS
<1> USE DEF TypeInv, TypeOK
<1>1. ASSUME NEW c \in Calls, CallStep(c) PROVE CountInv'
  <2>1. CASE NextIdCas(c) /\ Wraps
    BY <2>1, CountDraw DEF NextIdCas, Drawn
  <2>2. CASE NextIdCas(c) /\ ~Wraps
    <3>1. \A d \in Calls : Drawn(d)' <=> Drawn(d)
      BY <2>2 DEF NextIdCas, Drawn
    <3>. QED BY <2>2, <3>1, CountFrame DEF NextIdCas
  <2>3. CASE NextIdAdd(c)
    BY <2>3, CountDraw DEF NextIdAdd, Drawn
  <2>4. CASE ~NextIdCas(c) /\ ~NextIdAdd(c)
    <3>1. UNCHANGED <<draws, drawNo>>
      BY <1>1, <2>4
      DEF CallStep, SendStep, Register, NoConnector, DialFails, WriteFails,
          WriteSucceeds, SendReturns, SendErrorReturn, ContextDone,
          TimeoutReturn,
          TakeResponse, ResponseReturn, Withdraw, Leave, history
    <3>2. \A d \in Calls : Drawn(d)' <=> Drawn(d)
      BY <1>1, <2>4
      DEF CallStep, SendStep, Register, NoConnector, DialFails, WriteFails,
          WriteSucceeds, SendReturns, SendErrorReturn, ContextDone,
          TimeoutReturn,
          TakeResponse, ResponseReturn, Withdraw, Leave, Drawn
    <3>. QED BY <3>1, <3>2, CountFrame
  <2>. QED BY <2>1, <2>2, <2>3, <2>4
<1>2. ASSUME UNCHANGED <<pc, draws, drawNo>> PROVE CountInv'
  BY <1>2, CountFrame DEF Drawn
<1>3. ASSUME NEW r \in Readers, ReaderStep(r) PROVE CountInv'
  BY <1>2, <1>3
  DEF ReaderStep, LookUpKnown, LookUpUnknown, Deliver, appVars, history
<1>4. ASSUME NEW r \in Readers, NEW c \in Calls, ResponseArrives(r, c)
      PROVE  CountInv'
  BY <1>2, <1>4 DEF ResponseArrives, appVars
<1>5. CASE UNCHANGED vars
  BY <1>2, <1>5 DEF vars, appVars, history
<1>. QED BY <1>1, <1>3, <1>4, <1>5 DEF Next

\* With no more calls than ids, no two of them share one.
LEMMA EnoughIds ==
  ASSUME IsFiniteSet(Calls), Cardinality(Calls) <= MaxInt32
  PROVE  Spec => []NoSharedId
<1>1. TypeInv /\ IdsInv /\ CountInv => NoSharedId
  <2> SUFFICES ASSUME TypeInv, IdsInv, CountInv, NEW c \in Calls,
                      NEW d \in Calls, Collide(c, d)
               PROVE  FALSE
    BY DEF NoSharedId
  <2>1. DrawnCalls \subseteq Calls
    BY DEF DrawnCalls
  <2>2. draws <= Cardinality(Calls) /\ Cardinality(Calls) \in Nat
    BY <2>1, FS_Subset, FS_CardinalityType DEF CountInv
  <2>3. /\ drawNo[c] \in 1 .. draws
        /\ drawNo[d] \in 1 .. draws
        /\ draws \in Nat
    BY DEF Collide, IdsInv, CountInv, TypeInv, TypeOK
  <2>4. Distance(drawNo[c], drawNo[d]) >= MaxInt32
    BY IdsGiveFarApart DEF IdsFarApart
  <2>. QED BY <2>2, <2>3, <2>4, ClientCallAssumption DEF Distance
<1>. QED BY <1>1, TypeInit, TypeStep, IdsInit, IdsStep, CountInit, CountStep,
            PTL DEF Spec

-----------------------------------------------------------------------------
(* Steps of the table and steps of the promise.                            *)

LEMMA PromiseInit == Init => Promise!Init
  BY DEF Init, Promise!Init, PromisePhase, PromiseSent, PromiseAnswer

\* Without shared ids, an Invoke that has a response has its own.
LEMMA OwnIsWritten ==
  ASSUME TypeInv, WritesInv, AnswerInv, TableInv, NoSharedId,
         NEW c \in Calls, got[c] # None
  PROVE  got[c] = c /\ writes[c] # 0
<1>1. got[c] = c
  BY DEF TableInv, HandedOverInv, SameId, NoSharedId, Collide
<1>. QED BY <1>1 DEF AnswerInv

\* Steps that a caller cannot see.
LEMMA Invisible ==
  ASSUME UNCHANGED <<PromisePhase, PromiseSent, result, PromiseAnswer>>
  PROVE  UNCHANGED Promise!vars
  BY DEF Promise!vars

LEMMA PhaseEnds ==
  ASSUME TypeOK, NEW c \in Calls, pc' = [pc EXCEPT ![c] = "done"]
  PROVE  PromisePhase' = [PromisePhase EXCEPT ![c] = "ended"]
  BY DEF TypeOK, PromisePhase

LEMMA PromiseStep ==
  ASSUME TypeInv, TypeInv', WritesInv, AnswerInv, TableInv, NoSharedId,
         [Next]_vars
  PROVE  [Promise!Next]_(Promise!vars)
<1> USE DEF TypeInv, TypeOK, PcStates, Registered, appVars, readerVars,
            history, PromisePhase, PromiseSent, PromiseAnswer
<1>1. ASSUME NEW c \in Calls, CallStep(c) PROVE [Promise!Next]_(Promise!vars)
  <2>1. CASE NextIdCas(c) \/ NextIdAdd(c)
    <3>1. UNCHANGED <<PromisePhase, PromiseSent, result, PromiseAnswer>>
      BY <2>1 DEF NextIdCas, NextIdAdd, Draw
    <3>. QED BY <3>1, Invisible
  <2>2. CASE Register(c)
    <3>1. /\ pc[c] = "register" /\ pc' = [pc EXCEPT ![c] = "send"]
          /\ UNCHANGED <<writes, result, got>>
      BY <2>2 DEF Register
    <3>2. PromisePhase[c] = "new"
      BY <3>1
    <3>3. PromisePhase' = [PromisePhase EXCEPT ![c] = "open"]
      BY <3>1
    <3>4. UNCHANGED PromiseSent
      BY <3>1
    <3>5. UNCHANGED PromiseAnswer
      BY <3>1
    <3>. QED BY <3>1, <3>2, <3>3, <3>4, <3>5
         DEF Promise!Next, Promise!Begin
  <2>3. CASE \/ NoConnector(c) \/ DialFails(c) \/ WriteFails(c)
            \/ SendReturns(c) \/ ContextDone(c)
    <3>1. UNCHANGED <<PromisePhase, PromiseSent, result, PromiseAnswer>>
      BY <2>3 DEF NoConnector, DialFails, WriteFails, SendReturns, ContextDone
    <3>. QED BY <3>1, Invisible
  <2>4. CASE WriteSucceeds(c)
    <3>1. /\ pc[c] = "send" /\ pc' = [pc EXCEPT ![c] = "sent"]
          /\ writes[c] = 0 /\ writes' = [writes EXCEPT ![c] = @ + 1]
          /\ UNCHANGED <<result, got>>
      BY <2>4 DEF WriteSucceeds, WritesInv
    <3>2. PromisePhase[c] = "open" /\ c \notin PromiseSent
      BY <3>1
    <3>3. PromiseSent' = PromiseSent \cup {c}
      BY <3>1
    <3>4. UNCHANGED PromisePhase
      BY <3>1
    <3>5. UNCHANGED PromiseAnswer
      BY <3>1
    <3>. QED BY <3>1, <3>2, <3>3, <3>4, <3>5
         DEF Promise!Next, Promise!Transmit
  <2>5. CASE SendErrorReturn(c)
    <3>1. /\ pc[c] = "failed" /\ result' = [result EXCEPT ![c] = "sendError"]
          /\ writes[c] = 0 /\ got[c] = None
          /\ pc' = [pc EXCEPT ![c] = "done"] /\ UNCHANGED <<writes, got>>
      BY <2>5 DEF SendErrorReturn, Withdraw, Leave, WritesInv, AnswerInv
    <3>2. PromisePhase[c] = "open" /\ c \notin PromiseSent
      BY <3>1
    <3>3. PromisePhase' = [PromisePhase EXCEPT ![c] = "ended"]
      BY <3>1, PhaseEnds
    <3>4. UNCHANGED <<PromiseSent, PromiseAnswer>>
      BY <3>1
    <3>. QED BY <3>1, <3>2, <3>3, <3>4
         DEF Promise!Next, Promise!EndWithSendError, Promise!End
  <2>6. CASE TimeoutReturn(c)
    <3>1. /\ pc[c] = "expired" /\ result' = [result EXCEPT ![c] = "timeout"]
          /\ got[c] = None
          /\ pc' = [pc EXCEPT ![c] = "done"] /\ UNCHANGED <<writes, got>>
      BY <2>6 DEF TimeoutReturn, Withdraw, Leave, AnswerInv
    <3>2. PromisePhase[c] = "open"
      BY <3>1
    <3>3. PromisePhase' = [PromisePhase EXCEPT ![c] = "ended"]
      BY <3>1, PhaseEnds
    <3>4. UNCHANGED <<PromiseSent, PromiseAnswer>>
      BY <3>1
    <3>. QED BY <3>1, <3>2, <3>3, <3>4
         DEF Promise!Next, Promise!EndWithTimeout, Promise!End
  <2>7. CASE TakeResponse(c)
    <3>1. UNCHANGED <<PromisePhase, PromiseSent, result, PromiseAnswer>>
      BY <2>7 DEF TakeResponse
    <3>. QED BY <3>1, Invisible
  <2>8. CASE ResponseReturn(c)
    <3>1. got[c] = c /\ writes[c] # 0
      BY <2>8, OwnIsWritten DEF ResponseReturn, AnswerInv
    <3>2. /\ pc[c] = "received" /\ result' = [result EXCEPT ![c] = "response"]
          /\ pc' = [pc EXCEPT ![c] = "done"] /\ UNCHANGED <<writes, got>>
      BY <2>8 DEF ResponseReturn
    <3>3. PromisePhase[c] = "open" /\ c \in PromiseSent
      BY <3>1, <3>2
    <3>4. PromisePhase' = [PromisePhase EXCEPT ![c] = "ended"]
      BY <3>2, PhaseEnds
    <3>5. PromiseAnswer' = [PromiseAnswer EXCEPT ![c] = c]
      BY <3>1, <3>2
    <3>6. UNCHANGED PromiseSent
      BY <3>2
    <3>. QED BY <3>2, <3>3, <3>4, <3>5, <3>6
         DEF Promise!Next, Promise!EndWithAnswer, Promise!End
  <2>. QED
    BY <1>1, <2>1, <2>2, <2>3, <2>4, <2>5, <2>6, <2>7, <2>8
    DEF CallStep, SendStep
<1>2. ASSUME UNCHANGED <<pc, writes, result, got>>
      PROVE  [Promise!Next]_(Promise!vars)
  BY <1>2, Invisible
<1>3. ASSUME NEW r \in Readers, ReaderStep(r)
      PROVE  [Promise!Next]_(Promise!vars)
  BY <1>2, <1>3 DEF ReaderStep, LookUpKnown, LookUpUnknown, Deliver
<1>4. ASSUME NEW r \in Readers, NEW c \in Calls, ResponseArrives(r, c)
      PROVE  [Promise!Next]_(Promise!vars)
  BY <1>2, <1>4 DEF ResponseArrives
<1>5. CASE UNCHANGED vars
  BY <1>2, <1>5 DEF vars
<1>. QED BY <1>1, <1>3, <1>4, <1>5 DEF Next

\* The table of a client with no more calls than request ids implements what
\* Invoke promises: each call ends with the answer to its own request, with
\* an error and nothing sent, or with a timeout.
THEOREM TableKeepsPromise ==
  ASSUME IsFiniteSet(Calls), Cardinality(Calls) <= MaxInt32
  PROVE  Spec => KeepsPromise
<1>1. Spec => [](TypeInv /\ WritesInv /\ AnswerInv /\ TableInv)
  BY TableAlways, TypeInit, TypeStep, AnswerInit, AnswerStep, PTL DEF Spec
<1>2. Spec => []NoSharedId
  BY EnoughIds
<1>3. TypeInv /\ TypeInv' /\ WritesInv /\ AnswerInv /\ TableInv /\ NoSharedId
        /\ [Next]_vars => [Promise!Next]_(Promise!vars)
  BY PromiseStep
<1>. QED BY <1>1, <1>2, <1>3, PromiseInit, PTL
         DEF Spec, KeepsPromise, Promise!Spec

=============================================================================
