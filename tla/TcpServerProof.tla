--------------------------- MODULE TcpServerProof ---------------------------
(***************************************************************************)
(* Proofs about TcpServer, for any number of calls of Start and Stop and   *)
(* of connections: no listener is lost, and Stop never looks like an error.*)
(***************************************************************************)
EXTENDS TcpServer, TLAPS

LEMMA ServerInit == Init => ServerInv
<1> SUFFICES ASSUME Init PROVE ServerInv
  OBVIOUS
<1>1. TypeOK
  <2>1. stops \in 0 .. MaxStops /\ failures \in 0 .. MaxFailures
    BY TcpServerAssumption DEF Init
  <2>. QED BY <2>1 DEF Init, TypeOK
<1>2. ListenInv
  BY DEF Init, ListenInv, Looping
<1>3. LoopInv
  BY DEF Init, LoopInv
<1>4. DoneInv /\ OpenListenerOwned /\ StopIsNoError
  BY DEF Init, DoneInv, OpenListenerOwned, StopIsNoError
<1>. QED BY <1>1, <1>2, <1>3, <1>4 DEF ServerInv

\* Types, in every step.
LEMMA TypeStep == TypeOK /\ ListenInv /\ [Next]_vars => TypeOK'
<1> SUFFICES ASSUME TypeOK, ListenInv, [Next]_vars PROVE TypeOK'
  OBVIOUS
<1> USE TcpServerAssumption
    DEF TypeOK, srvVars, startVars, connVars, bounds, Goto, Return
<1>1. ASSUME NEW k \in Starts, Listen(k) PROVE TypeOK'
  BY <1>1 DEF Listen
<1>2. ASSUME NEW k \in Starts, SetRunning(k) PROVE TypeOK'
  BY <1>2 DEF SetRunning
<1>3. ASSUME NEW k \in Starts, Accept(k) PROVE TypeOK'
  BY <1>3 DEF Accept, ListenInv, Looping
<1>4. ASSUME NEW k \in Starts, NEW c \in Conns, Accepted(k, c) PROVE TypeOK'
  BY <1>4 DEF Accepted
<1>5. ASSUME NEW k \in Starts, AcceptOnClosed(k) PROVE TypeOK'
  BY <1>5 DEF AcceptOnClosed, AcceptReturns
<1>6. ASSUME NEW k \in Starts, AcceptFails(k) PROVE TypeOK'
  BY <1>6 DEF AcceptFails, AcceptReturns
<1>7. ASSUME NEW k \in Starts, CheckDone(k) PROVE TypeOK'
  BY <1>7 DEF CheckDone, GetDoneChan, Temporary
<1>8. ASSUME NEW k \in Starts, DelayEnds(k) PROVE TypeOK'
  BY <1>8 DEF DelayEnds
<1>9. CASE Stop
  <2>1. stops' \in 0 .. MaxStops
    BY <1>9 DEF Stop, CloseDoneChan
  <2>2. CASE running
    <3>1. conn' \in [Conns -> {"none", "pending", "handled", "closed"}]
      BY <1>9, <2>2 DEF Stop, CloseDoneChan, Close
    <3>2. listener' \in [Starts -> {"none", "open", "closed"}]
      BY <1>9, <2>2 DEF Stop, CloseDoneChan, Close
    <3>. QED BY <1>9, <2>1, <2>2, <3>1, <3>2 DEF Stop, CloseDoneChan
  <2>3. CASE ~running
    BY <1>9, <2>1, <2>3 DEF Stop, CloseDoneChan
  <2>. QED BY <2>2, <2>3
<1>10. ASSUME NEW c \in Conns, Connect(c) PROVE TypeOK'
  BY <1>10 DEF Connect
<1>11. ASSUME NEW c \in Conns, HandleReturns(c) PROVE TypeOK'
  BY <1>11 DEF HandleReturns
<1>12. CASE UNCHANGED vars
  BY <1>12 DEF vars
<1>. QED BY <1>1, <1>2, <1>3, <1>4, <1>5, <1>6, <1>7, <1>8, <1>9, <1>10,
            <1>11, <1>12 DEF Next, StartStep

\* Whose listener is open, and doneChan, in every step.
LEMMA ServerStep == ServerInv /\ [Next]_vars => ServerInv'
<1> SUFFICES ASSUME ServerInv, [Next]_vars PROVE ServerInv'
  OBVIOUS
<1> DEFINE Kept == /\ ListenInv' /\ DoneInv' /\ LoopInv'
                   /\ OpenListenerOwned' /\ StopIsNoError'
<1>0. TypeOK'
  BY TypeStep DEF ServerInv
<1> SUFFICES Kept
  BY <1>0 DEF ServerInv
<1> USE TcpServerAssumption
    DEF ServerInv, TypeOK, ListenInv, DoneInv, LoopInv, OpenListenerOwned,
        StopIsNoError, Looping, GivenUp, srvVars, startVars, connVars, bounds, Goto,
        Return
<1>1. ASSUME NEW k \in Starts, Listen(k) PROVE Kept
  BY <1>1 DEF Listen
<1>2. ASSUME NEW k \in Starts, SetRunning(k) PROVE Kept
  BY <1>2 DEF SetRunning
<1>3. ASSUME NEW k \in Starts, Accept(k) PROVE Kept
  BY <1>3 DEF Accept
<1>4. ASSUME NEW k \in Starts, NEW c \in Conns, Accepted(k, c) PROVE Kept
  BY <1>4 DEF Accepted
<1>5. ASSUME NEW k \in Starts, AcceptOnClosed(k) PROVE Kept
  BY <1>5 DEF AcceptOnClosed, AcceptReturns
<1>6. ASSUME NEW k \in Starts, AcceptFails(k) PROVE Kept
  BY <1>6 DEF AcceptFails, AcceptReturns
<1>7. ASSUME NEW k \in Starts, CheckDone(k) PROVE Kept
  BY <1>7 DEF CheckDone, GetDoneChan, Temporary
<1>8. ASSUME NEW k \in Starts, DelayEnds(k) PROVE Kept
  BY <1>8 DEF DelayEnds
<1>9. CASE Stop
  BY <1>9 DEF Stop, CloseDoneChan, Close
<1>10. ASSUME NEW c \in Conns, Connect(c) PROVE Kept
  BY <1>10 DEF Connect
<1>11. ASSUME NEW c \in Conns, HandleReturns(c) PROVE Kept
  BY <1>11 DEF HandleReturns
<1>12. CASE UNCHANGED vars
  BY <1>12 DEF vars
<1>. QED BY <1>1, <1>2, <1>3, <1>4, <1>5, <1>6, <1>7, <1>8, <1>9, <1>10,
            <1>11, <1>12 DEF Next, StartStep

\* The inductive invariant, of every run of the server.
THEOREM ServerInvAlways == Spec => []ServerInv
  BY ServerInit, ServerStep, PTL DEF Spec

\* No Start leaves an open listener behind, but one that returned
\* ErrServerIsRunning on an address with port 0.
THEOREM ListenersOwned == Spec => []OpenListenerOwned
<1>1. ServerInv => OpenListenerOwned
  BY DEF ServerInv
<1>. QED BY <1>1, ServerInvAlways, PTL

\* A running server has an accept loop, unless Accept failed for good or, once
\* Stop had been called, failed at all.
THEOREM ServedWhileRunning == Spec => []RunningIsServed
<1>1. ServerInv => RunningIsServed
  BY DEF ServerInv, ListenInv, LoopInv, RunningIsServed
<1>. QED BY <1>1, ServerInvAlways, PTL

\* A Start that Stop ends returns nil, so App.Run does not panic.
THEOREM StopNeverFailsStart == Spec => []StopIsNoError
<1>1. ServerInv => StopIsNoError
  BY DEF ServerInv
<1>. QED BY <1>1, ServerInvAlways, PTL

=============================================================================
