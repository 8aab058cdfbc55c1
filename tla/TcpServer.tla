------------------------------ MODULE TcpServer ------------------------------
(***************************************************************************)
(* The life of a TcpServer (server_tcp.go): Start, its accept loop, Stop,  *)
(* and Start again.  Start listens before it takes TcpServer.mu, its loop  *)
(* reads srv.listen without it, and Stop may come between any two steps.   *)
(*                                                                         *)
(* A listener is named by the call of Start that opened it.  The delay     *)
(* after a temporary failure is a state of its own; how long it lasts is   *)
(* abstracted.  What is done with an accepted connection is in             *)
(* ServerInvoke and Framing.                                               *)
(***************************************************************************)
EXTENDS Integers

CONSTANTS
    Starts,        \* calls of Start
    Conns,         \* connections that clients make
    None,          \* no listener
    MaxStops,      \* bound: calls of Stop
    MaxFailures    \* bound: failures of Accept on an open listener

ASSUME TcpServerAssumption ==
    /\ None \notin Starts
    /\ MaxStops \in Nat
    /\ MaxFailures \in Nat

VARIABLES
    anyPort,      \* the address has port 0: every Listen finds a free one
    listener,     \* the listener that each Start opened
    listen,       \* TcpServer.listen
    running,      \* TcpServer.running
    doneChan,     \* TcpServer.doneChan
    conns,        \* TcpServer.conns
    pc,           \* where each Start is
    at,           \* the listener its loop calls Accept on
    err,          \* how its last Accept failed
    result,       \* what Start returned
    conn,         \* where each connection is
    to,           \* the listener it was made to
    stops,        \* calls of Stop so far
    failures      \* failures of Accept on an open listener so far

srvVars == <<listen, running, doneChan, conns>>
startVars == <<pc, at, err, result>>
connVars == <<conn, to>>
bounds == <<stops, failures>>
vars == <<anyPort, listener, srvVars, startVars, connVars, bounds>>

Init ==
    /\ anyPort \in BOOLEAN
    /\ listener = [k \in Starts |-> "none"]
    /\ listen = None
    /\ running = FALSE
    /\ doneChan = "nil"
    /\ conns = {}
    /\ pc = [k \in Starts |-> "new"]
    /\ at = [k \in Starts |-> None]
    /\ err = [k \in Starts |-> "none"]
    /\ result = [k \in Starts |-> "none"]
    /\ conn = [c \in Conns |-> "none"]
    /\ to = [c \in Conns |-> None]
    /\ stops = 0
    /\ failures = 0

-----------------------------------------------------------------------------
(* Start.                                                                  *)

Goto(k, where) == pc' = [pc EXCEPT ![k] = where]

Return(k, what) ==
    /\ Goto(k, "returned")
    /\ result' = [result EXCEPT ![k] = what]

\* net.Listen, before the lock: two listeners cannot share a port.
Listen(k) ==
    /\ pc[k] = "new"
    /\ IF anyPort \/ \A j \in Starts : listener[j] # "open"
       THEN /\ listener' = [listener EXCEPT ![k] = "open"]
            /\ Goto(k, "listened")
            /\ UNCHANGED result
       ELSE /\ Return(k, "listenError")
            /\ UNCHANGED listener
    /\ UNCHANGED <<anyPort, srvVars, at, err, connVars, bounds>>

\* Variants: Start does not look at running; Start makes a new doneChan.
SetRunningAlways(k) ==
    /\ pc[k] = "listened"
    /\ listen' = k
    /\ running' = TRUE
    /\ Goto(k, "loop")
    /\ UNCHANGED <<anyPort, listener, doneChan, conns, at, err, result,
                   connVars, bounds>>
SetRunningRenewed(k) ==
    /\ pc[k] = "listened"
    /\ IF running
       THEN Return(k, "isRunning") /\ UNCHANGED <<listen, running, doneChan>>
       ELSE /\ listen' = k
            /\ running' = TRUE
            /\ doneChan' = "nil"
            /\ Goto(k, "loop")
            /\ UNCHANGED result
    /\ UNCHANGED <<anyPort, listener, conns, at, err, connVars, bounds>>

\* The section under the lock.  ErrServerIsRunning leaves the new listener open.
SetRunning(k) ==
    /\ pc[k] = "listened"
    /\ IF running
       THEN Return(k, "isRunning") /\ UNCHANGED <<listen, running>>
       ELSE /\ listen' = k
            /\ running' = TRUE
            /\ Goto(k, "loop")
            /\ UNCHANGED result
    /\ UNCHANGED <<anyPort, listener, doneChan, conns, at, err, connVars,
                   bounds>>

\* srv.listen.Accept(): the loop of an earlier Start finds a later listener.
Accept(k) ==
    /\ pc[k] = "loop"
    /\ at' = [at EXCEPT ![k] = listen]
    /\ Goto(k, "accept")
    /\ UNCHANGED <<anyPort, listener, srvVars, err, result, connVars, bounds>>

\* newConn and go conn.handle(); nobody calls addConn.
Accepted(k, c) ==
    /\ pc[k] = "accept"
    /\ conn[c] = "pending"
    /\ to[c] = at[k]
    /\ conn' = [conn EXCEPT ![c] = "handled"]
    /\ Goto(k, "loop")
    /\ UNCHANGED <<anyPort, listener, srvVars, at, err, result, to, bounds>>

AcceptReturns(k, e) ==
    /\ err' = [err EXCEPT ![k] = e]
    /\ Goto(k, "failed")
    /\ UNCHANGED <<anyPort, listener, srvVars, at, result, connVars, stops>>

AcceptOnClosed(k) ==
    /\ pc[k] = "accept"
    /\ listener[at[k]] = "closed"
    /\ AcceptReturns(k, "closed")
    /\ UNCHANGED failures

\* The system is out of descriptors, say, or the listener is beyond repair.
AcceptFails(k) ==
    /\ pc[k] = "accept"
    /\ failures < MaxFailures
    /\ listener[at[k]] = "open"
    /\ \E e \in {"temporary", "permanent"} : AcceptReturns(k, e)
    /\ failures' = failures + 1

\* getDoneChan makes the channel when there is none.
GetDoneChan == doneChan' = IF doneChan = "nil" THEN "open" ELSE doneChan

\* Variant: no failure is temporary.
RetriesNothing(k) == FALSE

Temporary(k) == err[k] = "temporary"

\* The select on doneChan, under the lock, and what follows it.
CheckDone(k) ==
    /\ pc[k] = "failed"
    /\ GetDoneChan
    /\ \/ doneChan = "closed" /\ Return(k, "nil")
       \/ /\ doneChan # "closed"
          /\ Temporary(k)
          /\ Goto(k, "delay")
          /\ UNCHANGED result
       \/ doneChan # "closed" /\ ~Temporary(k) /\ Return(k, "error")
    /\ UNCHANGED <<anyPort, listener, listen, running, conns, at, err,
                   connVars, bounds>>

DelayEnds(k) ==
    /\ pc[k] = "delay"
    /\ Goto(k, "loop")
    /\ UNCHANGED <<anyPort, listener, srvVars, at, err, result, connVars,
                   bounds>>

-----------------------------------------------------------------------------
(* Stop.                                                                   *)

\* Variant: the listener stays open.
LeaveOpen(l) == UNCHANGED <<listener, conn>>

\* Connections that were not accepted are reset.
Close(l) ==
    /\ listener' = [listener EXCEPT ![l] = "closed"]
    /\ conn' = [c \in Conns |->
         IF c \in conns \/ (conn[c] = "pending" /\ to[c] = l)
         THEN "closed" ELSE conn[c]]

\* Closed once: a later Stop finds it closed and leaves it.
CloseDoneChan == doneChan' = "closed"

\* The section under the lock, and conn.close() for each of conns.
Stop ==
    /\ stops < MaxStops
    /\ stops' = stops + 1
    /\ IF running
       THEN /\ Close(listen)
            /\ running' = FALSE
            /\ CloseDoneChan
            /\ conns' = {}
       ELSE UNCHANGED <<listener, running, doneChan, conns, conn>>
    /\ UNCHANGED <<anyPort, listen, startVars, to, failures>>

-----------------------------------------------------------------------------
(* Connections.                                                            *)

Connect(c) ==
    /\ conn[c] = "none"
    /\ \E l \in Starts :
         listener[l] = "open" /\ to' = [to EXCEPT ![c] = l]
    /\ conn' = [conn EXCEPT ![c] = "pending"]
    /\ UNCHANGED <<anyPort, listener, srvVars, startVars, bounds>>

\* handle returns: conn.close(), with removeConn.
HandleReturns(c) ==
    /\ conn[c] = "handled"
    /\ conn' = [conn EXCEPT ![c] = "closed"]
    /\ conns' = conns \ {c}
    /\ UNCHANGED <<anyPort, listener, listen, running, doneChan, startVars, to,
                   bounds>>

-----------------------------------------------------------------------------

\* What the goroutine of a Start does by itself.
StartStep(k) ==
    \/ SetRunning(k)
    \/ Accept(k)
    \/ \E c \in Conns : Accepted(k, c)
    \/ AcceptOnClosed(k)
    \/ CheckDone(k)
    \/ DelayEnds(k)

Next ==
    \/ \E k \in Starts : Listen(k) \/ StartStep(k) \/ AcceptFails(k)
    \/ Stop
    \/ \E c \in Conns : Connect(c) \/ HandleReturns(c)

Spec == Init /\ [][Next]_vars

\* Goroutines are scheduled; nobody has to call Start or Stop, or connect.
FairSpec == Spec /\ \A k \in Starts : WF_vars(StartStep(k))

-----------------------------------------------------------------------------
(* Properties.                                                             *)

\* Types of the server, of the calls of Start and of the connections; Accept is
\* never called on a nil listener.
TypeOK ==
    /\ anyPort \in BOOLEAN
    /\ listener \in [Starts -> {"none", "open", "closed"}]
    /\ listen \in Starts \cup {None}
    /\ running \in BOOLEAN
    /\ doneChan \in {"nil", "open", "closed"}
    /\ conns \subseteq Conns
    /\ pc \in [Starts ->
         {"new", "listened", "loop", "accept", "failed", "delay", "returned"}]
    /\ at \in [Starts -> Starts \cup {None}]
    /\ \A k \in Starts : pc[k] = "accept" => at[k] \in Starts
    /\ err \in [Starts -> {"none", "closed", "temporary", "permanent"}]
    /\ result \in [Starts ->
         {"none", "nil", "listenError", "isRunning", "error"}]
    /\ conn \in [Conns -> {"none", "pending", "handled", "closed"}]
    /\ to \in [Conns -> Starts \cup {None}]
    /\ stops \in 0 .. MaxStops
    /\ failures \in 0 .. MaxFailures

\* An open listener is the one of the running server, or of a Start that is
\* about to take the lock; only a Start that returned ErrServerIsRunning leaves
\* one behind, which takes an address that lets it listen beside the first.
OpenListenerOwned ==
    \A k \in Starts : listener[k] = "open" =>
        \/ running /\ listen = k
        \/ pc[k] = "listened"
        \/ anyPort /\ result[k] = "isRunning"

\* Start returns nil when its Accept failed because of Stop, even if the server
\* was started again before it looked at doneChan: App.Run panics on an error.
StopIsNoError ==
    \A k \in Starts : result[k] = "error" => err[k] = "permanent"

Looping(k) == pc[k] \in {"loop", "accept", "failed", "delay"}

\* After a Stop doneChan stays closed, and a later Start gives up on its first
\* temporary failure.
GivenUp(k) ==
    /\ pc[k] = "returned"
    /\ err[k] = "permanent" \/ (err[k] = "temporary" /\ doneChan = "closed")

\* A server that is running accepts connections: some Start is in its loop,
\* unless Accept failed for good or failed at all once Stop had been called.
RunningIsServed ==
    running => \E k \in Starts : Looping(k) \/ GivenUp(k)

\* A server that stays stopped has no accept loop left, a loop that slept or
\* took up a later listener included.
StoppedLoopsEnd ==
    \A k \in Starts : <>[]~running => <>[]~Looping(k)

\* The accept loop of a listener has ended although the listener is open, or
\* never began.
Abandoned(l) ==
    \/ result[l] = "isRunning"
    \/ \E k \in Starts : at[k] = l /\ GivenUp(k)

\* A connection does not wait forever: it is accepted, or reset by Stop, unless
\* its listener was abandoned.
ConnNotLeftPending ==
    \A c \in Conns :
        conn[c] = "pending" ~> conn[c] # "pending" \/ Abandoned(to[c])

-----------------------------------------------------------------------------
(* The inductive invariant of the proofs.                                  *)

\* Whose listener is open, and where a Start is that has a listener or none.
ListenInv ==
    /\ running => /\ listen \in Starts
                  /\ listener[listen] = "open"
                  /\ pc[listen] \notin {"new", "listened"}
    /\ \A k \in Starts :
         /\ pc[k] = "new" => listener[k] = "none"
         /\ pc[k] = "listened" => listener[k] = "open"
         /\ pc[k] = "failed" => err[k] # "none"
         /\ Looping(k) => listen \in Starts
         /\ result[k] # "none" => pc[k] = "returned"
    /\ ~anyPort => \A j, k \in Starts :
                      listener[j] = "open" /\ listener[k] = "open" => j = k

\* Only Stop closes a listener, and it closes doneChan with it, for good.
DoneInv ==
    \A k \in Starts :
        listener[k] = "closed" \/ err[k] = "closed" => doneChan = "closed"

\* The Start that opened the listener of a running server is in its loop, or has
\* given up; it never saw another listener.
LoopInv ==
    /\ running => /\ at[listen] \in {None, listen}
                  /\ err[listen] # "closed"
                  /\ Looping(listen) \/ GivenUp(listen)
    /\ \A k \in Starts :
         pc[k] \in {"new", "listened"} => at[k] = None /\ err[k] = "none"

\* A stopped Start never takes its closed listener for a failure of its own,
\* and no listener is lost, because of what Stop does in one section.
ServerInv ==
    /\ TypeOK
    /\ ListenInv
    /\ DoneInv
    /\ LoopInv
    /\ OpenListenerOwned
    /\ StopIsNoError

=============================================================================
