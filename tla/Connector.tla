----------------------------- MODULE Connector -----------------------------
(***************************************************************************)
(* One connector of the wrpc-go client (client.go) with its pool of        *)
(* clientConns: getConn grows the pool and rotates over it, send           *)
(* reconnects a clientConn that is closed or expired and writes, and every *)
(* socket that was dialled has a recv goroutine, whose exit closes the     *)
(* clientConn it was started for.  A clientConn outlives its sockets:      *)
(* after a reconnect the reader of the old socket is still there, and it   *)
(* shares running and rw with the new one.                                 *)
(*                                                                         *)
(* A section under connector.mu or clientConn.mu is one step, the dial in  *)
(* it included.  clientConn.close is three: running is cleared under the   *)
(* lock, rw.Close and removeConn follow outside it.                        *)
(*                                                                         *)
(* Sockets are numbered in the order of the dials.  Time is abstracted:    *)
(* when maxIdleTime is set, a clientConn may have expired whenever         *)
(* reconnect looks.  A sender stands for a goroutine in one iteration of   *)
(* the loop of sendRequest, and starts again after it.                     *)
(***************************************************************************)
EXTENDS Integers, Sequences, SequencesExt

CONSTANTS
    Senders,      \* goroutines in sendRequest
    MaxConn,      \* ClientOptions.maxConn
    IdleExpiry,   \* maxIdleTime > 0
    MaxDials      \* bound: successful dials in a run

ASSUME ConnectorAssumption ==
    /\ MaxConn \in Nat
    /\ MaxDials \in Nat
    /\ IdleExpiry \in BOOLEAN

\* Sockets and clientConns are numbered from 1.
Sockets == 1 .. MaxDials
ConnIds == 1 .. MaxDials

VARIABLES
    conns,        \* connector.conns: the pool, a sequence of clientConns
    idx,          \* connector.idx
    nextId,       \* connector.nextId
    running,      \* clientConn.running
    rw,           \* clientConn.rw: a socket, 0 before the first dial
    dials,        \* successful dials so far: sockets 1 .. dials exist
    socket,       \* "unused", "open", "broken" by the peer, or "closed"
    owner,        \* the clientConn a socket was dialled for
    reader,       \* where the recv goroutine of each socket is
    sender,       \* where each sender is
    using,        \* the clientConn a sender got from the pool, or 0
    retired,      \* what updateConnector did with this connector
    closing,      \* clientConns that connector.close has still to close
    closer        \* where connector.close is with the first of them

\* History: the sockets that the peer closed, or broke the framing on.
VARIABLE broken

poolVars == <<conns, idx, nextId>>
socketVars == <<dials, socket, owner, reader>>
connVars == <<running, rw>>
senderVars == <<sender, using>>
closerVars == <<retired, closing, closer>>
vars == <<poolVars, socketVars, connVars, senderVars, closerVars, broken>>

\* clientConn.close: before the lock, before rw.Close, before removeConn.
CloseStates == {"close", "closeRw", "remove"}

ReaderStates == {"none", "top", "read", "closeOwn", "exited"} \cup CloseStates

Init ==
    /\ conns = <<>>
    /\ idx = 0
    /\ nextId = 0
    /\ running = [k \in ConnIds |-> FALSE]
    /\ rw = [k \in ConnIds |-> 0]
    /\ dials = 0
    /\ socket = [s \in Sockets |-> "unused"]
    /\ owner = [s \in Sockets |-> 0]
    /\ reader = [s \in Sockets |-> "none"]
    /\ sender = [t \in Senders |-> "idle"]
    /\ using = [t \in Senders |-> 0]
    /\ retired = "no"
    /\ closing = <<>>
    /\ closer = "idle"
    /\ broken = {}

-----------------------------------------------------------------------------
(* Dialling: n new sockets, each with its recv goroutine.                  *)

Fresh(n) == dials + 1 .. dials + n

\* Variant: no recv goroutine is started.
OpenSocketsUnread(n) ==
    /\ dials + n <= MaxDials
    /\ dials' = dials + n
    /\ socket' =
         [s \in Sockets |-> IF s \in Fresh(n) THEN "open" ELSE socket[s]]
    /\ reader' = reader

OpenSockets(n) ==
    /\ dials + n <= MaxDials
    /\ dials' = dials + n
    /\ socket' =
         [s \in Sockets |-> IF s \in Fresh(n) THEN "open" ELSE socket[s]]
    /\ reader' =
         [s \in Sockets |-> IF s \in Fresh(n) THEN "top" ELSE reader[s]]

-----------------------------------------------------------------------------
(* connector.getConn, whole under connector.mu.                            *)

Pick(t) ==
    /\ sender[t] = "idle"
    /\ retired = "no"
    /\ sender' = [sender EXCEPT ![t] = "picked"]
    /\ UNCHANGED <<poolVars, socketVars, connVars, using, closerVars, broken>>

\* The pool is empty and the dial fails.
GetConnFails(t) ==
    /\ sender[t] = "picked"
    /\ conns = <<>>
    /\ sender' = [sender EXCEPT ![t] = "idle"]
    /\ UNCHANGED <<poolVars, socketVars, connVars, using, closerVars, broken>>

\* connNum once the pool is not empty, and the connections dialled for that.
Needed == IF conns = <<>> THEN 1 ELSE 0
ConnNum == Len(conns) + Needed

\* Variant: the number of connections is not compared with the limit.
MayGrowUnbounded == idx >= ConnNum /\ idx <= MaxConn

\* The rotation has passed the end and the pool is below its limit.
MayGrow == idx >= ConnNum /\ ConnNum < MaxConn /\ idx < MaxConn

\* The pool with n new clientConns; they get the next connIds.
Grown(n) == conns \o [i \in 1 .. n |-> nextId + i]

\* newClientConn, n times: clientConn nextId + i on socket dials + i.
AddConns(n) ==
    LET added == nextId + 1 .. nextId + n IN
    /\ OpenSockets(n)
    /\ nextId' = nextId + n
    /\ running' = [k \in ConnIds |-> running[k] \/ k \in added]
    /\ rw' = [k \in ConnIds |->
                IF k \in added THEN dials + (k - nextId) ELSE rw[k]]
    /\ owner' = [s \in Sockets |->
                   IF s \in Fresh(n) THEN nextId + (s - dials) ELSE owner[s]]

\* The second dial may fail, then the pool stays as it is and rotates.
GetConn(t) ==
    /\ sender[t] = "picked"
    /\ \E extra \in IF MayGrow THEN {0, 1} ELSE {0} :
         LET n == Needed + extra
             at == IF idx >= Len(conns) + n THEN 0 ELSE idx
         IN /\ AddConns(n)
            /\ conns' = Grown(n)
            /\ using' = [using EXCEPT ![t] = Grown(n)[at + 1]]
            /\ idx' = at + 1
    /\ sender' = [sender EXCEPT ![t] = "got"]
    /\ UNCHANGED <<closerVars, broken>>

-----------------------------------------------------------------------------
(* clientConn.send: reconnect under clientConn.mu, then the write.         *)

\* expired(): with maxIdleTime, any age is possible.
Expired == IF IdleExpiry THEN BOOLEAN ELSE {FALSE}

ReconnectNotNeeded(t) ==
    /\ sender[t] = "got"
    /\ running[using[t]]
    /\ FALSE \in Expired
    /\ sender' = [sender EXCEPT ![t] = "ready"]
    /\ UNCHANGED <<poolVars, socketVars, connVars, using, closerVars, broken>>

MustReconnect(t) == sender[t] = "got" /\ (running[using[t]] => TRUE \in Expired)

ReconnectFails(t) ==
    /\ MustReconnect(t)
    /\ sender' = [sender EXCEPT ![t] = "idle"]
    /\ using' = [using EXCEPT ![t] = 0]
    /\ UNCHANGED <<poolVars, socketVars, connVars, closerVars, broken>>

\* The old socket is neither closed nor forgotten by its reader.
Reconnect(t) ==
    /\ MustReconnect(t)
    /\ OpenSockets(1)
    /\ owner' = [owner EXCEPT ![dials + 1] = using[t]]
    /\ rw' = [rw EXCEPT ![using[t]] = dials + 1]
    /\ running' = [running EXCEPT ![using[t]] = TRUE]
    /\ sender' = [sender EXCEPT ![t] = "ready"]
    /\ UNCHANGED <<poolVars, using, closerVars, broken>>

\* conn.rw.Write, outside the lock, whatever it returns.
Write(t) ==
    /\ sender[t] = "ready"
    /\ sender' = [sender EXCEPT ![t] = "idle"]
    /\ using' = [using EXCEPT ![t] = 0]
    /\ UNCHANGED <<poolVars, socketVars, connVars, closerVars, broken>>

-----------------------------------------------------------------------------
(* clientConn.recv and the deferred conn.close(), rw.Close().              *)

ReaderGoes(s, where) == reader' = [reader EXCEPT ![s] = where]

\* Variant: the reader of a socket that was replaced gives up.
ReaderTopIfCurrent(s) ==
    /\ reader[s] = "top"
    /\ ReaderGoes(s, IF running[owner[s]] /\ rw[owner[s]] = s
                     THEN "read" ELSE "close")
    /\ UNCHANGED <<poolVars, dials, socket, owner, connVars, senderVars,
                   closerVars, broken>>

ReaderTop(s) ==
    /\ reader[s] = "top"
    /\ ReaderGoes(s, IF running[owner[s]] THEN "read" ELSE "close")
    /\ UNCHANGED <<poolVars, dials, socket, owner, connVars, senderVars,
                   closerVars, broken>>

\* Read returns data; the frames in it go to clientConn.invoke.
ReaderData(s) ==
    /\ reader[s] = "read"
    /\ socket[s] = "open"
    /\ ReaderGoes(s, "top")
    /\ UNCHANGED <<poolVars, dials, socket, owner, connVars, senderVars,
                   closerVars, broken>>

\* Read fails, because the peer closed the socket or this process did, or the
\* bytes read hold a frame of impossible length: recv returns.
ReaderError(s) ==
    /\ reader[s] = "read"
    /\ socket[s] \in {"broken", "closed"}
    /\ ReaderGoes(s, "close")
    /\ UNCHANGED <<poolVars, dials, socket, owner, connVars, senderVars,
                   closerVars, broken>>

\* Variant: recv does not defer conn.close().
ReaderSkipsClose(s) ==
    /\ reader[s] = "close"
    /\ ReaderGoes(s, "closeOwn")
    /\ UNCHANGED <<poolVars, dials, socket, owner, connVars, senderVars,
                   closerVars, broken>>

\* Variant: a reader that finds the clientConn closed does not close its own
\* socket.
ReaderCloseOnlyFirst(s) ==
    /\ reader[s] = "close"
    /\ ReaderGoes(s, IF running[owner[s]] THEN "closeRw" ELSE "exited")
    /\ running' = [running EXCEPT ![owner[s]] = FALSE]
    /\ UNCHANGED <<poolVars, dials, socket, owner, rw, senderVars, closerVars,
                   broken>>

ReaderClose(s) ==
    /\ reader[s] = "close"
    /\ ReaderGoes(s, IF running[owner[s]] THEN "closeRw" ELSE "closeOwn")
    /\ running' = [running EXCEPT ![owner[s]] = FALSE]
    /\ UNCHANGED <<poolVars, dials, socket, owner, rw, senderVars, closerVars,
                   broken>>

\* conn.rw.Close() closes the socket that rw holds now.
ReaderCloseRw(s) ==
    /\ reader[s] = "closeRw"
    /\ ReaderGoes(s, "remove")
    /\ socket' = [socket EXCEPT ![rw[owner[s]]] = "closed"]
    /\ UNCHANGED <<poolVars, dials, owner, connVars, senderVars, closerVars,
                   broken>>

\* Variant: removeConn keeps every connection.
WithoutNone(k) == conns

\* connector.removeConn
Without(k) ==
    LET kept[n \in 0 .. Len(conns)] ==
          IF n = 0 THEN <<>>
          ELSE IF conns[n] = k THEN kept[n - 1]
          ELSE Append(kept[n - 1], conns[n])
    IN kept[Len(conns)]

ReaderRemove(s) ==
    /\ reader[s] = "remove"
    /\ ReaderGoes(s, "closeOwn")
    /\ conns' = Without(owner[s])
    /\ UNCHANGED <<idx, nextId, dials, socket, owner, connVars, senderVars,
                   closerVars, broken>>

\* Variant: recv does not defer rw.Close().
ReaderLeavesOwn(s) ==
    /\ reader[s] = "closeOwn"
    /\ ReaderGoes(s, "exited")
    /\ UNCHANGED <<poolVars, dials, socket, owner, connVars, senderVars,
                   closerVars, broken>>

ReaderCloseOwn(s) ==
    /\ reader[s] = "closeOwn"
    /\ ReaderGoes(s, "exited")
    /\ socket' = [socket EXCEPT ![s] = "closed"]
    /\ UNCHANGED <<poolVars, dials, owner, connVars, senderVars, closerVars,
                   broken>>

-----------------------------------------------------------------------------
(* updateConnector drops this connector: "replaced" by one with the same   *)
(* address, which closes nothing, or "removed", and then a goroutine runs  *)
(* connector.close.  A sender that already picked it goes on.              *)

Retire(how) ==
    /\ retired = "no"
    /\ retired' = how
    /\ closer' = IF how = "removed" THEN "start" ELSE "idle"
    /\ UNCHANGED <<poolVars, socketVars, connVars, senderVars, closing, broken>>

\* A removal is about to give the pool a new, shorter array.
RemovalDue ==
    \E s \in Sockets :
        reader[s] = "remove" /\ owner[s] \in {conns[i] : i \in DOMAIN conns}

\* range c.conns, read once and without the lock: the read races with
\* removeConn, and may see the old array with the length of the new one.
CloserStart ==
    /\ closer = "start"
    /\ \/ closing' = conns
       \/ RemovalDue /\ closing' = Front(conns)
    /\ closer' = "close"
    /\ UNCHANGED <<poolVars, socketVars, connVars, senderVars, retired, broken>>

CloserClose ==
    /\ closer = "close"
    /\ closing # <<>>
    /\ LET k == Head(closing) IN
         /\ closer' = IF running[k] THEN "closeRw" ELSE "close"
         /\ closing' = IF running[k] THEN closing ELSE Tail(closing)
         /\ running' = [running EXCEPT ![k] = FALSE]
    /\ UNCHANGED <<poolVars, socketVars, rw, senderVars, retired, broken>>

CloserCloseRw ==
    /\ closer = "closeRw"
    /\ closer' = "remove"
    /\ socket' = [socket EXCEPT ![rw[Head(closing)]] = "closed"]
    /\ UNCHANGED <<poolVars, dials, owner, reader, connVars, senderVars,
                   retired, closing, broken>>

CloserRemove ==
    /\ closer = "remove"
    /\ closer' = "close"
    /\ conns' = Without(Head(closing))
    /\ closing' = Tail(closing)
    /\ UNCHANGED <<idx, nextId, socketVars, connVars, senderVars, retired,
                   broken>>

-----------------------------------------------------------------------------
(* The peer closes a connection or sends a malformed frame on it, at any    *)
(* time: nothing after that is read from it.                               *)

PeerBreaks(s) ==
    /\ socket[s] = "open"
    /\ socket' = [socket EXCEPT ![s] = "broken"]
    /\ broken' = broken \cup {s}
    /\ UNCHANGED <<poolVars, dials, owner, reader, connVars, senderVars,
                   closerVars>>

-----------------------------------------------------------------------------

SenderStep(t) ==
    \/ Pick(t) \/ GetConnFails(t) \/ GetConn(t) \/ ReconnectNotNeeded(t)
    \/ ReconnectFails(t) \/ Reconnect(t) \/ Write(t)

ReaderStep(s) ==
    \/ ReaderTop(s) \/ ReaderData(s) \/ ReaderError(s)
    \/ ReaderClose(s) \/ ReaderCloseRw(s) \/ ReaderRemove(s)
    \/ ReaderCloseOwn(s)

CloserStep == CloserStart \/ CloserClose \/ CloserCloseRw \/ CloserRemove

Next ==
    \/ \E t \in Senders : SenderStep(t)
    \/ \E s \in Sockets : ReaderStep(s) \/ PeerBreaks(s)
    \/ CloserStep
    \/ \E how \in {"replaced", "removed"} : Retire(how)

Spec == Init /\ [][Next]_vars

\* recv goroutines and the goroutine of connector.close are scheduled; senders
\* may come or not, the peer may close or not.
Fairness ==
    /\ \A s \in Sockets : WF_vars(ReaderStep(s))
    /\ WF_vars(CloserStep)

FairSpec == Spec /\ Fairness

-----------------------------------------------------------------------------
(* Properties.                                                             *)

\* Types of the pool, its connections, sockets and goroutines.
TypeOK ==
    /\ conns \in Seq(ConnIds)
    /\ idx \in Nat
    /\ nextId \in 0 .. dials
    /\ running \in [ConnIds -> BOOLEAN]
    /\ rw \in [ConnIds -> 0 .. MaxDials]
    /\ dials \in 0 .. MaxDials
    /\ socket \in [Sockets -> {"unused", "open", "broken", "closed"}]
    /\ owner \in [Sockets -> 0 .. MaxDials]
    /\ reader \in [Sockets -> ReaderStates]
    /\ sender \in [Senders -> {"idle", "picked", "got", "ready"}]
    /\ using \in [Senders -> 0 .. MaxDials]
    /\ retired \in {"no", "replaced", "removed"}
    /\ closing \in Seq(ConnIds)
    /\ closer \in {"idle", "start"} \cup CloseStates
    /\ broken \subseteq Sockets

\* A clientConn that senders may use as it is (running) always has, on the
\* socket in its rw, a recv goroutine that reads on, or is about to close and
\* has not got the lock under which it clears running.  Every path that sets
\* running, swaps rw or closes, from old and new readers alike, has to keep
\* this.
RunningConnIsRead ==
    \A k \in ConnIds : running[k] =>
        /\ rw[k] \in 1 .. dials
        /\ reader[rw[k]] \in {"top", "read", "close"}

\* No socket is left open without a goroutine that will close it, although
\* a reconnect forgets the old socket and a reader may close a newer one.
OpenSocketHasReader ==
    \A s \in Sockets : socket[s] \in {"open", "broken"} =>
        reader[s] \notin {"none", "exited"}

\* The pool is never above max(1, maxConn) and holds a clientConn once, for
\* every order of growth, removal and rotation.
PoolWithinLimit ==
    /\ Len(conns) <= IF MaxConn > 1 THEN MaxConn ELSE 1
    /\ \A i, j \in 1 .. Len(conns) : conns[i] = conns[j] => i = j

\* The client closes a socket only after the peer closed one of the same
\* clientConn or broke its framing, or discovery removed the address: expiry
\* alone never cuts off a request that waits for its response on an older
\* socket.
ClosedForCause ==
    \A s \in Sockets : socket[s] = "closed" =>
        \/ retired = "removed"
        \/ \E x \in broken : owner[x] = owner[s]

\* A goroutine is on its way to take clientConn k out of the pool.
Leaving(k) ==
    \/ \E s \in Sockets : owner[s] = k /\ reader[s] \in {"closeRw", "remove"}
    \/ closer \in {"closeRw", "remove"} /\ Head(closing) = k

\* No clientConn is left in the pool closed and forgotten: of the goroutines
\* that call close at once, the one that found it running goes on to
\* removeConn, even if reconnect has made the clientConn running again, and
\* others have closed it again, in between.
ClosedConnIsLeaving ==
    \A i \in 1 .. Len(conns) : running[conns[i]] \/ Leaving(conns[i])

\* A socket the peer closed is released here too, and its goroutine ends,
\* even if rw moved on to another socket meanwhile.
BrokenSocketReleased ==
    \A s \in Sockets :
        s \in broken ~> socket[s] = "closed" /\ reader[s] = "exited"

\* A running clientConn whose socket broke does not stay so: it is marked
\* closed, or a sender gives it a new socket.
BrokenConnNoticed ==
    \A k \in ConnIds, s \in Sockets :
        running[k] /\ rw[k] = s /\ socket[s] \in {"broken", "closed"}
            ~> ~(running[k] /\ rw[k] = s)

\* A closed clientConn does not stay in the pool, unless it is reconnected.
ClosedConnLeavesPool ==
    \A k \in ConnIds :
        k \in {conns[i] : i \in DOMAIN conns} /\ ~running[k]
            ~> running[k] \/ k \notin {conns[i] : i \in DOMAIN conns}

=============================================================================
