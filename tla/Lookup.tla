------------------------------- MODULE Lookup -------------------------------
(***************************************************************************)
(* How a call chooses its connector (client.go: sendRequest, connector and *)
(* what it calls; the generated Broadcast methods), while updateConnector  *)
(* replaces the list.  A call without an address takes the next connector  *)
(* in turn, or the one the consistent hash of its key names; one with an   *)
(* address takes the connector of that address.  A failed attempt looks    *)
(* again.  Broadcast calls every address of GetAllEndpoints, one by one.   *)
(*                                                                         *)
(* A connector is the address at its position in the list.  Which node the *)
(* ring gives for a key is left open.  What the list comes from is in      *)
(* Endpoints, what a connector does is in Connector, and the waiting for a *)
(* response in ClientCall.  Marshalling succeeds: of a generated message   *)
(* it does.                                                                *)
(***************************************************************************)
EXTENDS Integers, Sequences, Functions

CONSTANTS
    Callers,       \* executions of Invoke, or of a Broadcast method
    Addrs,         \* addresses of servers
    None,          \* no address
    Lists,         \* the lists updateConnector may leave, with repetitions
    ReTry,         \* ClientOptions.reTry
    MaxUpdates     \* bound: executions of updateConnector

ASSUME LookupAssumption ==
    /\ None \notin Addrs
    /\ Lists \subseteq Seq(Addrs)
    /\ ReTry \in Int
    /\ MaxUpdates \in Nat

VARIABLES
    connectors,    \* Client.connectors
    idx,           \* Client.idx
    hasher,        \* the nodes of Client.hasher
    at,            \* where each call is: "idle", "look", "node", "try", "done"
    findType,      \* the local variable of sendRequest
    key,           \* the address it looks for, or the node of its key
    tries,         \* iterations of its loop
    rest           \* Broadcast: the addresses still to be called

\* History: executions of updateConnector; the positions nextConnector took
\* last since the list changed; the addresses that were in the list at each
\* moment of a call; what it was told, as [by, addr, outcome]; the addresses
\* a Broadcast started with.
VARIABLES updates, recent, tables, told, listed

callVars == <<at, findType, key, tries, rest, told, listed>>
vars == <<connectors, idx, hasher, callVars, updates, recent, tables>>

TryTime == IF ReTry <= 0 THEN 1 ELSE ReTry

Init ==
    /\ connectors = <<>>
    /\ idx = 0
    /\ hasher = {}
    /\ at = [c \in Callers |-> "idle"]
    /\ findType = [c \in Callers |-> "next"]
    /\ key = [c \in Callers |-> None]
    /\ tries = [c \in Callers |-> 0]
    /\ rest = [c \in Callers |-> <<>>]
    /\ updates = 0
    /\ recent = <<>>
    /\ tables = [c \in Callers |-> {}]
    /\ told = [c \in Callers |-> {}]
    /\ listed = [c \in Callers |-> <<>>]

-----------------------------------------------------------------------------

\* Variant: nodes are added to the old ring.
RingGrown(list) == hasher \cup Range(list)

Ring(list) == Range(list)

InProgress(c) == at[c] \notin {"idle", "done"}

\* updateConnector: a new ring and a new list; idx stays as it is.
UpdateConnector(list) ==
    /\ updates < MaxUpdates
    /\ updates' = updates + 1
    /\ connectors' = list
    /\ hasher' = Ring(list)
    /\ recent' = <<>>
    /\ tables' = [c \in Callers |->
         IF InProgress(c) THEN tables[c] \cup {Range(list)} ELSE tables[c]]
    /\ UNCHANGED <<idx, callVars>>

\* sendRequest begins; addrs are the addresses a Broadcast calls after it.
Start(c, by, addr, addrs) ==
    /\ at[c] = "idle"
    /\ at' = [at EXCEPT ![c] = "look"]
    /\ findType' = [findType EXCEPT ![c] = by]
    /\ key' = [key EXCEPT ![c] = addr]
    /\ rest' = [rest EXCEPT ![c] = addrs]
    /\ tables' = [tables EXCEPT ![c] = {Range(connectors)}]
    /\ UNCHANGED <<connectors, idx, hasher, tries, updates, recent, told>>

Invoke(c) ==
    /\ \/ \E by \in {"next", "hash"} : Start(c, by, None, <<>>)
       \/ \E a \in Addrs : Start(c, "addr", a, <<>>)
    /\ UNCHANGED listed

\* GetAllEndpoints, and the first Invoke of the loop.  With an empty list there
\* is nothing to do.
Broadcast(c) ==
    /\ connectors # <<>>
    /\ Start(c, "addr", Head(connectors), Tail(connectors))
    /\ listed' = [listed EXCEPT ![c] = connectors]

Tell(c, outcome) ==
    told' = [told EXCEPT ![c] =
        @ \cup {[by |-> findType[c], addr |-> key[c], outcome |-> outcome]}]

\* Variant: Broadcast returns at the first error.
EndAtError(c, outcome) ==
    /\ Tell(c, outcome)
    /\ IF rest[c] = <<>> \/ outcome # "ok"
       THEN /\ at' = [at EXCEPT ![c] = "done"]
            /\ UNCHANGED <<key, rest, tries>>
       ELSE /\ at' = [at EXCEPT ![c] = "look"]
            /\ key' = [key EXCEPT ![c] = Head(rest[c])]
            /\ rest' = [rest EXCEPT ![c] = Tail(@)]
            /\ tries' = [tries EXCEPT ![c] = 0]
    /\ UNCHANGED findType

\* Invoke returns; a Broadcast keeps what it was told and goes on.
End(c, outcome) ==
    /\ Tell(c, outcome)
    /\ IF rest[c] = <<>>
       THEN /\ at' = [at EXCEPT ![c] = "done"]
            /\ UNCHANGED <<key, rest, tries>>
       ELSE /\ at' = [at EXCEPT ![c] = "look"]
            /\ key' = [key EXCEPT ![c] = Head(rest[c])]
            /\ rest' = [rest EXCEPT ![c] = Tail(@)]
            /\ tries' = [tries EXCEPT ![c] = 0]
    /\ UNCHANGED findType

\* The connector is there, or ErrConnectNotFound is returned at once.
Chosen(c, found) ==
    IF found
    THEN /\ at' = [at EXCEPT ![c] = "try"]
         /\ UNCHANGED <<findType, key, tries, rest, told>>
    ELSE End(c, "notFound")

Position == IF idx >= Len(connectors) THEN 0 ELSE idx

\* Variant: idx is advanced without the mutex.
AdvanceUnlocked(i) == idx' \in {idx, i + 1}

Advance(i) == idx' = i + 1

LastOf(s, n) == SubSeq(s, IF Len(s) > n THEN Len(s) - n + 1 ELSE 1, Len(s))

NextConnector(c) ==
    /\ at[c] = "look"
    /\ findType[c] = "next"
    /\ Chosen(c, connectors # <<>>)
    /\ IF connectors = <<>>
       THEN UNCHANGED <<idx, recent>>
       ELSE /\ Advance(Position)
            /\ recent' = LastOf(Append(recent, Position), Len(connectors))
    /\ UNCHANGED <<connectors, hasher, listed, updates, tables>>

FindConnector(c) ==
    /\ \/ at[c] = "look" /\ findType[c] = "addr"
       \/ at[c] = "node"
    /\ Chosen(c, key[c] \in Range(connectors))
    /\ UNCHANGED <<connectors, idx, hasher, listed, updates, recent, tables>>

\* consistentHashConnector: the ring in one section, then findConnector.
GetNode(c) ==
    /\ at[c] = "look"
    /\ findType[c] = "hash"
    /\ \/ /\ hasher = {}
          /\ End(c, "notFound")
       \/ \E a \in hasher :
            /\ key' = [key EXCEPT ![c] = a]
            /\ at' = [at EXCEPT ![c] = "node"]
            /\ UNCHANGED <<findType, tries, rest, told>>
    /\ UNCHANGED <<connectors, idx, hasher, listed, updates, recent, tables>>

\* The call succeeds, or is answered with an error.
Answered(c) ==
    /\ at[c] = "try"
    /\ \E outcome \in {"ok", "error"} : End(c, outcome)
    /\ UNCHANGED <<connectors, idx, hasher, listed, updates, recent, tables>>

\* getConn or send fails: look again, by turn unless the address was given.
\* After the last failed send Invoke waits for its deadline, and then tells.
AttemptFails(c) ==
    /\ at[c] = "try"
    /\ IF tries[c] + 1 = TryTime
       THEN End(c, "error")
       ELSE /\ tries' = [tries EXCEPT ![c] = @ + 1]
            /\ at' = [at EXCEPT ![c] = "look"]
            /\ findType' = [findType EXCEPT
                 ![c] = IF @ = "addr" THEN @ ELSE "next"]
            /\ UNCHANGED <<key, rest, told>>
    /\ UNCHANGED <<connectors, idx, hasher, listed, updates, recent, tables>>

CallStep(c) ==
    \/ Invoke(c) \/ Broadcast(c) \/ NextConnector(c) \/ FindConnector(c)
    \/ GetNode(c) \/ Answered(c) \/ AttemptFails(c)

Next ==
    \/ \E list \in Lists : UpdateConnector(list)
    \/ \E c \in Callers : CallStep(c)

Spec == Init /\ [][Next]_vars

-----------------------------------------------------------------------------
(* Properties.                                                             *)

\* The round robin is fair whoever asks: while the list stays as it is, as
\* many picks in a row as there are connectors take each of them once, also
\* when an update has left idx beyond the end of the list.
NextIsFair == \A i, j \in DOMAIN recent : i # j => recent[i] # recent[j]

\* ErrConnectNotFound ends a call although it may have attempts left, so it
\* must be true: the list was empty during the call, or lacked the address;
\* and a node of the ring is missed only if it was listed and then not.
NotFoundIsTrue ==
    \A c \in Callers : \A t \in told[c] : t.outcome = "notFound" =>
        \/ {} \in tables[c]
        \/ /\ t.by \in {"addr", "hash"}
           /\ \E T \in tables[c] : t.addr \notin T
           /\ t.by = "hash" => \E T \in tables[c] : t.addr \in T

\* A Broadcast ends with a response or an error for every address that was
\* listed when it began, whatever the list and the calls become meanwhile, and
\* with both only for an address that was listed twice.
BroadcastComplete ==
    \A c \in Callers : at[c] = "done" /\ listed[c] # <<>> =>
        /\ {t.addr : t \in told[c]} = Range(listed[c])
        /\ \A t, u \in told[c] :
             t # u /\ t.addr = u.addr =>
                 \E i, j \in DOMAIN listed[c] :
                     i # j /\ listed[c][i] = t.addr /\ listed[c][j] = t.addr

=============================================================================
