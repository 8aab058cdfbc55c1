------------------------------ MODULE Endpoints ------------------------------
(***************************************************************************)
(* How the clients of one process keep their endpoint tables               *)
(* (client.go: initConnect, updateConnector) in step with                  *)
(* discovery (internal/discovery).  Every Client has a goroutine that      *)
(* applies the list it finds on a tick, or that it receives from Watch.    *)
(* NewDiscover hands the same EtcdDiscover to all of them: its once starts *)
(* one watch, for the first name asked for, and its channel is shared.     *)
(*                                                                         *)
(* The registry is etcd, changed by servers elsewhere.  Finding a list and *)
(* applying it are two steps, so a list may be stale when it is applied.   *)
(* A table is a set: how calls choose from the list and from its hash ring *)
(* is in Lookup, what becomes of a connector in Connector.                 *)
(***************************************************************************)
EXTENDS Integers

CONSTANTS
    Clients,       \* clients of the process
    Services,      \* names that clients look up
    Addrs,         \* addresses of servers
    None,          \* no address, the empty string; no service
    ServiceOf,     \* the name of each client
    FixedAddr,     \* the address given by WithClientOptionAddr, or None
    WithPrefix,    \* the services whose keys begin with a name
    MaxChanges,    \* bound: changes of the registry
    MaxFailures    \* bound: failed requests to etcd

ASSUME EndpointsAssumption ==
    /\ None \notin Addrs \cup Services
    /\ ServiceOf \in [Clients -> Services]
    /\ FixedAddr \in [Clients -> Addrs \cup {None}]
    /\ WithPrefix \in [Services -> SUBSET Services]
    /\ \A s \in Services : s \in WithPrefix[s]
    /\ MaxChanges \in Nat
    /\ MaxFailures \in Nat

VARIABLES
    registry,      \* the addresses registered for each service
    changes,       \* changes of the registry so far
    failures,      \* failed requests so far
    watched,       \* the service that EtcdDiscover watches, or None
    events,        \* events the watch goroutine has not handled
    offered,       \* the list it offers on watchCh: a set of none or one
    table,         \* Client.connectors of each client
    loop,          \* where initConnect, then its goroutine, is
    found          \* the list it is about to apply

\* History: the addresses any applied list had.
VARIABLE listed

etcdVars == <<registry, changes, failures>>
watchVars == <<watched, events, offered>>
vars == <<etcdVars, watchVars, table, loop, found, listed>>

Connectors == [addr : Addrs, fixed : BOOLEAN]

\* What discovery hands over; nil is the empty list.
Lists == SUBSET Addrs

AddrsOf(connectors) == {e.addr : e \in connectors}

Init ==
    /\ registry \in [Services -> SUBSET Addrs]
    /\ changes = 0
    /\ failures = 0
    /\ watched = None
    /\ events = 0
    /\ offered = {}
    /\ table = [c \in Clients |-> {}]
    /\ loop = [c \in Clients |-> "new"]
    /\ found = [c \in Clients |-> {}]
    /\ listed = [c \in Clients |-> {}]

-----------------------------------------------------------------------------
(* etcd, and EtcdDiscover.Find.                                            *)

\* A server registers or unregisters, or its lease ends.
Change(s, a) ==
    /\ changes < MaxChanges
    /\ changes' = changes + 1
    /\ registry' = [registry EXCEPT
         ![s] = IF a \in @ THEN @ \ {a} ELSE @ \cup {a}]
    /\ events' = IF watched # None /\ s \in WithPrefix[watched]
                 THEN events + 1 ELSE events
    /\ UNCHANGED <<failures, watched, offered, table, loop, found, listed>>

\* Get with the name as a prefix.
Registered(name) == UNION {registry[s] : s \in WithPrefix[name]}

\* Find returns the list, or nil when the request fails.
Find(name, list) ==
    \/ /\ list = Registered(name)
       /\ UNCHANGED failures
    \/ /\ list = {}
       /\ failures < MaxFailures
       /\ failures' = failures + 1

\* The watch goroutine: for each event a new list, offered on watchCh.
WatchEvent ==
    /\ events > 0
    /\ offered = {}
    /\ events' = events - 1
    /\ \E list \in Lists : Find(watched, list) /\ offered' = {list}
    /\ UNCHANGED <<registry, changes, watched, table, loop, found, listed>>

-----------------------------------------------------------------------------
(* updateConnector, whole under Client.mu.                                 *)

\* strings.Split of strings.Join: no endpoints give one empty address.
Split(addrs) == IF addrs = {} THEN {None} ELSE addrs

Addresses(addrs) == Split(addrs) \ {None}

New(addrs, isFixed) ==
    {[addr |-> a, fixed |-> isFixed] : a \in Addresses(addrs)}

\* Variant: fixed connectors are not kept.
UpdatedKeepingNone(c, addrs, isFixed) == New(addrs, isFixed)

\* The new connectors, and the old fixed ones whose address is not among them.
Updated(c, addrs, isFixed) ==
    New(addrs, isFixed)
      \cup {e \in table[c] : e.addr \notin addrs /\ e.fixed}

UpdateConnector(c, addrs, isFixed) ==
    table' = [table EXCEPT ![c] = Updated(c, addrs, isFixed)]

-----------------------------------------------------------------------------
(* initConnect and its goroutine.                                          *)

Goto(c, where) == loop' = [loop EXCEPT ![c] = where]

InitFixed(c) ==
    /\ loop[c] = "new"
    /\ Goto(c, "initFind")
    /\ IF FixedAddr[c] # None
       THEN UpdateConnector(c, {FixedAddr[c]}, TRUE)
       ELSE UNCHANGED table
    /\ UNCHANGED <<etcdVars, watchVars, found, listed>>

\* Find, at the start and on each tick.
FindList(c, from, to) ==
    /\ loop[c] = from
    /\ Goto(c, to)
    /\ \E list \in Lists :
         Find(ServiceOf[c], list) /\ found' = [found EXCEPT ![c] = list]
    /\ UNCHANGED <<registry, changes, watchVars, table, listed>>

InitFind(c) == FindList(c, "initFind", "initApply")

Tick(c) == FindList(c, "select", "apply")

\* case endpoints := <-Watch(name): whichever client comes first gets the list.
Receive(c) ==
    /\ loop[c] = "select"
    /\ Goto(c, "apply")
    /\ \E list \in offered : found' = [found EXCEPT ![c] = list]
    /\ offered' = {}
    /\ UNCHANGED <<etcdVars, watched, events, table, listed>>

Applied(c) ==
    /\ UpdateConnector(c, found[c], FALSE)
    /\ listed' = [listed EXCEPT ![c] = @ \cup found[c]]

\* Variant: an empty list is not applied on a tick either.
ApplyNonEmpty(c) == found[c] # {}

\* Only initConnect itself looks at the length of the list.
MustApply(c) == loop[c] = "initApply" => found[c] # {}

\* updateConnector, then the select, whose evaluation calls Watch.
Apply(c) ==
    /\ loop[c] \in {"initApply", "apply"}
    /\ Goto(c, "select")
    /\ IF MustApply(c)
       THEN Applied(c)
       ELSE UNCHANGED <<table, listed>>
    /\ watched' = IF watched = None THEN ServiceOf[c] ELSE watched
    /\ found' = [found EXCEPT ![c] = {}]
    /\ UNCHANGED <<etcdVars, events, offered>>

-----------------------------------------------------------------------------

LoopStep(c) ==
    InitFixed(c) \/ InitFind(c) \/ Tick(c) \/ Receive(c) \/ Apply(c)

Next ==
    \/ \E s \in Services, a \in Addrs : Change(s, a)
    \/ WatchEvent
    \/ \E c \in Clients : LoopStep(c)

Spec == Init /\ [][Next]_vars

\* The ticker fires again and again and its goroutine is scheduled.
FairSpec == Spec /\ \A c \in Clients : WF_vars(LoopStep(c))

-----------------------------------------------------------------------------
(* Properties.                                                             *)

\* Types of the registry, the watch, the tables and the loops.
TypeOK ==
    /\ registry \in [Services -> SUBSET Addrs]
    /\ changes \in 0 .. MaxChanges
    /\ failures \in 0 .. MaxFailures
    /\ watched \in Services \cup {None}
    /\ events \in Nat
    /\ offered \subseteq Lists
    /\ table \in [Clients -> SUBSET Connectors]
    /\ loop \in [Clients ->
         {"new", "initFind", "initApply", "select", "apply"}]
    /\ found \in [Clients -> Lists]
    /\ listed \in [Clients -> SUBSET Addrs]

\* An address given by WithClientOptionAddr stays in the table, whatever
\* discovery says, until discovery itself has listed it once: then the
\* connector is replaced by one that is not fixed.
FixedKept ==
    \A c \in Clients :
        loop[c] # "new" /\ FixedAddr[c] # None /\ FixedAddr[c] \notin listed[c]
            => [addr |-> FixedAddr[c], fixed |-> TRUE] \in table[c]

\* When the registry stops changing and requests succeed, every table comes to
\* hold what is registered and stays so, whichever lists came late or were
\* meant for another client.
Converges ==
    \A c \in Clients :
        <>[](AddrsOf(table[c]) \ {FixedAddr[c]}
               = Registered(ServiceOf[c]) \ {FixedAddr[c]})

=============================================================================
