--------------------------- MODULE EndpointsProof ---------------------------
(***************************************************************************)
(* Proofs about Endpoints, for any number of clients, services and         *)
(* addresses, and any changes and failures of etcd: a fixed address stays. *)
(***************************************************************************)
EXTENDS Endpoints, TLAPS

\* What updateConnector leaves is a table of connectors.
LEMMA UpdatedType ==
    ASSUME TypeOK, NEW c \in Clients, NEW addrs \in SUBSET Addrs,
           NEW isFixed \in BOOLEAN
    PROVE  Updated(c, addrs, isFixed) \in SUBSET Connectors
<1>1. New(addrs, isFixed) \subseteq Connectors
  BY DEF New, Addresses, Split, Connectors
<1>. QED BY <1>1 DEF Updated, TypeOK

LEMMA TypeInit == Init => TypeOK
BY EndpointsAssumption DEF Init, TypeOK, Lists

LEMMA TypeStep == TypeOK /\ [Next]_vars => TypeOK'
<1> SUFFICES ASSUME TypeOK, [Next]_vars PROVE TypeOK'
  OBVIOUS
<1> USE EndpointsAssumption DEF TypeOK, Lists, etcdVars, watchVars, Goto
<1>1. ASSUME NEW s \in Services, NEW a \in Addrs, Change(s, a) PROVE TypeOK'
  <2>1. registry' \in [Services -> SUBSET Addrs]
    BY <1>1 DEF Change
  <2>2. changes' \in 0 .. MaxChanges
    BY <1>1 DEF Change
  <2>3. events' \in Nat
    BY <1>1 DEF Change
  <2>. QED BY <1>1, <2>1, <2>2, <2>3 DEF Change
<1>2. CASE WatchEvent
  BY <1>2 DEF WatchEvent, Find
<1>3. ASSUME NEW c \in Clients, InitFixed(c) PROVE TypeOK'
  <2>1. table' \in [Clients -> SUBSET Connectors]
    <3>1. ASSUME FixedAddr[c] # None
          PROVE  Updated(c, {FixedAddr[c]}, TRUE) \in SUBSET Connectors
      <4>1. {FixedAddr[c]} \in SUBSET Addrs /\ TRUE \in BOOLEAN
        BY <3>1
      <4>2. TypeOK
        OBVIOUS
      <4>. HIDE DEF TypeOK
      <4>. QED BY <4>1, <4>2, UpdatedType
    <3>2. CASE FixedAddr[c] # None
      <4>1. table' = [table EXCEPT ![c] = Updated(c, {FixedAddr[c]}, TRUE)]
        BY <1>3, <3>2 DEF InitFixed, UpdateConnector
      <4>. QED BY <3>1, <3>2, <4>1
    <3>3. CASE FixedAddr[c] = None
      BY <1>3, <3>3 DEF InitFixed
    <3>. QED BY <3>2, <3>3
  <2>. QED BY <1>3, <2>1 DEF InitFixed
<1>4. ASSUME NEW c \in Clients, InitFind(c) \/ Tick(c) PROVE TypeOK'
  BY <1>4 DEF InitFind, Tick, FindList, Find
<1>5. ASSUME NEW c \in Clients, Receive(c) PROVE TypeOK'
  BY <1>5 DEF Receive
<1>6. ASSUME NEW c \in Clients, Apply(c) PROVE TypeOK'
  <2>1. /\ table' \in [Clients -> SUBSET Connectors]
        /\ listed' \in [Clients -> SUBSET Addrs]
    <3>1. Updated(c, found[c], FALSE) \in SUBSET Connectors
      <4>1. found[c] \in SUBSET Addrs /\ FALSE \in BOOLEAN /\ TypeOK
        OBVIOUS
      <4>. HIDE DEF TypeOK
      <4>. QED BY <4>1, UpdatedType
    <3>2. CASE MustApply(c)
      <4>1. table' = [table EXCEPT ![c] = Updated(c, found[c], FALSE)]
        BY <1>6, <3>2 DEF Apply, Applied, UpdateConnector
      <4>2. listed' = [listed EXCEPT ![c] = @ \cup found[c]]
        BY <1>6, <3>2 DEF Apply, Applied
      <4>. QED BY <3>1, <4>1, <4>2
    <3>3. CASE ~MustApply(c)
      BY <1>6, <3>3 DEF Apply
    <3>. QED BY <3>2, <3>3
  <2>2. /\ watched' \in Services \cup {None}
        /\ found' \in [Clients -> SUBSET Addrs]
    BY <1>6 DEF Apply
  <2>. QED BY <1>6, <2>1, <2>2 DEF Apply
<1>7. CASE UNCHANGED vars
  BY <1>7 DEF vars
<1>. QED BY <1>1, <1>2, <1>3, <1>4, <1>5, <1>6, <1>7 DEF Next, LoopStep

\* A list that lacks the fixed address leaves its connector in the table.
LEMMA FixedStep == TypeOK /\ FixedKept /\ [Next]_vars => FixedKept'
<1> SUFFICES ASSUME TypeOK, FixedKept, [Next]_vars,
                    NEW c \in Clients, loop'[c] # "new", FixedAddr[c] # None,
                    FixedAddr[c] \notin listed'[c]
             PROVE  [addr |-> FixedAddr[c], fixed |-> TRUE] \in table'[c]
  BY DEF FixedKept
<1> USE EndpointsAssumption
    DEF TypeOK, FixedKept, etcdVars, watchVars, Goto
<1>1. ASSUME NEW d \in Clients, InitFixed(d)
      PROVE  [addr |-> FixedAddr[c], fixed |-> TRUE] \in table'[c]
  <2>1. CASE d = c
    <3>1. table'[c] = Updated(c, {FixedAddr[c]}, TRUE)
      BY <1>1, <2>1 DEF InitFixed, UpdateConnector
    <3>2. FixedAddr[c] \in Addresses({FixedAddr[c]})
      BY DEF Addresses, Split
    <3>. QED BY <3>1, <3>2 DEF Updated, New
  <2>2. CASE d # c
    BY <1>1, <2>2 DEF InitFixed, UpdateConnector
  <2>. QED BY <2>1, <2>2
<1>2. ASSUME NEW d \in Clients, Apply(d)
      PROVE  [addr |-> FixedAddr[c], fixed |-> TRUE] \in table'[c]
  <2>1. CASE d = c /\ MustApply(c)
    <3>1. table'[c] = Updated(c, found[c], FALSE)
      BY <1>2, <2>1 DEF Apply, Applied, UpdateConnector
    <3>2. FixedAddr[c] \notin found[c] /\ FixedAddr[c] \notin listed[c]
      BY <1>2, <2>1 DEF Apply, Applied
    <3>3. [addr |-> FixedAddr[c], fixed |-> TRUE] \in table[c]
      BY <1>2, <2>1, <3>2 DEF Apply
    <3>. QED BY <3>1, <3>2, <3>3 DEF Updated
  <2>2. CASE ~(d = c /\ MustApply(c))
    BY <1>2, <2>2 DEF Apply, Applied, UpdateConnector
  <2>. QED BY <2>1, <2>2
<1>3. ASSUME NEW d \in Clients, InitFind(d) \/ Tick(d) \/ Receive(d)
      PROVE  [addr |-> FixedAddr[c], fixed |-> TRUE] \in table'[c]
  BY <1>3 DEF InitFind, Tick, FindList, Receive
<1>4. ASSUME NEW s \in Services, NEW a \in Addrs, Change(s, a)
      PROVE  [addr |-> FixedAddr[c], fixed |-> TRUE] \in table'[c]
  BY <1>4 DEF Change
<1>5. CASE WatchEvent \/ UNCHANGED vars
  BY <1>5 DEF WatchEvent, vars
<1>. QED BY <1>1, <1>2, <1>3, <1>4, <1>5 DEF Next, LoopStep

-----------------------------------------------------------------------------

\* Types of the registry, the watch, the tables and the loops of initConnect.
THEOREM EndpointsTyped == Spec => []TypeOK
BY TypeInit, TypeStep, PTL DEF Spec

\* The address of WithClientOptionAddr stays in the table until discovery has
\* listed it, whatever lists come and whichever requests to etcd fail.
THEOREM FixedStays == Spec => []FixedKept
<1>1. Init => FixedKept
  BY DEF Init, FixedKept
<1>. QED BY EndpointsTyped, <1>1, FixedStep, PTL DEF Spec

=============================================================================
